-------------------------- MODULE MCHostDeployment --------------------------
(* Small instances of HostDeployment; the configurations give the sets of  *)
(* steps directly.                                                         *)
EXTENDS HostDeployment
=============================================================================
