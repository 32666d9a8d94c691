-------------------------- MODULE MCOperationRuntime --------------------------
(* Instances of OperationRuntime for TLC: one operation asks for a window   *)
(* grant that the other one may use as well.                                *)
EXTENDS OperationRuntime

CONSTANTS w, x

MCOps    == {w, x}
MCWindow == {w}
=============================================================================
