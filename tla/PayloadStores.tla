---------------------------- MODULE PayloadStores ----------------------------
(***************************************************************************)
(* The two stores a broker keeps beside its database: byte streams and     *)
(* sealed payloads.  They share no file, no lock and no state, so a        *)
(* behaviour of the broker is one of each, in any interleaving; checking   *)
(* them one at a time loses nothing that either promises.                  *)
(***************************************************************************)
EXTENDS StreamStore, SealedStore

VARIABLE store   \* the store this behaviour is about

storeVars == <<vars, sealedVars, store>>

StoresInit == Init /\ SealedInit /\ store \in {"stream", "sealed"}

StoresNext ==
  /\ UNCHANGED store
  /\ \/ store = "stream" /\ Next /\ UNCHANGED sealedVars
     \/ store = "sealed" /\ SealedNext /\ UNCHANGED vars

StoresSpec == StoresInit /\ [][StoresNext]_storeVars

\* Both stores hold what their formats allow.
StoresTypeOK == TypeOK /\ SealedTypeOK
===============================================================================
