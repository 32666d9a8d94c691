---------------------------- MODULE MCGrantWaits ----------------------------
(* A small instance of GrantWaits. *)
EXTENDS GrantWaits

\* Requests of two clients, with an idempotency key and without, and only one
\* bound, because the state of the event log is its history.
MCLogRequests ==
  {[client |-> "c1", key |-> "k1", operation |-> "op",
    maxUses |-> Unspecified, duration |-> 0, pendingTimeout |-> 0],
   [client |-> "c2", key |-> NoKey, operation |-> "op",
    maxUses |-> Unspecified, duration |-> 0, pendingTimeout |-> 0]}

MCNoConstraint == {NoConstraint}
=============================================================================
