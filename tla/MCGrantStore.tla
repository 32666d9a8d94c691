---------------------------- MODULE MCGrantStore ----------------------------
(* Small instances of GrantStore. *)
EXTENDS GrantRefinement, TLC

\* Requests whose uses are contended: a finite budget of two and no limit.
MCUseRequests ==
  {[client |-> "c1", key |-> "k1", operation |-> "op", maxUses |-> 2,
    duration |-> 2, pendingTimeout |-> 0],
   [client |-> "c1", key |-> NoKey, operation |-> "op",
    maxUses |-> Unlimited, duration |-> 2, pendingTimeout |-> 0]}

MCConstraints == {NoConstraint, [duration |-> 1, maxUses |-> 1]}

Symmetry == Permutations(UseIDs)
=============================================================================
