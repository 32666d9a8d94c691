------------------------ MODULE GrantRefinementProofs ------------------------
(***************************************************************************)
(* The grant store implements GrantAuthority, for every instance: initial  *)
(* states map to initial states, and every step of the store maps to a     *)
(* step of the promised authority or to a stuttering one.  Of the store's  *)
(* steps only what GrantStoreProofs proves of all of them is used: each is *)
(* one of the five kinds of Moves.                                         *)
(*                                                                         *)
(* GrantWaits, the store with a waiter for a decision, implements the      *)
(* store, and the waiter never sleeps through its decision.                *)
(***************************************************************************)
EXTENDS GrantRefinement, GrantStoreProofs, GrantWaits

\* The refinement mapping.
Authorities(gs) == [g \in GrantIDs |-> AuthorityOf(gs[g])]
Ceilings(gs)    == [g \in GrantIDs |-> gs[g].requestedMaxUses]
Limits(gs)      == [g \in GrantIDs |-> IF gs[g].expiresAt > 0
                                       THEN gs[g].maxUses ELSE 0]
UseStatus(us)   == [u \in UseIDs |-> UseOf(us[u])]
Holders(us)     == [u \in UseIDs |-> us[u].grant]

\* The window of a grant is set by its approval and not before, and a use
\* belongs to no grant before it is acquired.
Dated ==
  /\ \A g \in GrantIDs :
       /\ grants[g].status \in {"absent", "pending"} => grants[g].expiresAt = 0
       /\ grants[g].status = "pending" => grants[g].duration > 0
  /\ \A u \in UseIDs : uses[u].state = "absent" => uses[u].grant = 0

(***************************************************************************)
(* Grants and uses one by one                                              *)
(***************************************************************************)
LimitOf(grant) == IF grant.expiresAt > 0 THEN grant.maxUses ELSE 0

\* A lapse closes authority or leaves it, with its ceiling and its limit.
LEMMA LapseMaps ==
  ASSUME NEW old, NEW new, Lapses(old, new)
  PROVE  /\ \/ AuthorityOf(new) = AuthorityOf(old)
            \/ /\ AuthorityOf(old) \in {"asked", "granted"}
               /\ AuthorityOf(new) = "closed"
         /\ new.requestedMaxUses = old.requestedMaxUses
         /\ LimitOf(new) = LimitOf(old)
  <1>1. SameTerms(old, new)
    BY DEF Lapses
  <1>2. LimitOf(new) = LimitOf(old) /\ new.requestedMaxUses = old.requestedMaxUses
    BY <1>1 DEF SameTerms, LimitOf
  <1>3. CASE new.status = old.status
    BY <1>2, <1>3 DEF AuthorityOf
  <1>4. CASE old.status \in {"pending", "active"} /\ Closed(new.status)
    BY <1>2, <1>4 DEF AuthorityOf, Closed
  <1>5. CASE old.status = "expired" /\ new.status = "consumed"
    BY <1>2, <1>5 DEF AuthorityOf
  <1> QED
    BY <1>3, <1>4, <1>5 DEF Lapses

LEMMA KeptMaps ==
  ASSUME NEW old, NEW new, UseKept(old, new)
  PROVE  UseOf(new) = UseOf(old) /\ new.grant = old.grant
  BY DEF UseKept, UseOf

\* What is charged to a grant is what its counters say.
LEMMA ChargedCount ==
  ASSUME IInv, NEW g \in GrantIDs
  PROVE  Cardinality({u \in UseIDs : /\ Holders(uses)[u] = g
                                     /\ UseStatus(uses)[u] \in {"held", "spent"}})
           = grants[g].usedCount + grants[g].reservedCount
  <1> DEFINE charged == {u \in UseIDs : /\ Holders(uses)[u] = g
                                        /\ UseStatus(uses)[u] \in {"held", "spent"}}
  <1>1. \A u \in UseIDs : uses[u].state \in UseStates \cup {"absent"}
    BY DEF IInv, Typed, UseRecord
  <1>2. \A u \in UseIDs :
          UseOf(uses[u]) \in {"held", "spent"} <=>
            uses[u].state \in {"reserved", "retained", "committed"}
    BY <1>1 DEF UseOf, UseStates
  <1>3. charged = Committed(uses, g) \cup Open(uses, g)
    BY <1>2 DEF Holders, UseStatus, Committed, Open
  <1>4. Committed(uses, g) \cap Open(uses, g) = {}
    BY DEF Committed, Open
  <1>5. /\ IsFiniteSet(Committed(uses, g)) /\ IsFiniteSet(Open(uses, g))
        /\ Cardinality(Committed(uses, g)) \in Nat
        /\ Cardinality(Open(uses, g)) \in Nat
    BY UsesFinite
  <1>6. Cardinality(Committed(uses, g) \cup Open(uses, g))
          = Cardinality(Committed(uses, g)) + Cardinality(Open(uses, g))
    <2>1. Cardinality(Committed(uses, g) \cap Open(uses, g)) = 0
      BY <1>4, FS_EmptySet
    <2>2. Cardinality(Committed(uses, g) \cup Open(uses, g))
            = Cardinality(Committed(uses, g)) + Cardinality(Open(uses, g))
                - Cardinality(Committed(uses, g) \cap Open(uses, g))
      BY <1>5, FS_Union
    <2> QED
      BY <1>5, <2>1, <2>2
  <1>7. GrantConsistent(grants[g], uses, g)
    BY DEF IInv, Consistent
  <1> QED
    BY <1>3, <1>6, <1>7 DEF GrantConsistent

(***************************************************************************)
(* The five kinds of moves                                                 *)
(***************************************************************************)
\* The grants that close in this step.
Lapsing(G) == {g \in G : AuthorityOf(grants[g]) # AuthorityOf(grants'[g])}

\* If the grants of G lapse, the authority of the others may be anything.
LEMMA LapsingMaps ==
  ASSUME NEW G \in SUBSET GrantIDs, \A g \in G : Lapses(grants[g], grants'[g])
  PROVE  /\ Lapsing(G) \in SUBSET Authority!Lapsable
         /\ \A g \in G : /\ Authority!Lapse(Lapsing(G))[g] = AuthorityOf(grants'[g])
                         /\ grants'[g].requestedMaxUses = grants[g].requestedMaxUses
                         /\ LimitOf(grants'[g]) = LimitOf(grants[g])
  <1>1. \A g \in G :
          /\ \/ AuthorityOf(grants'[g]) = AuthorityOf(grants[g])
             \/ /\ AuthorityOf(grants[g]) \in {"asked", "granted"}
                /\ AuthorityOf(grants'[g]) = "closed"
          /\ grants'[g].requestedMaxUses = grants[g].requestedMaxUses
          /\ LimitOf(grants'[g]) = LimitOf(grants[g])
    BY LapseMaps
  <1>2. Lapsing(G) \in SUBSET Authority!Lapsable
    BY <1>1 DEF Lapsing, Authority!Lapsable
  <1>3. \A g \in G : Authority!Lapse(Lapsing(G))[g] = AuthorityOf(grants'[g])
    BY <1>1 DEF Lapsing, Authority!Lapse
  <1> QED
    BY <1>1, <1>2, <1>3

LEMMA KeptUses ==
  ASSUME \A u \in UseIDs : UseKept(uses[u], uses'[u])
  PROVE  UseStatus(uses') = UseStatus(uses) /\ Holders(uses') = Holders(uses)
  BY KeptMaps DEF UseStatus, Holders

LEMMA LapseOnlyStep ==
  ASSUME \A g \in GrantIDs : Lapses(grants[g], grants'[g]),
         \A u \in UseIDs : UseKept(uses[u], uses'[u])
  PROVE  Authority!AuthorityNext
  <1> DEFINE S == Lapsing(GrantIDs)
  <1>1. /\ S \in SUBSET Authority!Lapsable
        /\ \A g \in GrantIDs :
             /\ Authority!Lapse(S)[g] = AuthorityOf(grants'[g])
             /\ grants'[g].requestedMaxUses = grants[g].requestedMaxUses
             /\ LimitOf(grants'[g]) = LimitOf(grants[g])
    BY LapsingMaps
  <1>2. Authorities(grants') = Authority!Lapse(S)
    BY <1>1 DEF Authorities, Authority!Lapse
  <1>3. Ceilings(grants') = Ceilings(grants) /\ Limits(grants') = Limits(grants)
    BY <1>1 DEF Ceilings, Limits, LimitOf
  <1>4. Authority!LapseOnly(S)
    BY <1>2, <1>3, KeptUses
      DEF Authority!LapseOnly, Authorities, Ceilings, Limits, UseStatus, Holders
  <1> QED
    BY <1>1, <1>4 DEF Authority!AuthorityNext

\* A stored request is asked for; it has no window and no limit yet.
LEMMA AskStep ==
  ASSUME IInv', Dated, NEW g \in GrantIDs, Opens(grants[g], grants'[g]),
         \A h \in GrantIDs \ {g} : Lapses(grants[h], grants'[h]),
         \A u \in UseIDs : UseKept(uses[u], uses'[u])
  PROVE  Authority!AuthorityNext
  <1> DEFINE G == GrantIDs \ {g}
  <1>0. PICK S : S = Lapsing(G)
    OBVIOUS
  <1>1. /\ S \in SUBSET Authority!Lapsable
        /\ \A h \in G : /\ Authority!Lapse(S)[h] = AuthorityOf(grants'[h])
                        /\ grants'[h].requestedMaxUses = grants[h].requestedMaxUses
                        /\ LimitOf(grants'[h]) = LimitOf(grants[h])
    BY <1>0, LapsingMaps
  <1>2. /\ AuthorityOf(grants[g]) = "none" /\ AuthorityOf(grants'[g]) = "asked"
        /\ LimitOf(grants[g]) = 0 /\ LimitOf(grants'[g]) = 0
        /\ grants'[g].requestedMaxUses \in Nat
    <2>1. grants'[g] \in GrantRecord
      BY DEF IInv, Typed
    <2>2. /\ AuthorityOf(grants[g]) = "none" /\ AuthorityOf(grants'[g]) = "asked"
          /\ grants[g].expiresAt = 0 /\ grants'[g].expiresAt = 0
      BY DEF Opens, AuthorityOf, Dated
    <2> QED
      BY <2>1, <2>2 DEF LimitOf, GrantRecord
  <1>3. Authorities(grants') = [Authority!Lapse(S) EXCEPT ![g] = "asked"]
    BY <1>1, <1>2 DEF Authorities, Authority!Lapse
  <1>4. /\ Ceilings(grants')[g] \in Nat
        /\ Ceilings(grants') = [Ceilings(grants) EXCEPT ![g] = Ceilings(grants')[g]]
    BY <1>1, <1>2 DEF Ceilings
  <1>5. Limits(grants') = Limits(grants)
    BY <1>1, <1>2 DEF Limits, LimitOf
  <1>6. Authorities(grants)[g] = "none"
    BY <1>2 DEF Authorities
  <1>7. Authority!Ask(g, S)
    BY <1>3, <1>4, <1>5, <1>6, KeptUses
      DEF Authority!Ask, Authorities, Ceilings, Limits, UseStatus, Holders
  <1>8. \E h \in GrantIDs : \/ Authority!Ask(h, S) \/ Authority!Allow(h, S)
                            \/ \E v \in UseIDs : Authority!Hold(h, v, S)
    BY <1>7, Zenon
  <1> QED
    BY <1>1, <1>8, Zenon DEF Authority!AuthorityNext

\* An approval grants a limit within the ceiling.
LEMMA AllowStep ==
  ASSUME IInv', Dated, NEW g \in GrantIDs, Approves(grants[g], grants'[g]),
         \A h \in GrantIDs \ {g} : Lapses(grants[h], grants'[h]),
         \A u \in UseIDs : UseKept(uses[u], uses'[u])
  PROVE  Authority!AuthorityNext
  <1> DEFINE G == GrantIDs \ {g}
  <1>0. PICK S : S = Lapsing(G)
    OBVIOUS
  <1>1. /\ S \in SUBSET Authority!Lapsable /\ g \notin S
        /\ \A h \in G : /\ Authority!Lapse(S)[h] = AuthorityOf(grants'[h])
                        /\ grants'[h].requestedMaxUses = grants[h].requestedMaxUses
                        /\ LimitOf(grants'[h]) = LimitOf(grants[h])
    BY <1>0, LapsingMaps DEF Lapsing
  <1>2. /\ AuthorityOf(grants[g]) = "asked" /\ AuthorityOf(grants'[g]) = "granted"
        /\ grants'[g].requestedMaxUses = grants[g].requestedMaxUses
        /\ LimitOf(grants'[g]) = grants'[g].maxUses
    BY DEF Approves, AuthorityOf, Dated, LimitOf
  <1>3. /\ grants'[g].maxUses \in Nat
        /\ Authority!Within(grants'[g].maxUses, grants[g].requestedMaxUses)
    <2>1. grants'[g] \in GrantRecord /\ GrantConsistent(grants'[g], uses', g)
      BY DEF IInv, Typed, Consistent
    <2>2. grants'[g].maxUses \in Nat /\ grants'[g].requestedMaxUses \in Nat
      BY <2>1 DEF GrantRecord
    <2> QED
      BY <1>2, <2>1, <2>2 DEF Authority!Within, GrantConsistent, Unlimited
  <1>4. Authorities(grants') = [Authority!Lapse(S) EXCEPT ![g] = "granted"]
    BY <1>1, <1>2 DEF Authorities, Authority!Lapse
  <1>5. Ceilings(grants') = Ceilings(grants)
    BY <1>1, <1>2 DEF Ceilings
  <1>6. /\ Limits(grants')[g] = grants'[g].maxUses
        /\ Limits(grants') = [Limits(grants) EXCEPT ![g] = Limits(grants')[g]]
    BY <1>1, <1>2 DEF Limits, LimitOf
  <1>7. Authorities(grants)[g] = "asked"
        /\ Ceilings(grants)[g] = grants[g].requestedMaxUses
    BY <1>2 DEF Authorities, Ceilings
  <1>8. Authority!Allow(g, S)
    BY <1>1, <1>3, <1>4, <1>5, <1>6, <1>7, KeptUses
      DEF Authority!Allow, Authorities, Ceilings, Limits, UseStatus, Holders
  <1>9. \E h \in GrantIDs : \/ Authority!Ask(h, S) \/ Authority!Allow(h, S)
                            \/ \E v \in UseIDs : Authority!Hold(h, v, S)
    BY <1>8, Zenon
  <1> QED
    BY <1>1, <1>9, Zenon DEF Authority!AuthorityNext

\* An acquired use is held: its grant is granted and has room for it.
LEMMA HoldStep ==
  ASSUME IInv, Dated, NEW u \in UseIDs,
         Reserves(grants, uses[u], grants', uses'[u]),
         \A g \in GrantIDs : Lapses(grants[g], grants'[g]),
         \A v \in UseIDs \ {u} : UseKept(uses[v], uses'[v])
  PROVE  Authority!AuthorityNext
  <1>0. PICK S, g : S = Lapsing(GrantIDs) /\ g = uses'[u].grant
    OBVIOUS
  <1>1. /\ S \in SUBSET Authority!Lapsable
        /\ \A h \in GrantIDs :
             /\ Authority!Lapse(S)[h] = AuthorityOf(grants'[h])
             /\ grants'[h].requestedMaxUses = grants[h].requestedMaxUses
             /\ LimitOf(grants'[h]) = LimitOf(grants[h])
    BY <1>0, LapsingMaps
  <1>2. /\ g \in GrantIDs /\ grants[g].status = "active"
        /\ grants'[g].status = "active" /\ now < grants[g].expiresAt
        /\ Allows(grants[g].maxUses, grants[g].usedCount, grants[g].reservedCount)
        /\ UseOf(uses[u]) = "free" /\ UseOf(uses'[u]) = "held"
        /\ uses[u].grant \in {0, g}
    BY <1>0 DEF Reserves, UseOf, Dated
  <1>3. Authorities(grants)[g] = "granted" /\ g \notin S
    BY <1>0, <1>2 DEF Authorities, Lapsing, AuthorityOf
  <1>4. /\ Limits(grants)[g] = grants[g].maxUses
    <2>1. now \in Nat /\ grants[g].expiresAt \in Nat
      BY <1>2 DEF IInv, Typed, GrantRecord
    <2> QED
      BY <1>2, <2>1 DEF Limits
  <1>5. \/ Limits(grants)[g] = 0
        \/ Authority!Cardinality(Authority!Charged(g)) < Limits(grants)[g]
    <2>1. Cardinality(Authority!Charged(g))
            = grants[g].usedCount + grants[g].reservedCount
      BY <1>2, ChargedCount DEF Authority!Charged, Holders, UseStatus
    <2>2. Authority!Cardinality(Authority!Charged(g))
            = Cardinality(Authority!Charged(g))
      BY Zenon DEF Authority!Cardinality, Cardinality
    <2> QED
      BY <1>2, <1>4, <2>1, <2>2 DEF Allows, Unlimited
  <1>6. Authorities(grants') = Authority!Lapse(S)
    BY <1>1 DEF Authorities, Authority!Lapse
  <1>7. Ceilings(grants') = Ceilings(grants) /\ Limits(grants') = Limits(grants)
    BY <1>1 DEF Ceilings, Limits, LimitOf
  <1>8. /\ UseStatus(uses') = [UseStatus(uses) EXCEPT ![u] = "held"]
        /\ Holders(uses') = [Holders(uses) EXCEPT ![u] = g]
    BY <1>0, <1>2, KeptMaps DEF UseStatus, Holders
  <1>9. UseStatus(uses)[u] = "free" /\ Holders(uses)[u] \in {0, g}
    BY <1>2 DEF UseStatus, Holders
  <1>10. Authority!Hold(g, u, S)
    BY <1>3, <1>5, <1>6, <1>7, <1>8, <1>9
      DEF Authority!Hold, Authorities, Ceilings, Limits, UseStatus, Holders
  <1>11. \E h \in GrantIDs : \/ Authority!Ask(h, S) \/ Authority!Allow(h, S)
                              \/ \E v \in UseIDs : Authority!Hold(h, v, S)
    BY <1>2, <1>10, Zenon
  <1> QED
    BY <1>1, <1>11, Zenon DEF Authority!AuthorityNext

\* A settled use is spent or free again.
LEMMA SettleStep ==
  ASSUME NEW u \in UseIDs, Settles(uses[u], uses'[u]),
         \A g \in GrantIDs : Lapses(grants[g], grants'[g]),
         \A v \in UseIDs \ {u} : UseKept(uses[v], uses'[v])
  PROVE  Authority!AuthorityNext
  <1> DEFINE S == Lapsing(GrantIDs)
             result == UseOf(uses'[u])
  <1>1. /\ S \in SUBSET Authority!Lapsable
        /\ \A h \in GrantIDs :
             /\ Authority!Lapse(S)[h] = AuthorityOf(grants'[h])
             /\ grants'[h].requestedMaxUses = grants[h].requestedMaxUses
             /\ LimitOf(grants'[h]) = LimitOf(grants[h])
    BY LapsingMaps
  <1>2. /\ UseOf(uses[u]) = "held" /\ result \in {"spent", "free"}
        /\ uses'[u].grant = uses[u].grant
    BY DEF Settles, UseOf
  <1>3. Authorities(grants') = Authority!Lapse(S)
    BY <1>1 DEF Authorities, Authority!Lapse
  <1>4. Ceilings(grants') = Ceilings(grants) /\ Limits(grants') = Limits(grants)
    BY <1>1 DEF Ceilings, Limits, LimitOf
  <1>5. /\ UseStatus(uses') = [UseStatus(uses) EXCEPT ![u] = result]
        /\ Holders(uses') = Holders(uses) /\ UseStatus(uses)[u] = "held"
    BY <1>2, KeptMaps DEF UseStatus, Holders
  <1> HIDE DEF result
  <1>6. Authority!Settle(u, result, S)
    BY <1>3, <1>4, <1>5
      DEF Authority!Settle, Authorities, Ceilings, Limits, UseStatus, Holders
  <1> QED
    BY <1>1, <1>2, <1>6 DEF Authority!AuthorityNext

(***************************************************************************)
(* The refinement                                                          *)
(***************************************************************************)
LEMMA DatedStep ==
  ASSUME IInv, Dated, Moves(grants, uses, grants', uses')
  PROVE  Dated'
  <1>1. ASSUME NEW g \in GrantIDs
        PROVE  /\ grants'[g].status \in {"absent", "pending"} =>
                    grants'[g].expiresAt = 0
               /\ grants'[g].status = "pending" => grants'[g].duration > 0
    <2>1. \/ Lapses(grants[g], grants'[g]) \/ Opens(grants[g], grants'[g])
          \/ Approves(grants[g], grants'[g])
      BY DEF Moves
    <2> QED
      BY <2>1 DEF Dated, Lapses, SameTerms, Closed, Opens, Approves
  <1>2. ASSUME NEW u \in UseIDs, uses'[u].state = "absent"
        PROVE  uses'[u].grant = 0
    <2>1. \/ UseKept(uses[u], uses'[u]) \/ Settles(uses[u], uses'[u])
          \/ Reserves(grants, uses[u], grants', uses'[u])
      BY DEF Moves
    <2> QED
      BY <1>2, <2>1 DEF Dated, UseKept, Settles, Reserves
  <1> QED
    BY <1>1, <1>2 DEF Dated

LEMMA DatedInvariance == Spec => []Dated
  <1>1. Init => Dated
    BY DEF Init, Dated, NoGrant, NoUse
  <1>2. IInv /\ Dated /\ [Next]_vars => Dated'
    BY BoxNextOK, DatedStep DEF StepOK
  <1> QED
    BY <1>1, <1>2, Invariance, PTL DEF Spec

\* Every behaviour of the grant store is a behaviour of GrantAuthority: what
\* expiry, retention, settlement, approval and revocation do to records and
\* counters amounts to asking, granting once within the ceiling, holding
\* within the limit, settling and closing for ever.
THEOREM StoreImplementsAuthority == Spec => ImplementsAuthority
  <1>1. Init => Authority!AuthorityInit
    BY DEF Init, Authority!AuthorityInit, AuthorityOf, UseOf, NoGrant, NoUse
  <1>2. IInv /\ Dated /\ [Next]_vars =>
          Authority!AuthorityNext \/ UNCHANGED Authority!authorityVars
    <2> SUFFICES ASSUME IInv, Dated, [Next]_vars
                 PROVE  Authority!AuthorityNext
      OBVIOUS
    <2>1. IInv' /\ Moves(grants, uses, grants', uses')
      BY BoxNextOK DEF StepOK
    <2>2. CASE /\ \A g \in GrantIDs : Lapses(grants[g], grants'[g])
               /\ \A u \in UseIDs : UseKept(uses[u], uses'[u])
      BY <2>2, LapseOnlyStep
    <2>3. CASE \E g \in GrantIDs :
                 /\ Opens(grants[g], grants'[g]) \/ Approves(grants[g], grants'[g])
                 /\ \A h \in GrantIDs \ {g} : Lapses(grants[h], grants'[h])
                 /\ \A u \in UseIDs : UseKept(uses[u], uses'[u])
      BY <2>1, <2>3, AskStep, AllowStep
    <2>4. CASE \E u \in UseIDs :
                 /\ \/ Reserves(grants, uses[u], grants', uses'[u])
                    \/ Settles(uses[u], uses'[u])
                 /\ \A g \in GrantIDs : Lapses(grants[g], grants'[g])
                 /\ \A v \in UseIDs \ {u} : UseKept(uses[v], uses'[v])
      BY <2>4, HoldStep, SettleStep
    <2> QED
      BY <2>1, <2>2, <2>3, <2>4 DEF Moves
  <1> QED
    BY <1>1, <1>2, Invariance, DatedInvariance, PTL
      DEF Spec, ImplementsAuthority, Authority!AuthoritySpec

(***************************************************************************)
(* The waiter                                                              *)
(*                                                                         *)
(* A waiter for a decision next to the other users of the store takes only *)
(* steps of the store, so what is proved of the store holds with it, and   *)
(* it never sleeps through the decision it waits for.                      *)
(***************************************************************************)
\* Whatever the waiter does, the store takes one of its steps or none.
LEMMA WaitStepsAreSteps ==
  ASSUME [WaitNext]_waitVars
  PROVE  [Next]_vars
  <1>1. CASE UNCHANGED waitVars
    BY <1>1 DEF waitVars, vars
  <1>2. CASE StoreStep
    BY <1>2 DEF StoreStep
  <1>3. CASE WaitStep
    <2>1. \/ UNCHANGED storeData \/ SweepExpiry \/ ReconcileDue
      BY <1>3 DEF WaitStep, LatestEvent, ConfirmGrant, PendingGrant,
        EventWaitChannel, EventsAfter, NextLifecycleDelay, Wake,
        ReconcileDeadline, ReturnDecision
    <2> QED
      BY <2>1 DEF storeData, vars, Next
  <1>4. CASE WaitFails \/ \E g \in GrantIDs : WaitForDecision(g)
    BY <1>4 DEF WaitFails, WaitForDecision, storeData, vars
  <1> QED
    BY <1>1, <1>2, <1>3, <1>4 DEF WaitNext

\* The store with a waiter is the store: its expiry of what it finds and its
\* reconciliation after the timer are steps that Get and the expirer may take.
THEOREM WaitsImplementStore == WaitSpec => Spec
  <1>1. WaitInit => Init
    BY DEF WaitInit
  <1>2. [WaitNext]_waitVars => [Next]_vars
    BY WaitStepsAreSteps
  <1> QED
    BY <1>1, <1>2, PTL DEF WaitSpec, Spec

\* A nonempty set of numbers up to a bound has a greatest one.
LEMMA GreatestNumber ==
  ASSUME NEW n \in Nat, NEW S \in SUBSET (1 .. n), S # {}
  PROVE  Max(S) \in S
  <1> DEFINE T == {n - i : i \in S}
  <1>1. T \in SUBSET Nat /\ T # {}
    <2>1. \A i \in S : n - i \in Nat
      OBVIOUS
    <2>2. PICK i : i \in S
      OBVIOUS
    <2>3. n - i \in T
      BY <2>2
    <2> QED
      BY <2>1, <2>3
  <1>2. PICK t \in T : \A u \in T : t <= u
    BY <1>1, LeastNumber
  <1>3. PICK i \in S : t = n - i
    BY <1>2
  <1>4. \A j \in S : n - j \in T
    OBVIOUS
  <1>5. \A j \in S : i >= j
    <2> SUFFICES ASSUME NEW j \in S PROVE i >= j
      OBVIOUS
    <2>1. n - i <= n - j
      BY <1>2, <1>3, <1>4
    <2> QED
      BY <2>1
  <1> QED
    BY <1>5 DEF Max

Undecided == grants[target].status = "pending"

\* The waiter has seen its request pending and does not yet know more.
Watching == pc \in {"channel", "page", "delay", "wait", "due"}

\* A waiter that watches has its cursor before the event of the decision, or
\* there is none; past the page without a signal, there is none.
WaitInv ==
  /\ Newest
  /\ cursor \in Nat /\ cursor < nextEvent
  /\ pc # "idle" => target \in GrantIDs
  /\ Watching => Undecided \/ cursor < nextEvent - 1
  /\ pc \in {"delay", "wait"} /\ ~closed => Undecided
  /\ pc = "wait" /\ ~closed => armed

LEMMA WaitInitOK ==
  ASSUME WaitInit
  PROVE  WaitInv
  BY DEF WaitInit, Init, WaitInv, Newest, Watching, NoCursor

\* What a step of the store means to the waiter.
LEMMA StoreMoves ==
  ASSUME IInv, WaitInv, [Next]_vars
  PROVE  /\ Newest' /\ nextEvent \in Nat /\ nextEvent' \in Nat
         /\ nextEvent' >= nextEvent
         /\ target \in GrantIDs => \/ grants'[target].status = grants[target].status
                                   \/ nextEvent' > nextEvent
  <1>1. StepOK
    BY BoxNextOK
  <1>2. LogStep /\ IInv'
    BY <1>1 DEF StepOK
  <1> QED
    BY <1>2 DEF LogStep, WaitInv, IInv, EventsOK

\* Another user of the store: a decision moves the log on, and the channel
\* that the waiter holds is closed.
LEMMA StoreStepWaits ==
  ASSUME IInv, WaitInv, StoreStep
  PROVE  WaitInv'
  <1>1. /\ Next /\ Signal
        /\ pc' = pc /\ target' = target /\ cursor' = cursor /\ armed' = armed
    BY DEF StoreStep
  <1>2. /\ Newest' /\ nextEvent \in Nat /\ nextEvent' \in Nat
        /\ nextEvent' >= nextEvent
        /\ target \in GrantIDs => \/ grants'[target].status = grants[target].status
                                  \/ nextEvent' > nextEvent
    BY <1>1, StoreMoves
  <1>3. /\ cursor' \in Nat /\ cursor' < nextEvent'
        /\ pc' # "idle" => target' \in GrantIDs
    BY <1>1, <1>2 DEF WaitInv
  <1>4. ASSUME Watching' PROVE Undecided' \/ cursor' < nextEvent' - 1
    <2>1. Watching /\ pc # "idle"
      BY <1>1, <1>4 DEF Watching
    <2>2. /\ target \in GrantIDs /\ cursor \in Nat /\ cursor < nextEvent
          /\ Undecided \/ cursor < nextEvent - 1
      BY <2>1 DEF WaitInv
    <2>3. CASE nextEvent' > nextEvent
      <3>1. \A a, b, c \in Nat : a < b /\ b < c => a < c - 1
        OBVIOUS
      <3>2. cursor < nextEvent' - 1
        BY <1>2, <2>2, <2>3, <3>1
      <3> QED
        BY <1>1, <3>2
    <2>4. CASE nextEvent' = nextEvent
      <3>1. grants'[target].status = grants[target].status
        BY <1>2, <2>2, <2>4
      <3> QED
        BY <1>1, <2>2, <2>4, <3>1 DEF Undecided
    <2> QED
      BY <1>2, <2>3, <2>4
  <1>5. ASSUME pc' \in {"delay", "wait"}, ~closed'
        PROVE  Undecided' /\ (pc' = "wait" => armed')
    <2>1. nextEvent' = nextEvent /\ ~closed
      BY <1>1, <1>5 DEF Signal, HoldsChannel
    <2>2. Undecided /\ (pc = "wait" => armed) /\ target \in GrantIDs
      BY <1>1, <1>5, <2>1 DEF WaitInv
    <2> QED
      BY <1>1, <1>2, <2>1, <2>2 DEF Undecided
  <1> QED
    BY <1>2, <1>3, <1>4, <1>5 DEF WaitInv

\* The waiter goes on to a step at which it has neither channel nor timer.
LEMMA GoesOn ==
  ASSUME IInv, WaitInv, [Next]_vars, target' = target, target \in GrantIDs,
         pc' \notin {"delay", "wait"}, cursor' \in Nat, cursor' < nextEvent',
         Watching' => Undecided' \/ cursor' < nextEvent' - 1
  PROVE  WaitInv'
  BY StoreMoves DEF WaitInv

LEMMA ReturnWaits ==
  ASSUME IInv, WaitInv, [Next]_vars, Return
  PROVE  WaitInv'
  <1>1. Newest' /\ nextEvent' \in Nat /\ nextEvent' >= nextEvent /\ nextEvent \in Nat
    BY StoreMoves
  <1>2. cursor' = 0 /\ pc' = "idle"
    BY DEF Return, NoCursor
  <1>3. 0 < nextEvent'
    BY <1>1 DEF WaitInv
  <1> QED
    BY <1>1, <1>2, <1>3 DEF WaitInv, Watching

LEMMA LatestEventWaits ==
  ASSUME IInv, WaitInv, LatestEvent
  PROVE  WaitInv'
  <1>1. /\ UNCHANGED storeData /\ target' = target /\ target \in GrantIDs
        /\ nextEvent' = nextEvent /\ nextEvent \in Nat \ {0}
        /\ pc' \in {"confirm", "status"}
    BY DEF LatestEvent, Goto, storeData, WaitInv, IInv, EventsOK
  <1>2. [Next]_vars
    BY <1>1 DEF storeData, vars
  <1>3. cursor' \in Nat /\ cursor' < nextEvent'
    <2>1. CASE EventsOf(target) = {}
      BY <1>1, <2>1 DEF LatestEvent, Goto, NoCursor
    <2>2. CASE EventsOf(target) # {}
      <3> DEFINE S == {e.seq : e \in EventsOf(target)}
      <3>1. S \in SUBSET (1 .. (nextEvent - 1)) /\ S # {} /\ nextEvent - 1 \in Nat
        BY <1>1, <2>2 DEF EventsOf, IInv, EventsOK
      <3>2. cursor' = Max(S)
        BY <2>2 DEF LatestEvent, Goto
      <3> HIDE DEF S
      <3>3. Max(S) \in S
        BY <3>1, GreatestNumber
      <3>4. Max(S) \in 1 .. (nextEvent - 1)
        BY <3>1, <3>3
      <3>5. cursor' \in 1 .. (nextEvent - 1)
        BY <3>2, <3>4
      <3> QED
        BY <1>1, <3>5
    <2> QED
      BY <2>1, <2>2
  <1> QED
    BY <1>1, <1>2, <1>3, GoesOn DEF Watching

\* Get before the wait: a request that is not pending any more ends it.
LEMMA StatusWaits ==
  ASSUME IInv, WaitInv, ConfirmGrant \/ PendingGrant
  PROVE  WaitInv'
  <1>1. SweepExpiry /\ pc # "idle"
    BY DEF ConfirmGrant, PendingGrant
  <1>2. [Next]_vars
    BY <1>1 DEF Next
  <1>3. /\ nextEvent \in Nat /\ nextEvent' \in Nat /\ nextEvent' >= nextEvent
        /\ target \in GrantIDs /\ cursor \in Nat /\ cursor < nextEvent
    BY <1>1, <1>2, StoreMoves DEF WaitInv
  <1>4. CASE Return
    BY <1>2, <1>4, ReturnWaits
  <1>5. CASE Goto("status", NoCursor)
    <2>1. /\ pc' = "status" /\ cursor' = 0 /\ target' = target /\ 0 < nextEvent'
      BY <1>3, <1>5 DEF Goto, NoCursor
    <2> QED
      BY <1>2, <1>3, <2>1, GoesOn DEF Watching
  <1>6. CASE Goto("channel", cursor) /\ grants'[target].status = "pending"
    <2>1. /\ pc' = "channel" /\ cursor' = cursor /\ target' = target
          /\ cursor < nextEvent'
      BY <1>3, <1>6 DEF Goto
    <2>2. Undecided'
      BY <1>6, <2>1 DEF Undecided
    <2> QED
      BY <1>2, <1>3, <2>1, <2>2, GoesOn
  <1> QED
    BY <1>4, <1>5, <1>6 DEF ConfirmGrant, PendingGrant

\* An empty page: the newest event is not beyond the cursor, so the request
\* is pending still.
LEMMA NothingUnread ==
  ASSUME IInv, WaitInv, pc = "page", Unread = {}
  PROVE  Undecided
  <1>1. /\ Watching /\ nextEvent \in Nat \ {0} /\ cursor \in Nat
    BY DEF Watching, WaitInv, IInv, EventsOK
  <1> SUFFICES ASSUME cursor < nextEvent - 1 PROVE FALSE
    BY <1>1 DEF WaitInv
  <1>2. nextEvent > 1
    BY <1>1
  <1>3. PICK e \in events : e.seq = nextEvent - 1
    BY <1>2 DEF WaitInv, Newest
  <1>4. e.seq > cursor
    BY <1>1, <1>3
  <1> QED
    BY <1>3, <1>4 DEF Unread

\* The page: an event moves the cursor, an expired cursor starts again.
LEMMA EventsAfterWaits ==
  ASSUME IInv, WaitInv, EventsAfter
  PROVE  WaitInv'
  <1>1. /\ UNCHANGED storeData /\ pc = "page" /\ target \in GrantIDs
        /\ target' = target /\ nextEvent \in Nat \ {0}
    BY DEF EventsAfter, Goto, WaitInv, IInv, EventsOK
  <1>2. /\ [Next]_vars /\ grants' = grants /\ events' = events
        /\ nextEvent' = nextEvent
    BY <1>1 DEF storeData, vars
  <1>3. CASE Goto("cursor", NoCursor)
    <2>1. pc' = "cursor" /\ cursor' = 0
      BY <1>3 DEF Goto, NoCursor
    <2>2. 0 < nextEvent'
      BY <1>1, <1>2
    <2> QED
      BY <1>1, <1>2, <2>1, <2>2, GoesOn DEF Watching
  <1>4. CASE /\ Unread = {} /\ pc' = "delay" /\ cursor' = cursor
             /\ closed' = closed /\ armed' = armed
    <2>1. Undecided
      BY <1>1, <1>4, NothingUnread
    <2>2. Undecided'
      BY <1>1, <1>2, <2>1 DEF Undecided
    <2>3. Newest'
      BY <1>2 DEF WaitInv, Newest
    <2> QED
      BY <1>1, <1>2, <1>4, <2>2, <2>3 DEF WaitInv
  <1>5. CASE \E event \in Unread :
               Goto(IF event.grant = target /\ event.status # "pending"
                    THEN "get" ELSE "status", event.seq)
    <2>1. PICK event \in events :
            pc' \in {"get", "status"} /\ cursor' = event.seq
      BY <1>5 DEF Unread, Goto
    <2>2. event.seq \in 1 .. (nextEvent - 1)
      BY DEF IInv, EventsOK
    <2>3. cursor' \in Nat /\ cursor' < nextEvent'
      BY <1>1, <1>2, <2>1, <2>2
    <2> QED
      BY <1>1, <1>2, <2>1, <2>3, GoesOn DEF Watching
  <1> QED
    BY <1>3, <1>4, <1>5 DEF EventsAfter

\* The waiter keeps its cursor: it takes the channel, or leaves its sleep.
LEMMA ChannelWaits ==
  ASSUME IInv, WaitInv, EventWaitChannel \/ Wake \/ ReconcileDeadline
  PROVE  WaitInv'
  <1>1. /\ Watching /\ pc' \in {"page", "channel", "due"}
        /\ target' = target /\ cursor' = cursor
    BY DEF EventWaitChannel, Wake, ReconcileDeadline, Goto, Watching
  <1>2. [Next]_vars
    BY DEF EventWaitChannel, Wake, ReconcileDeadline, storeData, vars, Next
  <1>3. /\ nextEvent \in Nat /\ nextEvent' \in Nat /\ nextEvent' >= nextEvent
        /\ target \in GrantIDs
        /\ \/ grants'[target].status = grants[target].status
           \/ nextEvent' > nextEvent
    BY <1>1, <1>2, StoreMoves DEF WaitInv, Watching
  <1>4. /\ cursor \in Nat /\ cursor < nextEvent
        /\ Undecided \/ cursor < nextEvent - 1
    BY <1>1 DEF WaitInv
  <1>5. cursor < nextEvent'
    BY <1>3, <1>4
  <1>6. Undecided' \/ cursor < nextEvent' - 1
    <2>1. CASE nextEvent' > nextEvent
      BY <1>3, <1>4, <2>1
    <2>2. CASE nextEvent' = nextEvent
      <3>1. grants'[target].status = grants[target].status
        BY <1>3, <2>2
      <3> QED
        BY <1>1, <1>4, <2>2, <3>1 DEF Undecided
    <2> QED
      BY <1>3, <2>1, <2>2
  <1> QED
    BY <1>1, <1>2, <1>3, <1>4, <1>5, <1>6, GoesOn

\* The sleep has a timer: the pending request itself has a deadline.
LEMMA DelayWaits ==
  ASSUME IInv, WaitInv, NextLifecycleDelay
  PROVE  WaitInv'
  <1>1. /\ pc = "delay" /\ pc' = "wait" /\ armed' = HasDeadline
        /\ target' = target /\ cursor' = cursor /\ closed' = closed
        /\ grants' = grants /\ events' = events /\ nextEvent' = nextEvent
    BY DEF NextLifecycleDelay, storeData
  <1>2. Newest'
    BY <1>1 DEF WaitInv, Newest
  <1>3. /\ target' \in GrantIDs /\ cursor' \in Nat /\ cursor' < nextEvent'
        /\ Undecided' \/ cursor' < nextEvent' - 1
    BY <1>1 DEF WaitInv, Watching, Undecided
  <1>4. ASSUME ~closed PROVE Undecided' /\ armed'
    <2>1. Undecided /\ target \in GrantIDs
      BY <1>1, <1>4 DEF WaitInv
    <2>2. HasDeadline
      BY <2>1 DEF Undecided, HasDeadline
    <2> QED
      BY <1>1, <2>1, <2>2 DEF Undecided
  <1> QED
    BY <1>1, <1>2, <1>3, <1>4 DEF WaitInv

LEMMA WaitNextOK ==
  ASSUME IInv, WaitInv, [WaitNext]_waitVars
  PROVE  WaitInv'
  <1>1. CASE UNCHANGED waitVars
    BY <1>1 DEF waitVars, WaitInv, Newest, Watching, Undecided
  <1>2. CASE StoreStep
    BY <1>2, StoreStepWaits
  <1>3. CASE WaitStep
    <2>1. CASE ReturnDecision
      <3>1. [Next]_vars /\ Return
        BY <2>1 DEF ReturnDecision, Next
      <3> QED
        BY <3>1, ReturnWaits
    <2> QED
      BY <1>3, <2>1, LatestEventWaits, StatusWaits, EventsAfterWaits,
        ChannelWaits, DelayWaits DEF WaitStep
  <1>4. CASE WaitFails
    <2>1. [Next]_vars /\ Return
      BY <1>4 DEF WaitFails, storeData, vars
    <2> QED
      BY <2>1, ReturnWaits
  <1>5. CASE \E g \in GrantIDs : WaitForDecision(g)
    <2>1. /\ pc' = "cursor" /\ target' \in GrantIDs /\ cursor' = cursor
          /\ events' = events /\ nextEvent' = nextEvent
      BY <1>5 DEF WaitForDecision, storeData
    <2> QED
      BY <2>1 DEF WaitInv, Newest, Watching
  <1> QED
    BY <1>1, <1>2, <1>3, <1>4, <1>5 DEF WaitNext

\* Asleep on a channel that nobody has closed, the waiter has a timer and its
\* request is still pending.
AsleepWhilePending ==
  pc = "wait" /\ ~closed => armed /\ grants[target].status = "pending"

\* WaitForDecision fetches the channel before it reads the page: whatever is
\* decided, withdrawn or expired between its calls, it never sleeps on a
\* decision that was already made, and never without a timer, so the one way
\* to miss a decision would be a timer that does not fire.
THEOREM NoLostWakeup == WaitSpec => []AsleepWhilePending
  <1>1. WaitInit => WaitInv
    BY WaitInitOK
  <1>2. IInv /\ WaitInv /\ [WaitNext]_waitVars => WaitInv'
    BY WaitNextOK
  <1>3. WaitInv => AsleepWhilePending
    BY DEF WaitInv, AsleepWhilePending, Undecided
  <1> QED
    BY <1>1, <1>2, <1>3, WaitsImplementStore, Invariance, PTL DEF WaitSpec

\* A waiter that has read the event of the decision finds the request decided.
Informed ==
  pc = "get" =>
    target \in GrantIDs /\ grants[target].status \notin {"absent", "pending"}

LEMMA InformedStep ==
  ASSUME IInv, WaitInv, LogTrue, Informed, [WaitNext]_waitVars
  PROVE  Informed'
  <1> SUFFICES ASSUME pc' = "get"
               PROVE  /\ target' \in GrantIDs
                      /\ grants'[target'].status \notin {"absent", "pending"}
    BY DEF Informed
  <1>1. CASE pc = "get"
    <2>1. target' = target
      BY <1>1 DEF WaitNext, waitVars, StoreStep, WaitStep, LatestEvent,
        ConfirmGrant, PendingGrant, EventWaitChannel, EventsAfter,
        NextLifecycleDelay, Wake, ReconcileDeadline, ReturnDecision, WaitFails,
        WaitForDecision, Return
    <2>2. target \in GrantIDs /\ grants[target].status \notin {"absent", "pending"}
      BY <1>1 DEF Informed
    <2>3. grants'[target].status \notin {"absent", "pending"}
      BY <2>2, WaitStepsAreSteps, DecidedStays
    <2> QED
      BY <2>1, <2>2, <2>3
  <1>2. CASE pc # "get"
    <2>1. EventsAfter
      BY <1>2 DEF WaitNext, waitVars, StoreStep, WaitStep, LatestEvent,
        ConfirmGrant, PendingGrant, EventWaitChannel, NextLifecycleDelay, Wake,
        ReconcileDeadline, ReturnDecision, WaitFails, WaitForDecision, Return,
        Goto
    <2>2. PICK event \in Unread :
            Goto(IF event.grant = target /\ event.status # "pending"
                 THEN "get" ELSE "status", event.seq)
      BY <2>1 DEF EventsAfter, Goto
    <2>3. /\ event.grant = target /\ event.status # "pending"
          /\ target' = target
      BY <2>2 DEF Goto
    <2>4. event \in events /\ Tells(event, grants) /\ event.grant \in GrantIDs
      BY DEF Unread, LogTrue, Told, IInv, EventsOK
    <2>5. grants' = grants
      BY <2>1 DEF EventsAfter, storeData
    <2> QED
      BY <2>3, <2>4, <2>5 DEF Tells
  <1> QED
    BY <1>1, <1>2

\* What WaitForDecision returns without an error.
DecisionStep ==
  (PendingGrant \/ ReturnDecision) /\ pc' = "idle" =>
    grants'[target].status # "pending"

\* WaitForDecision, when it returns without an error, returns a request that
\* is no longer pending: between the event it read and the Get it answers
\* with, no step of the store can make the request pending again.
THEOREM WaitReturnsDecision == WaitSpec => [][DecisionStep]_waitVars
  <1>1. WaitInit => WaitInv /\ Informed
    BY WaitInitOK DEF WaitInit, Informed
  <1>2. IInv /\ LogTrue /\ WaitInv /\ Informed
          /\ [WaitNext]_waitVars => WaitInv' /\ Informed'
    BY WaitNextOK, InformedStep
  <1>3. IInv /\ Informed /\ [WaitNext]_waitVars => [DecisionStep]_waitVars
    <2> SUFFICES ASSUME IInv, Informed, [WaitNext]_waitVars,
                        PendingGrant \/ ReturnDecision, pc' = "idle"
                 PROVE  grants'[target].status # "pending"
      BY DEF DecisionStep
    <2>1. CASE PendingGrant
      BY <2>1 DEF PendingGrant, Goto
    <2>2. CASE ReturnDecision
      <3>1. /\ target \in GrantIDs
            /\ grants[target].status \notin {"absent", "pending"}
        BY <2>2 DEF Informed, ReturnDecision
      <3> QED
        BY <3>1, WaitStepsAreSteps, DecidedStays
    <2> QED
      BY <2>1, <2>2
  <1> QED
    BY <1>1, <1>2, <1>3, WaitsImplementStore, Invariance, LogIsTrue, PTL
      DEF WaitSpec
===============================================================================
