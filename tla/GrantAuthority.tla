---------------------------- MODULE GrantAuthority ----------------------------
(***************************************************************************)
(* What the grant store promises to those who execute under its grants,    *)
(* without clocks, revisions, records, counters or events.                 *)
(*                                                                         *)
(* A grant is asked for, at most once granted with a limit no wider than   *)
(* the ceiling asked for, and closed for ever.  A use belongs to one       *)
(* grant; it is held while its result is unknown, and is then spent for    *)
(* ever or free again.  Uses held and spent never exceed the limit, and    *)
(* only a grant that is not closed gives out new ones.  Several grants may *)
(* lapse together with any step.                                           *)
(***************************************************************************)
EXTENDS Integers, FiniteSets

CONSTANTS Grants, Uses, Nobody

VARIABLES
  authority,  \* authority[g]: none, asked, granted or closed
  ceiling,    \* ceiling[g]: the number of uses asked for, 0 for no limit
  limit,      \* limit[g]: the number of uses granted, 0 for no limit
  use,        \* use[u]: free, held or spent
  holder      \* holder[u]: the grant the use belongs to, or Nobody

authorityVars == <<authority, ceiling, limit, use, holder>>

Within(n, bound) == bound = 0 \/ (n > 0 /\ n <= bound)

Charged(g) == {u \in Uses : holder[u] = g /\ use[u] \in {"held", "spent"}}

\* The grants of S lapse; g, if not closed, moves to next.
Lapse(S) == [g \in Grants |-> IF g \in S THEN "closed" ELSE authority[g]]

Lapsable == {g \in Grants : authority[g] \in {"asked", "granted"}}

LapseOnly(S) ==
  /\ authority' = Lapse(S)
  /\ UNCHANGED <<ceiling, limit, use, holder>>

Ask(g, S) ==
  /\ authority[g] = "none"
  /\ authority' = [Lapse(S) EXCEPT ![g] = "asked"]
  /\ ceiling'[g] \in Nat /\ ceiling' = [ceiling EXCEPT ![g] = ceiling'[g]]
  /\ UNCHANGED <<limit, use, holder>>

Allow(g, S) ==
  /\ authority[g] = "asked" /\ g \notin S
  /\ authority' = [Lapse(S) EXCEPT ![g] = "granted"]
  /\ limit'[g] \in Nat /\ Within(limit'[g], ceiling[g])
  /\ limit' = [limit EXCEPT ![g] = limit'[g]]
  /\ UNCHANGED <<ceiling, use, holder>>

Hold(g, u, S) ==
  /\ authority[g] = "granted" /\ g \notin S
  /\ use[u] = "free" /\ holder[u] \in {Nobody, g}
  /\ limit[g] = 0 \/ Cardinality(Charged(g)) < limit[g]
  /\ authority' = Lapse(S)
  /\ use' = [use EXCEPT ![u] = "held"] /\ holder' = [holder EXCEPT ![u] = g]
  /\ UNCHANGED <<ceiling, limit>>

Settle(u, result, S) ==
  /\ use[u] = "held" /\ authority' = Lapse(S)
  /\ use' = [use EXCEPT ![u] = result]
  /\ UNCHANGED <<ceiling, limit, holder>>

AuthorityInit ==
  /\ authority = [g \in Grants |-> "none"]
  /\ ceiling = [g \in Grants |-> 0] /\ limit = [g \in Grants |-> 0]
  /\ use = [u \in Uses |-> "free"] /\ holder = [u \in Uses |-> Nobody]

AuthorityNext ==
  \E S \in SUBSET Lapsable :
    \/ LapseOnly(S)
    \/ \E g \in Grants : Ask(g, S) \/ Allow(g, S) \/ \E u \in Uses : Hold(g, u, S)
    \/ \E u \in Uses, result \in {"spent", "free"} : Settle(u, result, S)

AuthoritySpec == AuthorityInit /\ [][AuthorityNext]_authorityVars
===============================================================================
