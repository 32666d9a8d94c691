-------------------------- MODULE GrantStoreProofs --------------------------
(***************************************************************************)
(* Proofs about GrantStore, for any number of grants, uses, requests,      *)
(* operators, deadlines and limits, and for a clock that may step back.    *)
(***************************************************************************)
EXTENDS GrantStore, FiniteSetTheorems, SequenceTheorems, NaturalsInduction,
        TLAPS

(***************************************************************************)
(* The inductive invariant.  It is stated of any grants gs and uses us,    *)
(* because an operation works on the prepared state and not on the saved   *)
(* one: every lemma below says what one of the functions that operations   *)
(* are composed of does to it.                                             *)
(***************************************************************************)
\* The stored records are typed and every present use names a present grant.
Typed(gs, us) ==
  /\ gs \in [GrantIDs -> GrantRecord]
  /\ us \in [UseIDs -> UseRecord]
  /\ \A u \in UseIDs : us[u].state # "absent" => us[u].grant \in Present(gs)

\* The counters of a grant are those of its uses, they fit its limit, the
\* limit fits the requested one, and uses exist only where they may.
GrantConsistent(grant, us, g) ==
  /\ grant.usedCount = Cardinality(Committed(us, g))
  /\ grant.reservedCount = Cardinality(Open(us, g))
  /\ grant.maxUses # Unlimited =>
       grant.usedCount + grant.reservedCount <= grant.maxUses
  /\ grant.requestedMaxUses # Unlimited =>
       grant.maxUses # Unlimited /\ grant.maxUses <= grant.requestedMaxUses
  /\ Open(us, g) # {} => CanSettle(grant.status)
  /\ grant.status \in {"absent", "pending"} => Committed(us, g) = {}

Consistent(gs, us) == \A g \in GrantIDs : GrantConsistent(gs[g], us, g)

EventsOK ==
  /\ nextEvent \in Nat \ {0}
  /\ \A e \in events : e.grant \in GrantIDs /\ e.seq \in 1 .. (nextEvent - 1)

IInv ==
  /\ now \in Nat
  /\ Typed(grants, uses)
  /\ Consistent(grants, uses)
  /\ EventsOK

(***************************************************************************)
(* What a step may do to one grant and to one use                          *)
(***************************************************************************)
\* What was asked for or decided is the same.
SameTerms(a, b) ==
  /\ a.client = b.client /\ a.key = b.key
  /\ a.duration = b.duration /\ a.expiresAt = b.expiresAt
  /\ a.maxUses = b.maxUses /\ a.requestedMaxUses = b.requestedMaxUses

\* ... and so is what is charged.
SameView(a, b) ==
  /\ SameTerms(a, b) /\ a.revision = b.revision
  /\ a.usedCount = b.usedCount /\ a.reservedCount = b.reservedCount

Closed(status) == status \notin {"absent", "pending", "active"}

\* A grant stays as it is or closes; only expired turns into consumed.
Lapses(old, new) ==
  /\ SameTerms(old, new)
  /\ \/ new.status = old.status
     \/ old.status \in {"pending", "active"} /\ Closed(new.status)
     \/ old.status = "expired" /\ new.status = "consumed"

\* A request is stored.
Opens(old, new) ==
  old.status = "absent" /\ new.status = "pending"
  /\ new.expiresAt = 0 /\ new.duration > 0

\* An approval starts the window of the grant.
Approves(old, new) ==
  /\ old.status = "pending" /\ new.status = "active"
  /\ new.client = old.client /\ new.key = old.key
  /\ new.requestedMaxUses = old.requestedMaxUses
  /\ old.duration > 0 => new.expiresAt > 0

\* Commits are never undone, and consumed takes a commit.
Counted(old, new) ==
  /\ new.usedCount >= old.usedCount
  /\ new.status = "consumed" =>
       old.status = "consumed" \/ new.usedCount > old.usedCount

\* A use stays as it is or its result becomes uncertain.
UseKept(old, new) ==
  \/ new = old
  \/ /\ old.state = "reserved" /\ new.state = "retained"
     /\ new.grant = old.grant /\ new.operation = old.operation

(***************************************************************************)
(* Expiry and retention                                                    *)
(***************************************************************************)
\* The sets of uses of a grant are finite, since the uses are.
LEMMA UsesFinite ==
  ASSUME NEW us, NEW g
  PROVE  /\ IsFiniteSet(Committed(us, g)) /\ IsFiniteSet(Open(us, g))
         /\ Cardinality(Committed(us, g)) \in Nat
         /\ Cardinality(Open(us, g)) \in Nat
  <1>1. IsFiniteSet(UseIDs)
    BY OptionsAssumption
  <1>2. Committed(us, g) \subseteq UseIDs /\ Open(us, g) \subseteq UseIDs
    BY DEF Committed, Open
  <1> QED
    BY <1>1, <1>2, FS_Subset, FS_CardinalityType

\* expireDue changes nothing but the status of pending and active grants.
LEMMA ExpireDueStep ==
  ASSUME NEW gs \in [GrantIDs -> GrantRecord]
  PROVE  /\ ExpireDue(gs) \in [GrantIDs -> GrantRecord]
         /\ \A g \in GrantIDs :
              /\ SameView(gs[g], ExpireDue(gs)[g])
              /\ ExpireDue(gs)[g].status = gs[g].status
                 \/ /\ ExpireDue(gs)[g].status = "expired"
                    /\ gs[g].status \in {"pending", "active"}
  <1> SUFFICES ASSUME NEW g \in GrantIDs
               PROVE  /\ ExpireDue(gs)[g] \in GrantRecord
                      /\ SameView(gs[g], ExpireDue(gs)[g])
                      /\ ExpireDue(gs)[g].status = gs[g].status
                         \/ /\ ExpireDue(gs)[g].status = "expired"
                            /\ gs[g].status \in {"pending", "active"}
    BY DEF ExpireDue
  <1>1. gs[g] \in GrantRecord
    OBVIOUS
  <1>2. CASE Due(gs[g])
    <2>1. ExpireDue(gs)[g] =
            [gs[g] EXCEPT !.status = "expired", !.expiredFrom = gs[g].status]
      BY <1>2 DEF ExpireDue
    <2>2. gs[g].status \in {"pending", "active"}
      BY <1>2 DEF Due
    <2> QED
      BY <1>1, <2>1, <2>2, ZenonT(60) DEF GrantRecord, Statuses, SameView, SameTerms
  <1>3. CASE ~Due(gs[g])
    BY <1>1, <1>3 DEF ExpireDue, SameView, SameTerms
  <1> QED
    BY <1>2, <1>3

LEMMA ExpireDuePreserves ==
  ASSUME NEW gs, NEW us, Typed(gs, us), Consistent(gs, us)
  PROVE  Typed(ExpireDue(gs), us) /\ Consistent(ExpireDue(gs), us)
  <1>1. gs \in [GrantIDs -> GrantRecord]
    BY DEF Typed
  <1>2. Typed(ExpireDue(gs), us)
    <2>1. Present(ExpireDue(gs)) = Present(gs)
      BY <1>1, ExpireDueStep DEF Present
    <2> QED
      BY <1>1, <2>1, ExpireDueStep DEF Typed
  <1>3. ASSUME NEW g \in GrantIDs
        PROVE  GrantConsistent(ExpireDue(gs)[g], us, g)
    <2>1. GrantConsistent(gs[g], us, g)
      BY DEF Consistent
    <2> QED
      BY <1>1, <2>1, ExpireDueStep
        DEF GrantConsistent, CanSettle, SameView, SameTerms
  <1> QED
    BY <1>2, <1>3 DEF Consistent

\* retainStaleReservations turns reserved uses into retained ones.
LEMMA RetainStaleUsesStep ==
  ASSUME NEW gs, NEW us \in [UseIDs -> UseRecord], now \in Nat
  PROVE  /\ RetainStaleUses(gs, us) \in [UseIDs -> UseRecord]
         /\ \A u \in UseIDs :
              /\ RetainStaleUses(gs, us)[u].grant = us[u].grant
              /\ RetainStaleUses(gs, us)[u].operation = us[u].operation
              /\ RetainStaleUses(gs, us)[u] = us[u]
                 \/ /\ us[u].state = "reserved"
                    /\ RetainStaleUses(gs, us)[u].state = "retained"
  <1> SUFFICES ASSUME NEW u \in UseIDs
               PROVE  /\ RetainStaleUses(gs, us)[u] \in UseRecord
                      /\ RetainStaleUses(gs, us)[u].grant = us[u].grant
                      /\ RetainStaleUses(gs, us)[u].operation = us[u].operation
                      /\ RetainStaleUses(gs, us)[u] = us[u]
                         \/ /\ us[u].state = "reserved"
                            /\ RetainStaleUses(gs, us)[u].state = "retained"
    BY DEF RetainStaleUses
  <1>1. us[u] \in UseRecord
    OBVIOUS
  <1>2. CASE u \in Stale(gs, us)
    <2>1. RetainStaleUses(gs, us)[u] =
            [us[u] EXCEPT !.state = "retained",
                          !.revision = us[u].revision + 1, !.updatedAt = now]
      BY <1>2 DEF RetainStaleUses
    <2>2. us[u].state = "reserved"
      BY <1>2 DEF Stale
    <2>3. us[u].revision + 1 \in Nat
      BY <1>1 DEF UseRecord
    <2> QED
      BY <1>1, <2>1, <2>2, <2>3 DEF UseRecord, UseStates
  <1>3. CASE u \notin Stale(gs, us)
    BY <1>1, <1>3 DEF RetainStaleUses
  <1> QED
    BY <1>2, <1>3

\* ... which does not change what is charged to a grant.
LEMMA RetainStaleCharges ==
  ASSUME NEW gs, NEW us \in [UseIDs -> UseRecord], now \in Nat, NEW g
  PROVE  /\ Committed(RetainStaleUses(gs, us), g) = Committed(us, g)
         /\ Open(RetainStaleUses(gs, us), g) = Open(us, g)
  BY RetainStaleUsesStep DEF Committed, Open

\* Aggregate touches the counters only.
LEMMA AggregateStep ==
  ASSUME NEW grant \in GrantRecord, NEW g, NEW us
  PROVE  /\ Aggregate(grant, g, us) \in GrantRecord
         /\ Aggregate(grant, g, us).usedCount = Cardinality(Committed(us, g))
         /\ Aggregate(grant, g, us).reservedCount = Cardinality(Open(us, g))
         /\ Aggregate(grant, g, us).status = grant.status
         /\ Aggregate(grant, g, us).revision = grant.revision
         /\ SameTerms(grant, Aggregate(grant, g, us))
  <1>1. /\ Cardinality(Committed(us, g)) \in Nat
        /\ Cardinality(Open(us, g)) \in Nat
    BY UsesFinite
  <1>2. (\E u \in Open(us, g) : us[u].state = "retained") \in BOOLEAN
    OBVIOUS
  <1> QED
    BY <1>1, <1>2, ZenonT(60) DEF Aggregate, GrantRecord, SameTerms

LEMMA RetainStaleGrantsStep ==
  ASSUME NEW gs, NEW us, Typed(gs, us), Consistent(gs, us), now \in Nat
  PROVE  /\ RetainStaleGrants(gs, us) \in [GrantIDs -> GrantRecord]
         /\ \A g \in GrantIDs :
              /\ RetainStaleGrants(gs, us)[g].status = gs[g].status
              /\ SameView(gs[g], RetainStaleGrants(gs, us)[g])
  <1> DEFINE rg == RetainStaleGrants(gs, us)
             ru == RetainStaleUses(gs, us)
             touched(g) == {u \in Stale(gs, us) : us[u].grant = g}
             counted(g) == [gs[g] EXCEPT !.reservationRevision =
                              gs[g].reservationRevision + Cardinality(touched(g))]
  <1>1. gs \in [GrantIDs -> GrantRecord] /\ us \in [UseIDs -> UseRecord]
    BY DEF Typed
  <1>2. ASSUME NEW g \in GrantIDs
        PROVE  /\ rg[g] \in GrantRecord
               /\ rg[g].status = gs[g].status
               /\ SameView(gs[g], rg[g])
    <2>1. gs[g] \in GrantRecord /\ GrantConsistent(gs[g], us, g)
      BY <1>1 DEF Consistent
    <2>2. CASE touched(g) = {}
      BY <2>1, <2>2 DEF RetainStaleGrants, SameView, SameTerms
    <2>3. CASE touched(g) # {}
      <3>1. rg[g] = Aggregate(counted(g), g, ru)
        BY <2>3 DEF RetainStaleGrants
      <3>2. Cardinality(touched(g)) \in Nat
        <4>1. touched(g) \subseteq UseIDs
          BY DEF Stale
        <4> QED
          BY <4>1, OptionsAssumption, FS_Subset, FS_CardinalityType
      <3>3. /\ counted(g) \in GrantRecord
            /\ counted(g).status = gs[g].status
            /\ counted(g).revision = gs[g].revision
            /\ SameTerms(gs[g], counted(g))
        BY <2>1, <3>2 DEF GrantRecord, SameTerms
      <3>4. /\ Committed(ru, g) = Committed(us, g)
            /\ Open(ru, g) = Open(us, g)
        BY <1>1, RetainStaleCharges
      <3> HIDE DEF counted, ru
      <3> QED
        BY <2>1, <3>1, <3>3, <3>4, AggregateStep
          DEF GrantConsistent, SameView, SameTerms
    <2> QED
      BY <2>2, <2>3
  <1>3. rg \in [GrantIDs -> GrantRecord]
    BY <1>2 DEF RetainStaleGrants
  <1> QED
    BY <1>2, <1>3

LEMMA RetainStalePreserves ==
  ASSUME NEW gs, NEW us, Typed(gs, us), Consistent(gs, us), now \in Nat
  PROVE  /\ Typed(RetainStaleGrants(gs, us), RetainStaleUses(gs, us))
         /\ Consistent(RetainStaleGrants(gs, us), RetainStaleUses(gs, us))
  <1> DEFINE rg == RetainStaleGrants(gs, us)
             ru == RetainStaleUses(gs, us)
  <1>1. gs \in [GrantIDs -> GrantRecord] /\ us \in [UseIDs -> UseRecord]
    BY DEF Typed
  <1>2. Typed(rg, ru)
    <2>1. Present(rg) = Present(gs)
      BY RetainStaleGrantsStep DEF Present
    <2> QED
      BY <1>1, <2>1, RetainStaleGrantsStep, RetainStaleUsesStep DEF Typed
  <1>3. ASSUME NEW g \in GrantIDs PROVE GrantConsistent(rg[g], ru, g)
    <2>1. GrantConsistent(gs[g], us, g)
      BY DEF Consistent
    <2>2. Committed(ru, g) = Committed(us, g) /\ Open(ru, g) = Open(us, g)
      BY <1>1, RetainStaleCharges
    <2> HIDE DEF rg, ru
    <2>3. /\ rg[g].status = gs[g].status
          /\ SameView(gs[g], rg[g])
      BY RetainStaleGrantsStep DEF rg
    <2> QED
      BY <2>1, <2>2, <2>3 DEF GrantConsistent, SameView, SameTerms
  <1> QED
    BY <1>2, <1>3 DEF Consistent

\* prepareLifecycle keeps the invariant, and closes grants only by expiry.
LEMMA PreparedState ==
  ASSUME IInv
  PROVE  /\ Typed(PreparedGrants, PreparedUses)
         /\ Consistent(PreparedGrants, PreparedUses)
         /\ \A g \in GrantIDs :
              /\ PreparedGrants[g].status = grants[g].status
                 \/ /\ PreparedGrants[g].status = "expired"
                    /\ grants[g].status \in {"pending", "active"}
              /\ SameView(grants[g], PreparedGrants[g])
         /\ \A u \in UseIDs :
              /\ PreparedUses[u].grant = uses[u].grant
              /\ UseKept(uses[u], PreparedUses[u])
  <1> DEFINE gs == ExpireDue(grants)
  <1>1. /\ now \in Nat /\ grants \in [GrantIDs -> GrantRecord]
        /\ uses \in [UseIDs -> UseRecord]
        /\ Typed(grants, uses) /\ Consistent(grants, uses)
    BY DEF IInv, Typed
  <1>2. Typed(gs, uses) /\ Consistent(gs, uses)
    BY <1>1, ExpireDuePreserves
  <1>3. /\ PreparedGrants = RetainStaleGrants(gs, uses)
        /\ PreparedUses = RetainStaleUses(gs, uses)
    BY DEF PreparedGrants, PreparedUses
  <1>4. \A g \in GrantIDs :
          /\ gs[g].status = grants[g].status
             \/ /\ gs[g].status = "expired"
                /\ grants[g].status \in {"pending", "active"}
          /\ SameView(grants[g], gs[g])
    BY <1>1, ExpireDueStep
  <1> HIDE DEF gs
  <1>5. Typed(PreparedGrants, PreparedUses) /\ Consistent(PreparedGrants, PreparedUses)
    BY <1>1, <1>2, <1>3, RetainStalePreserves
  <1>6. \A g \in GrantIDs :
          /\ PreparedGrants[g].status = gs[g].status
          /\ SameView(gs[g], PreparedGrants[g])
    BY <1>1, <1>2, <1>3, RetainStaleGrantsStep
  <1>7. \A u \in UseIDs :
              /\ PreparedUses[u].grant = uses[u].grant
              /\ UseKept(uses[u], PreparedUses[u])
    BY <1>1, <1>3, RetainStaleUsesStep DEF UseKept
  <1> QED
    BY <1>4, <1>5, <1>6, <1>7 DEF SameView, SameTerms

(***************************************************************************)
(* Reconciliation                                                          *)
(***************************************************************************)
\* A new revision changes no other field.
LEMMA BumpStep ==
  ASSUME NEW before \in GrantRecord, NEW after \in GrantRecord
  PROVE  /\ Bump(before, after) \in GrantRecord
         /\ Bump(before, after).status = after.status
         /\ Bump(before, after).usedCount = after.usedCount
         /\ Bump(before, after).reservedCount = after.reservedCount
         /\ SameTerms(after, Bump(before, after))
  <1>1. before.revision + 1 \in Nat
    BY DEF GrantRecord
  <1>2. CASE LifecycleKinds(before, after) = <<>>
    BY <1>2 DEF Bump, SameTerms
  <1>3. CASE LifecycleKinds(before, after) # <<>>
    <2>1. Bump(before, after) = [after EXCEPT !.revision = before.revision + 1]
      BY <1>3 DEF Bump
    <2> QED
      BY <1>1, <2>1 DEF GrantRecord, SameTerms
  <1> QED
    BY <1>2, <1>3

LEMMA BumpedPreserves ==
  ASSUME NEW before \in [GrantIDs -> GrantRecord], NEW gs, NEW us,
         Typed(gs, us), Consistent(gs, us)
  PROVE  /\ Typed(Bumped(before, gs), us) /\ Consistent(Bumped(before, gs), us)
         /\ \A g \in GrantIDs :
              /\ Bumped(before, gs)[g].status = gs[g].status
              /\ Bumped(before, gs)[g].usedCount = gs[g].usedCount
              /\ Bumped(before, gs)[g].reservedCount = gs[g].reservedCount
              /\ SameTerms(gs[g], Bumped(before, gs)[g])
  <1> DEFINE bg == Bumped(before, gs)
  <1>1. gs \in [GrantIDs -> GrantRecord] /\ us \in [UseIDs -> UseRecord]
    BY DEF Typed
  <1>2. \A g \in GrantIDs : bg[g] = Bump(before[g], gs[g])
    BY DEF Bumped
  <1>3. \A g \in GrantIDs :
          /\ bg[g] \in GrantRecord
          /\ bg[g].status = gs[g].status
          /\ bg[g].usedCount = gs[g].usedCount
          /\ bg[g].reservedCount = gs[g].reservedCount
          /\ SameTerms(gs[g], bg[g])
    BY <1>1, <1>2, BumpStep
  <1>4. bg \in [GrantIDs -> GrantRecord]
    BY <1>3 DEF Bumped
  <1> HIDE DEF bg
  <1>5. Typed(bg, us)
    <2>1. Present(bg) = Present(gs)
      BY <1>3 DEF Present
    <2> QED
      BY <1>1, <1>4, <2>1 DEF Typed
  <1>6. ASSUME NEW g \in GrantIDs PROVE GrantConsistent(bg[g], us, g)
    <2>1. GrantConsistent(gs[g], us, g)
      BY DEF Consistent
    <2> QED
      BY <1>3, <2>1 DEF GrantConsistent, SameTerms
  <1> QED
    BY <1>3, <1>5, <1>6 DEF Consistent, bg

\* The names of lifecycle events.
EventKinds ==
  {StatusEvent[status] : status \in DOMAIN StatusEvent}
    \cup {"request.created", "grant.consumed", "grant.released",
          "grant.reserved", "execution.ambiguous"}

\* Two sequences without an event between them are empty.
LEMMA NothingAppended ==
  ASSUME NEW S, NEW s \in Seq(S), NEW t \in Seq(S)
  PROVE  s \o t \in Seq(S) /\ (s \o t = <<>> <=> s = <<>> /\ t = <<>>)
  <1>1. s \o t \in Seq(S) /\ Len(s \o t) = Len(s) + Len(t)
    OBVIOUS
  <1>2. \A r \in Seq(S) : r = <<>> <=> Len(r) = 0
    BY EmptySeq
  <1> QED
    BY <1>1, <1>2

\* A change without an event shows in neither the status nor the counters,
\* unless it closes the grant as consumed.
LEMMA NoKinds ==
  ASSUME NEW before, NEW after
  PROVE  /\ LifecycleKinds(before, after) \in Seq(EventKinds)
         /\ LifecycleKinds(before, after) = <<>> =>
              IF before.status = "absent" THEN after.status = "absent"
              ELSE /\ \/ after.status = before.status
                      \/ after.status \notin DOMAIN StatusEvent
                   /\ ~(after.usedCount > before.usedCount)
                   /\ ~(/\ after.usedCount <= before.usedCount
                        /\ after.reservedCount < before.reservedCount)
                   /\ ~(after.reservedCount > before.reservedCount)
         /\ (before.status = "absent" /\ after.status # "absent") =>
              LifecycleKinds(before, after) # <<>>
         /\ (/\ before.status # "absent" /\ before.status # after.status
             /\ after.status \in DOMAIN StatusEvent) =>
              LifecycleKinds(before, after) # <<>>
  <1> DEFINE
        decided == before.status # after.status /\ after.status \in DOMAIN StatusEvent
        a == IF decided THEN <<StatusEvent[after.status]>> ELSE <<>>
        b == When(after.usedCount > before.usedCount, "grant.consumed")
        c == When(/\ after.usedCount <= before.usedCount
                  /\ after.reservedCount < before.reservedCount, "grant.released")
        d == When(after.reservedCount > before.reservedCount, "grant.reserved")
        e == When(~before.retained /\ after.retained, "execution.ambiguous")
        n == When(after.status # "absent", "request.created")
  <1>1. a \in Seq(EventKinds) /\ (a = <<>> <=> ~decided)
    <2>1. CASE decided
      <3>1. StatusEvent[after.status] \in EventKinds
        BY <2>1 DEF EventKinds
      <3>2. a = <<StatusEvent[after.status]>>
        BY <2>1
      <3> QED
        BY <2>1, <3>1, <3>2
    <2>2. CASE ~decided
      BY <2>2
    <2> QED
      BY <2>1, <2>2
  <1>2. /\ "grant.consumed" \in EventKinds /\ "grant.released" \in EventKinds
        /\ "grant.reserved" \in EventKinds /\ "execution.ambiguous" \in EventKinds
        /\ "request.created" \in EventKinds
    BY DEF EventKinds
  <1>3. /\ b \in Seq(EventKinds)
        /\ b = <<>> <=> ~(after.usedCount > before.usedCount)
    BY <1>2 DEF When
  <1>4. /\ c \in Seq(EventKinds)
        /\ c = <<>> <=> ~(/\ after.usedCount <= before.usedCount
                          /\ after.reservedCount < before.reservedCount)
    BY <1>2 DEF When
  <1>5. /\ d \in Seq(EventKinds)
        /\ d = <<>> <=> ~(after.reservedCount > before.reservedCount)
    BY <1>2 DEF When
  <1>6. e \in Seq(EventKinds)
    BY <1>2 DEF When
  <1>7. n \in Seq(EventKinds) /\ (n = <<>> <=> after.status = "absent")
    BY <1>2 DEF When
  <1>8. LifecycleKinds(before, after) =
          IF before.status = "absent" THEN n ELSE a \o b \o c \o d \o e
    BY DEF LifecycleKinds
  <1> HIDE DEF a, b, c, d, e, n
  <1>9. /\ a \o b \o c \o d \o e \in Seq(EventKinds)
        /\ a \o b \o c \o d \o e = <<>> =>
             a = <<>> /\ b = <<>> /\ c = <<>> /\ d = <<>>
    <2>1. a \o b \in Seq(EventKinds) /\ (a \o b = <<>> <=> a = <<>> /\ b = <<>>)
      BY <1>1, <1>3, NothingAppended
    <2>2. /\ a \o b \o c \in Seq(EventKinds)
          /\ a \o b \o c = <<>> <=> a \o b = <<>> /\ c = <<>>
      BY <2>1, <1>4, NothingAppended
    <2>3. /\ a \o b \o c \o d \in Seq(EventKinds)
          /\ a \o b \o c \o d = <<>> <=> a \o b \o c = <<>> /\ d = <<>>
      BY <2>2, <1>5, NothingAppended
    <2>4. /\ a \o b \o c \o d \o e \in Seq(EventKinds)
          /\ a \o b \o c \o d \o e = <<>> <=> a \o b \o c \o d = <<>> /\ e = <<>>
      BY <2>3, <1>6, NothingAppended
    <2> QED
      BY <2>1, <2>2, <2>3, <2>4
  <1> QED
    BY <1>1, <1>3, <1>4, <1>5, <1>7, <1>8, <1>9

\* The events of one reconciliation report the grant as it is saved, and
\* there is one for every grant that changed visibly.
LEMMA BatchReports ==
  ASSUME NEW before, NEW after, NEW first \in Nat, NEW g \in GrantIDs
  PROVE  /\ LifecycleKinds(before[g], after[g]) # <<>> <=>
              \E e \in Batch(before, after, first) : e.grant = g
         /\ \A e \in Batch(before, after, first) :
              e.grant = g =>
                e = Event(e.seq, e.kind, g, Bump(before[g], after[g]))
  <1> DEFINE kinds == Kinds(before, after)
             slots == Slots(kinds)
             at(p) == Event(first + Cardinality(Preceding(slots, p)),
                            kinds[p[1]][p[2]], p[1],
                            Bump(before[p[1]], after[p[1]]))
  <1>1. \A e : e \in Batch(before, after, first) <=> \E p \in slots : e = at(p)
    BY DEF Batch
  <1>2. \A p \in slots : /\ at(p).grant = p[1]
                         /\ at(p) = Event(at(p).seq, at(p).kind, p[1],
                                          Bump(before[p[1]], after[p[1]]))
    BY DEF Event
  <1>3. kinds[g] = LifecycleKinds(before[g], after[g])
    BY DEF Kinds
  <1>4. kinds[g] \in Seq(EventKinds)
    BY <1>3, NoKinds
  <1> HIDE DEF at
  <1>5. ASSUME kinds[g] # <<>>
        PROVE  \E e \in Batch(before, after, first) : e.grant = g
    <2>1. Len(kinds[g]) \in Nat /\ Len(kinds[g]) # 0
      BY <1>4, <1>5, EmptySeq
    <2>2. <<g, 1>> \in slots
      BY <2>1 DEF Slots
    <2>3. at(<<g, 1>>).grant = g
      BY <1>2, <2>2
    <2> QED
      BY <1>1, <2>2, <2>3
  <1>6. ASSUME NEW p \in slots, p[1] = g PROVE kinds[g] # <<>>
    BY <1>6 DEF Slots
  <1>7. ASSUME NEW e \in Batch(before, after, first), e.grant = g
        PROVE  /\ kinds[g] # <<>>
               /\ e = Event(e.seq, e.kind, g, Bump(before[g], after[g]))
    <2>1. PICK p \in slots : e = at(p)
      BY <1>1
    <2>2. p[1] = g
      BY <1>2, <1>7, <2>1
    <2> QED
      BY <1>2, <1>6, <2>1, <2>2
  <1> HIDE DEF kinds
  <1> QED
    BY <1>3, <1>5, <1>7

\* A nonempty set of numbers has a least one.
LEMMA LeastNumber ==
  ASSUME NEW S \in SUBSET Nat, S # {}
  PROVE  \E i \in S : \A j \in S : i <= j
  <1> DEFINE R == OpToRel(<, Nat)
  <1>1. IsWellFoundedOn(R, Nat)
    BY NatLessThanWellFounded
  <1> HIDE DEF R
  <1>2. PICK i \in S : \A j \in S : ~(<<j, i>> \in R)
    BY <1>1, WFMin
  <1>3. \A j \in S : ~(j < i)
    BY <1>2 DEF R, OpToRel
  <1> QED
    BY <1>3

\* The last of the slots comes after all others.
LEMMA LastSlot ==
  ASSUME NEW slots \in SUBSET (GrantIDs \X (1 .. 4)), slots # {}
  PROVE  \E p \in slots : Preceding(slots, p) = slots \ {p}
  <1> DEFINE key == [p \in slots |-> 5 * (MaxGrants - p[1]) + (4 - p[2])]
             keys == {key[p] : p \in slots}
  <1>1. \A p \in slots : /\ p = <<p[1], p[2]>>
                         /\ p[1] \in 1 .. MaxGrants /\ p[2] \in 1 .. 4
    BY DEF GrantIDs
  <1>2. \A p \in slots : key[p] = 5 * (MaxGrants - p[1]) + (4 - p[2])
    OBVIOUS
  <1>3. keys \in SUBSET Nat /\ keys # {}
    BY <1>1, <1>2, OptionsAssumption
  <1> HIDE DEF key
  <1>4. PICK i \in keys : \A j \in keys : i <= j
    BY <1>3, LeastNumber
  <1>5. PICK p \in slots : i = key[p]
    BY <1>4
  <1>6. ASSUME NEW q \in slots, q # p
        PROVE  q[1] < p[1] \/ (q[1] = p[1] /\ q[2] < p[2])
    <2>1. key[p] <= key[q]
      BY <1>4, <1>5
    <2>2. q[1] # p[1] \/ q[2] # p[2]
      BY <1>1, <1>6
    <2>3. /\ p[1] \in Int /\ p[2] \in 1 .. 4 /\ q[1] \in Int /\ q[2] \in 1 .. 4
          /\ MaxGrants \in Int
      BY <1>1, OptionsAssumption
    <2>4. /\ key[p] = 5 * (MaxGrants - p[1]) + (4 - p[2])
          /\ key[q] = 5 * (MaxGrants - q[1]) + (4 - q[2])
      BY <1>2
    <2>5. PICK a \in Int, b \in 1 .. 4, c \in Int, d \in 1 .. 4, m \in Int :
            a = p[1] /\ b = p[2] /\ c = q[1] /\ d = q[2] /\ m = MaxGrants
      BY <2>3
    <2>6. 5 * (m - a) + (4 - b) <= 5 * (m - c) + (4 - d)
      BY <2>1, <2>4, <2>5
    <2>7. c < a \/ (c = a /\ d <= b)
      BY <2>6
    <2> QED
      BY <2>2, <2>5, <2>7
  <1>7. Preceding(slots, p) = slots \ {p}
    <2>1. p[1] \in Int /\ p[2] \in Int
      BY <1>1, OptionsAssumption
    <2> QED
      BY <1>6, <2>1 DEF Preceding
  <1> QED
    BY <1>7

\* The events of one reconciliation are numbered without exceeding its count,
\* which the last of them reaches.
LEMMA BatchNumbered ==
  ASSUME NEW before, NEW after, NEW first \in Nat
  PROVE  /\ EventCount(before, after) \in Nat
         /\ \A e \in Batch(before, after, first) :
              /\ e.grant \in GrantIDs
              /\ e.seq \in first .. (first + EventCount(before, after) - 1)
         /\ EventCount(before, after) > 0 =>
              \E e \in Batch(before, after, first) :
                e.seq = first + EventCount(before, after) - 1
  <1> DEFINE kinds == Kinds(before, after)
             slots == Slots(kinds)
  <1>1. IsFiniteSet(GrantIDs \X (1 .. 4))
    <2>1. IsFiniteSet(GrantIDs)
      BY OptionsAssumption, FS_Interval DEF GrantIDs
    <2>2. IsFiniteSet(1 .. 4)
      <3>1. \A a, b \in Int : IsFiniteSet(a .. b)
        BY FS_Interval
      <3>2. 1 \in Int /\ 4 \in Int
        OBVIOUS
      <3> QED
        BY <3>1, <3>2, Zenon
    <2> QED
      BY <2>1, <2>2, FS_Product
  <1>2. IsFiniteSet(slots) /\ slots \subseteq GrantIDs \X (1 .. 4)
    <2>1. slots \subseteq GrantIDs \X (1 .. 4)
      BY DEF Slots
    <2> QED
      BY <1>1, <2>1, FS_Subset
  <1>3. Cardinality(slots) \in Nat /\ EventCount(before, after) = Cardinality(slots)
    BY <1>2, FS_CardinalityType DEF EventCount
  <1> HIDE DEF slots
  <1>4. ASSUME NEW p \in slots
        PROVE  /\ Cardinality(Preceding(slots, p)) \in Nat
               /\ Cardinality(Preceding(slots, p)) < Cardinality(slots)
    <2>1. p[1] \in Int /\ p[2] \in Int
      BY <1>2, OptionsAssumption DEF GrantIDs
    <2>2. Preceding(slots, p) \subseteq slots \ {p}
      BY <2>1 DEF Preceding
    <2>3. /\ IsFiniteSet(slots \ {p})
          /\ Cardinality(slots \ {p}) = Cardinality(slots) - 1
      BY <1>2, FS_RemoveElement
    <2>4. /\ IsFiniteSet(Preceding(slots, p))
          /\ Cardinality(Preceding(slots, p)) <= Cardinality(slots \ {p})
      BY <2>2, <2>3, FS_Subset
    <2>5. Cardinality(Preceding(slots, p)) \in Nat
      BY <2>4, FS_CardinalityType
    <2> QED
      BY <1>3, <2>3, <2>4, <2>5
  <1>5. ASSUME NEW e \in Batch(before, after, first)
        PROVE  /\ e.grant \in GrantIDs
               /\ e.seq \in first .. (first + Cardinality(slots) - 1)
    <2>1. PICK p \in slots :
            e = Event(first + Cardinality(Preceding(slots, p)),
                      kinds[p[1]][p[2]], p[1], Bump(before[p[1]], after[p[1]]))
      BY DEF Batch, slots
    <2>2. e.grant = p[1] /\ e.seq = first + Cardinality(Preceding(slots, p))
      BY <2>1 DEF Event
    <2>3. p[1] \in GrantIDs
      BY <1>2
    <2> QED
      BY <1>3, <1>4, <2>2, <2>3
  <1>6. ASSUME Cardinality(slots) > 0
        PROVE  \E e \in Batch(before, after, first) :
                 e.seq = first + Cardinality(slots) - 1
    <2>1. slots # {}
      BY <1>6, FS_EmptySet
    <2>2. PICK p \in slots : Preceding(slots, p) = slots \ {p}
      BY <1>2, <2>1, LastSlot
    <2>3. Cardinality(slots \ {p}) = Cardinality(slots) - 1
      BY <1>2, FS_RemoveElement
    <2> DEFINE e == Event(first + Cardinality(Preceding(slots, p)),
                          kinds[p[1]][p[2]], p[1], Bump(before[p[1]], after[p[1]]))
    <2>4. e \in Batch(before, after, first)
      BY DEF Batch, slots
    <2>5. e.seq = first + (Cardinality(slots) - 1)
      BY <2>2, <2>3 DEF Event
    <2>6. e.seq = first + Cardinality(slots) - 1
      BY <1>3, <2>5
    <2> HIDE DEF e
    <2> QED
      BY <2>4, <2>6
  <1> QED
    BY <1>3, <1>5, <1>6

\* The events of a batch are numbered from the next sequence number on, up to
\* the count.
Numbered(batch, count) ==
  /\ \A e \in batch : /\ e.grant \in GrantIDs
                      /\ e.seq \in nextEvent .. (nextEvent + count - 1)
  /\ count > 0 => \E e \in batch : e.seq = nextEvent + count - 1

\* The log keeps events that are numbered below the next sequence number.
LEMMA LogPreserves ==
  ASSUME EventsOK, NEW batch, NEW count \in Nat, Log(batch, count),
         Numbered(batch, count)
  PROVE  EventsOK'
  <1>1. nextEvent \in Nat \ {0} /\ nextEvent' = nextEvent + count
    BY DEF EventsOK, Log
  <1>2. ASSUME NEW e \in events'
        PROVE  e.grant \in GrantIDs /\ e.seq \in 1 .. (nextEvent' - 1)
    <2>1. e \in events \/ e \in batch
      BY DEF Log
    <2> QED
      BY <1>1, <2>1 DEF EventsOK, Numbered
  <1> QED
    BY <1>1, <1>2 DEF EventsOK

(***************************************************************************)
(* The mutators                                                            *)
(***************************************************************************)
\* Only uses of g differ.
OnlyUsesOf(g, us, us2) ==
  \A u \in UseIDs :
    \/ us2[u] = us[u]
    \/ us2[u].grant = g /\ (us[u].state = "absent" \/ us[u].grant = g)

\* A mutator changes one grant and at most uses of that grant.
LEMMA OneGrantChanges ==
  ASSUME NEW gs, NEW us, Typed(gs, us), Consistent(gs, us),
         NEW g \in GrantIDs, NEW grant \in GrantRecord,
         grant.status # "absent",
         NEW us2 \in [UseIDs -> UseRecord], OnlyUsesOf(g, us, us2),
         GrantConsistent(grant, us2, g)
  PROVE  /\ Typed([gs EXCEPT ![g] = grant], us2)
         /\ Consistent([gs EXCEPT ![g] = grant], us2)
  <1> DEFINE gs2 == [gs EXCEPT ![g] = grant]
  <1>1. gs \in [GrantIDs -> GrantRecord] /\ us \in [UseIDs -> UseRecord]
    BY DEF Typed
  <1>2. gs2 \in [GrantIDs -> GrantRecord] /\ gs2[g] = grant
        /\ \A h \in GrantIDs : h # g => gs2[h] = gs[h]
    BY <1>1
  <1> HIDE DEF gs2
  <1>3. g \in Present(gs2) /\ Present(gs) \subseteq Present(gs2)
    BY <1>2 DEF Present
  <1>4. Typed(gs2, us2)
    BY <1>2, <1>3 DEF Typed, OnlyUsesOf
  <1>5. ASSUME NEW h \in GrantIDs PROVE GrantConsistent(gs2[h], us2, h)
    <2>1. CASE h = g
      BY <1>2, <2>1
    <2>2. CASE h # g
      <3>1. Committed(us2, h) = Committed(us, h) /\ Open(us2, h) = Open(us, h)
        BY <2>2 DEF Committed, Open, OnlyUsesOf
      <3>2. GrantConsistent(gs[h], us, h)
        BY DEF Consistent
      <3> QED
        BY <1>2, <2>2, <3>1, <3>2 DEF GrantConsistent
    <2> QED
      BY <2>1, <2>2
  <1> QED
    BY <1>4, <1>5 DEF Consistent, gs2

\* A use is acquired from an active grant, within its window and its limit.
Reserves(gs, old, gs2, new) ==
  /\ old.state \in {"absent", "released"} /\ new.state = "reserved"
  /\ old.state = "released" =>
       new.grant = old.grant /\ new.operation = old.operation
  /\ new.grant \in GrantIDs
  /\ gs[new.grant].status = "active" /\ gs2[new.grant].status = "active"
  /\ now < gs[new.grant].expiresAt
  /\ Allows(gs[new.grant].maxUses, gs[new.grant].usedCount,
            gs[new.grant].reservedCount)

Settles(old, new) ==
  /\ old.state \in {"reserved", "retained"}
  /\ new.state \in {"committed", "released"}
  /\ new.grant = old.grant /\ new.operation = old.operation

\* What may turn gs, us into gs2, us2: grants lapse and uses become
\* uncertain; besides, one grant opens or is approved, or one use is acquired
\* or settled.
Moves(gs, us, gs2, us2) ==
  /\ \A g \in GrantIDs : Counted(gs[g], gs2[g])
  /\ \/ /\ \A g \in GrantIDs : Lapses(gs[g], gs2[g])
        /\ \A u \in UseIDs : UseKept(us[u], us2[u])
     \/ \E g \in GrantIDs :
          /\ \/ Opens(gs[g], gs2[g]) /\ FindIdempotent(gs, gs2[g]) = {}
             \/ Approves(gs[g], gs2[g])
          /\ \A h \in GrantIDs \ {g} : Lapses(gs[h], gs2[h])
          /\ \A u \in UseIDs : UseKept(us[u], us2[u])
     \/ \E u \in UseIDs :
          /\ Reserves(gs, us[u], gs2, us2[u]) \/ Settles(us[u], us2[u])
          /\ \A g \in GrantIDs : Lapses(gs[g], gs2[g])
          /\ \A v \in UseIDs \ {u} : UseKept(us[v], us2[v])

LEMMA LapsesTwice ==
  ASSUME NEW a, NEW b, NEW c, Lapses(a, b), Lapses(b, c)
  PROVE  Lapses(a, c)
  BY DEF Lapses, SameTerms, Closed

LEMMA KeptTwice ==
  ASSUME NEW a, NEW b, NEW c, UseKept(a, b), UseKept(b, c)
  PROVE  UseKept(a, c)
  BY DEF UseKept

\* A mutator that moves the prepared state also moves the saved one.
LEMMA PreparedMoves ==
  ASSUME IInv, NEW gs, NEW us,
         Moves(PreparedGrants, PreparedUses, gs, us)
  PROVE  Moves(grants, uses, gs, us)
  <1> DEFINE pg == PreparedGrants
             pu == PreparedUses
  <1>1. /\ \A g \in GrantIDs :
             /\ SameView(grants[g], pg[g])
             /\ pg[g].status = grants[g].status
                \/ /\ pg[g].status = "expired"
                   /\ grants[g].status \in {"pending", "active"}
        /\ \A u \in UseIDs : UseKept(uses[u], pu[u])
    BY PreparedState
  <1> HIDE DEF pg, pu
  <1>2. Moves(pg, pu, gs, us)
    BY DEF pg, pu
  <1>3. \A g \in GrantIDs : Lapses(grants[g], pg[g])
    BY <1>1 DEF Lapses, SameView, Closed
  <1>4. \A g \in GrantIDs : Counted(grants[g], gs[g])
    BY <1>1, <1>2 DEF Moves, Counted, SameView
  <1>5. \A g \in GrantIDs : Lapses(pg[g], gs[g]) => Lapses(grants[g], gs[g])
    BY <1>3, LapsesTwice
  <1>6. \A u \in UseIDs : UseKept(pu[u], us[u]) => UseKept(uses[u], us[u])
    BY <1>1, KeptTwice
  <1>7. \A g \in GrantIDs :
          /\ FindIdempotent(grants, gs[g]) \subseteq FindIdempotent(pg, gs[g])
          /\ Opens(pg[g], gs[g]) => Opens(grants[g], gs[g])
          /\ Approves(pg[g], gs[g]) => Approves(grants[g], gs[g])
    BY <1>1 DEF Opens, Approves, SameView, SameTerms, FindIdempotent, Present
  <1>8. \A u \in UseIDs :
          /\ Reserves(pg, pu[u], gs, us[u]) => Reserves(grants, uses[u], gs, us[u])
          /\ Settles(pu[u], us[u]) => Settles(uses[u], us[u])
    <2> TAKE u \in UseIDs
    <2>1. ASSUME Reserves(pg, pu[u], gs, us[u])
          PROVE  Reserves(grants, uses[u], gs, us[u])
      <3>1. us[u].grant \in GrantIDs /\ uses[u] = pu[u]
        BY <1>1, <2>1 DEF Reserves, UseKept
      <3> QED
        BY <1>1, <2>1, <3>1 DEF Reserves, SameView, SameTerms
    <2>2. Settles(pu[u], us[u]) => Settles(uses[u], us[u])
      BY <1>1 DEF Settles, UseKept
    <2> QED
      BY <2>1, <2>2
  <1>9. CASE /\ \A g \in GrantIDs : Lapses(pg[g], gs[g])
             /\ \A u \in UseIDs : UseKept(pu[u], us[u])
    BY <1>4, <1>5, <1>6, <1>9 DEF Moves
  <1>10. CASE \E g \in GrantIDs :
                /\ \/ Opens(pg[g], gs[g]) /\ FindIdempotent(pg, gs[g]) = {}
                   \/ Approves(pg[g], gs[g])
                /\ \A h \in GrantIDs \ {g} : Lapses(pg[h], gs[h])
                /\ \A u \in UseIDs : UseKept(pu[u], us[u])
    BY <1>4, <1>5, <1>6, <1>7, <1>10 DEF Moves
  <1>11. CASE \E u \in UseIDs :
                /\ Reserves(pg, pu[u], gs, us[u]) \/ Settles(pu[u], us[u])
                /\ \A g \in GrantIDs : Lapses(pg[g], gs[g])
                /\ \A v \in UseIDs \ {u} : UseKept(pu[v], us[v])
    BY <1>4, <1>5, <1>6, <1>8, <1>11 DEF Moves
  <1> QED
    BY <1>2, <1>9, <1>10, <1>11 DEF Moves

\* New revisions do not matter to a move.
LEMMA BumpedMoves ==
  ASSUME NEW gs, NEW us, Typed(gs, us), Consistent(gs, us),
         Moves(grants, uses, gs, us), NEW before \in [GrantIDs -> GrantRecord]
  PROVE  Moves(grants, uses, Bumped(before, gs), us)
  <1> DEFINE bg == Bumped(before, gs)
  <1>1. \A g \in GrantIDs :
          /\ bg[g].status = gs[g].status /\ bg[g].usedCount = gs[g].usedCount
          /\ SameTerms(gs[g], bg[g])
    BY BumpedPreserves
  <1> HIDE DEF bg
  <1>2. \A g \in GrantIDs :
          /\ Counted(grants[g], gs[g]) => Counted(grants[g], bg[g])
          /\ Lapses(grants[g], gs[g]) => Lapses(grants[g], bg[g])
          /\ Opens(grants[g], gs[g]) => Opens(grants[g], bg[g])
          /\ Approves(grants[g], gs[g]) => Approves(grants[g], bg[g])
          /\ FindIdempotent(grants, gs[g]) = FindIdempotent(grants, bg[g])
    BY <1>1 DEF Counted, Lapses, Opens, Approves, SameTerms, FindIdempotent
  <1>3. \A u \in UseIDs : Reserves(grants, uses[u], gs, us[u]) =>
                          Reserves(grants, uses[u], bg, us[u])
    BY <1>1 DEF Reserves
  <1> QED
    BY <1>2, <1>3 DEF Moves, bg

\* A grant whose change shows in no event keeps what a reader sees of it.
LEMMA QuietMove ==
  ASSUME NEW gs, NEW us, Typed(gs, us), Consistent(gs, us), IInv,
         Moves(grants, uses, gs, us), NEW g \in GrantIDs,
         LifecycleKinds(grants[g], gs[g]) = <<>>
  PROVE  /\ gs[g].status = grants[g].status /\ SameTerms(grants[g], gs[g])
         /\ gs[g].usedCount = grants[g].usedCount
         /\ gs[g].reservedCount = grants[g].reservedCount
  <1>1. /\ grants[g] \in GrantRecord /\ gs[g] \in GrantRecord
        /\ GrantConsistent(grants[g], uses, g) /\ GrantConsistent(gs[g], us, g)
    BY DEF IInv, Typed, Consistent
  <1>2. /\ Counted(grants[g], gs[g])
        /\ \/ Lapses(grants[g], gs[g]) \/ Opens(grants[g], gs[g])
           \/ Approves(grants[g], gs[g])
    BY DEF Moves
  <1>3. /\ grants[g].usedCount \in Nat /\ gs[g].usedCount \in Nat
        /\ grants[g].reservedCount \in Nat /\ gs[g].reservedCount \in Nat
        /\ gs[g].status \in Statuses \cup {"absent"}
    BY <1>1 DEF GrantRecord
  <1>4. CASE grants[g].status = "absent"
    <2>1. gs[g].status = "absent"
      BY <1>4, NoKinds
    <2>2. /\ Committed(uses, g) = {} /\ Open(uses, g) = {}
          /\ Committed(us, g) = {} /\ Open(us, g) = {}
      BY <1>1, <1>4, <2>1 DEF GrantConsistent, CanSettle
    <2>3. Lapses(grants[g], gs[g])
      BY <1>2, <2>1 DEF Opens, Approves
    <2> QED
      BY <1>1, <1>4, <2>1, <2>2, <2>3 DEF GrantConsistent, Lapses
  <1>5. CASE grants[g].status # "absent"
    <2>1. /\ \/ gs[g].status = grants[g].status
             \/ gs[g].status \notin DOMAIN StatusEvent
          /\ ~(gs[g].usedCount > grants[g].usedCount)
          /\ ~(/\ gs[g].usedCount <= grants[g].usedCount
               /\ gs[g].reservedCount < grants[g].reservedCount)
          /\ ~(gs[g].reservedCount > grants[g].reservedCount)
      BY <1>5, NoKinds
    <2>2. /\ gs[g].usedCount = grants[g].usedCount
          /\ gs[g].reservedCount = grants[g].reservedCount
      BY <1>2, <1>3, <2>1 DEF Counted
    <2>3. gs[g].status \in {"absent", "pending", "consumed"}
            \/ gs[g].status = grants[g].status
      BY <1>3, <2>1 DEF StatusEvent, Statuses
    <2>4. gs[g].status = "consumed" => grants[g].status = "consumed"
      BY <1>2, <1>3, <2>2 DEF Counted
    <2>5. Lapses(grants[g], gs[g]) /\ gs[g].status = grants[g].status
      BY <1>2, <1>5, <2>3, <2>4 DEF Lapses, Opens, Approves, Closed
    <2> QED
      BY <2>2, <2>5 DEF Lapses
  <1> QED
    BY <1>4, <1>5

(***************************************************************************)
(* Saving                                                                  *)
(***************************************************************************)
\* The snapshot a reconciliation compares with differs from the saved state
\* only where there is an event, and the new state then gets a new revision.
Reconciles(before, gs) ==
  \A g \in GrantIDs :
    /\ before[g].revision >= grants[g].revision
    /\ LifecycleKinds(before[g], gs[g]) = <<>> =>
         before[g] = grants[g] /\ gs[g].revision = grants[g].revision

\* The last event about a grant reports it as it is saved, and there is one
\* when the grant changed visibly.
Reported(batch, before, gs) ==
  \A g \in GrantIDs :
    /\ LifecycleKinds(before[g], gs[g]) # <<>> => \E e \in batch : e.grant = g
    /\ \A e \in batch :
         (e.grant = g /\ \A f \in batch : f.grant = g => f.seq <= e.seq) =>
           e = Event(e.seq, e.kind, g, Bump(before[g], gs[g]))

\* The grant that an event is about is stored, and it is decided, withdrawn or
\* expired when the event says so.
Tells(e, gs) ==
  /\ gs[e.grant].status # "absent"
  /\ e.status # "pending" => gs[e.grant].status # "pending"

Told(batch, gs) == \A e \in batch : Tells(e, gs)

\* The newest event is in the log.
Newest == nextEvent > 1 => \E e \in events : e.seq = nextEvent - 1

\* What a reader of the log is told by its next sequence number: it only grows,
\* and it grows when an event is added or when the status of a grant changes.
\* What is added is true of the grants that are saved with it.
LogStep ==
  /\ \A e \in events' : e \in events \/ Tells(e, grants')
  /\ nextEvent' >= nextEvent
  /\ Newest => Newest'
  /\ nextEvent' = nextEvent => events' \subseteq events
  /\ \A g \in GrantIDs :
       grants'[g].status # grants[g].status => nextEvent' > nextEvent

\* What every step establishes.
StepOK ==
  /\ IInv'
  /\ Moves(grants, uses, grants', uses')
  /\ RevisionStep
  /\ \A g \in GrantIDs : grants'[g].revision >= grants[g].revision
  /\ LogCurrent => LogCurrent'
  /\ LogStep

\* A reader of the log still learns the present state: the newest event of a
\* grant is one of the batch, or the grant did not change.
LEMMA LogStaysCurrent ==
  ASSUME IInv, LogCurrent, NEW gs, NEW us, Typed(gs, us), Consistent(gs, us),
         Moves(grants, uses, gs, us), NEW before, Reconciles(before, gs),
         grants' = Bumped(before, gs),
         NEW batch, NEW count \in Nat, Numbered(batch, count), Log(batch, count),
         Reported(batch, before, gs)
  PROVE  LogCurrent'
  <1> SUFFICES ASSUME NEW g \in GrantIDs, grants'[g].status # "absent",
                      NEW e \in events', e.grant = g,
                      \A f \in events' : f.grant = g => f.seq <= e.seq
               PROVE  e = Event(e.seq, e.kind, g, grants'[g])
    BY DEF LogCurrent, Present, Event
  <1>1. /\ nextEvent \in Nat /\ nextEvent' = nextEvent + count
        /\ MaxEvents \in Nat
        /\ events' = {f \in events \cup batch : f.seq >= nextEvent' - MaxEvents}
        /\ \A f \in events : f.seq \in 1 .. (nextEvent - 1)
        /\ \A f \in batch : f.seq \in nextEvent .. (nextEvent + count - 1)
    BY OptionsAssumption DEF IInv, EventsOK, Log, Numbered
  <1>2. grants'[g] = Bump(before[g], gs[g])
    BY DEF Bumped
  <1>3. /\ e.seq \in Int /\ e.seq >= nextEvent' - MaxEvents
        /\ \A f \in events \cup batch : f.seq \in Int
    BY <1>1
  <1>4. \A f \in events \cup batch : f.grant = g => f.seq <= e.seq
    <2> SUFFICES ASSUME NEW f \in events \cup batch, f.grant = g, ~(f.seq <= e.seq)
                 PROVE  FALSE
      OBVIOUS
    <2>1. f.seq >= nextEvent' - MaxEvents
      BY <1>1, <1>3
    <2> QED
      BY <1>1, <2>1
  <1>5. CASE e \in batch
    BY <1>2, <1>4, <1>5 DEF Reported
  <1>6. CASE e \notin batch
    <2>1. e \in events
      BY <1>1, <1>6
    <2>2. ~ \E f \in batch : f.grant = g
      <3> SUFFICES ASSUME NEW f \in batch, f.grant = g PROVE FALSE
        OBVIOUS
      <3> QED
        BY <1>1, <1>4, <2>1
    <2>3. LifecycleKinds(before[g], gs[g]) = <<>>
      BY <2>2 DEF Reported
    <2>4. /\ before[g] = grants[g] /\ gs[g].revision = grants[g].revision
          /\ grants'[g] = gs[g]
      BY <1>2, <2>3 DEF Reconciles, Bump
    <2>5. /\ gs[g].status = grants[g].status
          /\ gs[g].usedCount = grants[g].usedCount
          /\ gs[g].reservedCount = grants[g].reservedCount
      BY <2>3, <2>4, QuietMove
    <2>6. e = Event(e.seq, e.kind, g, grants[g])
      BY <1>4, <2>1, <2>4, <2>5 DEF LogCurrent, Present
    <2> QED
      BY <2>4, <2>5, <2>6 DEF Event
  <1> QED
    BY <1>5, <1>6

\* Every visible change comes with a new revision.
LEMMA RevisionCovers ==
  ASSUME IInv, NEW gs, NEW us, Typed(gs, us), Consistent(gs, us),
         Moves(grants, uses, gs, us), NEW before \in [GrantIDs -> GrantRecord],
         Reconciles(before, gs), grants' = Bumped(before, gs)
  PROVE  RevisionStep
  <1> SUFFICES ASSUME NEW g \in GrantIDs
               PROVE  \/ grants'[g].revision > grants[g].revision
                      \/ /\ grants'[g].status = grants[g].status
                         /\ SameTerms(grants[g], grants'[g])
                         /\ grants'[g].usedCount = grants[g].usedCount
                         /\ grants'[g].reservedCount = grants[g].reservedCount
    BY DEF RevisionStep, SameTerms
  <1>1. grants'[g] = Bump(before[g], gs[g])
    BY DEF Bumped
  <1>2. CASE LifecycleKinds(before[g], gs[g]) = <<>>
    <2>1. before[g] = grants[g] /\ grants'[g] = gs[g]
      BY <1>1, <1>2 DEF Reconciles, Bump
    <2> QED
      BY <1>2, <2>1, QuietMove
  <1>3. CASE LifecycleKinds(before[g], gs[g]) # <<>>
    <2>1. /\ gs[g] \in GrantRecord /\ before[g].revision \in Nat
          /\ grants[g].revision \in Nat
      BY DEF IInv, Typed, GrantRecord
    <2>2. grants'[g] = [gs[g] EXCEPT !.revision = before[g].revision + 1]
      BY <1>1, <1>3 DEF Bump
    <2>3. grants'[g].revision = before[g].revision + 1
      BY <2>1, <2>2 DEF GrantRecord
    <2> QED
      BY <2>1, <2>3 DEF Reconciles
  <1> QED
    BY <1>2, <1>3

\* No change of a status goes without an event.
LEMMA LogAdvances ==
  ASSUME IInv, NEW gs, NEW us, Typed(gs, us), Consistent(gs, us),
         Moves(grants, uses, gs, us), NEW before, Reconciles(before, gs),
         grants' = Bumped(before, gs),
         NEW batch, NEW count \in Nat, Numbered(batch, count), Log(batch, count),
         Reported(batch, before, gs), Told(batch, grants')
  PROVE  LogStep
  <1>1. /\ nextEvent \in Nat \ {0} /\ nextEvent' = nextEvent + count
        /\ MaxEvents \in Nat \ {0}
        /\ events' = {f \in events \cup batch : f.seq >= nextEvent' - MaxEvents}
        /\ \A f \in batch : f.seq \in nextEvent .. (nextEvent + count - 1)
        /\ count > 0 => \E f \in batch : f.seq = nextEvent + count - 1
    BY OptionsAssumption DEF IInv, EventsOK, Log, Numbered
  <1>2. nextEvent' >= nextEvent
    BY <1>1
  <1>3. ASSUME Newest PROVE Newest'
    <2>1. CASE count = 0
      <3>1. nextEvent' = nextEvent
        BY <1>1, <2>1
      <3> SUFFICES ASSUME nextEvent > 1
                   PROVE  \E e \in events' : e.seq = nextEvent - 1
        BY <3>1 DEF Newest
      <3>2. PICK e \in events : e.seq = nextEvent - 1
        BY <1>3 DEF Newest
      <3>3. e.seq >= nextEvent' - MaxEvents
        BY <1>1, <3>1, <3>2
      <3> QED
        BY <1>1, <3>2, <3>3
    <2>2. CASE count > 0
      <3>1. PICK f \in batch : f.seq = nextEvent + count - 1
        BY <1>1, <2>2
      <3>2. f.seq >= nextEvent' - MaxEvents /\ f.seq = nextEvent' - 1
        BY <1>1, <3>1
      <3>3. f \in events'
        BY <1>1, <3>2
      <3> QED
        BY <3>2, <3>3 DEF Newest
    <2> QED
      BY <2>1, <2>2
  <1>4. ASSUME nextEvent' = nextEvent PROVE events' \subseteq events
    <2>1. count = 0
      BY <1>1, <1>4
    <2>2. \A f \in batch : FALSE
      BY <1>1, <2>1
    <2> QED
      BY <1>1, <2>2
  <1>5. ASSUME NEW g \in GrantIDs, grants'[g].status # grants[g].status
        PROVE  nextEvent' > nextEvent
    <2>1. LifecycleKinds(before[g], gs[g]) # <<>>
      <3> SUFFICES ASSUME LifecycleKinds(before[g], gs[g]) = <<>> PROVE FALSE
        OBVIOUS
      <3>1. before[g] = grants[g] /\ grants'[g] = gs[g]
        BY DEF Reconciles, Bumped, Bump
      <3>2. gs[g].status = grants[g].status
        BY <3>1, QuietMove
      <3> QED
        BY <1>5, <3>1, <3>2
    <2>2. PICK f \in batch : f.grant = g
      BY <2>1 DEF Reported
    <2> QED
      BY <1>1, <2>2
  <1>6. \A e \in events' : e \in events \/ Tells(e, grants')
    BY <1>1 DEF Told
  <1> QED
    BY <1>2, <1>3, <1>4, <1>5, <1>6 DEF LogStep

\* Saving what a mutator made, with new revisions and events, is such a step.
LEMMA SaveOK ==
  ASSUME IInv, NEW gs, NEW us, Typed(gs, us), Consistent(gs, us),
         Moves(grants, uses, gs, us),
         NEW before \in [GrantIDs -> GrantRecord], Reconciles(before, gs),
         grants' = Bumped(before, gs), uses' = us, now' = now,
         NEW batch, NEW count \in Nat, Numbered(batch, count), Log(batch, count),
         Reported(batch, before, gs), Told(batch, gs)
  PROVE  StepOK
  <1>1. now \in Nat /\ EventsOK
    BY DEF IInv
  <1>2. Typed(grants', uses') /\ Consistent(grants', uses')
    BY BumpedPreserves
  <1>3. EventsOK'
    BY <1>1, LogPreserves
  <1>4. IInv'
    BY <1>1, <1>2, <1>3
      DEF IInv, Typed, Consistent, GrantConsistent, Present, Committed, Open
  <1>5. Moves(grants, uses, grants', uses')
    BY BumpedMoves
  <1>6. RevisionStep
    BY RevisionCovers
  <1>7. LogCurrent => LogCurrent'
    BY LogStaysCurrent
  <1>8. ASSUME NEW g \in GrantIDs
        PROVE  grants'[g].revision >= grants[g].revision
    <2>1. /\ before[g] \in GrantRecord /\ gs[g] \in GrantRecord
          /\ grants[g] \in GrantRecord
      BY DEF Typed, IInv
    <2>2. /\ before[g].revision \in Nat /\ grants[g].revision \in Nat
      BY <2>1 DEF GrantRecord
    <2>3. grants'[g] = Bump(before[g], gs[g])
      BY DEF Bumped
    <2>4. CASE LifecycleKinds(before[g], gs[g]) = <<>>
      BY <2>2, <2>3, <2>4 DEF Bump, Reconciles
    <2>5. CASE LifecycleKinds(before[g], gs[g]) # <<>>
      <3>1. grants'[g].revision = before[g].revision + 1
        BY <2>1, <2>3, <2>5 DEF Bump, GrantRecord
      <3>2. before[g].revision >= grants[g].revision
        BY DEF Reconciles
      <3> QED
        BY <2>2, <3>1, <3>2
    <2> QED
      BY <2>4, <2>5
  <1>9. Told(batch, grants')
    <2>1. \A e \in batch : e.grant \in GrantIDs
      BY DEF Numbered
    <2>2. \A g \in GrantIDs : grants'[g].status = gs[g].status
      BY BumpedPreserves
    <2> QED
      BY <2>1, <2>2 DEF Told, Tells
  <1>10. LogStep
    BY <1>9, LogAdvances
  <1> QED
    BY <1>4, <1>5, <1>6, <1>7, <1>8, <1>10 DEF StepOK

\* A reconciliation reports grants as they are saved.
LEMMA BatchTells ==
  ASSUME NEW before, NEW gs \in [GrantIDs -> GrantRecord], NEW first \in Nat,
         \A g \in GrantIDs :
           before[g].status # "absent" => gs[g].status # "absent"
  PROVE  Told(Batch(before, gs, first), gs)
  <1> SUFFICES ASSUME NEW e \in Batch(before, gs, first) PROVE Tells(e, gs)
    BY DEF Told
  <1> DEFINE g == e.grant
  <1>1. g \in GrantIDs
    BY BatchNumbered
  <1>2. /\ LifecycleKinds(before[g], gs[g]) # <<>>
        /\ e = Event(e.seq, e.kind, g, Bump(before[g], gs[g]))
    BY <1>1, BatchReports
  <1>3. e.status = gs[g].status
    <2>1. e.status = Bump(before[g], gs[g]).status
      BY <1>2 DEF Event
    <2>2. gs[g] \in GrantRecord
      BY <1>1
    <2>3. Bump(before[g], gs[g]).status = gs[g].status
      BY <2>2 DEF Bump, GrantRecord
    <2> QED
      BY <2>1, <2>3
  <1>4. gs[g].status # "absent"
    <2>1. CASE before[g].status = "absent"
      BY <1>2, <2>1 DEF LifecycleKinds, When
    <2> QED
      BY <1>1, <2>1
  <1> QED
    BY <1>3, <1>4 DEF Tells

\* One reconciliation is numbered from the next sequence number on.
LEMMA UpdateNumbered ==
  ASSUME IInv, NEW before, NEW after
  PROVE  /\ EventCount(before, after) \in Nat
         /\ Numbered(Batch(before, after, nextEvent), EventCount(before, after))
         /\ Reported(Batch(before, after, nextEvent), before, after)
  <1>1. nextEvent \in Nat
    BY DEF IInv, EventsOK
  <1>2. /\ EventCount(before, after) \in Nat
        /\ Numbered(Batch(before, after, nextEvent), EventCount(before, after))
    BY <1>1, BatchNumbered, Zenon DEF Numbered
  <1>3. Reported(Batch(before, after, nextEvent), before, after)
    BY <1>1, BatchReports DEF Reported
  <1> QED
    BY <1>2, <1>3

\* No stored grant disappears.
LEMMA StoredStays ==
  ASSUME NEW gs, NEW us, NEW gs2, NEW us2, Moves(gs, us, gs2, us2),
         NEW g \in GrantIDs, gs[g].status # "absent"
  PROVE  gs2[g].status # "absent"
  <1>1. \/ Lapses(gs[g], gs2[g]) \/ Opens(gs[g], gs2[g])
        \/ Approves(gs[g], gs2[g])
    BY DEF Moves
  <1> QED
    BY <1>1 DEF Lapses, Opens, Approves, Closed

LEMMA UpdateOK ==
  ASSUME IInv, NEW gs, NEW us, Typed(gs, us), Consistent(gs, us),
         Moves(grants, uses, gs, us), Update(gs, us),
         \A g \in GrantIDs : \/ gs[g].revision = grants[g].revision
                             \/ LifecycleKinds(grants[g], gs[g]) # <<>>
  PROVE  StepOK
  <1>1. grants \in [GrantIDs -> GrantRecord]
    BY DEF IInv, Typed
  <1>2. /\ grants' = Bumped(grants, gs) /\ uses' = us /\ now' = now
        /\ Log(Batch(grants, gs, nextEvent), EventCount(grants, gs))
    BY DEF Update
  <1>3. Reconciles(grants, gs)
    BY <1>1 DEF Reconciles, GrantRecord
  <1>4. Told(Batch(grants, gs, nextEvent), gs)
    <2>1. gs \in [GrantIDs -> GrantRecord] /\ nextEvent \in Nat
      BY DEF Typed, IInv, EventsOK
    <2>2. \A g \in GrantIDs : grants[g].status # "absent" => gs[g].status # "absent"
      BY StoredStays
    <2> QED
      BY <2>1, <2>2, BatchTells
  <1> QED
    BY <1>1, <1>2, <1>3, <1>4, UpdateNumbered, SaveOK

\* A mutator that changes one grant and no use.
LEMMA OneGrantOK ==
  ASSUME IInv, NEW g \in GrantIDs, NEW grant \in GrantRecord,
         \/ /\ Opens(PreparedGrants[g], grant)
            /\ FindIdempotent(PreparedGrants, grant) = {}
         \/ /\ Lapses(PreparedGrants[g], grant) /\ grant.status # "absent"
            /\ grant.revision = PreparedGrants[g].revision,
         Counted(PreparedGrants[g], grant),
         GrantConsistent(grant, PreparedUses, g),
         Update([PreparedGrants EXCEPT ![g] = grant], PreparedUses)
  PROVE  StepOK
  <1> DEFINE gs == [PreparedGrants EXCEPT ![g] = grant]
  <1>1. /\ Typed(PreparedGrants, PreparedUses)
        /\ Consistent(PreparedGrants, PreparedUses)
        /\ PreparedUses \in [UseIDs -> UseRecord]
        /\ PreparedGrants \in [GrantIDs -> GrantRecord]
        /\ grants \in [GrantIDs -> GrantRecord]
    BY PreparedState DEF Typed, IInv
  <1>2. grant.status # "absent"
    BY DEF Opens
  <1>3. Typed(gs, PreparedUses) /\ Consistent(gs, PreparedUses)
    <2>1. OnlyUsesOf(g, PreparedUses, PreparedUses)
      BY DEF OnlyUsesOf
    <2> QED
      BY <1>1, <1>2, <2>1, OneGrantChanges
  <1>4. gs[g] = grant /\ \A h \in GrantIDs \ {g} : gs[h] = PreparedGrants[h]
    BY <1>1
  <1> HIDE DEF gs
  <1>5. Moves(PreparedGrants, PreparedUses, gs, PreparedUses)
    <2>1. \A h \in GrantIDs \ {g} : /\ Lapses(PreparedGrants[h], gs[h])
                                    /\ Counted(PreparedGrants[h], gs[h])
      BY <1>1, <1>4 DEF Lapses, SameTerms, Counted, GrantRecord
    <2>2. \A u \in UseIDs : UseKept(PreparedUses[u], PreparedUses[u])
      BY DEF UseKept
    <2> QED
      BY <1>4, <2>1, <2>2 DEF Moves
  <1>6. Moves(grants, uses, gs, PreparedUses)
    BY <1>5, PreparedMoves
  <1>7. ASSUME NEW h \in GrantIDs
        PROVE  \/ gs[h].revision = grants[h].revision
               \/ LifecycleKinds(grants[h], gs[h]) # <<>>
    <2>1. /\ PreparedGrants[h].revision = grants[h].revision
          /\ PreparedGrants[h].status = "absent" => grants[h].status = "absent"
      BY PreparedState DEF SameView
    <2>2. CASE h = g /\ Opens(PreparedGrants[g], grant)
      BY <1>4, <2>1, <2>2, NoKinds DEF Opens
    <2> QED
      BY <1>4, <2>1, <2>2
  <1> QED
    BY <1>3, <1>6, <1>7, UpdateOK DEF gs

(***************************************************************************)
(* The operations                                                          *)
(***************************************************************************)
\* A state moves to itself.
LEMMA Stays ==
  ASSUME NEW gs \in [GrantIDs -> GrantRecord], NEW us
  PROVE  Moves(gs, us, gs, us)
  BY DEF Moves, Counted, Lapses, SameTerms, UseKept, GrantRecord

LEMMA SweepOK ==
  ASSUME IInv, Update(PreparedGrants, PreparedUses)
  PROVE  StepOK
  <1>1. /\ Typed(PreparedGrants, PreparedUses)
        /\ Consistent(PreparedGrants, PreparedUses)
        /\ \A g \in GrantIDs : PreparedGrants[g].revision = grants[g].revision
    BY PreparedState DEF SameView
  <1>2. Moves(PreparedGrants, PreparedUses, PreparedGrants, PreparedUses)
    BY <1>1, Stays DEF Typed
  <1> QED
    BY <1>1, <1>2, PreparedMoves, UpdateOK

LEMMA SweepExpiryOK ==
  ASSUME IInv, SweepExpiry
  PROVE  StepOK
  <1>1. /\ Typed(grants, uses) /\ Consistent(grants, uses)
        /\ grants \in [GrantIDs -> GrantRecord]
    BY DEF IInv, Typed
  <1>2. Typed(ExpireDue(grants), uses) /\ Consistent(ExpireDue(grants), uses)
    BY <1>1, ExpireDuePreserves
  <1>3. Moves(grants, uses, ExpireDue(grants), uses)
    <2>1. \A g \in GrantIDs : /\ Lapses(grants[g], ExpireDue(grants)[g])
                              /\ Counted(grants[g], ExpireDue(grants)[g])
      BY <1>1, ExpireDueStep
        DEF Lapses, Closed, SameView, Counted, GrantRecord
    <2> QED
      BY <2>1 DEF Moves, UseKept
  <1>4. \A g \in GrantIDs : ExpireDue(grants)[g].revision = grants[g].revision
    BY <1>1, ExpireDueStep DEF SameView
  <1> QED
    BY <1>2, <1>3, <1>4, UpdateOK DEF SweepExpiry

\* A normalized request has a window and a limit, and the grant made of it
\* is pending.
LEMMA NewGrantStep ==
  ASSUME NEW req \in Requests, now \in Nat
  PROVE  LET norm == NormalizeRequest(req) IN
         /\ norm.duration \in Nat \ {0} /\ norm.pendingTimeout \in Nat \ {0}
         /\ norm.maxUses \in Nat
         /\ NewGrant(req) \in GrantRecord
         /\ NewGrant(req).status = "pending"
         /\ NewGrant(req).usedCount = 0 /\ NewGrant(req).reservedCount = 0
         /\ NewGrant(req).maxUses = norm.maxUses
         /\ NewGrant(req).requestedMaxUses = norm.maxUses
         /\ NewGrant(req).duration = norm.duration
         /\ NewGrant(req).expiresAt = 0
         /\ NewGrant(req).client = req.client /\ NewGrant(req).key = req.key
  <1> DEFINE norm == NormalizeRequest(req)
  <1>1. /\ norm.duration \in Nat \ {0} /\ norm.pendingTimeout \in Nat \ {0}
        /\ norm.maxUses \in Nat
    BY OptionsAssumption, RequestsAssumption
      DEF NormalizeRequest, Unspecified, SingleUse
  <1>2. now + norm.pendingTimeout \in Nat
    BY <1>1
  <1>3. /\ req.client \in Clients /\ req.operation \in Operations
        /\ req.key \in {r.key : r \in Requests}
        /\ (req.maxUses = Unspecified) \in BOOLEAN
    BY DEF Clients, Operations
  <1> HIDE DEF norm
  <1>4. NewGrant(req) =
          [status |-> "pending", revision |-> 0, client |-> req.client,
           key |-> req.key, operation |-> req.operation,
           pendingExpiresAt |-> now + norm.pendingTimeout, expiresAt |-> 0,
           duration |-> norm.duration, requestedDuration |-> norm.duration,
           pendingTimeout |-> norm.pendingTimeout, maxUses |-> norm.maxUses,
           requestedMaxUses |-> norm.maxUses,
           defaulted |-> (req.maxUses = Unspecified), usedCount |-> 0,
           useRevision |-> 0, reservedCount |-> 0, retained |-> FALSE,
           reservationRevision |-> 0, expiredFrom |-> "none"]
    BY DEF NewGrant, norm
  <1>5. NewGrant(req) \in GrantRecord
    BY <1>1, <1>2, <1>3, <1>4 DEF GrantRecord, Statuses
  <1> QED
    BY <1>1, <1>4, <1>5 DEF norm

LEMMA RequestOK ==
  ASSUME IInv, NEW req \in Requests, NEW g \in GrantIDs, Request(req, g)
  PROVE  StepOK
  <1> DEFINE norm == NormalizeRequest(req)
  <1>1. /\ PreparedGrants \in [GrantIDs -> GrantRecord] /\ now \in Nat
        /\ Consistent(PreparedGrants, PreparedUses)
    BY PreparedState DEF Typed, IInv
  <1>2. PreparedGrants[g].status = "absent"
    <2>1. g \notin Present(grants)
      BY OptionsAssumption DEF Request, FreeGrant, GrantIDs
    <2> QED
      BY <2>1, PreparedState DEF Present
  <1>3. norm.duration \in Nat \ {0} /\ norm.maxUses \in Nat
    BY <1>1, NewGrantStep
  <1>4. /\ NewGrant(req) \in GrantRecord
        /\ NewGrant(req).status = "pending"
        /\ NewGrant(req).usedCount = 0 /\ NewGrant(req).reservedCount = 0
        /\ NewGrant(req).maxUses = norm.maxUses
        /\ NewGrant(req).requestedMaxUses = norm.maxUses
        /\ NewGrant(req).duration = norm.duration
        /\ NewGrant(req).expiresAt = 0
        /\ NewGrant(req).client = req.client /\ NewGrant(req).key = req.key
    BY <1>1, NewGrantStep
  <1> HIDE DEF norm
  <1>5. GrantConsistent(NewGrant(req), PreparedUses, g)
    <2>1. GrantConsistent(PreparedGrants[g], PreparedUses, g)
      BY <1>1 DEF Consistent
    <2>2. Committed(PreparedUses, g) = {} /\ Open(PreparedUses, g) = {}
      BY <1>2, <2>1 DEF GrantConsistent, CanSettle
    <2> QED
      BY <1>3, <1>4, <2>2, FS_EmptySet DEF GrantConsistent, Unlimited
  <1>6. PreparedGrants[g].usedCount = 0
    <2>1. GrantConsistent(PreparedGrants[g], PreparedUses, g)
      BY <1>1 DEF Consistent
    <2> QED
      BY <1>2, <2>1, FS_EmptySet DEF GrantConsistent
  <1>7. Opens(PreparedGrants[g], NewGrant(req))
    BY <1>2, <1>3, <1>4 DEF Opens
  <1>8. Counted(PreparedGrants[g], NewGrant(req))
    BY <1>4, <1>6 DEF Counted
  <1>9. FindIdempotent(PreparedGrants, NewGrant(req)) = {}
    BY <1>4 DEF Request, FindIdempotent
  <1> QED
    BY <1>4, <1>5, <1>7, <1>8, <1>9, OneGrantOK DEF Request

LEMMA CloseOK ==
  ASSUME IInv, NEW g \in GrantIDs, NEW required, NEW next,
         \/ required = "active" /\ next = "revoked"
         \/ required = "pending" /\ next = "canceled",
         Close(g, required, next)
  PROVE  StepOK
  <1> DEFINE grant == [PreparedGrants[g] EXCEPT !.status = next]
  <1>1. /\ PreparedGrants \in [GrantIDs -> GrantRecord]
        /\ Consistent(PreparedGrants, PreparedUses)
    BY PreparedState DEF Typed
  <1>2. PreparedGrants[g].status = required
    BY DEF Close
  <1>3. /\ grant \in GrantRecord /\ grant.status = next
        /\ grant.usedCount = PreparedGrants[g].usedCount
        /\ grant.reservedCount = PreparedGrants[g].reservedCount
        /\ grant.revision = PreparedGrants[g].revision
        /\ SameTerms(PreparedGrants[g], grant)
        /\ grant.usedCount \in Nat
    BY <1>1 DEF GrantRecord, Statuses, SameTerms
  <1>4. GrantConsistent(grant, PreparedUses, g)
    <2>1. GrantConsistent(PreparedGrants[g], PreparedUses, g)
      BY <1>1 DEF Consistent
    <2> HIDE DEF grant
    <2> QED
      BY <1>2, <1>3, <2>1 DEF GrantConsistent, CanSettle, SameTerms
  <1>5. [PreparedGrants EXCEPT ![g].status = next]
          = [PreparedGrants EXCEPT ![g] = grant]
    BY <1>1
  <1>6. Update([PreparedGrants EXCEPT ![g] = grant], PreparedUses)
    BY <1>5 DEF Close
  <1> HIDE DEF grant
  <1>7. /\ Lapses(PreparedGrants[g], grant) /\ Counted(PreparedGrants[g], grant)
        /\ grant.status # "absent"
    BY <1>2, <1>3 DEF Lapses, Closed, Counted
  <1> QED
    BY <1>3, <1>4, <1>6, <1>7, OneGrantOK

\* Acquiring a use charges one more reservation, which the budget allows.
LEMMA ReserveUseOK ==
  ASSUME IInv, NEW g \in GrantIDs, NEW u \in UseIDs, NEW op \in Operations,
         ReserveUse(g, u, op)
  PROVE  StepOK
  <1> DEFINE pg == PreparedGrants
             pu == PreparedUses
             r == IF pu[u].state = "absent"
                  THEN [state |-> "reserved", grant |-> g, operation |-> op,
                        revision |-> 1, createdAt |-> now, updatedAt |-> now]
                  ELSE [pu[u] EXCEPT !.state = "reserved",
                                     !.revision = pu[u].revision + 1,
                                     !.updatedAt = now]
             us == [pu EXCEPT ![u] = r]
             counted == [pg[g] EXCEPT !.reservationRevision =
                                        pg[g].reservationRevision + 1]
             grant == Aggregate(counted, g, us)
  <1>1. /\ Typed(pg, pu) /\ Consistent(pg, pu) /\ now \in Nat
        /\ pg \in [GrantIDs -> GrantRecord] /\ pu \in [UseIDs -> UseRecord]
    BY PreparedState DEF IInv, Typed
  <1>2. /\ \/ pu[u].state = "absent"
           \/ /\ pu[u].state = "released" /\ pu[u].grant = g
              /\ pu[u].operation = op
        /\ CanUse(pg[g])
        /\ Update([pg EXCEPT ![g] = grant], us)
    BY DEF ReserveUse
  <1>3. /\ pg[g].status = "active" /\ now < pg[g].expiresAt
        /\ Allows(pg[g].maxUses, pg[g].usedCount, pg[g].reservedCount)
    BY <1>2 DEF CanUse
  <1> HIDE DEF pg, pu
  <1>4. r \in UseRecord /\ r.state = "reserved" /\ r.grant = g
        /\ (pu[u].state # "absent" => r.operation = pu[u].operation)
    <2>1. CASE pu[u].state = "absent"
      <3>1. r = [state |-> "reserved", grant |-> g, operation |-> op,
                 revision |-> 1, createdAt |-> now, updatedAt |-> now]
        BY <2>1
      <3> QED
        BY <1>1, <2>1, <3>1 DEF UseRecord, UseStates
    <2>2. CASE pu[u].state # "absent"
      <3>1. r = [pu[u] EXCEPT !.state = "reserved",
                              !.revision = pu[u].revision + 1,
                              !.updatedAt = now]
        BY <2>2
      <3>2. pu[u] \in UseRecord /\ pu[u].grant = g
        BY <1>1, <1>2, <2>2
      <3>3. pu[u].revision + 1 \in Nat
        BY <3>2 DEF UseRecord
      <3> QED
        BY <1>1, <3>1, <3>2, <3>3 DEF UseRecord, UseStates
    <2> QED
      BY <2>1, <2>2
  <1> HIDE DEF r
  <1>5. /\ us \in [UseIDs -> UseRecord] /\ us[u] = r
        /\ \A v \in UseIDs : v # u => us[v] = pu[v]
    BY <1>1, <1>4
  <1> HIDE DEF us
  <1>6. /\ Committed(us, g) = Committed(pu, g)
        /\ Open(us, g) = Open(pu, g) \cup {u} /\ u \notin Open(pu, g)
    BY <1>2, <1>4, <1>5 DEF Committed, Open
  <1>7. Cardinality(Open(us, g)) = Cardinality(Open(pu, g)) + 1
    BY <1>6, UsesFinite, FS_AddElement
  <1>8. /\ counted \in GrantRecord /\ counted.status = "active"
        /\ counted.revision = pg[g].revision /\ SameTerms(pg[g], counted)
    BY <1>1, <1>3 DEF GrantRecord, SameTerms
  <1> HIDE DEF counted
  <1>9. /\ grant \in GrantRecord /\ grant.status = "active"
        /\ grant.usedCount = Cardinality(Committed(us, g))
        /\ grant.reservedCount = Cardinality(Open(us, g))
        /\ grant.revision = pg[g].revision /\ SameTerms(pg[g], grant)
    BY <1>8, AggregateStep DEF SameTerms
  <1> HIDE DEF grant
  <1>10. GrantConsistent(grant, us, g)
    <2>1. GrantConsistent(pg[g], pu, g)
      BY <1>1 DEF Consistent
    <2>2. /\ pg[g].maxUses \in Nat /\ pg[g].usedCount \in Nat
          /\ pg[g].reservedCount \in Nat
      BY <1>1 DEF GrantRecord
    <2> QED
      BY <1>3, <1>6, <1>7, <1>9, <2>1, <2>2
        DEF GrantConsistent, CanSettle, Allows, Unlimited, SameTerms
  <1>11. OnlyUsesOf(g, pu, us)
    BY <1>2, <1>4, <1>5 DEF OnlyUsesOf
  <1> DEFINE gs == [pg EXCEPT ![g] = grant]
  <1>12. Typed(gs, us) /\ Consistent(gs, us)
    <2>1. grant.status # "absent"
      BY <1>9
    <2> QED
      BY <1>1, <1>5, <1>9, <1>10, <1>11, <2>1, OneGrantChanges
  <1>13. grant.usedCount = pg[g].usedCount
    <2>1. GrantConsistent(pg[g], pu, g)
      BY <1>1 DEF Consistent
    <2> QED
      BY <1>6, <1>9, <2>1 DEF GrantConsistent
  <1>14. gs[g] = grant /\ \A h \in GrantIDs \ {g} : gs[h] = pg[h]
    BY <1>1
  <1> HIDE DEF gs
  <1>15. Moves(pg, pu, gs, us)
    <2>1. \A h \in GrantIDs : Lapses(pg[h], gs[h]) /\ Counted(pg[h], gs[h])
      BY <1>1, <1>3, <1>9, <1>13, <1>14
        DEF Lapses, Counted, SameTerms, GrantRecord
    <2>2. Reserves(pg, pu[u], gs, us[u])
      BY <1>2, <1>3, <1>4, <1>5, <1>9, <1>14 DEF Reserves
    <2>3. \A v \in UseIDs \ {u} : UseKept(pu[v], us[v])
      BY <1>5 DEF UseKept
    <2> QED
      BY <2>1, <2>2, <2>3 DEF Moves
  <1>16. Moves(grants, uses, gs, us)
    BY <1>15, PreparedMoves DEF pg, pu
  <1>17. \A h \in GrantIDs : gs[h].revision = grants[h].revision
    BY <1>9, <1>14, PreparedState DEF SameView, pg
  <1> QED
    BY <1>2, <1>12, <1>16, <1>17, UpdateOK DEF gs

\* Settling a use moves its charge or drops it; a last commit consumes the
\* grant, and then no reservation is left to strand.
LEMMA SettleUseOK ==
  ASSUME IInv, NEW g \in GrantIDs, NEW u \in UseIDs,
         NEW target \in {"committed", "released", "retained"},
         SettleUse(g, u, target)
  PROVE  StepOK
  <1> DEFINE pg == PreparedGrants
             pu == PreparedUses
             r == [pu[u] EXCEPT !.state = target,
                                !.revision = pu[u].revision + 1,
                                !.updatedAt = now]
             us == [pu EXCEPT ![u] = r]
             counted == [pg[g] EXCEPT
                           !.reservationRevision = pg[g].reservationRevision + 1,
                           !.useRevision = IF target = "committed"
                                           THEN pg[g].useRevision + 1
                                           ELSE pg[g].useRevision]
             settled == Aggregate(counted, g, us)
             grant == Consume(settled)
  <1>1. /\ Typed(pg, pu) /\ Consistent(pg, pu) /\ now \in Nat
        /\ pg \in [GrantIDs -> GrantRecord] /\ pu \in [UseIDs -> UseRecord]
    BY PreparedState DEF IInv, Typed
  <1>2. /\ pu[u].state \in {"reserved", "retained"} \ {target}
        /\ pu[u].grant = g /\ CanSettle(pg[g].status)
        /\ Update([pg EXCEPT ![g] = grant], us)
    BY DEF SettleUse
  <1> HIDE DEF pg, pu
  <1>3. /\ r \in UseRecord /\ r.state = target /\ r.grant = g
        /\ r.operation = pu[u].operation
    <2>1. pu[u] \in UseRecord
      BY <1>1
    <2>2. pu[u].revision + 1 \in Nat
      BY <2>1 DEF UseRecord
    <2> QED
      BY <1>1, <1>2, <2>1, <2>2 DEF UseRecord, UseStates
  <1> HIDE DEF r
  <1>4. /\ us \in [UseIDs -> UseRecord] /\ us[u] = r
        /\ \A v \in UseIDs : v # u => us[v] = pu[v]
    BY <1>1, <1>3
  <1> HIDE DEF us
  <1> DEFINE used == Cardinality(Committed(pu, g))
             open == Cardinality(Open(pu, g))
  <1>5. used \in Nat /\ open \in Nat
    BY UsesFinite
  <1>6. /\ Cardinality(Committed(us, g)) \in Nat
        /\ Cardinality(Open(us, g)) \in Nat
        /\ Cardinality(Committed(us, g)) + Cardinality(Open(us, g)) <= used + open
        /\ Cardinality(Committed(us, g)) =
             IF target = "committed" THEN used + 1 ELSE used
    <2>1. u \in Open(pu, g) /\ u \notin Committed(pu, g)
      BY <1>2 DEF Open, Committed
    <2>2. CASE target = "committed"
      <3>1. /\ Committed(us, g) = Committed(pu, g) \cup {u}
            /\ Open(us, g) = Open(pu, g) \ {u}
        BY <1>2, <1>3, <1>4, <2>2 DEF Committed, Open
      <3>2. Cardinality(Committed(us, g)) = used + 1
        BY <2>1, <3>1, UsesFinite, FS_AddElement
      <3>3. Cardinality(Open(us, g)) = open - 1
        BY <2>1, <3>1, UsesFinite, FS_RemoveElement
      <3> QED
        BY <1>5, <2>2, <3>2, <3>3, UsesFinite
    <2>3. CASE target = "released"
      <3>1. /\ Committed(us, g) = Committed(pu, g)
            /\ Open(us, g) = Open(pu, g) \ {u}
        BY <1>2, <1>3, <1>4, <2>3 DEF Committed, Open
      <3>2. Cardinality(Open(us, g)) = open - 1
        BY <2>1, <3>1, UsesFinite, FS_RemoveElement
      <3> QED
        BY <1>5, <2>3, <3>1, <3>2, UsesFinite
    <2>4. CASE target = "retained"
      <3>1. /\ Committed(us, g) = Committed(pu, g)
            /\ Open(us, g) = Open(pu, g)
        BY <1>2, <1>3, <1>4, <2>4 DEF Committed, Open
      <3> QED
        BY <1>5, <2>4, <3>1
    <2> QED
      BY <2>2, <2>3, <2>4
  <1> HIDE DEF used, open
  <1>7. /\ counted \in GrantRecord /\ counted.status = pg[g].status
        /\ counted.revision = pg[g].revision /\ SameTerms(pg[g], counted)
    <2>1. /\ pg[g] \in GrantRecord
          /\ pg[g].useRevision \in Nat /\ pg[g].reservationRevision \in Nat
      BY <1>1 DEF GrantRecord
    <2> DEFINE n == IF target = "committed" THEN pg[g].useRevision + 1
                    ELSE pg[g].useRevision
               m == pg[g].reservationRevision + 1
    <2>2. n \in Nat /\ m \in Nat
      BY <2>1
    <2>3. counted = [pg[g] EXCEPT !.reservationRevision = m, !.useRevision = n]
      OBVIOUS
    <2> HIDE DEF n, m, counted
    <2> QED
      BY <2>1, <2>2, <2>3 DEF GrantRecord, SameTerms
  <1> HIDE DEF counted
  <1>8. /\ settled \in GrantRecord /\ settled.status = pg[g].status
        /\ settled.usedCount = Cardinality(Committed(us, g))
        /\ settled.reservedCount = Cardinality(Open(us, g))
        /\ settled.revision = pg[g].revision /\ SameTerms(pg[g], settled)
    BY <1>7, AggregateStep DEF SameTerms
  <1>9. /\ settled.maxUses # Unlimited =>
             settled.usedCount + settled.reservedCount <= settled.maxUses
        /\ settled.requestedMaxUses # Unlimited =>
             /\ settled.maxUses # Unlimited
             /\ settled.maxUses <= settled.requestedMaxUses
    <2>1. GrantConsistent(pg[g], pu, g)
      BY <1>1 DEF Consistent
    <2>2. /\ pg[g].maxUses \in Nat /\ pg[g].usedCount = used
          /\ pg[g].reservedCount = open
      BY <1>1, <2>1 DEF GrantConsistent, GrantRecord, used, open
    <2> QED
      BY <1>5, <1>6, <1>8, <2>1, <2>2 DEF GrantConsistent, SameTerms
  <1> HIDE DEF settled
  <1>10. /\ grant \in GrantRecord
         /\ grant.usedCount = settled.usedCount
         /\ grant.reservedCount = settled.reservedCount
         /\ grant.revision = settled.revision /\ SameTerms(settled, grant)
         /\ \/ grant.status = settled.status
            \/ /\ grant.status = "consumed" /\ settled.status # "revoked"
               /\ Exhausted(settled.maxUses, settled.usedCount)
    <2>1. CASE Exhausted(settled.maxUses, settled.usedCount)
               /\ settled.status # "revoked"
      <3>1. grant = [settled EXCEPT !.status = "consumed", !.expiredFrom = "none"]
        BY <2>1 DEF Consume
      <3> QED
        BY <1>8, <2>1, <3>1, ZenonT(60) DEF GrantRecord, Statuses, SameTerms
    <2>2. CASE ~(Exhausted(settled.maxUses, settled.usedCount)
                 /\ settled.status # "revoked")
      <3>1. grant = settled
        BY <2>2 DEF Consume
      <3> QED
        BY <1>8, <3>1 DEF SameTerms
    <2> QED
      BY <2>1, <2>2
  <1> HIDE DEF grant
  <1>11. GrantConsistent(grant, us, g)
    <2>1. grant.status = "consumed" => Open(us, g) = {}
      <3> SUFFICES ASSUME grant.status = "consumed" PROVE Open(us, g) = {}
        OBVIOUS
      <3>1. Exhausted(settled.maxUses, settled.usedCount)
        BY <1>2, <1>8, <1>10 DEF CanSettle
      <3>2. settled.maxUses \in Nat
        BY <1>8 DEF GrantRecord
      <3>3. Cardinality(Open(us, g)) = 0
        BY <1>6, <1>8, <1>9, <3>1, <3>2 DEF Exhausted, Unlimited
      <3> QED
        BY <3>3, UsesFinite, FS_EmptySet
    <2>2. CanSettle(grant.status) \/ grant.status = "consumed"
      BY <1>2, <1>8, <1>10
    <2>3. grant.status \notin {"absent", "pending"}
      BY <2>2 DEF CanSettle
    <2> QED
      BY <1>8, <1>9, <1>10, <2>1, <2>2, <2>3 DEF GrantConsistent, SameTerms
  <1>12. grant.status # "absent"
    BY <1>2, <1>8, <1>10 DEF CanSettle
  <1>13. OnlyUsesOf(g, pu, us)
    BY <1>2, <1>3, <1>4 DEF OnlyUsesOf
  <1> DEFINE gs == [pg EXCEPT ![g] = grant]
  <1>14. Typed(gs, us) /\ Consistent(gs, us)
    BY <1>1, <1>4, <1>10, <1>11, <1>12, <1>13, OneGrantChanges
  <1>15. gs[g] = grant /\ \A h \in GrantIDs \ {g} : gs[h] = pg[h]
    BY <1>1
  <1> HIDE DEF gs
  <1>16. Lapses(pg[g], grant)
    BY <1>2, <1>8, <1>10 DEF Lapses, SameTerms, CanSettle, Closed
  <1>17. Counted(pg[g], grant)
    <2>1. GrantConsistent(pg[g], pu, g)
      BY <1>1 DEF Consistent
    <2>2. /\ pg[g].usedCount = used
          /\ grant.usedCount = IF target = "committed" THEN used + 1 ELSE used
      BY <1>6, <1>8, <1>10, <2>1 DEF GrantConsistent, used
    <2>3. CASE target = "committed"
      BY <1>5, <2>2, <2>3 DEF Counted
    <2>4. CASE target # "committed"
      <3>1. grant.status # "consumed"
        <4> SUFFICES ASSUME grant.status = "consumed" PROVE FALSE
          OBVIOUS
        <4>1. Exhausted(settled.maxUses, settled.usedCount)
          BY <1>2, <1>8, <1>10 DEF CanSettle
        <4>2. settled.maxUses \in Nat /\ settled.usedCount = used
          BY <1>8, <1>10, <2>2, <2>4 DEF GrantRecord
        <4>3. u \in Open(pu, g)
          BY <1>2 DEF Open
        <4>4. open # 0
          BY <4>3, UsesFinite, FS_EmptySet DEF open
        <4>5. pg[g].maxUses = settled.maxUses /\ pg[g].reservedCount = open
          BY <1>8, <2>1 DEF SameTerms, GrantConsistent, open
        <4> QED
          BY <1>5, <2>1, <2>2, <4>1, <4>2, <4>4, <4>5
            DEF Exhausted, Unlimited, GrantConsistent
      <3> QED
        BY <1>5, <2>2, <2>4, <3>1 DEF Counted
    <2> QED
      BY <2>3, <2>4
  <1>18. Moves(pg, pu, gs, us)
    <2>1. \A h \in GrantIDs : Lapses(pg[h], gs[h]) /\ Counted(pg[h], gs[h])
      BY <1>1, <1>15, <1>16, <1>17 DEF Lapses, Counted, SameTerms, GrantRecord
    <2>2. \A v \in UseIDs \ {u} : UseKept(pu[v], us[v])
      BY <1>4 DEF UseKept
    <2>3. Settles(pu[u], us[u]) \/ UseKept(pu[u], us[u])
      BY <1>2, <1>3, <1>4 DEF Settles, UseKept
    <2> QED
      BY <2>1, <2>2, <2>3 DEF Moves
  <1>19. Moves(grants, uses, gs, us)
    BY <1>18, PreparedMoves DEF pg, pu
  <1>20. \A h \in GrantIDs : gs[h].revision = grants[h].revision
    BY <1>8, <1>10, <1>15, PreparedState DEF SameView, pg
  <1> QED
    BY <1>2, <1>14, <1>19, <1>20, UpdateOK DEF gs

\* Two consecutive batches are one batch.
LEMMA ConcatenationNumbered ==
  ASSUME IInv, NEW b, NEW m \in Nat, Numbered(b, m), NEW before, NEW after
  PROVE  /\ m + EventCount(before, after) \in Nat
         /\ Numbered(b \cup Batch(before, after, nextEvent + m),
                     m + EventCount(before, after))
  <1> DEFINE n == EventCount(before, after)
             c == Batch(before, after, nextEvent + m)
  <1>1. nextEvent \in Nat /\ nextEvent + m \in Nat
    BY DEF IInv, EventsOK
  <1>2. n \in Nat
        /\ \A e \in c : /\ e.grant \in GrantIDs
                        /\ e.seq \in (nextEvent + m) .. (nextEvent + m + n - 1)
    BY <1>1, BatchNumbered
  <1>3. n > 0 => \E e \in c : e.seq = nextEvent + m + n - 1
    BY <1>1, BatchNumbered
  <1> HIDE DEF n, c
  <1>4. \A e \in b \cup c : /\ e.grant \in GrantIDs
                            /\ e.seq \in nextEvent .. (nextEvent + (m + n) - 1)
    BY <1>1, <1>2 DEF Numbered
  <1>5. m + n > 0 => \E e \in b \cup c : e.seq = nextEvent + (m + n) - 1
    <2>1. CASE n > 0
      BY <1>1, <1>2, <1>3, <2>1
    <2>2. CASE n = 0
      BY <1>1, <2>2 DEF Numbered
    <2> QED
      BY <1>2, <2>1, <2>2
  <1>6. Numbered(b \cup c, m + n)
    BY <1>4, <1>5 DEF Numbered
  <1> QED
    BY <1>2, <1>6 DEF n, c

\* ... which reports what the second of them reconciles, if every event of
\* the first does so or is followed by one of the second.
LEMMA ConcatenationReported ==
  ASSUME IInv, NEW b, NEW m \in Nat, Numbered(b, m), NEW before, NEW after,
         \A e \in b :
           \/ LifecycleKinds(before[e.grant], after[e.grant]) # <<>>
           \/ e = Event(e.seq, e.kind, e.grant,
                        Bump(before[e.grant], after[e.grant]))
  PROVE  Reported(b \cup Batch(before, after, nextEvent + m), before, after)
  <1> DEFINE c == Batch(before, after, nextEvent + m)
  <1>1. nextEvent \in Nat /\ nextEvent + m \in Nat
    BY DEF IInv, EventsOK
  <1>2. \A g \in GrantIDs :
          /\ LifecycleKinds(before[g], after[g]) # <<>> <=> \E e \in c : e.grant = g
          /\ \A e \in c : e.grant = g =>
               e = Event(e.seq, e.kind, g, Bump(before[g], after[g]))
    BY <1>1, BatchReports
  <1>3. /\ EventCount(before, after) \in Nat
        /\ \A e \in c : e.seq \in (nextEvent + m)
                              .. (nextEvent + m + EventCount(before, after) - 1)
    BY <1>1, BatchNumbered
  <1> HIDE DEF c
  <1>4. ASSUME NEW g \in GrantIDs, NEW e \in b \cup c, e.grant = g,
               \A f \in b \cup c : f.grant = g => f.seq <= e.seq
        PROVE  e = Event(e.seq, e.kind, g, Bump(before[g], after[g]))
    <2>1. CASE e \in c
      BY <1>2, <1>4, <2>1
    <2>2. CASE e \in b
      <3>1. \A f \in c : f.grant # g
        BY <1>1, <1>3, <1>4, <2>2 DEF Numbered
      <3>2. LifecycleKinds(before[g], after[g]) = <<>>
        BY <1>2, <3>1
      <3> QED
        BY <1>4, <2>2, <3>2
    <2> QED
      BY <1>4, <2>1, <2>2
  <1> QED
    BY <1>2, <1>4 DEF Reported, c

LEMMA RecordExecutionOK ==
  ASSUME IInv, NEW g \in GrantIDs, NEW kind, RecordExecution(g, kind)
  PROVE  StepOK
  <1> DEFINE first == {Event(nextEvent, kind, g, PreparedGrants[g])}
  <1>1. /\ grants \in [GrantIDs -> GrantRecord] /\ nextEvent \in Nat
    BY DEF IInv, Typed, EventsOK
  <1>2. /\ Typed(PreparedGrants, PreparedUses)
        /\ Consistent(PreparedGrants, PreparedUses)
        /\ \A h \in GrantIDs : PreparedGrants[h].revision = grants[h].revision
    BY PreparedState DEF SameView
  <1>3. Moves(grants, uses, PreparedGrants, PreparedUses)
    <2>1. Moves(PreparedGrants, PreparedUses, PreparedGrants, PreparedUses)
      BY <1>2, Stays DEF Typed
    <2> QED
      BY <2>1, PreparedMoves
  <1>4. Numbered(first, 1)
    BY <1>1 DEF Numbered, Event
  <1>5. \A e \in first :
          \/ LifecycleKinds(grants[e.grant], PreparedGrants[e.grant]) # <<>>
          \/ e = Event(e.seq, e.kind, e.grant,
                       Bump(grants[e.grant], PreparedGrants[e.grant]))
    BY DEF Event, Bump
  <1>6. /\ grants' = Bumped(grants, PreparedGrants) /\ uses' = PreparedUses
        /\ now' = now
        /\ Log(first \cup Batch(grants, PreparedGrants, nextEvent + 1),
               1 + EventCount(grants, PreparedGrants))
    BY DEF RecordExecution
  <1> HIDE DEF first
  <1>7. /\ 1 + EventCount(grants, PreparedGrants) \in Nat
        /\ Numbered(first \cup Batch(grants, PreparedGrants, nextEvent + 1),
                    1 + EventCount(grants, PreparedGrants))
    BY <1>4, ConcatenationNumbered
  <1>8. Reported(first \cup Batch(grants, PreparedGrants, nextEvent + 1),
                 grants, PreparedGrants)
    BY <1>4, <1>5, ConcatenationReported
  <1>9. Reconciles(grants, PreparedGrants)
    <2>1. \A h \in GrantIDs : grants[h].revision \in Nat
      BY <1>1 DEF GrantRecord
    <2> QED
      BY <1>2, <2>1 DEF Reconciles
  <1>10. Told(first \cup Batch(grants, PreparedGrants, nextEvent + 1),
              PreparedGrants)
    <2>1. \A h \in GrantIDs :
            grants[h].status # "absent" => PreparedGrants[h].status # "absent"
      BY <1>3, StoredStays
    <2>2. Told(first, PreparedGrants)
      <3>1. grants[g].status # "absent"
        BY DEF RecordExecution, Present
      <3> QED
        BY <2>1, <3>1 DEF Told, Tells, first, Event
    <2>3. PreparedGrants \in [GrantIDs -> GrantRecord] /\ nextEvent + 1 \in Nat
      BY <1>1, <1>2 DEF Typed
    <2>4. Told(Batch(grants, PreparedGrants, nextEvent + 1), PreparedGrants)
      BY <2>1, <2>3, BatchTells
    <2> QED
      BY <2>2, <2>4 DEF Told
  <1> QED
    BY <1>1, <1>2, <1>3, <1>6, <1>7, <1>8, <1>9, <1>10, SaveOK

\* A committed decision keeps the budget: an approval may narrow the limit
\* only before any use exists, and a denial, a failed activation and a
\* revocation leave no reservation that cannot settle.
LEMMA DecisionOutcome ==
  ASSUME NEW grant \in GrantRecord, NEW us, NEW g, GrantConsistent(grant, us, g),
         NEW action \in {"approve", "deny", "revoke"}, NEW c \in Constraints,
         now \in Nat, NEW updated \in DecisionOutcomes(grant, action, c)
  PROVE  /\ updated \in GrantRecord /\ GrantConsistent(updated, us, g)
         /\ grant.status \in {"pending", "active"}
         /\ updated.status \in {"active", "failed", "denied", "revoked"}
         /\ updated.status # grant.status
         /\ Lapses(grant, updated) \/ Approves(grant, updated)
         /\ updated.usedCount = grant.usedCount
         /\ IF action = "revoke"
            THEN grant.status = "active" /\ updated.status = "revoked"
            ELSE grant.status = "pending"
  <1>1. CASE action = "approve"
    <2>1. /\ grant.status = "pending" /\ ValidConstraint(c, grant)
          /\ \/ updated = Approved(grant, c)
             \/ updated = [grant EXCEPT !.status = "failed"]
      BY <1>1 DEF DecisionOutcomes
    <2>2. Committed(us, g) = {} /\ Open(us, g) = {}
      BY <2>1 DEF GrantConsistent, CanSettle
    <2>3. CASE updated = Approved(grant, c)
      <3> DEFINE d == IF c.duration > 0 THEN c.duration ELSE grant.duration
                 m == IF c.maxUses = Unspecified THEN grant.maxUses ELSE c.maxUses
      <3>1. updated = [grant EXCEPT !.status = "active", !.duration = d,
                                    !.expiresAt = now + d, !.maxUses = m]
        BY <2>3 DEF Approved
      <3>2. d \in Nat /\ m \in Nat /\ now + d \in Nat
        BY ConstraintsAssumption DEF GrantRecord, Unspecified
      <3>3. grant.requestedMaxUses # Unlimited =>
              m # Unlimited /\ m <= grant.requestedMaxUses
        BY <2>1, ConstraintsAssumption
          DEF ValidConstraint, GrantConsistent, GrantRecord, Unlimited, Unspecified
      <3> HIDE DEF d, m
      <3>4. /\ updated \in GrantRecord /\ updated.status = "active"
            /\ updated.maxUses = m
            /\ updated.requestedMaxUses = grant.requestedMaxUses
            /\ updated.usedCount = grant.usedCount
            /\ updated.reservedCount = grant.reservedCount
            /\ updated.client = grant.client /\ updated.key = grant.key
            /\ updated.expiresAt = now + d
        BY <3>1, <3>2 DEF GrantRecord, Statuses
      <3>5. updated.usedCount = 0 /\ updated.reservedCount = 0
        BY <2>2, <3>4, FS_EmptySet DEF GrantConsistent
      <3>6. GrantConsistent(updated, us, g)
        BY <2>2, <3>2, <3>3, <3>4, <3>5, FS_EmptySet DEF GrantConsistent
      <3>7. grant.duration > 0 => d > 0
        BY DEF d
      <3>8. Approves(grant, updated)
        BY <2>1, <3>2, <3>4, <3>7 DEF Approves
      <3> QED
        BY <1>1, <2>1, <3>4, <3>6, <3>8
    <2>4. CASE updated = [grant EXCEPT !.status = "failed"]
      <3>1. /\ updated \in GrantRecord /\ updated.status = "failed"
            /\ SameTerms(grant, updated)
            /\ updated.usedCount = grant.usedCount
            /\ updated.reservedCount = grant.reservedCount
        BY <2>4 DEF GrantRecord, Statuses, SameTerms
      <3> QED
        BY <1>1, <2>1, <2>2, <3>1 DEF GrantConsistent, SameTerms, Lapses, Closed
    <2> QED
      BY <1>1, <2>1, <2>3, <2>4
  <1>2. CASE action = "deny"
    <2>1. /\ grant.status = "pending"
          /\ updated = [grant EXCEPT !.status = "denied"]
      BY <1>2 DEF DecisionOutcomes
    <2>2. /\ updated \in GrantRecord /\ updated.status = "denied"
          /\ SameTerms(grant, updated)
          /\ updated.usedCount = grant.usedCount
          /\ updated.reservedCount = grant.reservedCount
      BY <2>1 DEF GrantRecord, Statuses, SameTerms
    <2> QED
      BY <1>2, <2>1, <2>2 DEF GrantConsistent, CanSettle, SameTerms, Lapses, Closed
  <1>3. CASE action = "revoke"
    <2>1. /\ grant.status = "active"
          /\ updated = [grant EXCEPT !.status = "revoked"]
      BY <1>3 DEF DecisionOutcomes
    <2>2. /\ updated \in GrantRecord /\ updated.status = "revoked"
          /\ SameTerms(grant, updated)
          /\ updated.usedCount = grant.usedCount
          /\ updated.reservedCount = grant.reservedCount
      BY <2>1 DEF GrantRecord, Statuses, SameTerms
    <2> QED
      BY <1>3, <2>1, <2>2 DEF GrantConsistent, CanSettle, SameTerms, Lapses, Closed
  <1> QED
    BY <1>1, <1>2, <1>3

\* Which events a change is reported by does not depend on revisions.
LEMMA KindsIgnoreRevision ==
  ASSUME NEW before, NEW after \in GrantRecord, NEW x \in GrantRecord
  PROVE  LifecycleKinds(before, Bump(x, after)) = LifecycleKinds(before, after)
  <1>1. CASE Bump(x, after) = after
    BY <1>1
  <1>2. CASE Bump(x, after) = [after EXCEPT !.revision = x.revision + 1]
    <2> DEFINE new == [after EXCEPT !.revision = x.revision + 1]
    <2>1. /\ new.status = after.status /\ new.usedCount = after.usedCount
          /\ new.reservedCount = after.reservedCount
          /\ new.retained = after.retained
      BY DEF GrantRecord
    <2> HIDE DEF new
    <2>2. LifecycleKinds(before, new) = LifecycleKinds(before, after)
      BY <2>1 DEF LifecycleKinds
    <2> QED
      BY <1>2, <2>2 DEF new
  <1> QED
    BY <1>1, <1>2 DEF Bump

\* A decision on g is recorded with the status it gives the grant.
Recorded(g, action) ==
  \E d : /\ decisions' = decisions \cup {d} /\ d.grant = g /\ d.action = action
         /\ grants'[g].status = d.result
         /\ d.result \notin {"absent", "pending"}
         /\ IF action = "revoke"
            THEN grants[g].status = "active" /\ Closed(d.result)
            ELSE grants[g].status = "pending"

LEMMA ApplyOperatorDecisionOK ==
  ASSUME IInv, NEW g \in GrantIDs, NEW action \in {"approve", "deny", "revoke"},
         NEW key, NEW expected, NEW c \in Constraints,
         ApplyOperatorDecision(g, action, key, expected, c)
  PROVE  StepOK /\ Recorded(g, action)
  <1> DEFINE pg == PreparedGrants
             pu == PreparedUses
             prepared == Bumped(grants, pg)
             count == EventCount(grants, pg)
             before == IF pg # grants \/ pu # uses
                       THEN [grants EXCEPT ![g] = prepared[g]] ELSE grants
             first == Batch(grants, pg, nextEvent)
  <1>1. /\ grants \in [GrantIDs -> GrantRecord] /\ now \in Nat
        /\ Typed(pg, pu) /\ Consistent(pg, pu) /\ pu \in [UseIDs -> UseRecord]
    BY PreparedState DEF IInv, Typed
  <1>2. PICK updated \in DecisionOutcomes(prepared[g], action, c) :
          LET decided == [prepared EXCEPT ![g] = updated] IN
          /\ grants' = Bumped(before, decided)
          /\ Log(first \cup Batch(before, decided, nextEvent + count),
                 count + EventCount(before, decided))
          /\ decisions' = decisions \cup
               {[grant |-> g, action |-> action, key |-> key,
                 expected |-> expected, result |-> updated.status]}
    BY DEF ApplyOperatorDecision
  <1>3. uses' = pu /\ now' = now
    BY DEF ApplyOperatorDecision
  <1>4. /\ count \in Nat /\ Numbered(first, count)
        /\ \A e \in first : LifecycleKinds(grants[e.grant], pg[e.grant]) # <<>>
    <2>1. nextEvent \in Nat
      BY DEF IInv, EventsOK
    <2> QED
      BY <2>1, UpdateNumbered, BatchReports DEF Numbered
  <1>5. \A h \in GrantIDs : pg[h].revision = grants[h].revision
    BY PreparedState DEF SameView
  <1> HIDE DEF pg, pu
  <1>6. /\ Typed(prepared, pu) /\ Consistent(prepared, pu)
        /\ \A h \in GrantIDs : /\ prepared[h].status = pg[h].status
                               /\ prepared[h].usedCount = pg[h].usedCount
                               /\ SameTerms(pg[h], prepared[h])
    BY <1>1, BumpedPreserves
  <1>7. \A h \in GrantIDs :
           /\ prepared[h] = Bump(grants[h], pg[h])
           /\ pg[h] \in GrantRecord /\ grants[h] \in GrantRecord
           /\ LifecycleKinds(grants[h], prepared[h]) =
                LifecycleKinds(grants[h], pg[h])
    BY <1>1, KindsIgnoreRevision DEF Bumped, Typed
  <1>8. \A h \in GrantIDs : prepared[h].revision >= grants[h].revision
    <2> TAKE h \in GrantIDs
    <2>1. /\ pg[h].revision = grants[h].revision /\ grants[h].revision \in Nat
          /\ pg[h] \in GrantRecord /\ prepared[h] = Bump(grants[h], pg[h])
      BY <1>5, <1>7 DEF GrantRecord
    <2>2. \/ Bump(grants[h], pg[h]) = pg[h]
          \/ Bump(grants[h], pg[h]) =
               [pg[h] EXCEPT !.revision = grants[h].revision + 1]
      BY DEF Bump
    <2> QED
      BY <2>1, <2>2 DEF GrantRecord
  <1>9. prepared \in [GrantIDs -> GrantRecord]
    BY <1>6 DEF Typed
  <1> HIDE DEF prepared
  <1>10. /\ before \in [GrantIDs -> GrantRecord]
         /\ \A h \in GrantIDs \ {g} : before[h] = grants[h]
         /\ before[g].status = pg[g].status
         /\ before[g].revision >= grants[g].revision
    BY <1>1, <1>6, <1>8, <1>9 DEF GrantRecord
  <1> HIDE DEF before, first, count
  <1>11. /\ updated \in GrantRecord /\ GrantConsistent(updated, pu, g)
         /\ pg[g].status \in {"pending", "active"}
         /\ updated.status \in {"active", "failed", "denied", "revoked"}
         /\ updated.status # pg[g].status
         /\ Lapses(prepared[g], updated) \/ Approves(prepared[g], updated)
         /\ updated.usedCount = prepared[g].usedCount
         /\ IF action = "revoke"
            THEN pg[g].status = "active" /\ updated.status = "revoked"
            ELSE pg[g].status = "pending"
    <2>1. prepared[g] \in GrantRecord /\ GrantConsistent(prepared[g], pu, g)
      BY <1>6, <1>9 DEF Consistent
    <2> QED
      BY <1>1, <1>6, <2>1, DecisionOutcome
  <1> DEFINE decided == [prepared EXCEPT ![g] = updated]
  <1>12. Typed(decided, pu) /\ Consistent(decided, pu)
    <2>1. OnlyUsesOf(g, pu, pu) /\ updated.status # "absent"
      BY <1>11 DEF OnlyUsesOf
    <2> QED
      BY <1>1, <1>6, <1>11, <2>1, OneGrantChanges
  <1>13. decided[g] = updated /\ \A h \in GrantIDs \ {g} : decided[h] = prepared[h]
    BY <1>9
  <1>14. /\ grants' = Bumped(before, decided)
         /\ Log(first \cup Batch(before, decided, nextEvent + count),
                count + EventCount(before, decided))
    BY <1>2
  <1> HIDE DEF decided
  <1>15. Moves(grants, uses, decided, pu)
    <2>1. \A h \in GrantIDs \ {g} : Lapses(pg[h], decided[h])
      BY <1>6, <1>13 DEF Lapses
    <2>2. Lapses(pg[g], decided[g]) \/ Approves(pg[g], decided[g])
      BY <1>6, <1>11, <1>13 DEF Lapses, Approves, SameTerms
    <2>3. \A h \in GrantIDs : Counted(pg[h], decided[h])
      BY <1>6, <1>7, <1>11, <1>13 DEF Counted, GrantRecord
    <2>4. \A u \in UseIDs : UseKept(pu[u], pu[u])
      BY DEF UseKept
    <2>5. Moves(pg, pu, decided, pu)
      BY <2>1, <2>2, <2>3, <2>4 DEF Moves
    <2> QED
      BY <2>5, PreparedMoves DEF pg, pu
  <1>16. /\ count + EventCount(before, decided) \in Nat
         /\ Numbered(first \cup Batch(before, decided, nextEvent + count),
                     count + EventCount(before, decided))
    BY <1>4, ConcatenationNumbered
  <1>17. LifecycleKinds(before[g], decided[g]) # <<>>
    BY <1>10, <1>11, <1>13, NoKinds DEF StatusEvent
  <1>18. \A h \in GrantIDs \ {g} :
           LifecycleKinds(before[h], decided[h]) = LifecycleKinds(grants[h], pg[h])
    BY <1>7, <1>10, <1>13
  <1>19. Reconciles(before, decided)
    <2>1. ASSUME NEW h \in GrantIDs \ {g},
                 LifecycleKinds(before[h], decided[h]) = <<>>
          PROVE  before[h] = grants[h] /\ decided[h].revision = grants[h].revision
      BY <1>5, <1>7, <1>10, <1>13, <1>18, <2>1 DEF Bump
    <2>2. \A h \in GrantIDs : before[h].revision >= grants[h].revision
      BY <1>7, <1>10 DEF GrantRecord
    <2> QED
      BY <1>17, <2>1, <2>2 DEF Reconciles
  <1>20. Reported(first \cup Batch(before, decided, nextEvent + count),
                  before, decided)
    <2>1. \A e \in first :
            LifecycleKinds(before[e.grant], decided[e.grant]) # <<>>
      BY <1>4, <1>17, <1>18 DEF Numbered
    <2> QED
      BY <1>4, <2>1, ConcatenationReported
  <1>21. Told(first \cup Batch(before, decided, nextEvent + count), decided)
    <2>1. nextEvent \in Nat /\ nextEvent + count \in Nat
      BY <1>4 DEF IInv, EventsOK
    <2>2. \A h \in GrantIDs :
            /\ decided[h].status = pg[h].status \/ h = g
            /\ grants[h].status # "absent" => pg[h].status # "absent"
      <3>1. Moves(grants, uses, pg, pu)
        BY <1>1, Stays, PreparedMoves DEF Typed, pg, pu
      <3> QED
        BY <1>6, <1>13, <3>1, StoredStays
    <2>3. decided[g].status \notin {"absent", "pending"}
      BY <1>11, <1>13
    <2>4. Told(first, decided)
      <3>1. pg \in [GrantIDs -> GrantRecord]
        BY <1>1 DEF Typed
      <3>2. Told(first, pg)
        BY <2>1, <2>2, <3>1, BatchTells DEF first
      <3>3. \A e \in first : e.grant \in GrantIDs
        BY <1>4 DEF Numbered
      <3> QED
        BY <2>2, <2>3, <3>2, <3>3 DEF Told, Tells
    <2>5. \A h \in GrantIDs :
            before[h].status # "absent" => decided[h].status # "absent"
      BY <1>10, <2>2, <2>3
    <2>6. decided \in [GrantIDs -> GrantRecord]
      BY <1>12 DEF Typed
    <2>7. Told(Batch(before, decided, nextEvent + count), decided)
      BY <2>1, <2>5, <2>6, BatchTells
    <2> QED
      BY <2>4, <2>7 DEF Told
  <1>22. StepOK
    BY <1>3, <1>10, <1>12, <1>14, <1>15, <1>16, <1>19, <1>20, <1>21, SaveOK
  <1>23. Recorded(g, action)
    <2> DEFINE d == [grant |-> g, action |-> action, key |-> key,
                     expected |-> expected, result |-> updated.status]
    <2>1. decisions' = decisions \cup {d}
      BY <1>2
    <2>2. d.grant = g /\ d.action = action /\ d.result = updated.status
      OBVIOUS
    <2> HIDE DEF d
    <2>3. grants'[g].status = updated.status
      BY <1>10, <1>12, <1>13, <1>14, BumpedPreserves
    <2>4. pg[g].status \in {"pending", "active"} => grants[g].status = pg[g].status
      BY PreparedState DEF pg
    <2> QED
      BY <1>11, <2>1, <2>2, <2>3, <2>4 DEF Recorded, Closed
  <1> QED
    BY <1>22, <1>23

(***************************************************************************)
(* The theorems                                                            *)
(***************************************************************************)
LEMMA InitOK == Init => IInv
  <1> SUFFICES ASSUME Init PROVE IInv
    OBVIOUS
  <1>1. /\ now = 0 /\ events = {} /\ nextEvent = 1
        /\ grants = [g \in GrantIDs |-> NoGrant]
        /\ uses = [u \in UseIDs |-> NoUse]
    BY DEF Init
  <1>2. NoGrant \in GrantRecord /\ NoUse \in UseRecord
    BY DEF NoGrant, NoUse, GrantRecord, UseRecord
  <1>3. Typed(grants, uses)
    BY <1>1, <1>2 DEF Typed, NoUse
  <1>4. ASSUME NEW g \in GrantIDs PROVE GrantConsistent(grants[g], uses, g)
    <2>1. Committed(uses, g) = {} /\ Open(uses, g) = {}
      BY <1>1 DEF Committed, Open, NoUse
    <2> QED
      BY <1>1, <2>1, FS_EmptySet DEF GrantConsistent, NoGrant, Unlimited
  <1>5. now \in Nat /\ EventsOK
    BY <1>1 DEF EventsOK
  <1> QED
    BY <1>3, <1>4, <1>5 DEF IInv, Consistent

LEMMA UnchangedOK ==
  ASSUME IInv, now' \in Nat, UNCHANGED <<grants, uses, events, nextEvent>>
  PROVE  StepOK
  <1>1. Typed(grants', uses')
    BY DEF IInv
  <1>2. Consistent(grants', uses')
    BY DEF IInv
  <1>3. EventsOK'
    BY DEF IInv, EventsOK
  <1>4. IInv'
    BY <1>1, <1>2, <1>3
      DEF IInv, Typed, Consistent, GrantConsistent, Present, Committed, Open
  <1>5. Moves(grants, uses, grants', uses')
    BY Stays DEF IInv, Typed
  <1>6. RevisionStep /\ (LogCurrent => LogCurrent')
    BY DEF RevisionStep, LogCurrent, Present, Event
  <1>7. \A g \in GrantIDs : grants'[g].revision >= grants[g].revision
    BY DEF IInv, Typed, GrantRecord
  <1>8. LogStep
    BY DEF LogStep, Newest, IInv, EventsOK
  <1> QED
    BY <1>4, <1>5, <1>6, <1>7, <1>8 DEF StepOK

\* Every step of the store, one case for each operation.
LEMMA NextOK ==
  ASSUME IInv, Next
  PROVE  StepOK
  <1>1. CASE Tick
    <2>1. now' \in Nat /\ UNCHANGED <<grants, uses, events, nextEvent>>
      BY <1>1 DEF Tick, Readings, IInv
    <2> QED
      BY <2>1, UnchangedOK
  <1>2. CASE Sweep \/ ReconcileDue
    BY <1>2, SweepOK DEF Sweep, ReconcileDue
  <1>3. CASE SweepExpiry
    BY <1>3, SweepExpiryOK
  <1>4. CASE \E req \in Requests, g \in GrantIDs : Request(req, g)
    BY <1>4, RequestOK
  <1>5. CASE \E g \in GrantIDs, u \in UseIDs :
               \/ \E op \in Operations : ReserveUse(g, u, op)
               \/ CommitUse(g, u) \/ ReleaseUse(g, u) \/ RetainUse(g, u)
    BY <1>5, ReserveUseOK, SettleUseOK DEF CommitUse, ReleaseUse, RetainUse
  <1>6. CASE \E g \in GrantIDs :
               \/ Revoke(g)
               \/ \E client \in Clients :
                    CancelForClient(g, client) \/ RevokeForClient(g, client)
    BY <1>6, CloseOK DEF Revoke, CancelForClient, RevokeForClient
  <1>7. CASE \E g \in GrantIDs :
               \E kind \in {"execution.succeeded", "execution.failed",
                            "execution.ambiguous"} : RecordExecution(g, kind)
    BY <1>7, RecordExecutionOK
  <1>8. CASE \E g \in GrantIDs :
               \E action \in {"approve", "deny", "revoke"}, key \in DecisionKeys,
                  expected \in 1 .. (grants[g].revision + 1), c \in Constraints :
                 ApplyOperatorDecision(g, action, key, expected, c)
    BY <1>8, ApplyOperatorDecisionOK
  <1> QED
    BY <1>1, <1>2, <1>3, <1>4, <1>5, <1>6, <1>7, <1>8 DEF Next

LEMMA BoxNextOK ==
  ASSUME IInv, [Next]_vars
  PROVE  StepOK
  <1>1. CASE UNCHANGED vars
    BY <1>1, UnchangedOK DEF vars, IInv
  <1> QED
    BY <1>1, NextOK

\* The inductive invariant holds in every reachable state.
THEOREM Invariance == Spec => []IInv
  <1>1. Init => IInv
    BY InitOK
  <1>2. IInv /\ [Next]_vars => IInv'
    BY BoxNextOK DEF StepOK
  <1> QED
    BY <1>1, <1>2, PTL DEF Spec

\* The stored records stay well typed, every use names a stored grant and
\* every event carries a sequence number already given out.
THEOREM TypeCorrectness == Spec => []TypeOK
  <1>1. IInv => TypeOK
    BY DEF IInv, Typed, EventsOK, TypeOK
  <1> QED
    BY <1>1, Invariance, PTL

\* The uses charged to a grant never exceed the approved or the requested
\* limit, for any interleaving of reservations, settlements, expiry and
\* decisions and for a clock that may step back.
THEOREM Budget == Spec => []BudgetRespected
  <1>1. IInv => BudgetRespected
    <2> SUFFICES ASSUME IInv, NEW g \in Present(grants)
                 PROVE  LET charged == Cardinality(Committed(uses, g))
                                       + Cardinality(Open(uses, g))
                        IN  /\ grants[g].maxUses # Unlimited =>
                                 charged <= grants[g].maxUses
                            /\ grants[g].requestedMaxUses # Unlimited =>
                                 charged <= grants[g].requestedMaxUses
      BY DEF BudgetRespected
    <2>1. g \in GrantIDs
      BY DEF Present
    <2>2. GrantConsistent(grants[g], uses, g) /\ grants[g] \in GrantRecord
      BY <2>1 DEF IInv, Consistent, Typed
    <2>3. /\ Cardinality(Committed(uses, g)) \in Nat
          /\ Cardinality(Open(uses, g)) \in Nat
      BY UsesFinite
    <2>4. grants[g].maxUses \in Nat /\ grants[g].requestedMaxUses \in Nat
      BY <2>2 DEF GrantRecord
    <2> QED
      BY <2>2, <2>3, <2>4 DEF GrantConsistent
  <1> QED
    BY <1>1, Invariance, PTL

\* A use whose result may be unknown always belongs to a grant that lets it
\* settle: no expiry, revocation or last commit strands it.
THEOREM NoStranding == Spec => []NoStrandedReservation
  <1>1. IInv => NoStrandedReservation
    <2> SUFFICES ASSUME IInv, NEW u \in UseIDs,
                        uses[u].state \in {"reserved", "retained"}
                 PROVE  CanSettle(grants[uses[u].grant].status)
      BY DEF NoStrandedReservation
    <2>1. uses[u].grant \in GrantIDs
      BY DEF IInv, Typed, Present
    <2>2. u \in Open(uses, uses[u].grant)
      BY DEF Open
    <2>3. GrantConsistent(grants[uses[u].grant], uses, uses[u].grant)
      BY <2>1 DEF IInv, Consistent
    <2> QED
      BY <2>2, <2>3 DEF GrantConsistent
  <1> QED
    BY <1>1, Invariance, PTL

\* What a move does to closed authority and to settled uses.
LEMMA MovesAreFinal ==
  ASSUME IInv, Moves(grants, uses, grants', uses')
  PROVE  AuthorityStep /\ SettlementStep
  <1>1. ASSUME NEW g \in GrantIDs, Closed(grants[g].status)
        PROVE  \/ grants'[g].status = grants[g].status
               \/ grants[g].status = "expired" /\ grants'[g].status = "consumed"
    BY <1>1 DEF Moves, Lapses, Opens, Approves, Closed
  <1>2. ASSUME NEW u \in UseIDs
        PROVE  \/ UseKept(uses[u], uses'[u]) \/ Settles(uses[u], uses'[u])
               \/ Reserves(grants, uses[u], grants', uses'[u])
    BY DEF Moves
  <1>3. AuthorityStep
    <2>1. ASSUME NEW u \in UseIDs,
                 uses[u].state # "reserved", uses'[u].state = "reserved"
          PROVE  /\ grants[uses'[u].grant].status = "active"
                 /\ grants'[uses'[u].grant].status = "active"
                 /\ now < grants[uses'[u].grant].expiresAt
      BY <1>2, <2>1 DEF UseKept, Settles, Reserves
    <2> QED
      BY <1>1, <2>1 DEF AuthorityStep, Closed
  <1>4. SettlementStep
    <2> SUFFICES ASSUME NEW u \in UseIDs
                 PROVE  /\ uses[u].state = "committed" => uses'[u] = uses[u]
                        /\ uses[u].state = "retained" =>
                             uses'[u].state \in {"retained", "committed", "released"}
                        /\ uses[u].state # "absent" =>
                             /\ uses'[u].grant = uses[u].grant
                             /\ uses'[u].operation = uses[u].operation
      BY DEF SettlementStep
    <2> QED
      BY <1>2 DEF UseKept, Settles, Reserves
  <1> QED
    BY <1>3, <1>4

\* Closed authority stays closed and uses are acquired only from an active
\* grant within its window.
THEOREM AuthorityFinality == Spec => AuthorityIsFinal
  <1>1. IInv /\ [Next]_vars => [AuthorityStep]_vars
    BY BoxNextOK, MovesAreFinal DEF StepOK
  <1> QED
    BY <1>1, Invariance, PTL DEF Spec, AuthorityIsFinal

\* A committed use never changes again and a retained one is resolved only
\* by its own commit or release.
THEOREM SettlementFinality == Spec => SettlementIsFinal
  <1>1. IInv /\ [Next]_vars => [SettlementStep]_vars
    BY BoxNextOK, MovesAreFinal DEF StepOK
  <1> QED
    BY <1>1, Invariance, PTL DEF Spec, SettlementIsFinal

\* No step changes the status, the limits or the counters of a grant under
\* an unchanged revision, so expected_revision protects every decision.
THEOREM RevisionCoverage == Spec => RevisionCoversChange
  <1>1. IInv /\ [Next]_vars => [RevisionStep]_vars
    BY BoxNextOK DEF StepOK
  <1> QED
    BY <1>1, Invariance, PTL DEF Spec, RevisionCoversChange

\* The newest retained event of a grant always reports its saved state,
\* however batches, trimming and recorded executions interleave.
THEOREM LogIsCurrent == Spec => []LogCurrent
  <1>1. Init => LogCurrent
    BY DEF Init, LogCurrent
  <1>2. IInv /\ LogCurrent /\ [Next]_vars => LogCurrent'
    BY BoxNextOK DEF StepOK
  <1> QED
    BY <1>1, <1>2, Invariance, PTL DEF Spec

\* A stored request is never pending again.
LEMMA DecidedStays ==
  ASSUME IInv, [Next]_vars, NEW g \in GrantIDs,
         grants[g].status \notin {"absent", "pending"}
  PROVE  grants'[g].status \notin {"absent", "pending"}
  <1>1. Moves(grants, uses, grants', uses')
    BY BoxNextOK DEF StepOK
  <1>2. Lapses(grants[g], grants'[g])
    BY <1>1 DEF Moves, Opens, Approves
  <1> QED
    BY <1>2 DEF Lapses, Closed

LEMMA TellsForEver ==
  ASSUME IInv, [Next]_vars, NEW e, e.grant \in GrantIDs, Tells(e, grants)
  PROVE  Tells(e, grants')
  <1>1. Moves(grants, uses, grants', uses')
    BY BoxNextOK DEF StepOK
  <1>2. grants'[e.grant].status # "absent"
    BY <1>1, StoredStays DEF Tells
  <1> QED
    BY <1>2, DecidedStays DEF Tells

LogTrue == Told(events, grants)

\* Whoever reads an event that a request was decided, withdrawn or expired, and
\* then the request, never finds it pending or missing.
THEOREM LogIsTrue == Spec => []LogTrue
  <1>1. Init => LogTrue
    BY DEF Init, LogTrue, Told
  <1>2. IInv /\ LogTrue /\ [Next]_vars => LogTrue'
    <2> SUFFICES ASSUME IInv, LogTrue, [Next]_vars, NEW e \in events'
                 PROVE  Tells(e, grants')
      BY DEF LogTrue, Told
    <2>1. LogStep
      BY BoxNextOK DEF StepOK
    <2>2. CASE e \in events
      <3>1. e.grant \in GrantIDs
        BY <2>2 DEF IInv, EventsOK
      <3>2. Tells(e, grants)
        BY <2>2 DEF LogTrue, Told
      <3> QED
        BY <3>1, <3>2, TellsForEver
    <2> QED
      BY <2>1, <2>2 DEF LogStep
  <1> QED
    BY <1>1, <1>2, Invariance, PTL DEF Spec

\* One key of a client names at most one grant that was not withdrawn: the
\* request that finds none is the only step that stores a new one, and a
\* withdrawn grant never comes back.
THEOREM KeysAreUnique == Spec => []OneGrantPerKey
  <1>1. Init => OneGrantPerKey
    BY DEF Init, OneGrantPerKey, Present, NoGrant
  <1>2. IInv /\ OneGrantPerKey /\ [Next]_vars => OneGrantPerKey'
    <2> SUFFICES ASSUME IInv, OneGrantPerKey, [Next]_vars,
                        NEW g \in GrantIDs, NEW h \in GrantIDs,
                        grants'[g].status \notin {"absent", "canceled"},
                        grants'[h].status \notin {"absent", "canceled"},
                        grants'[g].key # NoKey, grants'[g].key = grants'[h].key,
                        grants'[g].client = grants'[h].client
                 PROVE  g = h
      BY DEF OneGrantPerKey, Present
    <2>1. Moves(grants, uses, grants', uses')
      BY BoxNextOK DEF StepOK
    <2>2. ASSUME NEW k \in {g, h}, ~Opens(grants[k], grants'[k])
          PROVE  /\ grants[k].status \notin {"absent", "canceled"}
                 /\ grants'[k].key = grants[k].key
                 /\ grants'[k].client = grants[k].client
      <3>1. Lapses(grants[k], grants'[k]) \/ Approves(grants[k], grants'[k])
        BY <2>1, <2>2 DEF Moves
      <3> QED
        BY <3>1 DEF Lapses, Approves, SameTerms, Closed
    <2>3. ASSUME NEW k \in {g, h}, NEW other \in {g, h}, k # other,
                 Opens(grants[k], grants'[k])
          PROVE  /\ FindIdempotent(grants, grants'[k]) = {}
                 /\ ~Opens(grants[other], grants'[other])
      <3>1. /\ ~Lapses(grants[k], grants'[k]) /\ ~Approves(grants[k], grants'[k])
            /\ Lapses(grants[other], grants'[other]) =>
                 ~Opens(grants[other], grants'[other])
        BY <2>3 DEF Opens, Lapses, Approves
      <3>2. PICK i \in GrantIDs :
              /\ \/ Opens(grants[i], grants'[i])
                   /\ FindIdempotent(grants, grants'[i]) = {}
                 \/ Approves(grants[i], grants'[i])
              /\ \A j \in GrantIDs \ {i} : Lapses(grants[j], grants'[j])
        BY <2>1, <3>1 DEF Moves
      <3>3. i = k
        BY <3>1, <3>2
      <3> QED
        BY <2>3, <3>1, <3>2, <3>3
    <2>4. CASE ~Opens(grants[g], grants'[g]) /\ ~Opens(grants[h], grants'[h])
      BY <2>2, <2>4 DEF OneGrantPerKey, Present
    <2>5. CASE Opens(grants[g], grants'[g])
      BY <2>2, <2>3, <2>5 DEF FindIdempotent, Present
    <2>6. CASE Opens(grants[h], grants'[h])
      BY <2>2, <2>3, <2>6 DEF FindIdempotent, Present
    <2> QED
      BY <2>4, <2>5, <2>6
  <1> QED
    BY <1>1, <1>2, Invariance, PTL DEF Spec

\* A recorded decision shows in the status of its grant for ever.
DecisionsOK ==
  \A d \in decisions :
    /\ d.grant \in GrantIDs /\ grants[d.grant].status \notin {"absent", "pending"}
    /\ (d.action = "revoke" \/ d.result # "active") =>
         Closed(grants[d.grant].status)

\* Only ApplyOperatorDecision records a decision.
LEMMA DecisionsChange ==
  ASSUME IInv, [Next]_vars
  PROVE  \/ decisions' = decisions
         \/ \E g \in GrantIDs, action \in {"approve", "deny", "revoke"} :
              Recorded(g, action)
  <1>1. CASE Tick
    BY <1>1 DEF Tick
  <1>2. CASE Sweep \/ SweepExpiry \/ ReconcileDue
    BY <1>2 DEF Sweep, SweepExpiry, ReconcileDue, Update
  <1>3. CASE \E req \in Requests, g \in GrantIDs : Request(req, g)
    BY <1>3 DEF Request, Update
  <1>4. CASE \E g \in GrantIDs, u \in UseIDs :
               \/ \E op \in Operations : ReserveUse(g, u, op)
               \/ CommitUse(g, u) \/ ReleaseUse(g, u) \/ RetainUse(g, u)
    <2>1. PICK g \in GrantIDs, u \in UseIDs :
            \/ \E op \in Operations : ReserveUse(g, u, op)
            \/ \E target \in {"committed", "released", "retained"} :
                 SettleUse(g, u, target)
      BY <1>4 DEF CommitUse, ReleaseUse, RetainUse
    <2>2. \A gs, us : Update(gs, us) => decisions' = decisions
      BY DEF Update
    <2>3. CASE \E op \in Operations : ReserveUse(g, u, op)
      BY <2>2, <2>3, Zenon DEF ReserveUse
    <2>4. CASE \E target \in {"committed", "released", "retained"} :
                 SettleUse(g, u, target)
      BY <2>2, <2>4, Zenon DEF SettleUse
    <2> QED
      BY <2>1, <2>3, <2>4
  <1>5. CASE \E g \in GrantIDs :
               \/ Revoke(g)
               \/ \E client \in Clients :
                    CancelForClient(g, client) \/ RevokeForClient(g, client)
    BY <1>5 DEF Revoke, CancelForClient, RevokeForClient, Close, Update
  <1>6. CASE \E g \in GrantIDs :
               \E kind \in {"execution.succeeded", "execution.failed",
                            "execution.ambiguous"} : RecordExecution(g, kind)
    BY <1>6 DEF RecordExecution
  <1>7. CASE \E g \in GrantIDs :
               \E action \in {"approve", "deny", "revoke"}, key \in DecisionKeys,
                  expected \in 1 .. (grants[g].revision + 1), c \in Constraints :
                 ApplyOperatorDecision(g, action, key, expected, c)
    BY <1>7, ApplyOperatorDecisionOK
  <1>8. CASE UNCHANGED vars
    BY <1>8 DEF vars
  <1> QED
    BY <1>1, <1>2, <1>3, <1>4, <1>5, <1>6, <1>7, <1>8 DEF Next

\* Racing operators decide a request once: a second verdict would need a
\* pending grant, and a revocation an active one.
THEOREM VerdictIsUnique == Spec => []OneVerdict
  <1>1. Init => DecisionsOK /\ OneVerdict
    BY DEF Init, DecisionsOK, OneVerdict
  <1>2. IInv /\ DecisionsOK /\ OneVerdict /\ [Next]_vars
          => DecisionsOK' /\ OneVerdict'
    <2> SUFFICES ASSUME IInv, DecisionsOK, OneVerdict, [Next]_vars
                 PROVE  DecisionsOK' /\ OneVerdict'
      OBVIOUS
    <2>1. Moves(grants, uses, grants', uses')
      BY BoxNextOK DEF StepOK
    <2>2. \A g \in GrantIDs :
            /\ grants[g].status \notin {"absent", "pending"} =>
                 grants'[g].status \notin {"absent", "pending"}
            /\ Closed(grants[g].status) => Closed(grants'[g].status)
      BY <2>1 DEF Moves, Lapses, Opens, Approves, Closed
    <2>3. CASE decisions' = decisions
      BY <2>2, <2>3 DEF DecisionsOK, OneVerdict, Closed
    <2>4. CASE \E g \in GrantIDs, action \in {"approve", "deny", "revoke"} :
                 Recorded(g, action)
      <3>1. PICK g \in GrantIDs, action \in {"approve", "deny", "revoke"} :
              Recorded(g, action)
        BY <2>4
      <3>2. PICK d : /\ decisions' = decisions \cup {d}
                     /\ d.grant = g /\ d.action = action
                     /\ grants'[g].status = d.result
                     /\ d.result \notin {"absent", "pending"}
                     /\ IF action = "revoke"
                        THEN grants[g].status = "active" /\ Closed(d.result)
                        ELSE grants[g].status = "pending"
        BY <3>1 DEF Recorded
      <3>3. \A e \in decisions : e.grant = g =>
              /\ d.action = "revoke"
              /\ e.action # "revoke" /\ e.result = "active"
        BY <3>2 DEF DecisionsOK, Closed
      <3>4. DecisionsOK'
        BY <2>2, <3>2 DEF DecisionsOK, Closed
      <3>5. OneVerdict'
        BY <3>2, <3>3 DEF OneVerdict
      <3> QED
        BY <3>4, <3>5
    <2> QED
      BY <2>3, <2>4, DecisionsChange
  <1> QED
    BY <1>1, <1>2, Invariance, PTL DEF Spec

(***************************************************************************)
(* What the next load accepts.  The ledger of a grant, its counters and    *)
(* revision numbers, is kept incrementally by the operations and compared  *)
(* with its uses by the load; the revisions of the uses are summed as the  *)
(* size of a set, so that an operation that takes some uses to their next  *)
(* revision adds as many elements to it.                                   *)
(***************************************************************************)
LEMMA UsesOfFinite ==
  ASSUME NEW us, NEW g
  PROVE  IsFiniteSet(UsesOf(us, g))
  <1>1. UsesOf(us, g) \subseteq UseIDs
    BY DEF UsesOf
  <1> QED
    BY <1>1, OptionsAssumption, FS_Subset

LEMMA RevisionsMember ==
  ASSUME NEW us, NEW g
  PROVE  \A p : p \in Revisions(us, g) <=>
           \E u \in UsesOf(us, g) : \E i \in 1 .. us[u].revision : p = <<u, i>>
  BY DEF Revisions

LEMMA RevisionsFinite ==
  ASSUME NEW us \in [UseIDs -> UseRecord], NEW g
  PROVE  IsFiniteSet(Revisions(us, g)) /\ UseRevisionTotal(us, g) \in Nat
  <1> DEFINE line == [u \in UsesOf(us, g) |-> {u} \X (1 .. us[u].revision)]
             lines == {{u} \X (1 .. us[u].revision) : u \in UsesOf(us, g)}
  <1>1. line \in Surjection(UsesOf(us, g), lines)
    BY DEF Surjection
  <1>2. IsFiniteSet(lines)
    BY <1>1, UsesOfFinite, FS_Surjection
  <1>3. ASSUME NEW T \in lines PROVE IsFiniteSet(T)
    <2>1. PICK u \in UsesOf(us, g) : T = {u} \X (1 .. us[u].revision)
      OBVIOUS
    <2>2. us[u].revision \in Nat
      BY DEF UsesOf, UseRecord
    <2>3. IsFiniteSet({u})
      BY FS_Singleton
    <2>4. IsFiniteSet(1 .. us[u].revision)
      <3>1. 1 \in Int /\ us[u].revision \in Int
        BY <2>2
      <3> QED
        BY <3>1, FS_Interval
    <2> QED
      BY <2>1, <2>3, <2>4, FS_Product
  <1>4. IsFiniteSet(UNION lines)
    BY <1>2, <1>3, FS_UNION
  <1> QED
    BY <1>4, FS_CardinalityType DEF Revisions, UseRevisionTotal

\* The uses T of g, some of them new, go to their next revision.
Advance(us, us2, g, T) ==
  /\ T \subseteq UsesOf(us2, g)
  /\ \A u \in T : us2[u].revision =
                    IF u \in UsesOf(us, g) THEN us[u].revision + 1 ELSE 1
  /\ \A u \in UseIDs \ T :
       /\ u \in UsesOf(us2, g) <=> u \in UsesOf(us, g)
       /\ u \in UsesOf(us, g) => us2[u].revision = us[u].revision

\* Each of them adds one to the total.
LEMMA TotalAdvances ==
  ASSUME NEW us \in [UseIDs -> UseRecord], NEW us2 \in [UseIDs -> UseRecord],
         NEW g, NEW T, Advance(us, us2, g, T)
  PROVE  UseRevisionTotal(us2, g) = UseRevisionTotal(us, g) + Cardinality(T)
  <1> DEFINE next == [u \in T |-> <<u, us2[u].revision>>]
             added == {<<u, us2[u].revision>> : u \in T}
             old == Revisions(us, g)
             new == Revisions(us2, g)
  <1>1. /\ T \subseteq UseIDs
        /\ IsFiniteSet(T)
    <2>1. T \subseteq UsesOf(us2, g)
      BY DEF Advance
    <2>2. IsFiniteSet(UsesOf(us2, g))
      BY UsesOfFinite
    <2>3. UsesOf(us2, g) \subseteq UseIDs
      BY DEF UsesOf
    <2> QED
      BY <2>1, <2>2, <2>3, FS_Subset
  <1>2. \A u \in UseIDs : us[u].revision \in Nat /\ us2[u].revision \in Nat
    BY DEF UseRecord
  <1>3. \A u \in T :
          /\ u \in UsesOf(us2, g)
          /\ us2[u].revision =
               IF u \in UsesOf(us, g) THEN us[u].revision + 1 ELSE 1
    BY DEF Advance
  <1>4. \A u \in UseIDs \ T :
          /\ u \in UsesOf(us2, g) <=> u \in UsesOf(us, g)
          /\ u \in UsesOf(us, g) => us2[u].revision = us[u].revision
    BY DEF Advance
  <1>5. UsesOf(us, g) \subseteq UseIDs /\ UsesOf(us2, g) \subseteq UseIDs
    BY DEF UsesOf
  <1>6. ASSUME NEW u \in UseIDs, NEW i
        PROVE  (u \in UsesOf(us2, g) /\ i \in 1 .. us2[u].revision)
                 <=> \/ u \in UsesOf(us, g) /\ i \in 1 .. us[u].revision
                     \/ u \in T /\ i = us2[u].revision
    <2>1. CASE u \in T /\ u \in UsesOf(us, g)
      BY <1>2, <1>3, <2>1
    <2>2. CASE u \in T /\ u \notin UsesOf(us, g)
      BY <1>2, <1>3, <2>2
    <2>3. CASE u \notin T
      BY <1>4, <2>3
    <2> QED
      BY <2>1, <2>2, <2>3
  <1>7. new = old \cup added
    <2>1. ASSUME NEW p PROVE p \in new <=> p \in old \/ p \in added
      <3>1. p \in new <=>
              \E u \in UsesOf(us2, g) : \E i \in 1 .. us2[u].revision : p = <<u, i>>
        BY RevisionsMember
      <3>2. p \in old <=>
              \E u \in UsesOf(us, g) : \E i \in 1 .. us[u].revision : p = <<u, i>>
        BY RevisionsMember
      <3> HIDE DEF new, old
      <3>3. ASSUME p \in new PROVE p \in old \/ p \in added
        <4>1. PICK u \in UsesOf(us2, g) :
              \E i \in 1 .. us2[u].revision : p = <<u, i>>
          BY <3>1, <3>3
        <4>3. PICK i \in 1 .. us2[u].revision : p = <<u, i>>
          BY <4>1
        <4>2. \/ u \in UsesOf(us, g) /\ i \in 1 .. us[u].revision
              \/ u \in T /\ i = us2[u].revision
          BY <1>5, <1>6
        <4> QED
          BY <3>2, <4>3, <4>2
      <3>4. ASSUME p \in old PROVE p \in new
        <4>1. PICK u \in UsesOf(us, g) :
              \E i \in 1 .. us[u].revision : p = <<u, i>>
          BY <3>2, <3>4
        <4>3. PICK i \in 1 .. us[u].revision : p = <<u, i>>
          BY <4>1
        <4>2. u \in UsesOf(us2, g) /\ i \in 1 .. us2[u].revision
          BY <1>5, <1>6
        <4> QED
          BY <3>1, <4>3, <4>2
      <3>5. ASSUME p \in added PROVE p \in new
        <4>1. PICK u \in T : p = <<u, us2[u].revision>>
          BY <3>5
        <4>2. u \in UsesOf(us2, g) /\ us2[u].revision \in 1 .. us2[u].revision
          BY <1>1, <1>6, <4>1
        <4> QED
          BY <3>1, <4>1, <4>2
      <3> QED
        BY <3>3, <3>4, <3>5
    <2> QED
      BY <2>1
  <1>8. old \cap added = {}
    <2> SUFFICES ASSUME NEW p, p \in old, p \in added PROVE FALSE
      OBVIOUS
    <2>1. PICK u \in UsesOf(us, g) :
          \E i \in 1 .. us[u].revision : p = <<u, i>>
      BY RevisionsMember
    <2>4. PICK i \in 1 .. us[u].revision : p = <<u, i>>
      BY <2>1
    <2>2. PICK v \in T : p = <<v, us2[v].revision>>
      OBVIOUS
    <2>3. u = v /\ i = us2[v].revision
      BY <2>4, <2>2
    <2> QED
      BY <1>2, <1>3, <1>5, <2>4, <2>3
  <1>9. IsFiniteSet(added) /\ Cardinality(added) = Cardinality(T)
    <2>1. next \in [T -> added] /\ \A u \in T : next[u] = <<u, us2[u].revision>>
      OBVIOUS
    <2> HIDE DEF next
    <2>2. next \in Injection(T, added)
      <3>1. \A u, v \in T : next[u] = next[v] => u = v
        BY <2>1
      <3> QED
        BY <2>1, <3>1 DEF Injection, IsInjective
    <2>3. next \in Surjection(T, added)
      BY <2>1 DEF Surjection
    <2>4. ExistsBijection(T, added)
      BY <2>2, <2>3 DEF ExistsBijection, Bijection
    <2> QED
      BY <1>1, <2>4, FS_Bijection
  <1>10. /\ IsFiniteSet(old) /\ Cardinality(old) \in Nat
         /\ UseRevisionTotal(us, g) = Cardinality(old)
         /\ UseRevisionTotal(us2, g) = Cardinality(new)
    BY RevisionsFinite DEF UseRevisionTotal
  <1>11. Cardinality(T) \in Nat
    BY <1>1, FS_CardinalityType
  <1> HIDE DEF old, new, added
  <1>12. Cardinality(old \cup added) =
           Cardinality(old) + Cardinality(added) - Cardinality({})
    BY <1>8, <1>9, <1>10, FS_Union
  <1> QED
    BY <1>7, <1>9, <1>10, <1>11, <1>12, FS_EmptySet

\* ReservationRetained as the uses have it.
HasRetained(us, g) == \E u \in Open(us, g) : us[u].state = "retained"

\* The ledger of a grant is that of its uses.
Booked(grant, us, g) ==
  grant.status # "absent" =>
    /\ grant.duration > 0 /\ grant.requestedDuration > 0
    /\ grant.pendingTimeout > 0
    /\ grant.retained = HasRetained(us, g)
    /\ grant.useRevision = grant.usedCount
    /\ grant.reservationRevision = UseRevisionTotal(us, g)

\* A use is for the operation of its grant.
Agrees(use, gs) ==
  use.state # "absent" =>
    use.operation = gs[use.grant].operation /\ use.revision >= 1

Ledger(gs, us) ==
  /\ \A g \in GrantIDs : Booked(gs[g], us, g)
  /\ \A u \in UseIDs : Agrees(us[u], gs)

\* A use is left alone or stamped with the time of the step.
Stamped(old, new) ==
  \/ new = old
  \/ /\ new.updatedAt = now
     /\ \/ new.createdAt = now
        \/ old.state # "absent" /\ new.createdAt = old.createdAt

\* The terms a load checks and an operation does not touch.
SameRequested(a, b) ==
  /\ a.operation = b.operation /\ a.pendingTimeout = b.pendingTimeout
  /\ a.requestedDuration = b.requestedDuration
  /\ a.duration > 0 => b.duration > 0

SameLedger(a, b) ==
  /\ SameRequested(a, b)
  /\ a.status = "absent" <=> b.status = "absent"
  /\ a.retained = b.retained /\ a.usedCount = b.usedCount
  /\ a.useRevision = b.useRevision
  /\ a.reservationRevision = b.reservationRevision

LEMMA LedgerKept ==
  ASSUME NEW gs, NEW us, NEW gs2, Typed(gs, us), Ledger(gs, us),
         \A g \in GrantIDs : SameLedger(gs[g], gs2[g])
  PROVE  Ledger(gs2, us)
  <1>1. ASSUME NEW g \in GrantIDs PROVE Booked(gs2[g], us, g)
    <2>1. Booked(gs[g], us, g) /\ SameLedger(gs[g], gs2[g])
      BY DEF Ledger
    <2> QED
      BY <2>1 DEF Booked, SameLedger, SameRequested
  <1>2. ASSUME NEW u \in UseIDs PROVE Agrees(us[u], gs2)
    <2>1. Agrees(us[u], gs)
      BY DEF Ledger
    <2>2. us[u].state # "absent" => us[u].grant \in GrantIDs
      BY DEF Typed, Present
    <2> QED
      BY <2>1, <2>2 DEF Agrees, SameLedger, SameRequested
  <1> QED
    BY <1>1, <1>2 DEF Ledger

\* Expiry and reconciliation write no ledger.
LEMMA ExpireDueLedger ==
  ASSUME NEW gs, NEW us, Typed(gs, us), Ledger(gs, us)
  PROVE  Ledger(ExpireDue(gs), us)
  <1>1. ASSUME NEW g \in GrantIDs PROVE SameLedger(gs[g], ExpireDue(gs)[g])
    <2>1. gs[g] \in GrantRecord
      BY DEF Typed
    <2>2. CASE Due(gs[g])
      <3>1. ExpireDue(gs)[g] =
              [gs[g] EXCEPT !.status = "expired", !.expiredFrom = gs[g].status]
        BY <2>2 DEF ExpireDue
      <3>2. gs[g].status # "absent"
        BY <2>2 DEF Due
      <3> QED
        BY <2>1, <3>1, <3>2 DEF GrantRecord, SameLedger, SameRequested
    <2>3. CASE ~Due(gs[g])
      BY <2>3 DEF ExpireDue, SameLedger, SameRequested
    <2> QED
      BY <2>2, <2>3
  <1> QED
    BY <1>1, LedgerKept

LEMMA BumpLedger ==
  ASSUME NEW before \in GrantRecord, NEW after \in GrantRecord
  PROVE  SameLedger(after, Bump(before, after))
  <1>1. CASE Bump(before, after) = after
    BY <1>1 DEF SameLedger, SameRequested
  <1>2. CASE Bump(before, after) = [after EXCEPT !.revision = before.revision + 1]
    BY <1>2 DEF GrantRecord, SameLedger, SameRequested
  <1> QED
    BY <1>1, <1>2 DEF Bump

LEMMA BumpedLedger ==
  ASSUME NEW before \in [GrantIDs -> GrantRecord], NEW gs, NEW us,
         Typed(gs, us), Ledger(gs, us)
  PROVE  Ledger(Bumped(before, gs), us)
  <1>1. ASSUME NEW g \in GrantIDs PROVE SameLedger(gs[g], Bumped(before, gs)[g])
    BY BumpLedger DEF Bumped, Typed
  <1> QED
    BY <1>1, LedgerKept

\* The total of a grant whose uses are left alone.
LEMMA TotalKept ==
  ASSUME NEW us \in [UseIDs -> UseRecord], NEW us2 \in [UseIDs -> UseRecord],
         NEW g, \A u \in UseIDs : \/ us2[u] = us[u]
                                  \/ /\ u \notin UsesOf(us, g)
                                     /\ u \notin UsesOf(us2, g)
  PROVE  /\ UseRevisionTotal(us2, g) = UseRevisionTotal(us, g)
         /\ HasRetained(us2, g) = HasRetained(us, g)
  <1>1. Advance(us, us2, g, {})
    BY DEF Advance, UsesOf
  <1>2. UseRevisionTotal(us2, g) = UseRevisionTotal(us, g) + 0
    BY <1>1, TotalAdvances, FS_EmptySet
  <1>3. UseRevisionTotal(us, g) \in Nat
    BY RevisionsFinite
  <1>4. HasRetained(us2, g) = HasRetained(us, g)
    <2>1. HasRetained(us2, g) <=> HasRetained(us, g)
      BY DEF HasRetained, Open, UsesOf
    <2> QED
      BY <2>1 DEF HasRetained
  <1> QED
    BY <1>2, <1>3, <1>4

\* What Aggregate leaves alone, and the flag it recomputes.
LEMMA AggregateLedger ==
  ASSUME NEW grant \in GrantRecord, NEW g, NEW us
  PROVE  /\ SameRequested(grant, Aggregate(grant, g, us))
         /\ Aggregate(grant, g, us).useRevision = grant.useRevision
         /\ Aggregate(grant, g, us).reservationRevision
              = grant.reservationRevision
         /\ Aggregate(grant, g, us).retained = HasRetained(us, g)
  BY ZenonT(60) DEF Aggregate, GrantRecord, SameRequested, HasRetained

\* retainStaleReservations takes every stale use of a grant to its next
\* revision and counts them.
LEMMA RetainStaleLedger ==
  ASSUME NEW gs, NEW us, Typed(gs, us), Consistent(gs, us), Ledger(gs, us),
         now \in Nat
  PROVE  /\ Ledger(RetainStaleGrants(gs, us), RetainStaleUses(gs, us))
         /\ \A u \in UseIDs : Stamped(us[u], RetainStaleUses(gs, us)[u])
         /\ \A g \in GrantIDs :
              SameRequested(gs[g], RetainStaleGrants(gs, us)[g])
  <1> DEFINE rg == RetainStaleGrants(gs, us)
             ru == RetainStaleUses(gs, us)
             touched(g) == {u \in Stale(gs, us) : us[u].grant = g}
             counted(g) == [gs[g] EXCEPT !.reservationRevision =
                              gs[g].reservationRevision + Cardinality(touched(g))]
  <1>1. gs \in [GrantIDs -> GrantRecord] /\ us \in [UseIDs -> UseRecord]
    BY DEF Typed
  <1>2. /\ ru \in [UseIDs -> UseRecord]
        /\ \A u \in UseIDs : ru[u].grant = us[u].grant
                             /\ ru[u].operation = us[u].operation
    BY <1>1, RetainStaleUsesStep
  <1>3. ASSUME NEW u \in UseIDs
        PROVE  IF u \in Stale(gs, us)
               THEN /\ us[u].state = "reserved" /\ ru[u].state = "retained"
                    /\ ru[u].revision = us[u].revision + 1
                    /\ ru[u].updatedAt = now /\ ru[u].createdAt = us[u].createdAt
               ELSE ru[u] = us[u]
    <2>1. us[u] \in UseRecord
      BY <1>1
    <2>2. CASE u \in Stale(gs, us)
      <3>1. ru[u] = [us[u] EXCEPT !.state = "retained",
                                  !.revision = us[u].revision + 1,
                                  !.updatedAt = now]
        BY <2>2 DEF RetainStaleUses
      <3>2. us[u].state = "reserved"
        BY <2>2 DEF Stale
      <3> QED
        BY <2>1, <2>2, <3>1, <3>2 DEF UseRecord
    <2>3. CASE u \notin Stale(gs, us)
      BY <2>3 DEF RetainStaleUses
    <2> QED
      BY <2>2, <2>3
  <1> HIDE DEF ru
  <1>4. \A u \in UseIDs : Stamped(us[u], ru[u])
    BY <1>3 DEF Stamped
  <1>5. ASSUME NEW g \in GrantIDs
        PROVE  Booked(rg[g], ru, g) /\ SameRequested(gs[g], rg[g])
    <2>1. /\ gs[g] \in GrantRecord /\ Booked(gs[g], us, g)
          /\ GrantConsistent(gs[g], us, g)
      BY <1>1 DEF Consistent, Ledger
    <2>2. CASE touched(g) = {}
      <3>1. rg[g] = gs[g]
        BY <2>2 DEF RetainStaleGrants
      <3>2. \A u \in UseIDs : \/ ru[u] = us[u]
                              \/ u \notin UsesOf(us, g) /\ u \notin UsesOf(ru, g)
        BY <1>2, <1>3, <2>2 DEF UsesOf
      <3>3. /\ UseRevisionTotal(ru, g) = UseRevisionTotal(us, g)
            /\ HasRetained(ru, g) = HasRetained(us, g)
        BY <1>1, <1>2, <3>2, TotalKept
      <3> QED
        BY <2>1, <3>1, <3>3 DEF Booked, SameRequested
    <2>3. CASE touched(g) # {}
      <3>1. rg[g] = Aggregate(counted(g), g, ru)
        BY <2>3 DEF RetainStaleGrants, ru
      <3>2. touched(g) \subseteq UseIDs /\ Cardinality(touched(g)) \in Nat
        <4>1. touched(g) \subseteq UseIDs
          BY DEF Stale
        <4> QED
          BY <4>1, OptionsAssumption, FS_Subset, FS_CardinalityType
      <3>3. Advance(us, ru, g, touched(g))
        <4>1. \A u \in UseIDs : u \in UsesOf(ru, g) <=> u \in UsesOf(us, g)
          BY <1>2, <1>3 DEF UsesOf
        <4>2. \A u \in touched(g) : u \in UseIDs /\ u \in UsesOf(us, g)
                                    /\ ru[u].revision = us[u].revision + 1
          BY <1>3, <3>2 DEF UsesOf
        <4>3. \A u \in UseIDs \ touched(g) :
                u \in UsesOf(us, g) => ru[u].revision = us[u].revision
          BY <1>3 DEF UsesOf
        <4> HIDE DEF touched
        <4> QED
          BY <4>1, <4>2, <4>3 DEF Advance
      <3>4. UseRevisionTotal(ru, g)
              = UseRevisionTotal(us, g) + Cardinality(touched(g))
        BY <1>1, <1>2, <3>3, TotalAdvances
      <3> DEFINE n == gs[g].reservationRevision + Cardinality(touched(g))
      <3>5. n \in Nat /\ counted(g) = [gs[g] EXCEPT !.reservationRevision = n]
        BY <2>1, <3>2 DEF GrantRecord
      <3> HIDE DEF n
      <3>6. /\ counted(g) \in GrantRecord
            /\ counted(g).status = gs[g].status
            /\ SameRequested(gs[g], counted(g))
            /\ counted(g).useRevision = gs[g].useRevision
            /\ counted(g).reservationRevision = n
        BY <2>1, <3>5 DEF GrantRecord, SameRequested
      <3>7. Committed(ru, g) = Committed(us, g)
        BY <1>1, RetainStaleCharges DEF ru
      <3> HIDE DEF counted, rg, touched
      <3>8. /\ rg[g].status = gs[g].status
            /\ rg[g].usedCount = gs[g].usedCount
        BY <2>1, <3>1, <3>6, <3>7, AggregateStep DEF GrantConsistent
      <3>13. /\ SameRequested(counted(g), rg[g])
             /\ rg[g].useRevision = counted(g).useRevision
             /\ rg[g].reservationRevision = counted(g).reservationRevision
             /\ rg[g].retained = HasRetained(ru, g)
        <4>1. counted(g) \in GrantRecord
          BY <3>6
        <4> QED
          BY <3>1, <4>1, AggregateLedger
      <3>9. /\ SameRequested(gs[g], rg[g])
            /\ rg[g].useRevision = gs[g].useRevision
            /\ rg[g].reservationRevision = n
        BY <3>6, <3>13 DEF SameRequested
      <3>10. rg[g].retained = HasRetained(ru, g)
        BY <3>13
      <3>11. rg[g].status # "absent" => n = UseRevisionTotal(ru, g)
        BY <2>1, <3>4, <3>8 DEF Booked, n
      <3>12. rg[g].status # "absent" =>
               /\ rg[g].duration > 0 /\ rg[g].requestedDuration > 0
               /\ rg[g].pendingTimeout > 0
               /\ rg[g].useRevision = rg[g].usedCount
        BY <2>1, <3>8, <3>9 DEF Booked, SameRequested
      <3> QED
        BY <3>9, <3>10, <3>11, <3>12 DEF Booked
    <2> QED
      BY <2>2, <2>3
  <1> HIDE DEF rg
  <1>6. ASSUME NEW u \in UseIDs PROVE Agrees(ru[u], rg)
    <2>1. Agrees(us[u], gs) /\ us[u].revision \in Nat
      BY <1>1 DEF Ledger, UseRecord
    <2>2. us[u].state # "absent" => us[u].grant \in GrantIDs
      BY DEF Typed, Present
    <2>3. ru[u].state # "absent" => us[u].state # "absent"
      BY <1>3
    <2>4. us[u].state # "absent" => ru[u].revision >= 1
      BY <1>3, <2>1 DEF Agrees
    <2>5. us[u].state # "absent" => rg[us[u].grant].operation = us[u].operation
      BY <1>5, <2>1, <2>2 DEF Agrees, SameRequested
    <2> QED
      BY <1>2, <2>3, <2>4, <2>5 DEF Agrees
  <1> QED
    BY <1>4, <1>5, <1>6 DEF Ledger, rg, ru

\* prepareLifecycle keeps the ledger.
LEMMA PreparedLedger ==
  ASSUME IInv, Ledger(grants, uses)
  PROVE  /\ Ledger(PreparedGrants, PreparedUses)
         /\ \A u \in UseIDs : Stamped(uses[u], PreparedUses[u])
  <1>1. now \in Nat /\ Typed(grants, uses) /\ Consistent(grants, uses)
    BY DEF IInv
  <1>2. /\ Typed(ExpireDue(grants), uses) /\ Consistent(ExpireDue(grants), uses)
        /\ Ledger(ExpireDue(grants), uses)
    BY <1>1, ExpireDuePreserves, ExpireDueLedger
  <1> QED
    BY <1>1, <1>2, RetainStaleLedger DEF PreparedGrants, PreparedUses

LEMMA StampedTwice ==
  ASSUME NEW a, NEW b, NEW c, Stamped(a, b), Stamped(b, c)
  PROVE  Stamped(a, c)
  BY DEF Stamped

\* One use of g, possibly a new one, goes to its next revision ...
UseAdvances(us, us2, g, u) ==
  /\ us[u].state # "absent" => us[u].grant = g
  /\ us2[u].state # "absent" /\ us2[u].grant = g
  /\ us2[u].revision =
       IF us[u].state = "absent" THEN 1 ELSE us[u].revision + 1
  /\ \A v \in UseIDs : v # u => us2[v] = us[v]

\* ... and the ledger of g with it.
GrantAdvances(old, new, us, g) ==
  /\ old.status # "absent" /\ SameRequested(old, new)
  /\ new.useRevision = new.usedCount
  /\ new.reservationRevision = old.reservationRevision + 1
  /\ new.retained = HasRetained(us, g)

LEMMA OneUseLedger ==
  ASSUME NEW gs, NEW us, Typed(gs, us), Ledger(gs, us),
         NEW g \in GrantIDs, NEW u \in UseIDs,
         NEW us2 \in [UseIDs -> UseRecord], UseAdvances(us, us2, g, u),
         us2[u].operation = gs[g].operation,
         NEW grant \in GrantRecord, GrantAdvances(gs[g], grant, us2, g)
  PROVE  Ledger([gs EXCEPT ![g] = grant], us2)
  <1> DEFINE gs2 == [gs EXCEPT ![g] = grant]
  <1>1. gs \in [GrantIDs -> GrantRecord] /\ us \in [UseIDs -> UseRecord]
    BY DEF Typed
  <1>2. gs2[g] = grant /\ \A h \in GrantIDs : h # g => gs2[h] = gs[h]
    BY <1>1
  <1> HIDE DEF gs2
  <1>3. Booked(grant, us2, g)
    <2>1. Advance(us, us2, g, {u})
      BY DEF Advance, UsesOf, UseAdvances
    <2>2. UseRevisionTotal(us2, g) = UseRevisionTotal(us, g) + 1
      <3>1. UseRevisionTotal(us2, g) = UseRevisionTotal(us, g) + Cardinality({u})
        BY <1>1, <2>1, TotalAdvances
      <3> QED
        BY <3>1, FS_Singleton
    <2>3. Booked(gs[g], us, g)
      BY DEF Ledger
    <2> QED
      BY <2>2, <2>3 DEF Booked, SameRequested, GrantAdvances
  <1>4. ASSUME NEW h \in GrantIDs, h # g PROVE Booked(gs[h], us2, h)
    <2>1. \A v \in UseIDs : \/ us2[v] = us[v]
                            \/ v \notin UsesOf(us, h) /\ v \notin UsesOf(us2, h)
      BY <1>4 DEF UsesOf, UseAdvances
    <2>2. /\ UseRevisionTotal(us2, h) = UseRevisionTotal(us, h)
          /\ HasRetained(us2, h) = HasRetained(us, h)
      BY <1>1, <2>1, TotalKept
    <2>3. Booked(gs[h], us, h)
      BY DEF Ledger
    <2> QED
      BY <2>2, <2>3 DEF Booked
  <1>5. ASSUME NEW v \in UseIDs PROVE Agrees(us2[v], gs2)
    <2>1. Agrees(us[v], gs) /\ us[v].revision \in Nat
      BY <1>1 DEF Ledger, UseRecord
    <2>2. us[v].state # "absent" => us[v].grant \in GrantIDs
      BY DEF Typed, Present
    <2>3. gs2[g].operation = gs[g].operation
      BY <1>2 DEF SameRequested, GrantAdvances
    <2>4. CASE v = u
      <3>1. us2[u].revision >= 1
        BY <2>1, <2>4 DEF UseAdvances
      <3> QED
        BY <2>3, <2>4, <3>1 DEF Agrees, UseAdvances
    <2>5. CASE v # u
      BY <1>2, <2>1, <2>2, <2>3, <2>5 DEF Agrees, UseAdvances
    <2> QED
      BY <2>4, <2>5
  <1> QED
    BY <1>2, <1>3, <1>4, <1>5 DEF Ledger, gs2

\* What a step does to the ledger and to the times of the uses.
LedgerOK ==
  /\ Ledger(grants', uses')
  /\ \A u \in UseIDs : Stamped(uses[u], uses'[u])

LEMMA UpdateLedger ==
  ASSUME IInv, NEW gs, NEW us, Typed(gs, us), Ledger(gs, us), Update(gs, us),
         \A u \in UseIDs : Stamped(uses[u], us[u])
  PROVE  LedgerOK
  <1>1. grants \in [GrantIDs -> GrantRecord]
    BY DEF IInv, Typed
  <1>2. grants' = Bumped(grants, gs) /\ uses' = us
    BY DEF Update
  <1> QED
    BY <1>1, <1>2, BumpedLedger DEF LedgerOK

LEMMA SweepLedger ==
  ASSUME IInv, Ledger(grants, uses), Update(PreparedGrants, PreparedUses)
  PROVE  LedgerOK
  BY PreparedState, PreparedLedger, UpdateLedger

LEMMA SweepExpiryLedger ==
  ASSUME IInv, Ledger(grants, uses), SweepExpiry
  PROVE  LedgerOK
  <1>1. Typed(grants, uses) /\ Consistent(grants, uses)
    BY DEF IInv
  <1>2. Typed(ExpireDue(grants), uses) /\ Ledger(ExpireDue(grants), uses)
    BY <1>1, ExpireDuePreserves, ExpireDueLedger
  <1> QED
    BY <1>2, UpdateLedger DEF SweepExpiry, Stamped

\* A mutator that changes one grant and no use.
LEMMA OneGrantLedger ==
  ASSUME IInv, Ledger(grants, uses), NEW g \in GrantIDs,
         NEW grant \in GrantRecord, SameLedger(PreparedGrants[g], grant),
         Update([PreparedGrants EXCEPT ![g] = grant], PreparedUses)
  PROVE  LedgerOK
  <1> DEFINE gs == [PreparedGrants EXCEPT ![g] = grant]
  <1>1. /\ Typed(PreparedGrants, PreparedUses)
        /\ PreparedGrants \in [GrantIDs -> GrantRecord]
    BY PreparedState DEF Typed
  <1>2. gs[g] = grant /\ \A h \in GrantIDs \ {g} : gs[h] = PreparedGrants[h]
    BY <1>1
  <1>3. gs \in [GrantIDs -> GrantRecord]
    BY <1>1
  <1> HIDE DEF gs
  <1>4. \A h \in GrantIDs : SameLedger(PreparedGrants[h], gs[h])
    BY <1>2 DEF SameLedger, SameRequested
  <1>5. Typed(gs, PreparedUses)
    <2>1. Present(gs) = Present(PreparedGrants)
      BY <1>4 DEF Present, SameLedger
    <2> QED
      BY <1>1, <1>3, <2>1 DEF Typed
  <1>6. Ledger(gs, PreparedUses)
    BY <1>1, <1>4, PreparedLedger, LedgerKept
  <1> QED
    BY <1>5, <1>6, PreparedLedger, UpdateLedger DEF gs

LEMMA CloseLedger ==
  ASSUME IInv, Ledger(grants, uses), NEW g \in GrantIDs, NEW required, NEW next,
         \/ required = "active" /\ next = "revoked"
         \/ required = "pending" /\ next = "canceled",
         Close(g, required, next)
  PROVE  LedgerOK
  <1> DEFINE grant == [PreparedGrants[g] EXCEPT !.status = next]
  <1>1. PreparedGrants \in [GrantIDs -> GrantRecord]
    BY PreparedState DEF Typed
  <1>2. PreparedGrants[g].status = required
    BY DEF Close
  <1>3. grant \in GrantRecord /\ SameLedger(PreparedGrants[g], grant)
    BY <1>1, <1>2 DEF GrantRecord, Statuses, SameLedger, SameRequested
  <1>4. [PreparedGrants EXCEPT ![g].status = next]
          = [PreparedGrants EXCEPT ![g] = grant]
    BY <1>1
  <1>5. Update([PreparedGrants EXCEPT ![g] = grant], PreparedUses)
    BY <1>4 DEF Close
  <1> HIDE DEF grant
  <1> QED
    BY <1>3, <1>5, OneGrantLedger

LEMMA OneGrantTyped ==
  ASSUME NEW gs, NEW us, Typed(gs, us), NEW g \in GrantIDs,
         NEW grant \in GrantRecord, grant.status # "absent",
         NEW us2 \in [UseIDs -> UseRecord], OnlyUsesOf(g, us, us2)
  PROVE  Typed([gs EXCEPT ![g] = grant], us2)
  <1> DEFINE gs2 == [gs EXCEPT ![g] = grant]
  <1>1. gs2 \in [GrantIDs -> GrantRecord] /\ gs2[g] = grant
        /\ \A h \in GrantIDs : h # g => gs2[h] = gs[h]
    BY DEF Typed
  <1> HIDE DEF gs2
  <1>2. g \in Present(gs2) /\ Present(gs) \subseteq Present(gs2)
    BY <1>1 DEF Present
  <1> QED
    BY <1>1, <1>2 DEF Typed, OnlyUsesOf, gs2

\* A new grant has no use and an empty ledger.
LEMMA RequestLedger ==
  ASSUME IInv, Ledger(grants, uses), NEW req \in Requests, NEW g \in GrantIDs,
         Request(req, g)
  PROVE  LedgerOK
  <1> DEFINE norm == NormalizeRequest(req)
             grant == NewGrant(req)
             pg == PreparedGrants
             pu == PreparedUses
             gs == [pg EXCEPT ![g] = grant]
  <1>1. /\ Typed(pg, pu) /\ Ledger(pg, pu)
        /\ pg \in [GrantIDs -> GrantRecord] /\ pu \in [UseIDs -> UseRecord]
        /\ \A u \in UseIDs : Stamped(uses[u], pu[u])
    BY PreparedState, PreparedLedger DEF Typed
  <1>2. Update(gs, pu)
    BY DEF Request
  <1>3. pg[g].status = "absent"
    <2>1. g \notin Present(grants)
      BY OptionsAssumption DEF Request, FreeGrant, GrantIDs
    <2> QED
      BY <2>1, PreparedState DEF Present
  <1>4. /\ norm.duration \in Nat \ {0} /\ norm.pendingTimeout \in Nat \ {0}
        /\ grant \in GrantRecord
    BY NewGrantStep DEF IInv
  <1> HIDE DEF norm, pg, pu
  <1>5. /\ grant.status = "pending"
        /\ grant.duration = norm.duration
        /\ grant.requestedDuration = norm.duration
        /\ grant.pendingTimeout = norm.pendingTimeout
        /\ grant.usedCount = 0 /\ grant.useRevision = 0
        /\ grant.reservationRevision = 0 /\ grant.retained = FALSE
    BY DEF NewGrant, norm
  <1> HIDE DEF grant
  <1>6. gs[g] = grant /\ \A h \in GrantIDs : h # g => gs[h] = pg[h]
    BY <1>1
  <1>7. UsesOf(pu, g) = {}
    BY <1>1, <1>3 DEF UsesOf, Typed, Present
  <1>8. UseRevisionTotal(pu, g) = 0
    <2>1. Revisions(pu, g) = {}
      BY <1>7 DEF Revisions
    <2> QED
      BY <2>1, FS_EmptySet DEF UseRevisionTotal
  <1>9. grant.retained = HasRetained(pu, g)
    <2>1. ~HasRetained(pu, g)
      BY <1>7 DEF HasRetained, Open, UsesOf
    <2> QED
      BY <1>5, <2>1 DEF HasRetained
  <1>10. Booked(grant, pu, g)
    BY <1>4, <1>5, <1>8, <1>9 DEF Booked
  <1>11. Typed(gs, pu)
    <2>1. grant \in GrantRecord /\ grant.status # "absent"
      BY <1>4, <1>5
    <2>2. OnlyUsesOf(g, pu, pu)
      BY DEF OnlyUsesOf
    <2> QED
      BY <1>1, <2>1, <2>2, OneGrantTyped
  <1> HIDE DEF gs
  <1>12. Ledger(gs, pu)
    <2>1. \A h \in GrantIDs : Booked(gs[h], pu, h)
      BY <1>1, <1>6, <1>10 DEF Ledger
    <2>2. ASSUME NEW u \in UseIDs PROVE Agrees(pu[u], gs)
      <3>1. Agrees(pu[u], pg)
        BY <1>1 DEF Ledger
      <3>2. pu[u].state # "absent" => pu[u].grant \in GrantIDs \ {g}
        BY <1>1, <1>3 DEF Typed, Present
      <3> QED
        BY <1>6, <3>1, <3>2 DEF Agrees
    <2> QED
      BY <2>1, <2>2 DEF Ledger
  <1> QED
    BY <1>1, <1>2, <1>11, <1>12, UpdateLedger

\* Acquiring a use adds its first or its next revision.
LEMMA ReserveUseLedger ==
  ASSUME IInv, Ledger(grants, uses), NEW g \in GrantIDs, NEW u \in UseIDs,
         NEW op \in Operations, ReserveUse(g, u, op)
  PROVE  LedgerOK
  <1> DEFINE pg == PreparedGrants
             pu == PreparedUses
             r == IF pu[u].state = "absent"
                  THEN [state |-> "reserved", grant |-> g, operation |-> op,
                        revision |-> 1, createdAt |-> now, updatedAt |-> now]
                  ELSE [pu[u] EXCEPT !.state = "reserved",
                                     !.revision = pu[u].revision + 1,
                                     !.updatedAt = now]
             us == [pu EXCEPT ![u] = r]
             counted == [pg[g] EXCEPT !.reservationRevision =
                                        pg[g].reservationRevision + 1]
             grant == Aggregate(counted, g, us)
  <1>1. /\ Typed(pg, pu) /\ Consistent(pg, pu) /\ Ledger(pg, pu) /\ now \in Nat
        /\ pg \in [GrantIDs -> GrantRecord] /\ pu \in [UseIDs -> UseRecord]
        /\ \A v \in UseIDs : Stamped(uses[v], pu[v])
    BY PreparedState, PreparedLedger DEF IInv, Typed
  <1>2. /\ \/ pu[u].state = "absent" /\ pg[g].operation = op
           \/ /\ pu[u].state = "released" /\ pu[u].grant = g
              /\ pu[u].operation = op
        /\ CanUse(pg[g])
        /\ Update([pg EXCEPT ![g] = grant], us)
    BY DEF ReserveUse
  <1>3. pg[g].status = "active"
    BY <1>2 DEF CanUse
  <1> HIDE DEF pg, pu
  <1>4. pu[u] \in UseRecord /\ pu[u].revision + 1 \in Nat
    BY <1>1 DEF UseRecord
  <1>5. /\ r \in UseRecord /\ r.state = "reserved" /\ r.grant = g
        /\ r.operation = op
        /\ r.revision = IF pu[u].state = "absent" THEN 1 ELSE pu[u].revision + 1
        /\ Stamped(pu[u], r)
    <2>1. CASE pu[u].state = "absent"
      <3>1. r = [state |-> "reserved", grant |-> g, operation |-> op,
                 revision |-> 1, createdAt |-> now, updatedAt |-> now]
        BY <2>1
      <3> QED
        BY <1>1, <2>1, <3>1 DEF UseRecord, UseStates, Stamped
    <2>2. CASE pu[u].state # "absent"
      <3>1. r = [pu[u] EXCEPT !.state = "reserved",
                              !.revision = pu[u].revision + 1,
                              !.updatedAt = now]
        BY <2>2
      <3>2. pu[u].grant = g /\ pu[u].operation = op
        BY <1>2, <2>2
      <3> QED
        BY <1>1, <1>4, <2>2, <3>1, <3>2 DEF UseRecord, UseStates, Stamped
    <2> QED
      BY <2>1, <2>2
  <1> HIDE DEF r
  <1>6. /\ us \in [UseIDs -> UseRecord] /\ us[u] = r
        /\ \A v \in UseIDs : v # u => us[v] = pu[v]
    BY <1>1, <1>5
  <1> HIDE DEF us
  <1>7. pg[g].operation = op
    <2>1. Agrees(pu[u], pg)
      BY <1>1 DEF Ledger
    <2> QED
      BY <1>2, <2>1 DEF Agrees
  <1>8. /\ counted \in GrantRecord /\ counted.status = "active"
        /\ SameRequested(pg[g], counted)
        /\ counted.useRevision = pg[g].useRevision
        /\ counted.reservationRevision = pg[g].reservationRevision + 1
    <2>1. pg[g] \in GrantRecord /\ pg[g].reservationRevision + 1 \in Nat
      BY <1>1 DEF GrantRecord
    <2> QED
      BY <1>3, <2>1 DEF GrantRecord, SameRequested
  <1> HIDE DEF counted
  <1>9. /\ grant \in GrantRecord /\ grant.status = "active"
        /\ grant.usedCount = Cardinality(Committed(us, g))
    BY <1>8, AggregateStep
  <1>10. /\ SameRequested(counted, grant)
         /\ grant.useRevision = counted.useRevision
         /\ grant.reservationRevision = counted.reservationRevision
         /\ grant.retained = HasRetained(us, g)
    BY <1>8, AggregateLedger
  <1> HIDE DEF grant
  <1>11. grant.useRevision = grant.usedCount
    <2>1. Committed(us, g) = Committed(pu, g)
      BY <1>2, <1>5, <1>6 DEF Committed
    <2>2. GrantConsistent(pg[g], pu, g) /\ Booked(pg[g], pu, g)
      BY <1>1 DEF Consistent, Ledger
    <2> QED
      BY <1>3, <1>8, <1>9, <1>10, <2>1, <2>2 DEF GrantConsistent, Booked
  <1>12. SameRequested(pg[g], grant)
    BY <1>8, <1>10 DEF SameRequested
  <1> DEFINE gs == [pg EXCEPT ![g] = grant]
  <1>13. Ledger(gs, us)
    <2>1. UseAdvances(pu, us, g, u)
      BY <1>2, <1>5, <1>6 DEF UseAdvances
    <2>2. GrantAdvances(pg[g], grant, us, g)
      BY <1>3, <1>8, <1>10, <1>11, <1>12 DEF GrantAdvances
    <2>3. us[u].operation = pg[g].operation
      BY <1>5, <1>6, <1>7
    <2> QED
      BY <1>1, <1>6, <1>9, <2>1, <2>2, <2>3, OneUseLedger
  <1>14. Typed(gs, us)
    <2>1. grant.status # "absent"
      BY <1>9
    <2>2. OnlyUsesOf(g, pu, us)
      BY <1>2, <1>5, <1>6 DEF OnlyUsesOf
    <2> QED
      BY <1>1, <1>6, <1>9, <2>1, <2>2, OneGrantTyped
  <1>15. ASSUME NEW v \in UseIDs PROVE Stamped(uses[v], us[v])
    <2>1. Stamped(uses[v], pu[v])
      BY <1>1
    <2>2. Stamped(pu[v], us[v])
      BY <1>5, <1>6 DEF Stamped
    <2> QED
      BY <2>1, <2>2, StampedTwice
  <1> HIDE DEF gs
  <1> QED
    BY <1>2, <1>13, <1>14, <1>15, UpdateLedger DEF gs

\* Settling a use adds its next revision, and a commit also counts in the
\* use revision of the grant.
LEMMA SettleUseLedger ==
  ASSUME IInv, Ledger(grants, uses), NEW g \in GrantIDs, NEW u \in UseIDs,
         NEW target \in {"committed", "released", "retained"},
         SettleUse(g, u, target)
  PROVE  LedgerOK
  <1> DEFINE pg == PreparedGrants
             pu == PreparedUses
             r == [pu[u] EXCEPT !.state = target,
                                !.revision = pu[u].revision + 1,
                                !.updatedAt = now]
             us == [pu EXCEPT ![u] = r]
             n == IF target = "committed" THEN pg[g].useRevision + 1
                  ELSE pg[g].useRevision
             m == pg[g].reservationRevision + 1
             counted == [pg[g] EXCEPT !.reservationRevision = m,
                                      !.useRevision = n]
             settled == Aggregate(counted, g, us)
             grant == Consume(settled)
  <1>1. /\ Typed(pg, pu) /\ Consistent(pg, pu) /\ Ledger(pg, pu) /\ now \in Nat
        /\ pg \in [GrantIDs -> GrantRecord] /\ pu \in [UseIDs -> UseRecord]
        /\ \A v \in UseIDs : Stamped(uses[v], pu[v])
    BY PreparedState, PreparedLedger DEF IInv, Typed
  <1>2. /\ pu[u].state \in {"reserved", "retained"} \ {target}
        /\ pu[u].grant = g /\ CanSettle(pg[g].status)
        /\ Update([pg EXCEPT ![g] = grant], us)
    BY DEF SettleUse
  <1> HIDE DEF pg, pu
  <1>3. /\ r \in UseRecord /\ r.state = target /\ r.grant = g
        /\ r.operation = pu[u].operation /\ r.revision = pu[u].revision + 1
        /\ Stamped(pu[u], r)
    <2>1. pu[u] \in UseRecord
      BY <1>1
    <2>2. pu[u].revision + 1 \in Nat
      BY <2>1 DEF UseRecord
    <2> QED
      BY <1>1, <1>2, <2>1, <2>2 DEF UseRecord, UseStates, Stamped
  <1> HIDE DEF r
  <1>4. /\ us \in [UseIDs -> UseRecord] /\ us[u] = r
        /\ \A v \in UseIDs : v # u => us[v] = pu[v]
    BY <1>1, <1>3
  <1> HIDE DEF us
  <1>5. pg[g].operation = pu[u].operation
    <2>1. Agrees(pu[u], pg)
      BY <1>1 DEF Ledger
    <2> QED
      BY <1>2, <2>1 DEF Agrees
  <1>6. pg[g].status # "absent"
    BY <1>2 DEF CanSettle
  <1>7. pg[g] \in GrantRecord /\ n \in Nat /\ m \in Nat
    BY <1>1 DEF GrantRecord
  <1> HIDE DEF n, m
  <1>8. /\ counted \in GrantRecord /\ counted.status = pg[g].status
        /\ SameRequested(pg[g], counted)
        /\ counted.useRevision = n /\ counted.reservationRevision = m
    BY <1>7 DEF GrantRecord, SameRequested
  <1> HIDE DEF counted
  <1>9. /\ settled \in GrantRecord /\ settled.status = pg[g].status
        /\ settled.usedCount = Cardinality(Committed(us, g))
    BY <1>8, AggregateStep
  <1>10. /\ SameRequested(counted, settled)
         /\ settled.useRevision = counted.useRevision
         /\ settled.reservationRevision = counted.reservationRevision
         /\ settled.retained = HasRetained(us, g)
    BY <1>8, AggregateLedger
  <1> HIDE DEF settled
  <1>11. /\ grant \in GrantRecord /\ grant.status # "absent"
         /\ SameLedger(settled, grant)
    <2>1. CASE grant = settled
      BY <1>6, <1>9, <2>1 DEF SameLedger, SameRequested
    <2>2. CASE grant = [settled EXCEPT !.status = "consumed",
                                       !.expiredFrom = "none"]
      <3>1. grant \in GrantRecord /\ grant.status = "consumed"
        BY <1>9, <2>2, ZenonT(60) DEF GrantRecord, Statuses
      <3>2. SameLedger(settled, grant)
        <4>1. settled.status # "absent"
          BY <1>6, <1>9
        <4> QED
          BY <1>9, <2>2, <3>1, <4>1 DEF GrantRecord, SameLedger, SameRequested
      <3> QED
        BY <3>1, <3>2
    <2> QED
      BY <2>1, <2>2 DEF Consume
  <1> HIDE DEF grant
  <1>12. grant.useRevision = grant.usedCount
    <2>1. GrantConsistent(pg[g], pu, g) /\ Booked(pg[g], pu, g)
      BY <1>1 DEF Consistent, Ledger
    <2>2. pg[g].useRevision = Cardinality(Committed(pu, g))
      BY <1>6, <2>1 DEF GrantConsistent, Booked
    <2>3. n = Cardinality(Committed(us, g))
      <3>1. CASE target = "committed"
        <4>1. Committed(us, g) = Committed(pu, g) \cup {u}
              /\ u \notin Committed(pu, g)
          BY <1>2, <1>3, <1>4, <3>1 DEF Committed
        <4>2. Cardinality(Committed(us, g)) = Cardinality(Committed(pu, g)) + 1
          BY <4>1, UsesFinite, FS_AddElement
        <4> QED
          BY <2>2, <3>1, <4>2 DEF n
      <3>2. CASE target # "committed"
        <4>1. Committed(us, g) = Committed(pu, g)
          BY <1>2, <1>3, <1>4, <3>2 DEF Committed
        <4> QED
          BY <2>2, <3>2, <4>1 DEF n
      <3> QED
        BY <3>1, <3>2
    <2> QED
      BY <1>8, <1>9, <1>10, <1>11, <2>3 DEF SameLedger
  <1> DEFINE gs == [pg EXCEPT ![g] = grant]
  <1>13. Ledger(gs, us)
    <2>1. UseAdvances(pu, us, g, u)
      BY <1>2, <1>3, <1>4 DEF UseAdvances
    <2>2. SameRequested(pg[g], grant)
      BY <1>8, <1>10, <1>11 DEF SameRequested, SameLedger
    <2>3. grant.reservationRevision = pg[g].reservationRevision + 1
      BY <1>8, <1>10, <1>11 DEF SameLedger, m
    <2>4. grant.retained = HasRetained(us, g)
      BY <1>10, <1>11 DEF SameLedger
    <2>5. GrantAdvances(pg[g], grant, us, g)
      BY <1>6, <1>12, <2>2, <2>3, <2>4 DEF GrantAdvances
    <2>6. us[u].operation = pg[g].operation
      BY <1>3, <1>4, <1>5
    <2> QED
      BY <1>1, <1>4, <1>11, <2>1, <2>5, <2>6, OneUseLedger
  <1>14. Typed(gs, us)
    <2>1. OnlyUsesOf(g, pu, us)
      BY <1>2, <1>3, <1>4 DEF OnlyUsesOf
    <2> QED
      BY <1>1, <1>4, <1>11, <2>1, OneGrantTyped
  <1>15. ASSUME NEW v \in UseIDs PROVE Stamped(uses[v], us[v])
    <2>1. Stamped(uses[v], pu[v])
      BY <1>1
    <2>2. Stamped(pu[v], us[v])
      BY <1>3, <1>4 DEF Stamped
    <2> QED
      BY <2>1, <2>2, StampedTwice
  <1> HIDE DEF gs
  <1> QED
    BY <1>2, <1>13, <1>14, <1>15, UpdateLedger DEF gs

LEMMA RecordExecutionLedger ==
  ASSUME IInv, Ledger(grants, uses), NEW g, NEW kind, RecordExecution(g, kind)
  PROVE  LedgerOK
  <1>1. grants \in [GrantIDs -> GrantRecord]
    BY DEF IInv, Typed
  <1>2. grants' = Bumped(grants, PreparedGrants) /\ uses' = PreparedUses
    BY DEF RecordExecution
  <1>3. /\ Typed(PreparedGrants, PreparedUses)
        /\ Ledger(PreparedGrants, PreparedUses)
        /\ \A u \in UseIDs : Stamped(uses[u], PreparedUses[u])
    BY PreparedState, PreparedLedger
  <1> QED
    BY <1>1, <1>2, <1>3, BumpedLedger DEF LedgerOK

\* A decision sets the terms of a grant and leaves its ledger alone.
LEMMA DecisionLedger ==
  ASSUME NEW grant \in GrantRecord,
         NEW action \in {"approve", "deny", "revoke"}, NEW c \in Constraints,
         NEW updated \in DecisionOutcomes(grant, action, c)
  PROVE  SameLedger(grant, updated)
  <1>1. CASE action = "approve" /\ updated = Approved(grant, c)
    <2>1. grant.status = "pending"
      BY <1>1 DEF DecisionOutcomes
    <2> DEFINE d == IF c.duration > 0 THEN c.duration ELSE grant.duration
               m == IF c.maxUses = Unspecified THEN grant.maxUses ELSE c.maxUses
    <2>2. updated = [grant EXCEPT !.status = "active", !.duration = d,
                                  !.expiresAt = now + d, !.maxUses = m]
      BY <1>1 DEF Approved
    <2>3. grant.duration > 0 => d > 0
      OBVIOUS
    <2> HIDE DEF d, m
    <2> QED
      BY <2>1, <2>2, <2>3 DEF GrantRecord, SameLedger, SameRequested
  <1>2. CASE \E status \in {"failed", "denied", "revoked"} :
               updated = [grant EXCEPT !.status = status]
    <2>1. grant.status # "absent"
      BY DEF DecisionOutcomes
    <2>2. PICK status \in {"failed", "denied", "revoked"} :
            updated = [grant EXCEPT !.status = status]
      BY <1>2
    <2> QED
      BY <2>1, <2>2 DEF GrantRecord, SameLedger, SameRequested
  <1> QED
    BY <1>1, <1>2 DEF DecisionOutcomes

LEMMA ApplyOperatorDecisionLedger ==
  ASSUME IInv, Ledger(grants, uses), NEW g \in GrantIDs,
         NEW action \in {"approve", "deny", "revoke"}, NEW key, NEW expected,
         NEW c \in Constraints, ApplyOperatorDecision(g, action, key, expected, c)
  PROVE  LedgerOK
  <1> DEFINE pg == PreparedGrants
             pu == PreparedUses
             prepared == Bumped(grants, pg)
             before == IF pg # grants \/ pu # uses
                       THEN [grants EXCEPT ![g] = prepared[g]] ELSE grants
  <1>1. /\ grants \in [GrantIDs -> GrantRecord] /\ now \in Nat
        /\ Typed(pg, pu) /\ Consistent(pg, pu) /\ Ledger(pg, pu)
        /\ \A u \in UseIDs : Stamped(uses[u], pu[u])
    BY PreparedState, PreparedLedger DEF IInv, Typed
  <1>2. PICK updated \in DecisionOutcomes(prepared[g], action, c) :
          grants' = Bumped(before, [prepared EXCEPT ![g] = updated])
    BY DEF ApplyOperatorDecision
  <1>3. uses' = pu
    BY DEF ApplyOperatorDecision
  <1> HIDE DEF pg, pu
  <1>4. /\ Typed(prepared, pu) /\ Consistent(prepared, pu) /\ Ledger(prepared, pu)
        /\ prepared \in [GrantIDs -> GrantRecord]
    BY <1>1, BumpedPreserves, BumpedLedger DEF Typed
  <1>5. before \in [GrantIDs -> GrantRecord]
    BY <1>1, <1>4
  <1> HIDE DEF prepared, before
  <1>6. /\ updated \in GrantRecord /\ SameLedger(prepared[g], updated)
        /\ updated.status # "absent"
    <2>1. prepared[g] \in GrantRecord /\ GrantConsistent(prepared[g], pu, g)
      BY <1>4 DEF Consistent
    <2>2. updated \in GrantRecord
          /\ updated.status \in {"active", "failed", "denied", "revoked"}
      BY <1>1, <1>2, <2>1, DecisionOutcome
    <2> QED
      BY <1>2, <2>1, <2>2, DecisionLedger
  <1> DEFINE decided == [prepared EXCEPT ![g] = updated]
  <1>7. Typed(decided, pu)
    <2>1. OnlyUsesOf(g, pu, pu) /\ pu \in [UseIDs -> UseRecord]
      BY <1>1 DEF OnlyUsesOf, Typed
    <2> QED
      BY <1>4, <1>6, <2>1, OneGrantTyped
  <1>8. \A h \in GrantIDs : SameLedger(prepared[h], decided[h])
    <2>1. decided[g] = updated
          /\ \A h \in GrantIDs : h # g => decided[h] = prepared[h]
      BY <1>4
    <2> HIDE DEF decided
    <2> QED
      BY <1>6, <2>1 DEF SameLedger, SameRequested
  <1> HIDE DEF decided
  <1>9. Ledger(decided, pu)
    BY <1>4, <1>8, LedgerKept
  <1>10. Ledger(Bumped(before, decided), pu)
    BY <1>5, <1>7, <1>9, BumpedLedger
  <1> QED
    BY <1>1, <1>2, <1>3, <1>10 DEF LedgerOK, decided

\* Every step of the store, one case for each operation.
LEMMA NextLedger ==
  ASSUME IInv, Ledger(grants, uses), [Next]_vars
  PROVE  LedgerOK
  <1>1. CASE UNCHANGED <<grants, uses>>
    BY <1>1 DEF LedgerOK, Stamped
  <1>2. CASE Tick \/ UNCHANGED vars
    BY <1>1, <1>2 DEF Tick, vars
  <1>3. CASE Sweep \/ ReconcileDue
    BY <1>3, SweepLedger DEF Sweep, ReconcileDue
  <1>4. CASE SweepExpiry
    BY <1>4, SweepExpiryLedger
  <1>5. CASE \E req \in Requests, g \in GrantIDs : Request(req, g)
    BY <1>5, RequestLedger
  <1>6. CASE \E g \in GrantIDs, u \in UseIDs :
               \/ \E op \in Operations : ReserveUse(g, u, op)
               \/ CommitUse(g, u) \/ ReleaseUse(g, u) \/ RetainUse(g, u)
    BY <1>6, ReserveUseLedger, SettleUseLedger
      DEF CommitUse, ReleaseUse, RetainUse
  <1>7. CASE \E g \in GrantIDs :
               \/ Revoke(g)
               \/ \E client \in Clients :
                    CancelForClient(g, client) \/ RevokeForClient(g, client)
    BY <1>7, CloseLedger DEF Revoke, CancelForClient, RevokeForClient
  <1>8. CASE \E g \in GrantIDs :
               \E kind \in {"execution.succeeded", "execution.failed",
                            "execution.ambiguous"} : RecordExecution(g, kind)
    BY <1>8, RecordExecutionLedger
  <1>9. CASE \E g \in GrantIDs :
               \E action \in {"approve", "deny", "revoke"}, key \in DecisionKeys,
                  expected \in 1 .. (grants[g].revision + 1), c \in Constraints :
                 ApplyOperatorDecision(g, action, key, expected, c)
    BY <1>9, ApplyOperatorDecisionLedger
  <1> QED
    BY <1>2, <1>3, <1>4, <1>5, <1>6, <1>7, <1>8, <1>9 DEF Next

\* A stored grant has been reconciled at least once.
Revised == \A g \in Present(grants) : grants[g].revision >= 1

LedgerInv == IInv /\ Ledger(grants, uses) /\ Revised

LEMMA LedgerInit == Init => LedgerInv
  <1> SUFFICES ASSUME Init PROVE LedgerInv
    OBVIOUS
  <1>1. /\ grants = [g \in GrantIDs |-> NoGrant]
        /\ uses = [u \in UseIDs |-> NoUse]
    BY DEF Init
  <1>2. Ledger(grants, uses)
    BY <1>1 DEF Ledger, Booked, Agrees, NoGrant, NoUse
  <1>3. Revised
    BY <1>1 DEF Revised, Present, NoGrant
  <1> QED
    BY <1>2, <1>3, InitOK DEF LedgerInv

\* A grant that appears changes its status, which takes a higher revision.
LEMMA LedgerNext ==
  ASSUME LedgerInv, [Next]_vars
  PROVE  LedgerInv'
  <1>1. StepOK /\ LedgerOK
    BY BoxNextOK, NextLedger DEF LedgerInv
  <1>2. ASSUME NEW g \in GrantIDs, grants'[g].status # "absent"
        PROVE  grants'[g].revision >= 1
    <2>1. grants[g] \in GrantRecord /\ grants'[g] \in GrantRecord
      BY <1>1 DEF StepOK, LedgerInv, IInv, Typed
    <2>2. grants[g].revision \in Nat /\ grants'[g].revision \in Nat
      BY <2>1 DEF GrantRecord
    <2>3. grants'[g].revision >= grants[g].revision
      BY <1>1 DEF StepOK
    <2>4. CASE grants[g].status # "absent"
      BY <2>2, <2>3, <2>4 DEF LedgerInv, Revised, Present
    <2>5. CASE grants[g].status = "absent"
      <3>1. grants'[g].revision > grants[g].revision
        BY <1>1, <1>2, <2>5 DEF StepOK, RevisionStep
      <3> QED
        BY <2>2, <3>1
    <2> QED
      BY <2>4, <2>5
  <1>3. Revised'
    BY <1>2 DEF Revised, Present
  <1>4. Ledger(grants, uses)'
    BY <1>1 DEF LedgerOK, Ledger, Booked, Agrees, HasRetained, Open,
                UseRevisionTotal, Revisions, UsesOf
  <1> QED
    BY <1>1, <1>3, <1>4 DEF LedgerInv, StepOK

\* The ledger of every stored grant agrees with its uses in every reachable
\* state, for a clock that may step back.
THEOREM LedgerInvariance == Spec => []LedgerInv
  <1>1. Init => LedgerInv
    BY LedgerInit
  <1>2. LedgerInv /\ [Next]_vars => LedgerInv'
    BY LedgerNext
  <1> QED
    BY <1>1, <1>2, PTL DEF Spec

\* No use was settled at an instant before the one it was reserved at.
TimesOrdered ==
  \A u \in UseIDs :
    uses[u].state # "absent" => uses[u].createdAt <= uses[u].updatedAt

LEMMA SameFields ==
  ASSUME NEW grant \in GrantRecord
  PROVE  [grant EXCEPT !.usedCount = grant.usedCount,
                       !.reservedCount = grant.reservedCount,
                       !.retained = grant.retained] = grant
  BY DEF GrantRecord

\* What the ledger says of one grant is what the load asks for.
LEMMA LedgerLoads ==
  ASSUME LedgerInv, TimesOrdered
  PROVE  StateLoads
  <1>1. ASSUME NEW g \in Present(grants)
        PROVE  ValidGrant(grants[g]) /\ ValidAggregate(grants, uses, g)
    <2> DEFINE used == Cardinality(Committed(uses, g))
               open == Cardinality(Open(uses, g))
               grant == grants[g]
    <2>1. /\ g \in GrantIDs /\ grant \in GrantRecord
          /\ GrantConsistent(grant, uses, g) /\ Booked(grant, uses, g)
          /\ grant.revision >= 1 /\ grant.status # "absent"
      BY DEF LedgerInv, IInv, Typed, Consistent, Ledger, Revised, Present
    <2>2. /\ grant.usedCount = used /\ grant.reservedCount = open
          /\ grant.retained = HasRetained(uses, g)
          /\ grant.useRevision = grant.usedCount
          /\ grant.reservationRevision = UseRevisionTotal(uses, g)
          /\ grant.duration > 0 /\ grant.requestedDuration > 0
          /\ grant.pendingTimeout > 0
      BY <2>1 DEF GrantConsistent, Booked
    <2>3. grant = Aggregate(grant, g, uses)
      <3>1. Aggregate(grant, g, uses) =
              [grant EXCEPT !.usedCount = used, !.reservedCount = open,
                            !.retained = HasRetained(uses, g)]
        BY DEF Aggregate, HasRetained
      <3> HIDE DEF grant, used, open
      <3>2. Aggregate(grant, g, uses) =
              [grant EXCEPT !.usedCount = grant.usedCount,
                            !.reservedCount = grant.reservedCount,
                            !.retained = grant.retained]
        BY <2>2, <3>1
      <3> QED
        BY <2>1, <3>2, SameFields
    <2>4. grant.reservedCount = 0 \/ grant.reservationRevision >= 1
      <3> SUFFICES ASSUME open # 0 PROVE UseRevisionTotal(uses, g) >= 1
        BY <2>2
      <3>1. uses \in [UseIDs -> UseRecord]
        BY DEF LedgerInv, IInv, Typed
      <3>2. PICK u : u \in Open(uses, g)
        BY FS_EmptySet
      <3>3. u \in UsesOf(uses, g) /\ uses[u].revision \in Nat
            /\ uses[u].revision >= 1
        BY <3>1, <3>2 DEF Open, UsesOf, LedgerInv, Ledger, Agrees, UseRecord
      <3>4. <<u, 1>> \in Revisions(uses, g)
        BY <3>3, RevisionsMember
      <3> QED
        BY <3>1, <3>4, RevisionsFinite, FS_EmptySet DEF UseRevisionTotal
    <2>5. /\ grant.maxUses >= 0 /\ grant.requestedMaxUses >= 0
          /\ grant.useRevision >= grant.usedCount
      BY <2>1, <2>2 DEF GrantRecord
    <2> QED
      BY <2>1, <2>2, <2>3, <2>4, <2>5 DEF ValidGrant, ValidAggregate
  <1>2. ASSUME NEW u \in UseIDs, uses[u].state # "absent"
        PROVE  ValidUse(uses[u], grants)
    <2>1. /\ uses[u] \in UseRecord /\ uses[u].grant \in Present(grants)
          /\ Agrees(uses[u], grants)
      BY <1>2 DEF LedgerInv, IInv, Typed, Ledger
    <2>2. uses[u].createdAt <= uses[u].updatedAt
      BY <1>2 DEF TimesOrdered
    <2> QED
      BY <1>2, <2>1, <2>2 DEF ValidUse, Agrees, UseRecord
  <1> QED
    BY <1>1, <1>2 DEF StateLoads, Loadable

\* Whatever the operations and the clock do, a saved state that the next load
\* refuses has a use whose settlement is dated before its reservation: the
\* counters, revisions, limits and names that a load checks are always right.
THEOREM OnlyTimesAreRefused == Spec => [](TimesOrdered => StateLoads)
  <1>1. LedgerInv => (TimesOrdered => StateLoads)
    BY LedgerLoads
  <1> QED
    BY <1>1, LedgerInvariance, PTL

\* No use is dated after the present.
Timely ==
  \A u \in UseIDs :
    uses[u].state # "absent" =>
      uses[u].createdAt <= uses[u].updatedAt /\ uses[u].updatedAt <= now

LEMMA ClockStep ==
  ASSUME [Next]_vars
  PROVE  Tick \/ now' = now
  <1>1. CASE Sweep \/ SweepExpiry \/ ReconcileDue \/ UNCHANGED vars
    BY <1>1 DEF Sweep, SweepExpiry, ReconcileDue, Update, vars
  <1>2. CASE \E req \in Requests, g \in GrantIDs : Request(req, g)
    BY <1>2 DEF Request, Update
  <1>3. CASE \E g \in GrantIDs, u \in UseIDs :
               \/ \E op \in Operations : ReserveUse(g, u, op)
               \/ CommitUse(g, u) \/ ReleaseUse(g, u) \/ RetainUse(g, u)
    <2>1. ASSUME NEW g, NEW u, NEW op, ReserveUse(g, u, op) PROVE now' = now
      BY <2>1 DEF ReserveUse, Update
    <2>2. ASSUME NEW g, NEW u, NEW target, SettleUse(g, u, target)
          PROVE  now' = now
      BY <2>2 DEF SettleUse, Update
    <2> QED
      BY <1>3, <2>1, <2>2 DEF CommitUse, ReleaseUse, RetainUse
  <1>4. CASE \E g \in GrantIDs :
               \/ Revoke(g)
               \/ \E client \in Clients :
                    CancelForClient(g, client) \/ RevokeForClient(g, client)
    BY <1>4 DEF Revoke, CancelForClient, RevokeForClient, Close, Update
  <1>5. CASE \E g \in GrantIDs :
               \E kind \in {"execution.succeeded", "execution.failed",
                            "execution.ambiguous"} : RecordExecution(g, kind)
    BY <1>5 DEF RecordExecution
  <1>6. CASE \E g \in GrantIDs :
               \E action \in {"approve", "deny", "revoke"}, key \in DecisionKeys,
                  expected \in 1 .. (grants[g].revision + 1), c \in Constraints :
                 ApplyOperatorDecision(g, action, key, expected, c)
    BY <1>6 DEF ApplyOperatorDecision
  <1> QED
    BY <1>1, <1>2, <1>3, <1>4, <1>5, <1>6 DEF Next

\* With a clock that is never set back, every state the store saves passes
\* the validation of the next load: no sequence of requests, decisions,
\* reservations, settlements and sweeps turns the store into one that refuses
\* every operation.
THEOREM SavedStateLoads == ~ClockMayStepBack => (Spec => []StateLoads)
  <1> SUFFICES ASSUME ~ClockMayStepBack PROVE Spec => []StateLoads
    OBVIOUS
  <1>1. Init => Timely
    BY DEF Init, Timely, NoUse
  <1>2. LedgerInv /\ Timely /\ [Next]_vars => Timely'
    <2> SUFFICES ASSUME LedgerInv, Timely, [Next]_vars, NEW u \in UseIDs,
                        uses'[u].state # "absent"
                 PROVE  /\ uses'[u].createdAt <= uses'[u].updatedAt
                        /\ uses'[u].updatedAt <= now'
      BY DEF Timely
    <2>1. Stamped(uses[u], uses'[u])
      BY NextLedger DEF LedgerInv, LedgerOK
    <2>2. now \in Nat /\ now' \in Nat /\ now <= now'
      <3>1. now \in Nat
        BY DEF LedgerInv, IInv
      <3>2. CASE Tick
        <4>1. now' = now + 1 \/ (ClockMayStepBack /\ now' = now - 1)
          BY <3>2 DEF Tick, Readings
        <4>2. now' = now + 1
          BY <4>1
        <4> QED
          BY <3>1, <4>2
      <3>3. CASE now' = now
        BY <3>1, <3>3
      <3> QED
        BY <3>2, <3>3, ClockStep
    <2>3. /\ uses[u].createdAt \in Nat /\ uses[u].updatedAt \in Nat
          /\ uses[u].state # "absent" => /\ uses[u].createdAt <= uses[u].updatedAt
                                         /\ uses[u].updatedAt <= now
      BY DEF LedgerInv, IInv, Typed, UseRecord, Timely
    <2>4. CASE uses'[u] = uses[u]
      BY <2>2, <2>3, <2>4
    <2>5. CASE uses'[u] # uses[u]
      <3>1. /\ uses'[u].updatedAt = now
            /\ \/ uses'[u].createdAt = now
               \/ uses[u].state # "absent" /\ uses'[u].createdAt = uses[u].createdAt
        BY <2>1, <2>5 DEF Stamped
      <3> QED
        BY <2>2, <2>3, <3>1
    <2> QED
      BY <2>4, <2>5
  <1>3. LedgerInv /\ Timely => StateLoads
    <2>1. Timely => TimesOrdered
      BY DEF Timely, TimesOrdered
    <2> QED
      BY <2>1, LedgerLoads
  <1> QED
    BY <1>1, <1>2, <1>3, LedgerInvariance, PTL DEF Spec
===============================================================================
