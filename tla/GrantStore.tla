------------------------------ MODULE GrantStore ------------------------------
(***************************************************************************)
(* The durable grant store of authorization/grants: approval requests,     *)
(* operator decisions, the use budget of a grant, time driven expiry and   *)
(* the lifecycle event log.                                                *)
(*                                                                         *)
(* Every public method of Store holds s.mu from its load to its save, and  *)
(* a save is one atomic file replacement or one SQLite transaction.  One   *)
(* method is therefore one action; a failed save, or a crash at any point  *)
(* of a method, leaves the saved state as it was and is a stuttering step. *)
(* The methods that lock twice (request and ReserveUse end in a Get) are   *)
(* the sequence of the two actions.                                        *)
(***************************************************************************)
EXTENDS Integers, Sequences, FiniteSets

CONSTANTS
  MaxGrants,            \* bound: grants a behaviour may create
  UseIDs,               \* stable request identities of uses
  Requests,             \* raw requests callers may submit
  DecisionKeys,         \* idempotency keys of operator commands
  Constraints,          \* narrowings an operator may ask for
  PendingTimeout, DefaultDuration, MaxDuration, ReservationTimeout,
  MaxEvents, MaxPendingPerClient, MaxPendingGlobal,     \* grants.Options
  MaxTime,              \* bound: last instant of the clock
  MaxUseRevision,       \* bound: revisions after which a use is not reacquired
  MaxSequence,          \* bound: last event RecordExecution may append
  ClockMayStepBack      \* whether the wall clock may be set back

Unlimited   == 0        \* usebudget.Unlimited
SingleUse   == 1        \* usebudget.SingleUse
Unspecified == -1       \* a request or constraint without a use limit
NoKey       == "no-key" \* an empty client_request_id

\* A grant's position in the stored slice stands for its random id.
GrantIDs   == 1 .. MaxGrants
Clients    == {req.client : req \in Requests}
Operations == {req.operation : req \in Requests}

Statuses  == {"pending", "active", "denied", "failed", "expired", "consumed",
              "revoked", "canceled"}
UseStates == {"reserved", "committed", "released", "retained"}

ASSUME OptionsAssumption ==
  /\ MaxGrants \in Nat
  /\ IsFiniteSet(UseIDs)
  /\ PendingTimeout \in Nat \ {0} /\ DefaultDuration \in Nat \ {0}
  /\ MaxDuration \in Nat \ {0} /\ ReservationTimeout \in Nat \ {0}
  /\ MaxEvents \in Nat \ {0} /\ MaxPendingPerClient \in Nat \ {0}
  /\ MaxPendingGlobal \in Nat \ {0}
  /\ MaxTime \in Nat /\ MaxUseRevision \in Nat /\ MaxSequence \in Nat
  /\ ClockMayStepBack \in BOOLEAN

ASSUME RequestsAssumption ==
  \A req \in Requests :
    /\ DOMAIN req = {"client", "key", "operation", "maxUses", "duration",
                     "pendingTimeout"}
    /\ req.maxUses \in Nat \cup {Unspecified}
    /\ req.duration \in Nat /\ req.pendingTimeout \in Nat

ASSUME ConstraintsAssumption ==
  \A c \in Constraints :
    /\ DOMAIN c = {"duration", "maxUses"}
    /\ c.duration \in Nat /\ c.maxUses \in Nat \cup {Unspecified}

VARIABLES
  now,        \* s.opts.Now()
  grants,     \* fileData.Grants
  uses,       \* fileData.Uses
  events,     \* fileData.Events, each carrying its sequence number
  nextEvent,  \* fileData.NextEvent
  decisions   \* fileData.DecisionRecords

vars == <<now, grants, uses, events, nextEvent, decisions>>

(***************************************************************************)
(* Stored records                                                          *)
(***************************************************************************)
NoGrant == [status |-> "absent", revision |-> 0, client |-> "none",
            key |-> NoKey, operation |-> "none", pendingExpiresAt |-> 0,
            expiresAt |-> 0, duration |-> 0, requestedDuration |-> 0,
            pendingTimeout |-> 0, maxUses |-> 0, requestedMaxUses |-> 0,
            defaulted |-> FALSE, usedCount |-> 0, useRevision |-> 0,
            reservedCount |-> 0, retained |-> FALSE,
            reservationRevision |-> 0, expiredFrom |-> "none"]

NoUse == [state |-> "absent", grant |-> 0, operation |-> "none",
          revision |-> 0, createdAt |-> 0, updatedAt |-> 0]

Present(gs) == {g \in GrantIDs : gs[g].status # "absent"}

\* Mutant: open reservations are not charged.
AllowsIgnoringReserved(limit, used, reserved) == limit = Unlimited \/ used < limit
\* Mutant: exhausted one use early.
ExhaustedEarly(limit, used) == limit > Unlimited /\ used + 1 >= limit

\* usebudget.Limit.Allows and Exhausted.
Allows(limit, used, reserved) == limit = Unlimited \/ used + reserved < limit
Exhausted(limit, used)        == limit > Unlimited /\ used >= limit

\* reservationCanSettle
CanSettle(status) == status \in {"active", "expired", "revoked"}

\* Mutant: the deadline alone decides, not the recorded status.
CanUseByClock(grant) ==
  /\ grant.status # "absent" /\ now < grant.expiresAt
  /\ Allows(grant.maxUses, grant.usedCount, grant.reservedCount)

\* grantCanUse
CanUse(grant) ==
  /\ grant.status = "active"
  /\ now < grant.expiresAt
  /\ Allows(grant.maxUses, grant.usedCount, grant.reservedCount)

(***************************************************************************)
(* aggregateGrantUses: the counters of a grant recomputed from its uses.   *)
(* UsedAt and ReservedAt are the same fold over timestamps and are left    *)
(* out.                                                                    *)
(***************************************************************************)
UsesOf(us, g)    == {u \in UseIDs : us[u].state # "absent" /\ us[u].grant = g}
Committed(us, g) == {u \in UseIDs : us[u].state = "committed" /\ us[u].grant = g}
Open(us, g)      == {u \in UseIDs : /\ us[u].state \in {"reserved", "retained"}
                                    /\ us[u].grant = g}

Aggregate(grant, g, us) ==
  [grant EXCEPT
     !.usedCount     = Cardinality(Committed(us, g)),
     !.reservedCount = Cardinality(Open(us, g)),
     !.retained      = \E u \in Open(us, g) : us[u].state = "retained"]

\* useRevisionTotal: the sum of the revisions of the uses of a grant, counted
\* as the revisions that they have been through.
Revisions(us, g) == UNION {{u} \X (1 .. us[u].revision) : u \in UsesOf(us, g)}

UseRevisionTotal(us, g) == Cardinality(Revisions(us, g))

(***************************************************************************)
(* load: a state that does not pass these checks is refused as             *)
(* ErrUnsupportedState, and every operation of the store then fails.  The  *)
(* checks of a grant's failure and of a use's settlement time are left     *)
(* out: every operation writes both together with the state they belong to.*)
(***************************************************************************)
ValidGrant(grant) ==
  /\ grant.revision >= 1
  /\ grant.duration > 0 /\ grant.requestedDuration > 0
  /\ grant.pendingTimeout > 0
  /\ grant.maxUses >= 0 /\ grant.requestedMaxUses >= 0
  /\ grant.useRevision >= grant.usedCount
  /\ grant.reservedCount = 0 \/ grant.reservationRevision >= 1

ValidUse(use, gs) ==
  /\ use.grant \in Present(gs)
  /\ use.operation = gs[use.grant].operation
  /\ use.revision >= 1
  /\ use.updatedAt >= use.createdAt

ValidAggregate(gs, us, g) ==
  /\ gs[g] = Aggregate(gs[g], g, us)
  /\ gs[g].useRevision = gs[g].usedCount
  /\ gs[g].reservationRevision = UseRevisionTotal(us, g)

Loadable(gs, us) ==
  /\ \A g \in Present(gs) : ValidGrant(gs[g]) /\ ValidAggregate(gs, us, g)
  /\ \A u \in UseIDs : us[u].state # "absent" => ValidUse(us[u], gs)

(***************************************************************************)
(* prepareLifecycle: every mutation first expires the grants whose         *)
(* deadline has passed and then retains the reservations older than the    *)
(* reservation timeout.                                                    *)
(***************************************************************************)
Due(grant) ==
  \/ grant.status = "pending" /\ now >= grant.pendingExpiresAt
  \/ grant.status = "active"  /\ now >= grant.expiresAt

ExpireDue(gs) ==
  [g \in GrantIDs |->
     IF Due(gs[g])
     THEN [gs[g] EXCEPT !.status = "expired", !.expiredFrom = gs[g].status]
     ELSE gs[g]]

\* useReservationIsStale, over every use.
Stale(gs, us) ==
  {u \in UseIDs : /\ us[u].state = "reserved"
                  /\ CanSettle(gs[us[u].grant].status)
                  /\ now >= us[u].updatedAt + ReservationTimeout}

RetainStaleUses(gs, us) ==
  [u \in UseIDs |->
     IF u \in Stale(gs, us)
     THEN [us[u] EXCEPT !.state = "retained", !.revision = @ + 1,
                        !.updatedAt = now]
     ELSE us[u]]

\* Mutant: the reservation revision of the grant is not advanced.
RetainStaleGrantsUncounted(gs, us) ==
  [g \in GrantIDs |-> Aggregate(gs[g], g, RetainStaleUses(gs, us))]

RetainStaleGrants(gs, us) ==
  [g \in GrantIDs |->
     LET touched == {u \in Stale(gs, us) : us[u].grant = g} IN
     IF touched = {} THEN gs[g]
     ELSE Aggregate([gs[g] EXCEPT !.reservationRevision =
                                    @ + Cardinality(touched)],
                    g, RetainStaleUses(gs, us))]

PreparedGrants == RetainStaleGrants(ExpireDue(grants), uses)
PreparedUses   == RetainStaleUses(ExpireDue(grants), uses)

(***************************************************************************)
(* reconcileLifecycle: a grant that differs visibly from its snapshot gets *)
(* the next revision and one event for each kind of change.                *)
(***************************************************************************)
StatusEvent ==
  [active |-> "request.approved", denied |-> "request.denied",
   failed |-> "request.failed", canceled |-> "request.canceled",
   expired |-> "request.expired", revoked |-> "grant.revoked"]

When(condition, kind) == IF condition THEN <<kind>> ELSE <<>>

LifecycleKinds(before, after) ==
  IF before.status = "absent"
  THEN When(after.status # "absent", "request.created")
  ELSE (IF before.status # after.status /\ after.status \in DOMAIN StatusEvent
        THEN <<StatusEvent[after.status]>> ELSE <<>>)
       \o When(after.usedCount > before.usedCount, "grant.consumed")
       \o When(/\ after.usedCount <= before.usedCount
               /\ after.reservedCount < before.reservedCount, "grant.released")
       \o When(after.reservedCount > before.reservedCount, "grant.reserved")
       \o When(~before.retained /\ after.retained, "execution.ambiguous")

\* Mutant: only a new status is a new revision.
BumpOnStatus(before, after) ==
  IF before.status = after.status THEN after
  ELSE [after EXCEPT !.revision = before.revision + 1]

Bump(before, after) ==
  IF LifecycleKinds(before, after) = <<>> THEN after
  ELSE [after EXCEPT !.revision = before.revision + 1]

Bumped(before, after) == [g \in GrantIDs |-> Bump(before[g], after[g])]

Event(sequence, kind, g, grant) ==
  [seq |-> sequence, kind |-> kind, grant |-> g, status |-> grant.status,
   used |-> grant.usedCount, reserved |-> grant.reservedCount,
   revision |-> grant.revision]

Kinds(before, after) ==
  [g \in GrantIDs |-> LifecycleKinds(before[g], after[g])]

\* <<g, i>> stands for the i-th event of grant g; a grant has at most four.
Slots(kinds) == {p \in GrantIDs \X (1 .. 4) : p[2] <= Len(kinds[p[1]])}

\* Events follow the order of the stored grants and of their kinds.
Preceding(slots, p) ==
  {q \in slots : q[1] < p[1] \/ (q[1] = p[1] /\ q[2] < p[2])}

EventCount(before, after) == Cardinality(Slots(Kinds(before, after)))

\* The events one reconciliation appends, numbered from first.
Batch(before, after, first) ==
  LET kinds == Kinds(before, after)
      slots == Slots(kinds)
  IN  {Event(first + Cardinality(Preceding(slots, p)), kinds[p[1]][p[2]], p[1],
             Bump(before[p[1]], after[p[1]])) : p \in slots}

\* Mutant: the sequence is not advanced.
LogWithoutAdvance(batch, count) ==
  nextEvent' = nextEvent /\ events' = events \cup batch
\* Mutant: the oldest events are retained.
LogKeepsOldest(batch, count) ==
  /\ nextEvent' = nextEvent + count
  /\ events' = {e \in events \cup batch : e.seq <= MaxEvents}

\* appendLifecycleEvent for a batch: only the newest MaxEvents are retained.
Log(batch, count) ==
  /\ nextEvent' = nextEvent + count
  /\ events' = {e \in events \cup batch : e.seq >= nextEvent' - MaxEvents}

(***************************************************************************)
(* update: the frame of every mutation. gs and us are the prepared state   *)
(* after the mutator.  A mutator that fails leaves them prepared, so every *)
(* refused operation has the effect of Sweep below.                        *)
(***************************************************************************)
Update(gs, us) ==
  /\ Loadable(grants, uses)
  /\ grants' = Bumped(grants, gs)
  /\ uses' = us
  /\ Log(Batch(grants, gs, nextEvent), EventCount(grants, gs))
  /\ UNCHANGED <<now, decisions>>

\* A refused or replayed mutation, and GetUse.
Sweep == Update(PreparedGrants, PreparedUses)

\* Get, List and ActivePolicyGrants expire grants but retain no reservation.
SweepExpiry == Update(ExpireDue(grants), uses)

\* reconcileDueLifecycle saves only when reconciliation found an event kind.
ReconcileDue ==
  /\ EventCount(grants, PreparedGrants) > 0
  /\ Update(PreparedGrants, PreparedUses)

(***************************************************************************)
(* request                                                                 *)
(***************************************************************************)
NormalizeRequest(req) ==
  [req EXCEPT
     !.duration       = IF @ = 0 THEN DefaultDuration ELSE @,
     !.pendingTimeout = IF @ = 0 THEN PendingTimeout ELSE @,
     !.maxUses        = IF @ = Unspecified THEN SingleUse ELSE @]

\* Mutant: a decided grant no longer answers for its key.
FindPendingOnly(gs, req) ==
  {g \in Present(gs) : /\ req.key # NoKey
                       /\ gs[g].client = req.client /\ gs[g].key = req.key
                       /\ gs[g].status = "pending"}

FindIdempotent(gs, req) ==
  {g \in Present(gs) : /\ req.key # NoKey
                       /\ gs[g].client = req.client /\ gs[g].key = req.key
                       /\ gs[g].status # "canceled"}

\* sameRequest: target, attrs, metadata and reason are part of the operation.
SameRequest(grant, req) ==
  LET norm == NormalizeRequest(req) IN
  /\ grant.operation = norm.operation
  /\ grant.maxUses = norm.maxUses
  /\ grant.defaulted = (req.maxUses = Unspecified)
  /\ grant.duration = norm.duration
  /\ grant.pendingTimeout = norm.pendingTimeout

Pending(gs) == {g \in GrantIDs : gs[g].status = "pending"}

CapacityAvailable(gs, client) ==
  /\ Cardinality({g \in Pending(gs) : gs[g].client = client})
       < MaxPendingPerClient
  /\ Cardinality(Pending(gs)) < MaxPendingGlobal

NewGrant(req) ==
  LET norm == NormalizeRequest(req) IN
  [status |-> "pending", revision |-> 0, client |-> req.client,
   key |-> req.key, operation |-> req.operation,
   pendingExpiresAt |-> now + norm.pendingTimeout, expiresAt |-> 0,
   duration |-> norm.duration, requestedDuration |-> norm.duration,
   pendingTimeout |-> norm.pendingTimeout, maxUses |-> norm.maxUses,
   requestedMaxUses |-> norm.maxUses,
   defaulted |-> (req.maxUses = Unspecified), usedCount |-> 0,
   useRevision |-> 0, reservedCount |-> 0, retained |-> FALSE,
   reservationRevision |-> 0, expiredFrom |-> "none"]

\* The next free position of the slice; none is left at the bound.
FreeGrant(g) == g \in GrantIDs /\ Present(grants) = 1 .. (g - 1)

Request(req, g) ==
  /\ FreeGrant(g)
  /\ NormalizeRequest(req).duration <= MaxDuration
  /\ FindIdempotent(PreparedGrants, req) = {}
  /\ CapacityAvailable(PreparedGrants, req.client)
  /\ Update([PreparedGrants EXCEPT ![g] = NewGrant(req)], PreparedUses)

(***************************************************************************)
(* ReserveUse                                                              *)
(***************************************************************************)
\* reserveExistingUse or reserveNewUse; a use that is not released is
\* returned as it is, which is a Sweep.
ReserveUse(g, u, operation) ==
  LET use   == PreparedUses[u]
      grant == PreparedGrants[g]
      us    == [PreparedUses EXCEPT ![u] =
                  IF use.state = "absent"
                  THEN [state |-> "reserved", grant |-> g,
                        operation |-> operation, revision |-> 1,
                        createdAt |-> now, updatedAt |-> now]
                  ELSE [use EXCEPT !.state = "reserved", !.revision = @ + 1,
                                   !.updatedAt = now]]
  IN
  /\ g \in Present(grants)
  /\ \/ use.state = "absent" /\ grant.operation = operation
     \/ /\ use.state = "released"
        /\ use.grant = g /\ use.operation = operation
        /\ use.revision < MaxUseRevision
  /\ CanUse(grant)
  /\ Update([PreparedGrants EXCEPT
               ![g] = Aggregate([grant EXCEPT !.reservationRevision = @ + 1],
                                g, us)], us)

(***************************************************************************)
(* CommitUse, ReleaseUse and RetainUse                                     *)
(***************************************************************************)
\* settleGrantUse
Consume(grant) ==
  IF Exhausted(grant.maxUses, grant.usedCount) /\ grant.status # "revoked"
  THEN [grant EXCEPT !.status = "consumed", !.expiredFrom = "none"]
  ELSE grant

\* settleUse; a use already in the target state, or settled, is a Sweep.
SettleUse(g, u, target) ==
  LET use   == PreparedUses[u]
      grant == PreparedGrants[g]
      us    == [PreparedUses EXCEPT ![u] =
                  [use EXCEPT !.state = target, !.revision = @ + 1,
                              !.updatedAt = now]]
  IN
  /\ use.state \in {"reserved", "retained"} \ {target}
  /\ use.grant = g
  /\ CanSettle(grant.status)
  /\ Update([PreparedGrants EXCEPT
               ![g] = Consume(Aggregate(
                        [grant EXCEPT
                           !.reservationRevision = @ + 1,
                           !.useRevision =
                             IF target = "committed" THEN @ + 1 ELSE @],
                        g, us))], us)

CommitUse(g, u)  == SettleUse(g, u, "committed")
ReleaseUse(g, u) == SettleUse(g, u, "released")
RetainUse(g, u)  == SettleUse(g, u, "retained")

(***************************************************************************)
(* Revoke, CancelForClient and RevokeForClient                             *)
(***************************************************************************)
Close(g, required, next) ==
  /\ PreparedGrants[g].status = required
  /\ Update([PreparedGrants EXCEPT ![g].status = next], PreparedUses)

Revoke(g) == Close(g, "active", "revoked")

CancelForClient(g, client) ==
  PreparedGrants[g].client = client /\ Close(g, "pending", "canceled")

RevokeForClient(g, client) ==
  PreparedGrants[g].client = client /\ Close(g, "active", "revoked")

\* RecordExecution appends its event before the update is reconciled.
RecordExecution(g, kind) ==
  /\ g \in Present(grants)
  /\ nextEvent <= MaxSequence
  /\ Loadable(grants, uses)
  /\ grants' = Bumped(grants, PreparedGrants)
  /\ uses' = PreparedUses
  /\ Log({Event(nextEvent, kind, g, PreparedGrants[g])}
           \cup Batch(grants, PreparedGrants, nextEvent + 1),
         1 + EventCount(grants, PreparedGrants))
  /\ UNCHANGED <<now, decisions>>

(***************************************************************************)
(* ApplyOperatorDecision                                                   *)
(***************************************************************************)
\* validApprovalConstraints
ValidConstraint(c, grant) ==
  /\ c.duration <= grant.requestedDuration
  /\ \/ c.maxUses = Unspecified
     \/ c.maxUses = Unlimited /\ grant.requestedMaxUses = Unlimited
     \/ /\ c.maxUses > Unlimited
        /\ \/ grant.requestedMaxUses = Unlimited
           \/ c.maxUses <= grant.requestedMaxUses

\* applyApprovalMutation
Approved(grant, c) ==
  LET duration == IF c.duration > 0 THEN c.duration ELSE grant.duration IN
  [grant EXCEPT
     !.status = "active", !.duration = duration,
     !.expiresAt = now + duration,
     !.maxUses = IF c.maxUses = Unspecified THEN @ ELSE c.maxUses]

NoConstraint == [duration |-> 0, maxUses |-> Unspecified]

\* Mutant: a decision does not require a pending grant.
DecisionAtAnyTime(grant, action, c) ==
  {[grant EXCEPT !.status = CASE action = "approve" -> "active"
                              [] action = "deny"    -> "denied"
                              [] action = "revoke"  -> "revoked"]}

\* applyDecisionMutation: the outcomes of the action on a grant that commit.
\* The activation check of an approval may end in a terminal failure.
DecisionOutcomes(grant, action, c) ==
  CASE action = "approve" ->
         IF grant.status = "pending" /\ ValidConstraint(c, grant)
         THEN {Approved(grant, c), [grant EXCEPT !.status = "failed"]} ELSE {}
    [] action = "deny" ->
         IF grant.status = "pending" /\ c = NoConstraint
         THEN {[grant EXCEPT !.status = "denied"]} ELSE {}
    [] action = "revoke" ->
         IF grant.status = "active" /\ c = NoConstraint
         THEN {[grant EXCEPT !.status = "revoked"]} ELSE {}

\* prepareOperatorDecision reconciles the prepared state at once, and
\* reconcileOperatorMutation compares the result with the snapshot taken
\* before the preparation, refreshed for the decided grant only.  A replay,
\* a conflict and a refused transition are a Sweep.
ApplyOperatorDecision(g, action, key, expected, c) ==
  LET changed  == PreparedGrants # grants \/ PreparedUses # uses
      prepared == Bumped(grants, PreparedGrants)
      count    == EventCount(grants, PreparedGrants)
      before   == IF changed THEN [grants EXCEPT ![g] = prepared[g]] ELSE grants
  IN
  /\ g \in Present(grants)
  /\ ~ \E d \in decisions : d.grant = g /\ d.action = action /\ d.key = key
  /\ prepared[g].revision = expected
  /\ Loadable(grants, uses)
  /\ \E updated \in DecisionOutcomes(prepared[g], action, c) :
       LET decided == [prepared EXCEPT ![g] = updated] IN
       /\ grants' = Bumped(before, decided)
       /\ Log(Batch(grants, PreparedGrants, nextEvent)
                \cup Batch(before, decided, nextEvent + count),
              count + EventCount(before, decided))
       /\ decisions' = decisions \cup
            {[grant |-> g, action |-> action, key |-> key,
              expected |-> expected, result |-> updated.status]}
  /\ uses' = PreparedUses
  /\ UNCHANGED now

(***************************************************************************)
(* The clock                                                               *)
(***************************************************************************)
\* What the wall clock may show next.
Readings == {t \in 0 .. MaxTime :
               t = now + 1 \/ (ClockMayStepBack /\ t = now - 1)}

Tick == now' \in Readings
        /\ UNCHANGED <<grants, uses, events, nextEvent, decisions>>

Init ==
  /\ now = 0
  /\ grants = [g \in GrantIDs |-> NoGrant]
  /\ uses = [u \in UseIDs |-> NoUse]
  /\ events = {} /\ nextEvent = 1
  /\ decisions = {}

Next ==
  \/ Tick \/ Sweep \/ SweepExpiry \/ ReconcileDue
  \/ \E req \in Requests, g \in GrantIDs : Request(req, g)
  \/ \E g \in GrantIDs, u \in UseIDs :
       \/ \E op \in Operations : ReserveUse(g, u, op)
       \/ CommitUse(g, u) \/ ReleaseUse(g, u) \/ RetainUse(g, u)
  \/ \E g \in GrantIDs :
       \/ Revoke(g)
       \/ \E client \in Clients :
            CancelForClient(g, client) \/ RevokeForClient(g, client)
       \/ \E kind \in {"execution.succeeded", "execution.failed",
                       "execution.ambiguous"} : RecordExecution(g, kind)
       \/ \E action \in {"approve", "deny", "revoke"}, key \in DecisionKeys,
             expected \in 1 .. (grants[g].revision + 1), c \in Constraints :
            ApplyOperatorDecision(g, action, key, expected, c)

Spec == Init /\ [][Next]_vars

(***************************************************************************)
(* Properties                                                              *)
(***************************************************************************)
GrantRecord ==
  [status : Statuses \cup {"absent"}, revision : Nat,
   client : Clients \cup {"none"},
   key : {req.key : req \in Requests} \cup {NoKey},
   operation : Operations \cup {"none"}, pendingExpiresAt : Nat,
   expiresAt : Nat, duration : Nat, requestedDuration : Nat,
   pendingTimeout : Nat, maxUses : Nat, requestedMaxUses : Nat,
   defaulted : BOOLEAN, usedCount : Nat, useRevision : Nat,
   reservedCount : Nat, retained : BOOLEAN, reservationRevision : Nat,
   expiredFrom : {"none", "pending", "active"}]

UseRecord ==
  [state : UseStates \cup {"absent"}, grant : GrantIDs \cup {0},
   operation : Operations \cup {"none"}, revision : Nat,
   createdAt : Nat, updatedAt : Nat]

\* The stored records are well formed; a present use names a present grant,
\* which is what findGrant in retainStaleReservations relies on.
TypeOK ==
  /\ now \in Nat
  /\ grants \in [GrantIDs -> GrantRecord]
  /\ uses \in [UseIDs -> UseRecord]
  /\ \A u \in UseIDs :
       uses[u].state # "absent" => uses[u].grant \in Present(grants)
  /\ nextEvent \in Nat \ {0}
  /\ \A e \in events : e.grant \in GrantIDs /\ e.seq \in 1 .. (nextEvent - 1)

\* Every state the store saves passes the validation of the next load
\* (validateLoadedGrants, validateLoadedUses): no sequence of operations
\* turns the store into one that refuses all of them.
StateLoads == Loadable(grants, uses)

\* The uses charged to a grant, counted from the use records and not from
\* the counters, exceed neither the approved nor the requested limit,
\* whatever expired, was retained or was reacquired in between.
BudgetRespected ==
  \A g \in Present(grants) :
    LET charged == Cardinality(Committed(uses, g)) + Cardinality(Open(uses, g))
    IN  /\ grants[g].maxUses # Unlimited => charged <= grants[g].maxUses
        /\ grants[g].requestedMaxUses # Unlimited =>
             charged <= grants[g].requestedMaxUses

\* A reservation whose result may still be unknown belongs to a grant that
\* lets it settle (reservationCanSettle): expiry, revocation and the last
\* commit of other uses never strand it.
NoStrandedReservation ==
  \A u \in UseIDs : uses[u].state \in {"reserved", "retained"} =>
    CanSettle(grants[uses[u].grant].status)

\* A consumer that has read the newest retained event of a grant knows its
\* present status, counters and revision: no operation changes them without
\* an event, and none logs a state that is not the saved one.
LogCurrent ==
  \A g \in Present(grants) :
    \A e \in events :
      (e.grant = g /\ \A f \in events : f.grant = g => f.seq <= e.seq) =>
        e = Event(e.seq, e.kind, g, grants[g])

\* One client_request_id of a client names at most one grant that was not
\* withdrawn, so a retried request never creates a second authority.
OneGrantPerKey ==
  \A g, h \in Present(grants) :
    (/\ grants[g].key # NoKey /\ grants[g].key = grants[h].key
     /\ grants[g].client = grants[h].client
     /\ grants[g].status # "canceled" /\ grants[h].status # "canceled")
    => g = h

\* Racing operators, whatever their keys and the revisions they saw, decide
\* a request once, and only an approved one is ever revoked by decision.
OneVerdict ==
  \A d, e \in decisions :
    d.grant = e.grant =>
      /\ (d.action # "revoke" /\ e.action # "revoke") => d = e
      /\ (d.action = "revoke" /\ e.action # "revoke") => e.result = "active"

AuthorityStep ==
  /\ \A g \in GrantIDs :
       LET old == grants[g].status
           new == grants'[g].status
       IN  old \notin {"absent", "pending", "active"} =>
             new = old \/ (old = "expired" /\ new = "consumed")
  /\ \A u \in UseIDs :
       (uses[u].state # "reserved" /\ uses'[u].state = "reserved") =>
         LET g == uses'[u].grant IN
         /\ grants[g].status = "active" /\ grants'[g].status = "active"
         /\ now < grants[g].expiresAt

\* Authority that has closed stays closed, whatever the clock does, except
\* that a last commit turns expired into consumed; and a use is acquired
\* only from a grant that is active and within its window.
AuthorityIsFinal == [][AuthorityStep]_vars

SettlementStep ==
  \A u \in UseIDs :
    /\ uses[u].state = "committed" => uses'[u] = uses[u]
    /\ uses[u].state = "retained" =>
         uses'[u].state \in {"retained", "committed", "released"}
    /\ uses[u].state # "absent" =>
         /\ uses'[u].grant = uses[u].grant
         /\ uses'[u].operation = uses[u].operation

\* A committed use is final, and a retained one is resolved only by a
\* commit or a release of the same use, never by a new reservation.
SettlementIsFinal == [][SettlementStep]_vars

RevisionStep ==
  \A g \in GrantIDs :
    LET view(grant) == <<grant.status, grant.maxUses, grant.duration,
                         grant.usedCount, grant.reservedCount>>
    IN  view(grants'[g]) # view(grants[g]) =>
          grants'[g].revision > grants[g].revision

\* Whatever an operator decides on is covered by the revision: a grant whose
\* status, limits or counters change gets a higher revision in the same
\* step, so a decision made on an older view is refused.
RevisionCoversChange == [][RevisionStep]_vars
===========================================================================
