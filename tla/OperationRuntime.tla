--------------------------- MODULE OperationRuntime ---------------------------
(***************************************************************************)
(* The lifecycle of durable operations: operation/runtime over the store   *)
(* of agent/runtime and the approval grants.                               *)
(*                                                                         *)
(* Submit, Cancel and Advance of one operation exclude each other by the   *)
(* operation's authorization lock, so an operation has one thread.  An     *)
(* action makes one durable change in one of the two stores, which share   *)
(* no transaction: a crash may fall between any two.  A value read from    *)
(* the grant store in one call decides the next write only; the grant may  *)
(* change in between exactly as it may after the write, so the read and    *)
(* the write are one action.  A call that fails and changes nothing is a   *)
(* stuttering step.                                                        *)
(*                                                                         *)
(* Grants are kept to what GrantStore promises: a status, a mode, a use    *)
(* limit, and one use for each operation.  The grant an operation asks for *)
(* carries the operation's name (ClientRequestID).                         *)
(***************************************************************************)
EXTENDS Integers, FiniteSets

CONSTANTS
  Ops,         \* operations of one client and kind, by idempotency key
  Window,      \* those whose approval is a reusable window grant
  MaxUses,     \* bound: the largest use limit of a window grant
  MaxFaults,   \* bound: failed calls in a behaviour
  MaxCrashes   \* bound: crashes in a behaviour

None == "none"

ASSUME RuntimeAssumption ==
  /\ IsFiniteSet(Ops) /\ Window \subseteq Ops /\ None \notin Ops
  /\ MaxUses \in Nat \ {0}
  /\ MaxFaults \in Nat /\ MaxCrashes \in Nat

VARIABLES
  channel,      \* OperatorConfigured: whether anybody decides on approvals
  ops,          \* the operation rows: state and approval id
  grants,       \* the approval grants: status and use limit
  uses,         \* the state of each operation's use of its approval
  dispatched,   \* how often adapter.Execute was called for an operation
  effects,      \* operations whose mutation took effect at the provider
  threads,      \* the holder of each operation's lock
  unlocked,     \* submitters that go on after they released the lock
  interrupted,  \* executing operations the restart has to reconcile
  faults, crashes

vars == <<channel, ops, grants, uses, dispatched, effects, threads, unlocked,
          interrupted, faults, crashes>>

States   == {"absent", "pending", "approved", "executing", "succeeded",
             "failed", "denied", "expired", "canceled"}
Failures == {"failed", "denied", "expired", "canceled"}
Terminal == Failures \cup {"succeeded"}

Statuses == {"absent", "pending", "active", "denied", "failed", "canceled",
             "revoked", "expired", "consumed"}

\* operationTransitions
Allowed(from, to) ==
  \/ from = "pending"   /\ to \in {"approved"} \cup Failures
  \/ from = "approved"  /\ to \in {"executing", "expired", "canceled", "failed"}
  \/ from = "executing" /\ to \in {"succeeded", "failed"}

Idle == [at |-> "idle", want |-> "none", end |-> "none"]

At(o, label) == threads[o].at = label

\* want: the settlement of the use; end: the state the operation ends in.
Thread(o, label, want, end) ==
  threads' = [threads EXCEPT ![o] = [at |-> label, want |-> want, end |-> end]]

Goto(o, label)        == Thread(o, label, threads[o].want, threads[o].end)
EndAs(o, state)       == Thread(o, "end", "none", state)
SettleAs(o, use, end) == Thread(o, "settle", use, end)
Unlock(o)             == threads' = [threads EXCEPT ![o] = Idle]

SetState(o, state) == ops' = [ops EXCEPT ![o].state = state]
SetUse(o, state)   == uses' = [uses EXCEPT ![o] = state]

Fault == faults < MaxFaults /\ faults' = faults + 1
Fine  == UNCHANGED faults

\* What most actions leave alone.
Elsewhere ==
  UNCHANGED <<channel, dispatched, effects, unlocked, interrupted, crashes>>

(***************************************************************************)
(* Grants and their uses, as GrantStore keeps them                         *)
(***************************************************************************)
Charged == {"reserved", "retained", "committed"}

ChargedTo(g) == {o \in Ops : ops[o].approval = g /\ uses[o] \in Charged}

\* grantCanUse
Available(g) ==
  grants[g].status = "active" /\ Cardinality(ChargedTo(g)) < grants[g].limit

CanSettle(g) == grants[g].status \in {"active", "expired", "revoked"}

\* settleGrantUse: the last committed use consumes the grant, an expired one too.
Consumes(g, o) ==
  /\ grants[g].status # "revoked"
  /\ Cardinality({p \in ChargedTo(g) : uses[p] = "committed"} \cup {o})
       >= grants[g].limit

SettledGrants(g, o, use) ==
  IF use = "committed" /\ Consumes(g, o)
  THEN [grants EXCEPT ![g].status = "consumed"] ELSE grants

\* cancelGrant: CancelForClient or RevokeForClient, whichever applies.
Withdrawn(status) ==
  CASE status = "pending" -> "canceled"
    [] status = "active"  -> "revoked"
    [] OTHER              -> status

Withdraw(g) == grants' = [grants EXCEPT ![g].status = Withdrawn(@)]

Decide(g) ==
  /\ channel = "configured" /\ grants[g].status = "pending"
  /\ \/ \E limit \in 1 .. (IF g \in Window THEN MaxUses ELSE 1) :
          grants' = [grants EXCEPT ![g] = [status |-> "active", limit |-> limit]]
     \/ \E status \in {"denied", "failed"} :
          grants' = [grants EXCEPT ![g].status = status]
  /\ Fine /\ UNCHANGED <<ops, uses, threads>> /\ Elsewhere

Expire(g) ==
  /\ grants[g].status \in {"pending", "active"}
  /\ grants' = [grants EXCEPT ![g].status = "expired"]
  /\ Fine /\ UNCHANGED <<ops, uses, threads>> /\ Elsewhere

Revoke(g) ==
  /\ grants[g].status = "active"
  /\ grants' = [grants EXCEPT ![g].status = "revoked"]
  /\ Fine /\ UNCHANGED <<ops, uses, threads>> /\ Elsewhere

\* retainStaleReservations
RetainStale(o) ==
  /\ uses[o] = "reserved" /\ SetUse(o, "retained")
  /\ Fine /\ UNCHANGED <<ops, grants, threads>> /\ Elsewhere

(***************************************************************************)
(* Submit.  A repeated submission returns the stored operation.            *)
(***************************************************************************)
Insert(o, state, approval) ==
  /\ ops[o].state = "absent"
  /\ ops' = [ops EXCEPT ![o] = [state |-> state, approval |-> approval]]

\* The policy allows the operation without approval.
SubmitDirectGrant(o) ==
  /\ At(o, "idle") /\ Insert(o, "approved", None)
  /\ Fine /\ UNCHANGED <<grants, uses, threads>> /\ Elsewhere

\* An active window grant with room authorises the operation at once.
SubmitActiveGrant(o, g) ==
  /\ At(o, "idle")
  /\ g \in Window /\ Available(g) /\ Insert(o, "approved", g)
  /\ Fine /\ UNCHANGED <<grants, uses, threads>> /\ Elsewhere

SubmitPending(o) ==
  /\ At(o, "idle") /\ \A g \in Window : ~Available(g)
  /\ Insert(o, "pending", None) /\ Goto(o, "request")
  /\ Fine /\ UNCHANGED <<grants, uses>> /\ Elsewhere

\* The policy refuses, or the request cannot be made: no grant was created.
RequestRefused(o) ==
  /\ At(o, "request") /\ \E state \in {"denied", "failed"} : EndAs(o, state)
  /\ Fine /\ UNCHANGED <<ops, grants, uses>> /\ Elsewhere

\* A request that is stored but cannot be read back is reported as not made:
\* abandonApproval is not told its id.
RequestApproval(o) ==
  /\ At(o, "request") /\ grants' = [grants EXCEPT ![o].status = "pending"]
  /\ (Fine /\ Goto(o, "bind")) \/ (Fault /\ EndAs(o, "failed"))
  /\ UNCHANGED <<ops, uses>> /\ Elsewhere

BindPlan(o) ==
  /\ At(o, "bind") /\ ops[o].state = "pending"
  /\ \/ /\ Fine /\ ops' = [ops EXCEPT ![o].approval = o] /\ Unlock(o)
        /\ unlocked' = IF channel = "configured" THEN unlocked
                       ELSE [unlocked EXCEPT ![o] = "abandon"]
     \/ Fault /\ Goto(o, "abandon") /\ UNCHANGED <<ops, unlocked>>
  /\ UNCHANGED <<grants, uses, dispatched, effects, channel, interrupted, crashes>>

\* abandonApproval, its error ignored: a request decided after it was read is
\* not withdrawn.
AbandonApproval(o) ==
  /\ At(o, "abandon") /\ EndAs(o, "failed")
  /\ \/ Fine /\ Withdraw(o)
     \/ grants[o].status # "pending" /\ Fine /\ UNCHANGED grants
     \/ Fault /\ UNCHANGED grants
  /\ UNCHANGED <<ops, uses>> /\ Elsewhere

\* failUnnotified, without the lock: without an operator channel the request
\* is withdrawn, unless it changed meanwhile, and the operation fails.
AbandonUnnotified(o) ==
  /\ unlocked[o] = "abandon"
  /\ \/ Withdraw(o) /\ unlocked' = [unlocked EXCEPT ![o] = "fail"]
     \/ /\ grants[o].status # "pending" /\ UNCHANGED grants
        /\ unlocked' = [unlocked EXCEPT ![o] = "none"]
  /\ Fine
  /\ UNCHANGED <<ops, uses, threads, dispatched, effects, channel, interrupted, crashes>>

\* Mutant: the transition is not checked against the stored state.
FailAnything(o, state) == Fine /\ SetState(o, state)

\* fail ignores a failed write.
Fail(o, state) ==
  \/ Fine /\ IF Allowed(ops[o].state, state) THEN SetState(o, state)
             ELSE UNCHANGED ops
  \/ Fault /\ UNCHANGED ops

FailUnnotified(o) ==
  /\ unlocked[o] = "fail" /\ Fail(o, "failed")
  /\ unlocked' = [unlocked EXCEPT ![o] = "none"]
  /\ UNCHANGED <<grants, uses, threads, dispatched, effects, channel, interrupted, crashes>>

(***************************************************************************)
(* Cancel                                                                  *)
(***************************************************************************)
ApprovalOf(o) ==
  CASE ops[o].approval # None    -> {ops[o].approval}
    [] grants[o].status # "absent" -> {o}
    [] OTHER                     -> {}

\* Mutant: the request stays open when its operation is canceled.
CancelKeepsRequest(o) ==
  /\ At(o, "idle") /\ ops[o].state \in {"pending", "approved"}
  /\ Goto(o, "cancel") /\ Fine /\ UNCHANGED <<ops, grants, uses>> /\ Elsewhere

\* An active window grant, or the active grant of another operation, is left
\* to the others that use it.
CancelApproval(o) ==
  /\ At(o, "idle") /\ ops[o].state \in {"pending", "approved"}
  /\ Goto(o, "cancel")
  /\ \/ /\ \A g \in ApprovalOf(o) :
             grants[g].status = "active" /\ (g # o \/ g \in Window)
        /\ UNCHANGED grants
     \/ \E g \in ApprovalOf(o) :
          /\ ~(grants[g].status = "active" /\ (g # o \/ g \in Window))
          /\ Withdraw(g)
  /\ Fine /\ UNCHANGED <<ops, uses>> /\ Elsewhere

\* Mutant: the state is not checked again when the operation is canceled.
CancelAnything(o) ==
  /\ ops[o].state \in {"pending", "approved", "executing"}
  /\ SetState(o, "canceled") /\ UNCHANGED threads
  /\ Fine /\ UNCHANGED <<grants, uses>> /\ Elsewhere

Cancel(o) ==
  /\ At(o, "cancel") /\ Unlock(o)
  /\ \/ Fine /\ IF ops[o].state \in {"pending", "approved"}
                THEN SetState(o, "canceled") ELSE UNCHANGED ops
     \/ Fault /\ UNCHANGED ops
  /\ UNCHANGED <<grants, uses>> /\ Elsewhere

(***************************************************************************)
(* Advance.  Every transition it makes may fail and be left to the next    *)
(* Advance, so each is an action of its own.                               *)
(***************************************************************************)
\* RecoverApproval: a submitter that crashed left its grant unbound, or none
\* to wait for once the grace period is over.
RecoverApproval(o) ==
  /\ At(o, "idle") /\ ops[o].state = "pending" /\ ops[o].approval = None
  /\ IF grants[o].status = "absent" THEN SetState(o, "failed")
     ELSE ops' = [ops EXCEPT ![o].approval = o]
  /\ Fine /\ UNCHANGED <<grants, uses, threads>> /\ Elsewhere

\* approvalFailures and operationApprovalFailure
ApprovalFailures == {"denied", "expired", "failed", "canceled", "revoked"}

ApprovalFailure(status) ==
  IF status = "revoked" THEN "canceled" ELSE status

\* Mutant: only an approval moves a pending operation on.
SyncActiveOnly(o) ==
  /\ At(o, "idle") /\ ops[o].state = "pending" /\ ops[o].approval # None
  /\ grants[ops[o].approval].status = "active" /\ SetState(o, "approved")
  /\ Fine /\ UNCHANGED <<grants, uses, threads>> /\ Elsewhere

\* A consumed grant is neither active nor a failure: nothing happens.
SyncApproval(o) ==
  LET status == grants[ops[o].approval].status IN
  /\ At(o, "idle") /\ ops[o].state = "pending" /\ ops[o].approval # None
  /\ \/ status = "active" /\ SetState(o, "approved")
     \/ status \in ApprovalFailures /\ SetState(o, ApprovalFailure(status))
  /\ Fine /\ UNCHANGED <<grants, uses, threads>> /\ Elsewhere

Claim(o) ==
  /\ At(o, "idle") /\ ops[o].state = "approved"
  /\ SetState(o, "executing") /\ Goto(o, "execute")
  /\ Fine /\ UNCHANGED <<grants, uses>> /\ Elsewhere

\* Mutant: the room found at submission is not checked again.
ReserveUnchecked(o) ==
  /\ At(o, "execute")
  /\ \/ ops[o].approval = None /\ Goto(o, "dispatch") /\ UNCHANGED uses
     \/ ops[o].approval # None /\ Goto(o, "bound") /\ SetUse(o, "reserved")
  /\ Fine /\ UNCHANGED <<ops, grants>> /\ Elsewhere

\* Execute up to the provider call: the plan is loaded and a use reserved.  A
\* reservation that cannot be read back is made all the same.
Reserve(o) ==
  LET granted == ops[o].approval # None /\ Available(ops[o].approval) IN
  /\ At(o, "execute")
  /\ \/ /\ ops[o].approval = None /\ Fine /\ Goto(o, "dispatch")
        /\ UNCHANGED uses
     \/ granted /\ Fine /\ Goto(o, "bound") /\ SetUse(o, "reserved")
     \/ /\ ops[o].approval # None /\ ~granted
        /\ Fine /\ EndAs(o, "failed") /\ UNCHANGED uses
     \/ /\ Fault /\ EndAs(o, "failed")
        /\ UNCHANGED uses \/ (granted /\ SetUse(o, "reserved"))
  /\ UNCHANGED <<ops, grants>> /\ Elsewhere

\* A reservation that does not fit the plan is given back.
BindReservation(o) ==
  /\ At(o, "bound") /\ (Goto(o, "dispatch") \/ SettleAs(o, "released", "failed"))
  /\ Fine /\ UNCHANGED <<ops, grants, uses>> /\ Elsewhere

\* adapter.Execute and Reconcile (external): a proven success took effect, a
\* failure that gives the use back did not, and an ambiguous one may have.
Dispatch(o) ==
  /\ At(o, "dispatch")
  /\ dispatched' = [dispatched EXCEPT ![o] = @ + 1]
  /\ \/ SettleAs(o, "committed", "succeeded") /\ effects' = effects \cup {o}
     \/ SettleAs(o, "released", "failed") /\ UNCHANGED effects
     \/ SettleAs(o, "committed", "failed") /\ effects' \in {effects, effects \cup {o}}
     \/ Goto(o, "reconcile") /\ effects' \in {effects, effects \cup {o}}
  /\ Fine /\ UNCHANGED <<ops, grants, uses, channel, unlocked, interrupted, crashes>>

\* Mutant: a result that cannot be proven is taken for a failure.
ReconcileAsFailure(o) ==
  /\ At(o, "reconcile")
  /\ \/ SettleAs(o, "committed", "succeeded")
     \/ SettleAs(o, "released", "failed")
  /\ Fine /\ UNCHANGED <<ops, grants, uses>> /\ Elsewhere

ReconcileExecution(o) ==
  /\ At(o, "reconcile")
  /\ \/ SettleAs(o, "committed", "succeeded")
     \/ SettleAs(o, "retained", "failed")
  /\ Fine /\ UNCHANGED <<ops, grants, uses>> /\ Elsewhere

\* CommitUse, RetainUse or ReleaseUse: what they make of use and grant.
Settled(o, use) ==
  /\ uses[o] \in {"reserved", "retained"} \ {use} /\ CanSettle(ops[o].approval)
  /\ SetUse(o, use) /\ grants' = SettledGrants(ops[o].approval, o, use)

\* settleApproval: accounting that fails, or cannot be read back, makes the
\* operation fail whatever the provider did.
Settle(o) ==
  /\ At(o, "settle")
  /\ \/ /\ ops[o].approval = None \/ uses[o] = threads[o].want
        /\ Fine /\ EndAs(o, threads[o].end) /\ UNCHANGED <<grants, uses>>
     \/ Fine /\ EndAs(o, threads[o].end) /\ Settled(o, threads[o].want)
     \/ /\ ops[o].approval # None /\ Fault /\ EndAs(o, "failed")
        /\ UNCHANGED <<grants, uses>> \/ Settled(o, threads[o].want)
  /\ UNCHANGED ops /\ Elsewhere

\* Succeed or fail: a success that cannot be stored is stored as a failure,
\* and a failure that cannot be stored is dropped.
End(o) ==
  /\ At(o, "end")
  /\ IF threads[o].end # "succeeded" THEN Fail(o, threads[o].end) /\ Unlock(o)
     ELSE \/ Fine /\ SetState(o, "succeeded") /\ Unlock(o)
          \/ Fault /\ UNCHANGED ops /\ EndAs(o, "failed")
  /\ UNCHANGED <<grants, uses>> /\ Elsewhere

(***************************************************************************)
(* A crash, and Recover after it                                           *)
(***************************************************************************)
Executing == {o \in Ops : ops[o].state = "executing"}

Crash ==
  /\ crashes < MaxCrashes /\ crashes' = crashes + 1
  /\ threads' = [o \in Ops |-> Idle] /\ unlocked' = [o \in Ops |-> "none"]
  /\ interrupted' = Executing
  /\ Fine /\ UNCHANGED <<channel, ops, grants, uses, dispatched, effects>>

\* Mutant: an interrupted operation is run again.
ReplayInterrupted(o) ==
  /\ o \in interrupted /\ At(o, "idle") /\ Goto(o, "dispatch")
  /\ interrupted' = interrupted \ {o} /\ Fine
  /\ UNCHANGED <<channel, ops, grants, uses, dispatched, effects, unlocked, crashes>>

\* Mutant: recovery goes over an operation it has already reconciled.
ReconcileAgain(o) ==
  /\ o \in interrupted /\ At(o, "idle") /\ Goto(o, "retainRecovered") /\ Fine
  /\ UNCHANGED <<channel, ops, grants, uses, dispatched, effects, unlocked,
                 interrupted, crashes>>

\* Reconcile (external) may prove the mutation or not; a plan that cannot be
\* loaded fails the operation.
ReconcileInterrupted(o) ==
  /\ o \in interrupted /\ At(o, "idle")
  /\ interrupted' = interrupted \ {o}
  /\ \/ Fine /\ \E label \in {"settleRecovered", "retainRecovered"} : Goto(o, label)
     \/ Fault /\ EndAs(o, "failed")
  /\ UNCHANGED <<channel, ops, grants, uses, dispatched, effects, unlocked, crashes>>

\* Recover gives up when the unfinished operations cannot be listed.
RecoverFails ==
  /\ interrupted # {} /\ interrupted' = {} /\ Fault
  /\ UNCHANGED <<channel, ops, grants, uses, dispatched, effects, threads,
                 unlocked, crashes>>

\* Mutant: only a use that is still reserved is committed.
SettleReservedOnly(o) ==
  /\ At(o, "settleRecovered") /\ EndAs(o, "succeeded") /\ Fine
  /\ IF uses[o] = "reserved" THEN Settled(o, "committed")
     ELSE UNCHANGED <<grants, uses>>
  /\ UNCHANGED ops /\ Elsewhere

\* settleRecoveredApproval
SettleRecovered(o) ==
  /\ At(o, "settleRecovered")
  /\ \/ /\ ops[o].approval = None \/ uses[o] = "committed"
        /\ Fine /\ EndAs(o, "succeeded") /\ UNCHANGED <<grants, uses>>
     \/ Fine /\ EndAs(o, "succeeded") /\ Settled(o, "committed")
     \/ /\ ops[o].approval # None /\ uses[o] \in {"absent", "released"}
        /\ Fine /\ EndAs(o, "failed") /\ UNCHANGED <<grants, uses>>
     \/ /\ ops[o].approval # None /\ Fault /\ EndAs(o, "failed")
        /\ UNCHANGED <<grants, uses>> \/ Settled(o, "committed")
  /\ UNCHANGED ops /\ Elsewhere

\* retainRecoveredApproval, its errors ignored
RetainRecovered(o) ==
  /\ At(o, "retainRecovered") /\ EndAs(o, "failed")
  /\ \/ Fine /\ uses[o] = "reserved" /\ Settled(o, "retained")
     \/ Fine /\ uses[o] # "reserved" /\ UNCHANGED <<grants, uses>>
     \/ Fault /\ uses[o] = "reserved" /\ UNCHANGED <<grants, uses>>
  /\ UNCHANGED ops /\ Elsewhere

(***************************************************************************)
(* The specification                                                       *)
(***************************************************************************)
Init ==
  /\ channel \in {"configured", "missing"}
  /\ ops = [o \in Ops |-> [state |-> "absent", approval |-> None]]
  /\ grants = [g \in Ops |-> [status |-> "absent", limit |-> 0]]
  /\ uses = [o \in Ops |-> "absent"]
  /\ dispatched = [o \in Ops |-> 0] /\ effects = {}
  /\ threads = [o \in Ops |-> Idle] /\ unlocked = [o \in Ops |-> "none"]
  /\ interrupted = {} /\ faults = 0 /\ crashes = 0

Submit(o) ==
  \/ SubmitDirectGrant(o) \/ SubmitPending(o)
  \/ \E g \in Ops : SubmitActiveGrant(o, g)

\* What a goroutine that holds an operation, or the worker loop, goes on with.
Step(o) ==
  \/ RequestRefused(o) \/ RequestApproval(o) \/ BindPlan(o) \/ AbandonApproval(o)
  \/ AbandonUnnotified(o) \/ FailUnnotified(o) \/ Cancel(o)
  \/ RecoverApproval(o) \/ SyncApproval(o) \/ Claim(o)
  \/ Reserve(o) \/ BindReservation(o) \/ Dispatch(o) \/ ReconcileExecution(o)
  \/ Settle(o) \/ End(o)
  \/ ReconcileInterrupted(o) \/ SettleRecovered(o) \/ RetainRecovered(o)

Environment(g) == Decide(g) \/ Expire(g) \/ Revoke(g) \/ RetainStale(g)

Next ==
  \/ \E o \in Ops : Submit(o) \/ CancelApproval(o) \/ Step(o) \/ Environment(o)
  \/ Crash \/ RecoverFails

Spec == Init /\ [][Next]_vars

\* Goroutines run, AdvanceAll comes round on the ticker, and time passes for
\* undecided requests; nobody need submit, decide or cancel.
FairSpec ==
  Spec /\ \A o \in Ops : WF_vars(Step(o)) /\ WF_vars(Expire(o))

(***************************************************************************)
(* Properties                                                              *)
(***************************************************************************)
Labels == {"idle", "request", "bind", "abandon", "cancel", "execute", "bound",
           "dispatch", "reconcile", "settle", "end", "settleRecovered",
           "retainRecovered"}

\* The stores hold the values their types allow, and only operations that are
\* still executing await reconciliation (Recover, runtime.go).
TypeOK ==
  /\ channel \in {"configured", "missing"}
  /\ ops \in [Ops -> [state : States, approval : Ops \cup {None}]]
  /\ grants \in [Ops -> [status : Statuses, limit : 0 .. MaxUses]]
  /\ uses \in [Ops -> Charged \cup {"absent", "released"}]
  /\ dispatched \in [Ops -> Nat] /\ effects \in SUBSET Ops
  /\ threads \in [Ops -> [at : Labels, want : Charged \cup {"none", "released"},
                          end : Terminal \cup {"none"}]]
  /\ unlocked \in [Ops -> {"none", "abandon", "fail"}]
  /\ interrupted \in SUBSET Executing
  /\ faults \in 0 .. MaxFaults /\ crashes \in 0 .. MaxCrashes

\* adapter.Execute is called at most once for an operation, whatever crashes,
\* failed writes and repeated Advance and Recover calls there are.
ExecutedAtMostOnce == \A o \in Ops : dispatched[o] <= 1

\* An operation reported denied, expired or canceled never reached its
\* provider: Cancel and approval synchronisation never overtake Execute.
RefusedNeverRan ==
  \A o \in Ops :
    ops[o].state \in {"denied", "expired", "canceled"} => dispatched[o] = 0

\* A mutation that took effect under an approval stays charged to it, also
\* when its outcome is ambiguous, its accounting failed or the broker crashed.
EffectIsCharged ==
  \A o \in effects : ops[o].approval # None => uses[o] \in Charged

\* No more mutations take effect under an approval than its decision allowed,
\* although room is first looked for at submission and used much later.
EffectsWithinLimit ==
  \A g \in Ops :
    Cardinality({o \in effects : ops[o].approval = g}) <= grants[g].limit

\* An operation is reported succeeded only once its use was committed, after
\* a restart too (succeed, settleRecoveredApproval).
SuccessIsPaid ==
  \A o \in Ops :
    ops[o].state = "succeeded" /\ ops[o].approval # None => uses[o] = "committed"

\* As long as the stores answer, no request that belongs to a finished
\* operation waits for the operator, although operation and grant end in two
\* stores and a crash may come between (cancelApproval, RecoverApproval).
NoOrphanRequest ==
  faults = 0 =>
    \A o \in Ops : ops[o].state \in Terminal => grants[o].status # "pending"

\* A finished operation never changes again: the submitter that goes on
\* without the lock and the lock's holder do not overwrite each other.
FinishedStep ==
  \A o \in Ops : ops[o].state \in Terminal => ops'[o] = ops[o]
TerminalIsFinal == [][FinishedStep]_vars

\* The terminal write failed, and only a restart reconciles the operation.
Stranded(o) ==
  ops[o].state = "executing" /\ At(o, "idle") /\ o \notin interrupted

\* The operation waits for a grant that others have used up: approvalFailures
\* has no entry for a consumed grant, so syncApproval leaves it as it is.
Starved(o) ==
  /\ ops[o].state = "pending" /\ ops[o].approval # None
  /\ grants[ops[o].approval].status = "consumed"

\* Every submitted operation ends, or meets one of the two ways the code has
\* of leaving it unfinished.
OperationEnds ==
  \A o \in Ops :
    ops[o].state # "absent" ~>
      (ops[o].state \in Terminal \/ Stranded(o) \/ Starved(o))
=============================================================================
