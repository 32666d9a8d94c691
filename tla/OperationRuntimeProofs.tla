------------------------ MODULE OperationRuntimeProofs ------------------------
(***************************************************************************)
(* The safety properties of OperationRuntime for any number of operations, *)
(* any use limits and any number of failed calls and crashes.              *)
(***************************************************************************)
EXTENDS OperationRuntime, FiniteSetTheorems, TLAPS

OpRows    == [Ops -> [state : States, approval : Ops \cup {None}]]
GrantRows == [Ops -> [status : Statuses, limit : 0 .. MaxUses]]
Threads   == [Ops -> [at : Labels, want : Charged \cup {"none", "released"},
                      end : Terminal \cup {"none"}]]

\* TypeOK, but for the state of interrupted operations, which is ControlInv's.
Typed ==
  /\ channel \in {"configured", "missing"}
  /\ ops \in OpRows /\ grants \in GrantRows /\ threads \in Threads
  /\ uses \in [Ops -> Charged \cup {"absent", "released"}]
  /\ dispatched \in [Ops -> Nat] /\ effects \in SUBSET Ops
  /\ unlocked \in [Ops -> {"none", "abandon", "fail"}]
  /\ interrupted \in SUBSET Ops
  /\ faults \in 0 .. MaxFaults /\ crashes \in 0 .. MaxCrashes

Running == {"execute", "bound", "dispatch", "reconcile", "settle",
            "settleRecovered", "retainRecovered"}

\* What the holder of the lock, the submitter without it and recovery may
\* assume of the operation's state.
ControlOK(o) ==
  /\ threads[o].at \in {"request", "bind", "abandon"} =>
       ops[o].state = "pending" /\ ops[o].approval = None
  /\ threads[o].at \in Running => ops[o].state = "executing"
  /\ threads[o].at = "end" =>
       /\ threads[o].end # "none"
       /\ \/ /\ ops[o].state = "executing"
             /\ threads[o].end \in {"succeeded", "failed"}
          \/ /\ ops[o].state = "pending" /\ ops[o].approval = None
             /\ threads[o].end # "succeeded"
  /\ threads[o].at = "settle" =>
       /\ threads[o].want # "none" /\ threads[o].end \in {"succeeded", "failed"}
       /\ threads[o].end = "succeeded" => threads[o].want = "committed"
  /\ o \in interrupted => threads[o].at = "idle" /\ ops[o].state = "executing"
  /\ unlocked[o] # "none" =>
       /\ channel = "missing" /\ ops[o].approval = o
       /\ ops[o].state \in {"pending"} \cup Failures
  /\ ops[o].state = "absent" =>
       threads[o].at = "idle" /\ ops[o].approval = None
  /\ ops[o].state = "absent" \/ threads[o].at = "request" =>
       grants[o].status = "absent"

\* The provider is called once, from an operation that was claimed.
DispatchOK(o) ==
  /\ dispatched[o] \in {0, 1}
  /\ dispatched[o] = 1 =>
       /\ ops[o].state \in {"executing", "succeeded", "failed"}
       /\ threads[o].at \notin {"execute", "bound", "dispatch"}
  /\ o \in effects => dispatched[o] = 1
  /\ threads[o].at = "settle" /\ threads[o].want = "released" => o \notin effects

\* The use is there from the reservation on, and charged unless nothing
\* happened.
UseOK(o) ==
  /\ uses[o] # "absent" =>
       /\ ops[o].approval # None
       /\ ops[o].state \in {"executing", "succeeded", "failed"}
  /\ threads[o].at = "execute" => uses[o] = "absent"
  /\ threads[o].at \in {"bound", "dispatch", "reconcile", "settle"} =>
       ops[o].approval = None \/ uses[o] \in {"reserved", "retained"}
  /\ o \in effects => ops[o].approval = None \/ uses[o] \in Charged
  /\ threads[o].at = "end" /\ threads[o].end = "succeeded" =>
       ops[o].approval = None \/ uses[o] = "committed"
  /\ ops[o].state = "succeeded" => ops[o].approval = None \/ uses[o] = "committed"

GrantOK(g) ==
  /\ grants[g].status \in {"absent", "pending"} => grants[g].limit = 0
  /\ channel = "missing" => grants[g].status # "active"

Within(g) == Cardinality(ChargedTo(g)) <= grants[g].limit

\* While no call failed, a request is open only for an operation that waits.
RequestOK(o) ==
  faults = 0 =>
    /\ \/ ops[o].approval \notin {None, o}
       \/ ops[o].approval = None /\ ops[o].state \in {"approved", "executing"}
       => grants[o].status = "absent"
    /\ \/ ops[o].state \in {"approved", "executing"} \cup Terminal
       \/ threads[o].at \in {"cancel", "end"} \/ unlocked[o] = "fail"
       => grants[o].status # "pending"
    /\ threads[o].at # "abandon"

ControlInv  == \A o \in Ops : ControlOK(o)
DispatchInv == \A o \in Ops : DispatchOK(o)
UseInv      == \A o \in Ops : UseOK(o)
GrantInv    == \A g \in Ops : GrantOK(g)
LimitInv    == \A g \in Ops : Within(g)
RequestInv  == \A o \in Ops : RequestOK(o)

\* The inductive invariant
IInv ==
  /\ Typed /\ ControlInv /\ DispatchInv /\ UseInv
  /\ GrantInv /\ LimitInv /\ RequestInv

\* A step of one operation leaves the others alone, and opens no request of
\* theirs.
Same(p) ==
  /\ ops'[p] = ops[p] /\ threads'[p] = threads[p] /\ uses'[p] = uses[p]
  /\ dispatched'[p] = dispatched[p] /\ unlocked'[p] = unlocked[p]
  /\ p \in effects' <=> p \in effects
  /\ p \in interrupted' <=> p \in interrupted

Calm(g) ==
  /\ grants[g].status = "absent" => grants'[g].status = "absent"
  /\ grants'[g].status = "pending" => grants[g].status = "pending"

\* What becomes of grants that nobody decides on or asks for.
Tame(g) ==
  /\ grants'[g].limit = grants[g].limit /\ Calm(g)
  /\ grants'[g].status = "absent" => grants[g].status = "absent"
  /\ grants'[g].status = "active" => grants[g].status = "active"

Others(o) == \A p \in Ops \ {o} : Same(p) /\ Calm(p)

OpOK(p) == ControlOK(p) /\ DispatchOK(p) /\ UseOK(p) /\ RequestOK(p)

(***************************************************************************)
(* Every action keeps the invariant                                        *)
(***************************************************************************)

LEMMA OthersKept ==
  ASSUME Typed, Typed', NEW o \in Ops, NEW p \in Ops, p # o, OpOK(p), Others(o),
         channel' = channel, faults <= faults'
  PROVE  OpOK(p)'
<1>1. Same(p) /\ Calm(p)
  BY DEF Others
<1>2. ControlOK(p)' /\ DispatchOK(p)' /\ UseOK(p)'
  BY <1>1 DEF OpOK, Same, Calm, ControlOK, DispatchOK, UseOK
<1>3. RequestOK(p)'
  BY <1>1 DEF OpOK, Same, Calm, RequestOK, Typed
<1> QED
  BY <1>2, <1>3 DEF OpOK

LEMMA LimitKept ==
  ASSUME Typed, Typed', LimitInv,
         \A g \in Ops : ChargedTo(g)' \subseteq ChargedTo(g),
         \A g \in Ops : grants[g].limit <= grants'[g].limit
  PROVE  LimitInv'
<1> SUFFICES ASSUME NEW g \in Ops PROVE Within(g)'
  BY DEF LimitInv
<1>1. IsFiniteSet(ChargedTo(g)) /\ IsFiniteSet(ChargedTo(g)')
  BY RuntimeAssumption, FS_Subset DEF ChargedTo
<1>2. Cardinality(ChargedTo(g)') <= Cardinality(ChargedTo(g))
  BY <1>1, FS_Subset
<1>3. Cardinality(ChargedTo(g)) \in Nat /\ Cardinality(ChargedTo(g)') \in Nat
  BY <1>1, FS_CardinalityType
<1>4. grants[g].limit \in Nat /\ grants'[g].limit \in Nat
  BY DEF Typed, GrantRows
<1> QED
  BY <1>2, <1>3, <1>4 DEF LimitInv, Within

LEMMA GrantsKept ==
  ASSUME Typed, GrantInv, channel' = channel, \A g \in Ops : Tame(g)
  PROVE  GrantInv'
  BY DEF Tame, Calm, GrantInv, GrantOK

\* What is left of IInv' once an action is known to concern one operation.
LEMMA Local ==
  ASSUME IInv, NEW o \in Ops, Typed', Others(o), OpOK(o)', GrantInv', LimitInv',
         channel' = channel, faults <= faults'
  PROVE  IInv'
<1>1. \A p \in Ops : OpOK(p)
  BY DEF IInv, OpOK, ControlInv, DispatchInv, UseInv, RequestInv
<1>2. \A p \in Ops : OpOK(p)'
  BY <1>1, OthersKept DEF IInv
<1> QED
  BY <1>2 DEF IInv, OpOK, ControlInv, DispatchInv, UseInv, RequestInv

LEMMA RowTyped ==
  ASSUME Typed, NEW o \in Ops, NEW s \in States
  PROVE  [ops EXCEPT ![o].state = s] \in OpRows
  BY DEF Typed, OpRows

LEMMA WithdrawnStatus ==
  ASSUME NEW s \in Statuses
  PROVE  /\ Withdrawn(s) \in Statuses \ {"pending", "active"}
         /\ Withdrawn(s) = "absent" <=> s = "absent"
  BY DEF Withdrawn, Statuses

LEMMA Withdrawal ==
  ASSUME Typed, NEW g \in Ops, Withdraw(g)
  PROVE  /\ grants' \in GrantRows /\ \A h \in Ops : Tame(h)
         /\ grants'[g].status # "pending"
<1>1. grants[g].status \in Statuses
  BY DEF Typed, GrantRows
<1>2. grants' = [grants EXCEPT ![g].status = Withdrawn(grants[g].status)]
  BY DEF Withdraw, Typed, GrantRows
<1> QED
  BY <1>1, <1>2, WithdrawnStatus DEF Typed, GrantRows, Tame, Calm

LEMMA Settlement ==
  ASSUME Typed, NEW o \in Ops, NEW use, Settled(o, use), ops[o].approval \in Ops
  PROVE  /\ grants' \in GrantRows /\ \A h \in Ops : Tame(h)
         /\ uses' = [uses EXCEPT ![o] = use]
         /\ uses[o] \in {"reserved", "retained"}
<1> DEFINE g == ops[o].approval
<1>1. grants[g].status \in {"active", "expired", "revoked"}
  BY DEF Settled, CanSettle
<1>2. \/ grants' = [grants EXCEPT ![g].status = "consumed"]
      \/ grants' = grants
  BY DEF Settled, SettledGrants
<1>3. grants' \in GrantRows
  BY <1>2 DEF Typed, GrantRows, Statuses
<1>4. \A h \in Ops : Tame(h)
  BY <1>1, <1>2 DEF Typed, GrantRows, Tame, Calm
<1> QED
  BY <1>3, <1>4 DEF Settled, SetUse

LEMMA Failing ==
  ASSUME Typed, NEW o \in Ops, NEW state \in Failures, Fail(o, state)
  PROVE  /\ ops' \in OpRows /\ faults' \in 0 .. MaxFaults /\ faults <= faults'
         /\ \A p \in Ops \ {o} : ops'[p] = ops[p]
         /\ ops'[o].approval = ops[o].approval
         /\ \/ ops'[o].state = ops[o].state
            \/ ops'[o].state = state /\ Allowed(ops[o].state, state)
  BY RuntimeAssumption
     DEF Typed, OpRows, Fail, Fine, Fault, SetState, States, Failures

LEMMA RequestRefusedKeeps == ASSUME IInv, NEW o \in Ops, RequestRefused(o) PROVE IInv'
<1> USE DEF RequestRefused, At, EndAs, Fine, Elsewhere, Thread
<1>1. grants' \in GrantRows /\ \A g \in Ops : Tame(g)
  BY RuntimeAssumption DEF IInv, Typed, GrantRows, Statuses, Tame, Calm
<1>2. ops' \in OpRows
  BY <1>1, RuntimeAssumption DEF IInv, Typed, OpRows, States, Failures,
      ApprovalFailures, GrantRows
<1>3. threads' \in Threads
  BY <1>1, RuntimeAssumption DEF IInv, Typed, Threads, Charged, Terminal,
      Failures, Labels
<1>4. uses' \in [Ops -> Charged \cup {"absent", "released"}]
  BY <1>1, RuntimeAssumption DEF IInv, Typed, Charged, OpRows, UseInv, UseOK,
      Threads
<1>5. Typed'
  BY <1>1, <1>2, <1>3, <1>4, RuntimeAssumption DEF IInv, Typed
<1>6. Others(o) /\ channel' = channel /\ faults <= faults'
  BY <1>1, RuntimeAssumption DEF IInv, Typed, Others, Same, Calm, Tame,
      OpRows, GrantRows, Threads, UseInv, UseOK
<1>7. ControlOK(o)'
  BY <1>1, RuntimeAssumption DEF IInv, Typed, OpRows, GrantRows, Threads,
      ControlInv, ControlOK, DispatchInv, DispatchOK, UseInv, UseOK, GrantInv,
      GrantOK, Running, States, Statuses, Failures, Terminal, Charged, Labels,
      None
<1>8. DispatchOK(o)'
  BY <1>1, RuntimeAssumption DEF IInv, Typed, OpRows, GrantRows, Threads,
      ControlInv, ControlOK, DispatchInv, DispatchOK, UseInv, UseOK, GrantInv,
      GrantOK, Running, States, Statuses, Failures, Terminal, Charged, Labels,
      None
<1>9. UseOK(o)'
  BY <1>1, RuntimeAssumption DEF IInv, Typed, OpRows, GrantRows, Threads,
      ControlInv, ControlOK, DispatchInv, DispatchOK, UseInv, UseOK, GrantInv,
      GrantOK, Running, States, Statuses, Failures, Terminal, Charged, Labels,
      None
<1>10. RequestOK(o)'
  BY <1>1, RuntimeAssumption DEF IInv, Typed, OpRows, GrantRows, Threads,
      ControlInv, ControlOK, RequestInv, RequestOK, Running, Tame, Calm,
      States, Statuses, Failures, Terminal, Charged, Labels, None
<1>11. GrantInv'
  BY <1>1, <1>6, GrantsKept DEF IInv
<1>12. LimitInv'
  <2>1. \A g \in Ops : ChargedTo(g)' \subseteq ChargedTo(g)
    BY <1>1, RuntimeAssumption DEF IInv, Typed, OpRows, Threads, UseInv,
        UseOK, ControlInv, ControlOK, Running, ChargedTo, States, Statuses,
        Failures, Terminal, Charged, Labels, None
  <2>2. \A g \in Ops : grants[g].limit <= grants'[g].limit
    BY <1>1, RuntimeAssumption DEF IInv, Typed, GrantRows, GrantInv, GrantOK,
        Tame
  <2> QED
    BY <1>5, <2>1, <2>2, LimitKept DEF IInv
<1> QED
  BY <1>5, <1>6, <1>7, <1>8, <1>9, <1>10, <1>11, <1>12, Local DEF OpOK

LEMMA RequestApprovalKeeps == ASSUME IInv, NEW o \in Ops, RequestApproval(o) PROVE IInv'
<1> USE DEF RequestApproval, At, Fine, Goto, Fault, EndAs, Elsewhere, Thread
<1>1. grants' \in GrantRows
  BY RuntimeAssumption DEF IInv, Typed, GrantRows, Statuses
<1>2. ops' \in OpRows
  BY <1>1, RuntimeAssumption DEF IInv, Typed, OpRows, States, Failures,
      ApprovalFailures, GrantRows
<1>3. threads' \in Threads
  BY <1>1, RuntimeAssumption DEF IInv, Typed, Threads, Charged, Terminal,
      Failures, Labels
<1>4. uses' \in [Ops -> Charged \cup {"absent", "released"}]
  BY <1>1, RuntimeAssumption DEF IInv, Typed, Charged, OpRows, UseInv, UseOK,
      Threads
<1>5. Typed'
  BY <1>1, <1>2, <1>3, <1>4, RuntimeAssumption DEF IInv, Typed
<1>6. Others(o) /\ channel' = channel /\ faults <= faults'
  BY <1>1, RuntimeAssumption DEF IInv, Typed, Others, Same, Calm, Tame,
      OpRows, GrantRows, Threads, UseInv, UseOK
<1>7. ControlOK(o)'
  BY <1>1, RuntimeAssumption DEF IInv, Typed, OpRows, GrantRows, Threads,
      ControlInv, ControlOK, DispatchInv, DispatchOK, UseInv, UseOK, GrantInv,
      GrantOK, Running, States, Statuses, Failures, Terminal, Charged, Labels,
      None
<1>8. DispatchOK(o)'
  BY <1>1, RuntimeAssumption DEF IInv, Typed, OpRows, GrantRows, Threads,
      ControlInv, ControlOK, DispatchInv, DispatchOK, UseInv, UseOK, GrantInv,
      GrantOK, Running, States, Statuses, Failures, Terminal, Charged, Labels,
      None
<1>9. UseOK(o)'
  BY <1>1, RuntimeAssumption DEF IInv, Typed, OpRows, GrantRows, Threads,
      ControlInv, ControlOK, DispatchInv, DispatchOK, UseInv, UseOK, GrantInv,
      GrantOK, Running, States, Statuses, Failures, Terminal, Charged, Labels,
      None
<1>10. RequestOK(o)'
  BY <1>1, RuntimeAssumption DEF IInv, Typed, OpRows, GrantRows, Threads,
      ControlInv, ControlOK, RequestInv, RequestOK, Running, Tame, Calm,
      States, Statuses, Failures, Terminal, Charged, Labels, None
<1>11. GrantInv'
  BY RuntimeAssumption DEF IInv, Typed, GrantRows, GrantInv, GrantOK,
      RequestInv, RequestOK, ControlInv, ControlOK, Statuses
<1>12. LimitInv'
  <2>1. \A g \in Ops : ChargedTo(g)' \subseteq ChargedTo(g)
    BY <1>1, RuntimeAssumption DEF IInv, Typed, OpRows, Threads, UseInv,
        UseOK, ControlInv, ControlOK, Running, ChargedTo, States, Statuses,
        Failures, Terminal, Charged, Labels, None
  <2>2. \A g \in Ops : grants[g].limit <= grants'[g].limit
    BY <1>1, RuntimeAssumption DEF IInv, Typed, GrantRows, GrantInv, GrantOK,
        Tame
  <2> QED
    BY <1>5, <2>1, <2>2, LimitKept DEF IInv
<1> QED
  BY <1>5, <1>6, <1>7, <1>8, <1>9, <1>10, <1>11, <1>12, Local DEF OpOK

LEMMA BindPlanKeeps == ASSUME IInv, NEW o \in Ops, BindPlan(o) PROVE IInv'
<1> USE DEF BindPlan, At, Fine, Unlock, Fault, Goto, Idle, Thread
<1>1. /\ ops[o].state = "pending" /\ ops[o].approval = None
      /\ uses[o] = "absent" /\ o \notin effects
  BY RuntimeAssumption DEF IInv, Typed, OpRows, Threads, ControlInv,
      ControlOK, DispatchInv, DispatchOK, UseInv, UseOK, Running, States,
      Statuses, Failures, Terminal, Charged, Labels, None
<1>2. grants' \in GrantRows /\ \A g \in Ops : Tame(g)
  BY <1>1, RuntimeAssumption DEF IInv, Typed, GrantRows, Statuses, Tame, Calm
<1>3. ops' \in OpRows
  BY <1>1, <1>2, RuntimeAssumption DEF IInv, Typed, OpRows, States, Failures,
      ApprovalFailures, GrantRows
<1>4. threads' \in Threads
  BY <1>1, <1>2, RuntimeAssumption DEF IInv, Typed, Threads, Charged,
      Terminal, Failures, Labels
<1>5. uses' \in [Ops -> Charged \cup {"absent", "released"}]
  BY <1>1, <1>2, RuntimeAssumption DEF IInv, Typed, Charged, OpRows, UseInv,
      UseOK, Threads
<1>6. Typed'
  BY <1>1, <1>2, <1>3, <1>4, <1>5, RuntimeAssumption DEF IInv, Typed
<1>7. Others(o) /\ channel' = channel /\ faults <= faults'
  BY <1>1, <1>2, RuntimeAssumption DEF IInv, Typed, Others, Same, Calm, Tame,
      OpRows, GrantRows, Threads, UseInv, UseOK
<1>8. ControlOK(o)'
  BY <1>1, <1>2, RuntimeAssumption DEF IInv, Typed, OpRows, GrantRows,
      Threads, ControlInv, ControlOK, DispatchInv, DispatchOK, UseInv, UseOK,
      GrantInv, GrantOK, Running, States, Statuses, Failures, Terminal,
      Charged, Labels, None
<1>9. DispatchOK(o)'
  BY <1>1, <1>2, RuntimeAssumption DEF IInv, Typed, OpRows, GrantRows,
      Threads, ControlInv, ControlOK, DispatchInv, DispatchOK, UseInv, UseOK,
      GrantInv, GrantOK, Running, States, Statuses, Failures, Terminal,
      Charged, Labels, None
<1>10. UseOK(o)'
  BY <1>1, <1>2 DEF IInv, Typed, OpRows, Threads, UseOK, None
<1>11. RequestOK(o)'
  BY <1>1, <1>2, RuntimeAssumption DEF IInv, Typed, OpRows, GrantRows,
      Threads, ControlInv, ControlOK, RequestInv, RequestOK, Running, Tame,
      Calm, States, Statuses, Failures, Terminal, Charged, Labels, None
<1>12. GrantInv'
  BY <1>1, <1>2, <1>7, GrantsKept DEF IInv
<1>13. LimitInv'
  <2>1. \A g \in Ops : ChargedTo(g)' \subseteq ChargedTo(g)
    BY <1>1, <1>2, RuntimeAssumption DEF IInv, Typed, OpRows, Threads, UseInv,
        UseOK, ControlInv, ControlOK, Running, ChargedTo, States, Statuses,
        Failures, Terminal, Charged, Labels, None
  <2>2. \A g \in Ops : grants[g].limit <= grants'[g].limit
    BY <1>1, <1>2, RuntimeAssumption DEF IInv, Typed, GrantRows, GrantInv,
        GrantOK, Tame
  <2> QED
    BY <1>6, <2>1, <2>2, LimitKept DEF IInv
<1> QED
  BY <1>6, <1>7, <1>8, <1>9, <1>10, <1>11, <1>12, <1>13, Local DEF OpOK

LEMMA AbandonApprovalKeeps == ASSUME IInv, NEW o \in Ops, AbandonApproval(o) PROVE IInv'
<1> USE DEF AbandonApproval, At, EndAs, Fine, Fault, Elsewhere, Thread
<1>1. grants' \in GrantRows /\ \A g \in Ops : Tame(g)
  BY RuntimeAssumption, Withdrawal DEF IInv, Typed, OpRows, GrantRows,
      ControlInv, ControlOK, Tame, Calm, None, ApprovalOf
<1>2. ops' \in OpRows
  BY <1>1, RuntimeAssumption DEF IInv, Typed, OpRows, States, Failures,
      ApprovalFailures, GrantRows
<1>3. threads' \in Threads
  BY <1>1, RuntimeAssumption DEF IInv, Typed, Threads, Charged, Terminal,
      Failures, Labels
<1>4. uses' \in [Ops -> Charged \cup {"absent", "released"}]
  BY <1>1, RuntimeAssumption DEF IInv, Typed, Charged, OpRows, UseInv, UseOK,
      Threads
<1>5. Typed'
  BY <1>1, <1>2, <1>3, <1>4, RuntimeAssumption DEF IInv, Typed
<1>6. Others(o) /\ channel' = channel /\ faults <= faults'
  BY <1>1, RuntimeAssumption DEF IInv, Typed, Others, Same, Calm, Tame,
      OpRows, GrantRows, Threads, UseInv, UseOK
<1>7. ControlOK(o)'
  BY <1>1, RuntimeAssumption, Withdrawal DEF IInv, Typed, OpRows, GrantRows,
      Threads, ControlInv, ControlOK, DispatchInv, DispatchOK, UseInv, UseOK,
      GrantInv, GrantOK, Running, States, Statuses, Failures, Terminal,
      Charged, Labels, None
<1>8. DispatchOK(o)'
  BY <1>1, RuntimeAssumption, Withdrawal DEF IInv, Typed, OpRows, GrantRows,
      Threads, ControlInv, ControlOK, DispatchInv, DispatchOK, UseInv, UseOK,
      GrantInv, GrantOK, Running, States, Statuses, Failures, Terminal,
      Charged, Labels, None
<1>9. UseOK(o)'
  BY <1>1, RuntimeAssumption, Withdrawal DEF IInv, Typed, OpRows, GrantRows,
      Threads, ControlInv, ControlOK, DispatchInv, DispatchOK, UseInv, UseOK,
      GrantInv, GrantOK, Running, States, Statuses, Failures, Terminal,
      Charged, Labels, None
<1>10. RequestOK(o)'
  BY <1>1, RuntimeAssumption, Withdrawal DEF IInv, Typed, OpRows, GrantRows,
      Threads, ControlInv, ControlOK, RequestInv, RequestOK, Running, Tame,
      Calm, States, Statuses, Failures, Terminal, Charged, Labels, None
<1>11. GrantInv'
  BY <1>1, <1>6, GrantsKept DEF IInv
<1>12. LimitInv'
  <2>1. \A g \in Ops : ChargedTo(g)' \subseteq ChargedTo(g)
    BY <1>1, RuntimeAssumption DEF IInv, Typed, OpRows, Threads, UseInv,
        UseOK, ControlInv, ControlOK, Running, ChargedTo, States, Statuses,
        Failures, Terminal, Charged, Labels, None
  <2>2. \A g \in Ops : grants[g].limit <= grants'[g].limit
    BY <1>1, RuntimeAssumption DEF IInv, Typed, GrantRows, GrantInv, GrantOK,
        Tame
  <2> QED
    BY <1>5, <2>1, <2>2, LimitKept DEF IInv
<1> QED
  BY <1>5, <1>6, <1>7, <1>8, <1>9, <1>10, <1>11, <1>12, Local DEF OpOK

LEMMA AbandonUnnotifiedKeeps == ASSUME IInv, NEW o \in Ops, AbandonUnnotified(o) PROVE IInv'
<1> USE DEF AbandonUnnotified, Fine
<1>1. grants' \in GrantRows /\ \A g \in Ops : Tame(g)
  BY RuntimeAssumption, Withdrawal DEF IInv, Typed, OpRows, GrantRows,
      ControlInv, ControlOK, Tame, Calm, None, ApprovalOf
<1>2. ops' \in OpRows
  BY <1>1, RuntimeAssumption DEF IInv, Typed, OpRows, States, Failures,
      ApprovalFailures, GrantRows
<1>3. threads' \in Threads
  BY <1>1, RuntimeAssumption DEF IInv, Typed, Threads, Charged, Terminal,
      Failures, Labels
<1>4. uses' \in [Ops -> Charged \cup {"absent", "released"}]
  BY <1>1, RuntimeAssumption DEF IInv, Typed, Charged, OpRows, UseInv, UseOK,
      Threads
<1>5. Typed'
  BY <1>1, <1>2, <1>3, <1>4, RuntimeAssumption DEF IInv, Typed
<1>6. Others(o) /\ channel' = channel /\ faults <= faults'
  BY <1>1, RuntimeAssumption DEF IInv, Typed, Others, Same, Calm, Tame,
      OpRows, GrantRows, Threads, UseInv, UseOK
<1>7. ControlOK(o)'
  BY <1>1, RuntimeAssumption, Withdrawal DEF IInv, Typed, OpRows, GrantRows,
      Threads, ControlInv, ControlOK, DispatchInv, DispatchOK, UseInv, UseOK,
      GrantInv, GrantOK, Running, States, Statuses, Failures, Terminal,
      Charged, Labels, None
<1>8. DispatchOK(o)'
  BY <1>1, RuntimeAssumption, Withdrawal DEF IInv, Typed, OpRows, GrantRows,
      Threads, ControlInv, ControlOK, DispatchInv, DispatchOK, UseInv, UseOK,
      GrantInv, GrantOK, Running, States, Statuses, Failures, Terminal,
      Charged, Labels, None
<1>9. UseOK(o)'
  BY <1>1, RuntimeAssumption, Withdrawal DEF IInv, Typed, OpRows, GrantRows,
      Threads, ControlInv, ControlOK, DispatchInv, DispatchOK, UseInv, UseOK,
      GrantInv, GrantOK, Running, States, Statuses, Failures, Terminal,
      Charged, Labels, None
<1>10. RequestOK(o)'
  BY <1>1, RuntimeAssumption, Withdrawal DEF IInv, Typed, OpRows, GrantRows,
      Threads, ControlInv, ControlOK, RequestInv, RequestOK, Running, Tame,
      Calm, States, Statuses, Failures, Terminal, Charged, Labels, None
<1>11. GrantInv'
  BY <1>1, <1>6, GrantsKept DEF IInv
<1>12. LimitInv'
  <2>1. \A g \in Ops : ChargedTo(g)' \subseteq ChargedTo(g)
    BY <1>1, RuntimeAssumption DEF IInv, Typed, OpRows, Threads, UseInv,
        UseOK, ControlInv, ControlOK, Running, ChargedTo, States, Statuses,
        Failures, Terminal, Charged, Labels, None
  <2>2. \A g \in Ops : grants[g].limit <= grants'[g].limit
    BY <1>1, RuntimeAssumption DEF IInv, Typed, GrantRows, GrantInv, GrantOK,
        Tame
  <2> QED
    BY <1>5, <2>1, <2>2, LimitKept DEF IInv
<1> QED
  BY <1>5, <1>6, <1>7, <1>8, <1>9, <1>10, <1>11, <1>12, Local DEF OpOK

LEMMA FailUnnotifiedKeeps == ASSUME IInv, NEW o \in Ops, FailUnnotified(o) PROVE IInv'
<1> USE DEF FailUnnotified, Fine, Fault
<1>1. /\ ops[o].state \in {"pending"} \cup Failures
      /\ threads[o].at \in {"idle", "cancel"} /\ o \notin interrupted
  BY RuntimeAssumption DEF IInv, Typed, OpRows, Threads, ControlInv,
      ControlOK, DispatchInv, DispatchOK, UseInv, UseOK, Running, States,
      Statuses, Failures, Terminal, Charged, Labels, None
<1>2. /\ ops' \in OpRows /\ faults' \in 0 .. MaxFaults /\ faults <= faults'
      /\ \A p \in Ops \ {o} : ops'[p] = ops[p]
      /\ ops'[o].approval = ops[o].approval
  BY Failing DEF IInv, Typed, OpRows, Failures, Threads, Terminal, ControlInv,
      ControlOK
<1>3. grants' \in GrantRows /\ \A g \in Ops : Tame(g)
  BY <1>1, <1>2, RuntimeAssumption DEF IInv, Typed, GrantRows, Statuses, Tame,
      Calm
<1>4. ops' \in OpRows
  BY <1>1, <1>2, <1>3, RuntimeAssumption DEF IInv, Typed, OpRows, States,
      Failures, ApprovalFailures, GrantRows
<1>5. threads' \in Threads
  BY <1>1, <1>2, <1>3, RuntimeAssumption DEF IInv, Typed, Threads, Charged,
      Terminal, Failures, Labels
<1>6. uses' \in [Ops -> Charged \cup {"absent", "released"}]
  BY <1>1, <1>2, <1>3, RuntimeAssumption DEF IInv, Typed, Charged, OpRows,
      UseInv, UseOK, Threads
<1>7. Typed'
  BY <1>1, <1>2, <1>3, <1>4, <1>5, <1>6, RuntimeAssumption DEF IInv, Typed
<1>8. Others(o) /\ channel' = channel /\ faults <= faults'
  BY <1>1, <1>2, <1>3, RuntimeAssumption DEF IInv, Typed, Others, Same, Calm,
      Tame, OpRows, GrantRows, Threads, UseInv, UseOK
<1>9. ControlOK(o)'
  BY <1>1, <1>2, <1>3, RuntimeAssumption, Failing DEF IInv, Typed, OpRows,
      GrantRows, Threads, ControlInv, ControlOK, DispatchInv, DispatchOK,
      UseInv, UseOK, GrantInv, GrantOK, Running, States, Statuses, Failures,
      Terminal, Charged, Labels, None, Allowed
<1>10. DispatchOK(o)'
  BY <1>1, <1>2, <1>3, RuntimeAssumption, Failing DEF IInv, Typed, OpRows,
      GrantRows, Threads, ControlInv, ControlOK, DispatchInv, DispatchOK,
      UseInv, UseOK, GrantInv, GrantOK, Running, States, Statuses, Failures,
      Terminal, Charged, Labels, None, Allowed
<1>11. UseOK(o)'
  BY <1>1, <1>2, <1>3, RuntimeAssumption, Failing DEF IInv, Typed, OpRows,
      GrantRows, Threads, ControlInv, ControlOK, DispatchInv, DispatchOK,
      UseInv, UseOK, GrantInv, GrantOK, Running, States, Statuses, Failures,
      Terminal, Charged, Labels, None, Allowed
<1>12. RequestOK(o)'
  BY <1>1, <1>2, <1>3, RuntimeAssumption, Failing DEF IInv, Typed, OpRows,
      GrantRows, Threads, ControlInv, ControlOK, RequestInv, RequestOK,
      Running, Tame, Calm, States, Statuses, Failures, Terminal, Charged,
      Labels, None, Allowed
<1>13. GrantInv'
  BY <1>1, <1>2, <1>3, <1>8, GrantsKept DEF IInv
<1>14. LimitInv'
  <2>1. \A g \in Ops : ChargedTo(g)' \subseteq ChargedTo(g)
    BY <1>1, <1>2, <1>3, RuntimeAssumption DEF IInv, Typed, OpRows, Threads,
        UseInv, UseOK, ControlInv, ControlOK, Running, ChargedTo, States,
        Statuses, Failures, Terminal, Charged, Labels, None
  <2>2. \A g \in Ops : grants[g].limit <= grants'[g].limit
    BY <1>1, <1>2, <1>3, RuntimeAssumption DEF IInv, Typed, GrantRows,
        GrantInv, GrantOK, Tame
  <2> QED
    BY <1>7, <2>1, <2>2, LimitKept DEF IInv
<1> QED
  BY <1>7, <1>8, <1>9, <1>10, <1>11, <1>12, <1>13, <1>14, Local DEF OpOK

LEMMA CancelApprovalKeeps == ASSUME IInv, NEW o \in Ops, CancelApproval(o) PROVE IInv'
<1> USE DEF CancelApproval, At, Goto, ApprovalOf, Fine, Elsewhere, Thread
<1>1. grants' \in GrantRows /\ \A g \in Ops : Tame(g)
  BY RuntimeAssumption, Withdrawal DEF IInv, Typed, OpRows, GrantRows,
      ControlInv, ControlOK, Tame, Calm, None, ApprovalOf
<1>2. ops' \in OpRows
  BY <1>1, RuntimeAssumption DEF IInv, Typed, OpRows, States, Failures,
      ApprovalFailures, GrantRows
<1>3. threads' \in Threads
  BY <1>1, RuntimeAssumption DEF IInv, Typed, Threads, Charged, Terminal,
      Failures, Labels
<1>4. uses' \in [Ops -> Charged \cup {"absent", "released"}]
  BY <1>1, RuntimeAssumption DEF IInv, Typed, Charged, OpRows, UseInv, UseOK,
      Threads
<1>5. Typed'
  BY <1>1, <1>2, <1>3, <1>4, RuntimeAssumption DEF IInv, Typed
<1>6. Others(o) /\ channel' = channel /\ faults <= faults'
  BY <1>1, RuntimeAssumption DEF IInv, Typed, Others, Same, Calm, Tame,
      OpRows, GrantRows, Threads, UseInv, UseOK
<1>7. ControlOK(o)'
  BY <1>1, RuntimeAssumption, Withdrawal DEF IInv, Typed, OpRows, GrantRows,
      Threads, ControlInv, ControlOK, DispatchInv, DispatchOK, UseInv, UseOK,
      GrantInv, GrantOK, Running, States, Statuses, Failures, Terminal,
      Charged, Labels, None
<1>8. DispatchOK(o)'
  BY <1>1, RuntimeAssumption, Withdrawal DEF IInv, Typed, OpRows, GrantRows,
      Threads, ControlInv, ControlOK, DispatchInv, DispatchOK, UseInv, UseOK,
      GrantInv, GrantOK, Running, States, Statuses, Failures, Terminal,
      Charged, Labels, None
<1>9. UseOK(o)'
  BY <1>1, RuntimeAssumption, Withdrawal DEF IInv, Typed, OpRows, GrantRows,
      Threads, ControlInv, ControlOK, DispatchInv, DispatchOK, UseInv, UseOK,
      GrantInv, GrantOK, Running, States, Statuses, Failures, Terminal,
      Charged, Labels, None
<1>10. RequestOK(o)'
  BY <1>1, RuntimeAssumption, Withdrawal DEF IInv, Typed, OpRows, GrantRows,
      Threads, ControlInv, ControlOK, RequestInv, RequestOK, Running, Tame,
      Calm, States, Statuses, Failures, Terminal, Charged, Labels, None,
      ApprovalOf
<1>11. GrantInv'
  BY <1>1, <1>6, GrantsKept DEF IInv
<1>12. LimitInv'
  <2>1. \A g \in Ops : ChargedTo(g)' \subseteq ChargedTo(g)
    BY <1>1, RuntimeAssumption DEF IInv, Typed, OpRows, Threads, UseInv,
        UseOK, ControlInv, ControlOK, Running, ChargedTo, States, Statuses,
        Failures, Terminal, Charged, Labels, None
  <2>2. \A g \in Ops : grants[g].limit <= grants'[g].limit
    BY <1>1, RuntimeAssumption DEF IInv, Typed, GrantRows, GrantInv, GrantOK,
        Tame
  <2> QED
    BY <1>5, <2>1, <2>2, LimitKept DEF IInv
<1> QED
  BY <1>5, <1>6, <1>7, <1>8, <1>9, <1>10, <1>11, <1>12, Local DEF OpOK

LEMMA CancelKeeps == ASSUME IInv, NEW o \in Ops, Cancel(o) PROVE IInv'
<1> USE DEF Cancel, At, Unlock, Fine, SetState, Fault, Elsewhere, Idle
<1>1. grants' \in GrantRows /\ \A g \in Ops : Tame(g)
  BY RuntimeAssumption DEF IInv, Typed, GrantRows, Statuses, Tame, Calm
<1>2. ops' \in OpRows
  <2>1. ops' = ops \/ ops' = [ops EXCEPT ![o].state = "canceled"]
    OBVIOUS
  <2> QED
    BY <2>1, RowTyped DEF IInv, Typed, States
<1>3. threads' \in Threads
  BY <1>1, RuntimeAssumption DEF IInv, Typed, Threads, Charged, Terminal,
      Failures, Labels
<1>4. uses' \in [Ops -> Charged \cup {"absent", "released"}]
  BY <1>1, RuntimeAssumption DEF IInv, Typed, Charged, OpRows, UseInv, UseOK,
      Threads
<1>5. Typed'
  BY <1>1, <1>2, <1>3, <1>4, RuntimeAssumption DEF IInv, Typed
<1>6. Others(o) /\ channel' = channel /\ faults <= faults'
  BY <1>1, RuntimeAssumption DEF IInv, Typed, Others, Same, Calm, Tame,
      OpRows, GrantRows, Threads, UseInv, UseOK
<1>7. ControlOK(o)'
  BY <1>1, RuntimeAssumption DEF IInv, Typed, OpRows, GrantRows, Threads,
      ControlInv, ControlOK, DispatchInv, DispatchOK, UseInv, UseOK, GrantInv,
      GrantOK, Running, States, Statuses, Failures, Terminal, Charged, Labels,
      None
<1>8. DispatchOK(o)'
  BY <1>1, RuntimeAssumption DEF IInv, Typed, OpRows, GrantRows, Threads,
      ControlInv, ControlOK, DispatchInv, DispatchOK, UseInv, UseOK, GrantInv,
      GrantOK, Running, States, Statuses, Failures, Terminal, Charged, Labels,
      None
<1>9. UseOK(o)'
  BY <1>1, RuntimeAssumption, SMTT(30) DEF IInv, Typed, OpRows, GrantRows, Threads,
      ControlInv, ControlOK, DispatchInv, DispatchOK, UseInv, UseOK, GrantInv,
      GrantOK, Running, States, Statuses, Failures, Terminal, Charged, Labels,
      None
<1>10. RequestOK(o)'
  BY <1>1, RuntimeAssumption DEF IInv, Typed, OpRows, GrantRows, Threads,
      ControlInv, ControlOK, RequestInv, RequestOK, Running, Tame, Calm,
      States, Statuses, Failures, Terminal, Charged, Labels, None
<1>11. GrantInv'
  BY <1>1, <1>6, GrantsKept DEF IInv
<1>12. LimitInv'
  <2>1. \A g \in Ops : ChargedTo(g)' \subseteq ChargedTo(g)
    BY <1>1, RuntimeAssumption DEF IInv, Typed, OpRows, Threads, UseInv,
        UseOK, ControlInv, ControlOK, Running, ChargedTo, States, Statuses,
        Failures, Terminal, Charged, Labels, None
  <2>2. \A g \in Ops : grants[g].limit <= grants'[g].limit
    BY <1>1, RuntimeAssumption DEF IInv, Typed, GrantRows, GrantInv, GrantOK,
        Tame
  <2> QED
    BY <1>5, <2>1, <2>2, LimitKept DEF IInv
<1> QED
  BY <1>5, <1>6, <1>7, <1>8, <1>9, <1>10, <1>11, <1>12, Local DEF OpOK

LEMMA RecoverApprovalKeeps == ASSUME IInv, NEW o \in Ops, RecoverApproval(o) PROVE IInv'
<1> USE DEF RecoverApproval, At, SetState, Fine, Elsewhere
<1>1. uses[o] = "absent" /\ o \notin effects
  BY RuntimeAssumption DEF IInv, Typed, OpRows, Threads, ControlInv,
      ControlOK, DispatchInv, DispatchOK, UseInv, UseOK, Running, States,
      Statuses, Failures, Terminal, Charged, Labels, None
<1>2. grants' \in GrantRows /\ \A g \in Ops : Tame(g)
  BY <1>1, RuntimeAssumption DEF IInv, Typed, GrantRows, Statuses, Tame, Calm
<1>3. ops' \in OpRows
  BY <1>1, <1>2, RuntimeAssumption DEF IInv, Typed, OpRows, States, Failures,
      ApprovalFailures, GrantRows
<1>4. threads' \in Threads
  BY <1>1, <1>2, RuntimeAssumption DEF IInv, Typed, Threads, Charged,
      Terminal, Failures, Labels
<1>5. uses' \in [Ops -> Charged \cup {"absent", "released"}]
  BY <1>1, <1>2, RuntimeAssumption DEF IInv, Typed, Charged, OpRows, UseInv,
      UseOK, Threads
<1>6. Typed'
  BY <1>1, <1>2, <1>3, <1>4, <1>5, RuntimeAssumption DEF IInv, Typed
<1>7. Others(o) /\ channel' = channel /\ faults <= faults'
  BY <1>1, <1>2, RuntimeAssumption DEF IInv, Typed, Others, Same, Calm, Tame,
      OpRows, GrantRows, Threads, UseInv, UseOK
<1>8. ControlOK(o)'
  BY <1>1, <1>2, RuntimeAssumption DEF IInv, Typed, OpRows, GrantRows,
      Threads, ControlInv, ControlOK, DispatchInv, DispatchOK, UseInv, UseOK,
      GrantInv, GrantOK, Running, States, Statuses, Failures, Terminal,
      Charged, Labels, None
<1>9. DispatchOK(o)'
  BY <1>1, <1>2, RuntimeAssumption DEF IInv, Typed, OpRows, GrantRows,
      Threads, ControlInv, ControlOK, DispatchInv, DispatchOK, UseInv, UseOK,
      GrantInv, GrantOK, Running, States, Statuses, Failures, Terminal,
      Charged, Labels, None
<1>10. UseOK(o)'
  BY <1>1, <1>2, RuntimeAssumption DEF IInv, Typed, OpRows, GrantRows,
      Threads, ControlInv, ControlOK, DispatchInv, DispatchOK, UseInv, UseOK,
      GrantInv, GrantOK, Running, States, Statuses, Failures, Terminal,
      Charged, Labels, None
<1>11. RequestOK(o)'
  BY <1>1, <1>2, RuntimeAssumption DEF IInv, Typed, OpRows, GrantRows,
      Threads, ControlInv, ControlOK, RequestInv, RequestOK, Running, Tame,
      Calm, States, Statuses, Failures, Terminal, Charged, Labels, None
<1>12. GrantInv'
  BY <1>1, <1>2, <1>7, GrantsKept DEF IInv
<1>13. LimitInv'
  <2>1. \A g \in Ops : ChargedTo(g)' \subseteq ChargedTo(g)
    BY <1>1, <1>2, RuntimeAssumption DEF IInv, Typed, OpRows, ChargedTo,
        Charged
  <2>2. \A g \in Ops : grants[g].limit <= grants'[g].limit
    BY <1>1, <1>2, RuntimeAssumption DEF IInv, Typed, GrantRows, GrantInv,
        GrantOK, Tame
  <2> QED
    BY <1>6, <2>1, <2>2, LimitKept DEF IInv
<1> QED
  BY <1>6, <1>7, <1>8, <1>9, <1>10, <1>11, <1>12, <1>13, Local DEF OpOK

LEMMA SyncApprovalKeeps == ASSUME IInv, NEW o \in Ops, SyncApproval(o) PROVE IInv'
<1> USE DEF SyncApproval, At, SetState, ApprovalFailures, ApprovalFailure,
      Fine, Elsewhere
<1>1. uses[o] = "absent" /\ o \notin effects
  BY RuntimeAssumption DEF IInv, Typed, OpRows, Threads, ControlInv,
      ControlOK, DispatchInv, DispatchOK, UseInv, UseOK, Running, States,
      Statuses, Failures, Terminal, Charged, Labels, None
<1>2. grants' \in GrantRows /\ \A g \in Ops : Tame(g)
  BY <1>1, RuntimeAssumption DEF IInv, Typed, GrantRows, Statuses, Tame, Calm
<1>3. ops' \in OpRows
  <2>1. \E s \in States : ops' = [ops EXCEPT ![o].state = s]
    BY DEF States, ApprovalFailures, ApprovalFailure
  <2> QED
    BY <2>1, RowTyped DEF IInv
<1>4. threads' \in Threads
  BY <1>1, <1>2, RuntimeAssumption DEF IInv, Typed, Threads, Charged,
      Terminal, Failures, Labels
<1>5. uses' \in [Ops -> Charged \cup {"absent", "released"}]
  BY <1>1, <1>2, RuntimeAssumption DEF IInv, Typed, Charged, OpRows, UseInv,
      UseOK, Threads
<1>6. Typed'
  BY <1>1, <1>2, <1>3, <1>4, <1>5, RuntimeAssumption DEF IInv, Typed
<1>7. Others(o) /\ channel' = channel /\ faults <= faults'
  BY <1>1, <1>2, RuntimeAssumption DEF IInv, Typed, Others, Same, Calm, Tame,
      OpRows, GrantRows, Threads, UseInv, UseOK
<1>8. ControlOK(o)'
  BY <1>1, <1>2, RuntimeAssumption DEF IInv, Typed, OpRows, GrantRows,
      Threads, ControlInv, ControlOK, DispatchInv, DispatchOK, UseInv, UseOK,
      GrantInv, GrantOK, Running, States, Statuses, Failures, Terminal,
      Charged, Labels, None
<1>9. DispatchOK(o)'
  BY <1>1, <1>2, RuntimeAssumption DEF IInv, Typed, OpRows, GrantRows,
      Threads, ControlInv, ControlOK, DispatchInv, DispatchOK, UseInv, UseOK,
      GrantInv, GrantOK, Running, States, Statuses, Failures, Terminal,
      Charged, Labels, None
<1>10. UseOK(o)'
  BY <1>1, <1>2, RuntimeAssumption DEF IInv, Typed, OpRows, GrantRows,
      Threads, ControlInv, ControlOK, DispatchInv, DispatchOK, UseInv, UseOK,
      GrantInv, GrantOK, Running, States, Statuses, Failures, Terminal,
      Charged, Labels, None
<1>11. RequestOK(o)'
  BY <1>1, <1>2, RuntimeAssumption DEF IInv, Typed, OpRows, GrantRows,
      Threads, ControlInv, ControlOK, RequestInv, RequestOK, Running, Tame,
      Calm, States, Statuses, Failures, Terminal, Charged, Labels, None
<1>12. GrantInv'
  BY <1>1, <1>2, <1>7, GrantsKept DEF IInv
<1>13. LimitInv'
  <2>1. \A g \in Ops : ChargedTo(g)' \subseteq ChargedTo(g)
    BY <1>1, <1>2, RuntimeAssumption DEF IInv, Typed, OpRows, ChargedTo,
        Charged
  <2>2. \A g \in Ops : grants[g].limit <= grants'[g].limit
    BY <1>1, <1>2, RuntimeAssumption DEF IInv, Typed, GrantRows, GrantInv,
        GrantOK, Tame
  <2> QED
    BY <1>6, <2>1, <2>2, LimitKept DEF IInv
<1> QED
  BY <1>6, <1>7, <1>8, <1>9, <1>10, <1>11, <1>12, <1>13, Local DEF OpOK

LEMMA ClaimKeeps == ASSUME IInv, NEW o \in Ops, Claim(o) PROVE IInv'
<1> USE DEF Claim, At, SetState, Goto, Fine, Elsewhere, Thread
<1>1. uses[o] = "absent" /\ o \notin effects /\ unlocked[o] = "none"
      /\ o \notin interrupted
  BY RuntimeAssumption DEF IInv, Typed, OpRows, Threads, ControlInv,
      ControlOK, DispatchInv, DispatchOK, UseInv, UseOK, Running, States,
      Statuses, Failures, Terminal, Charged, Labels, None
<1>2. grants' \in GrantRows /\ \A g \in Ops : Tame(g)
  BY <1>1, RuntimeAssumption DEF IInv, Typed, GrantRows, Statuses, Tame, Calm
<1>3. ops' \in OpRows
  BY RowTyped DEF IInv, States
<1>4. threads' \in Threads
  BY <1>1, <1>2, RuntimeAssumption DEF IInv, Typed, Threads, Charged,
      Terminal, Failures, Labels
<1>5. uses' \in [Ops -> Charged \cup {"absent", "released"}]
  BY <1>1, <1>2, RuntimeAssumption DEF IInv, Typed, Charged, OpRows, UseInv,
      UseOK, Threads
<1>6. Typed'
  BY <1>1, <1>2, <1>3, <1>4, <1>5, RuntimeAssumption DEF IInv, Typed
<1>7. Others(o) /\ channel' = channel /\ faults <= faults'
  BY <1>1, <1>2, RuntimeAssumption DEF IInv, Typed, Others, Same, Calm, Tame,
      OpRows, GrantRows, Threads, UseInv, UseOK
<1>8. ControlOK(o)'
  BY <1>1, <1>2, RuntimeAssumption DEF IInv, Typed, OpRows, GrantRows,
      Threads, ControlInv, ControlOK, DispatchInv, DispatchOK, UseInv, UseOK,
      GrantInv, GrantOK, Running, States, Statuses, Failures, Terminal,
      Charged, Labels, None
<1>9. DispatchOK(o)'
  BY <1>1, <1>2, RuntimeAssumption DEF IInv, Typed, OpRows, GrantRows,
      Threads, ControlInv, ControlOK, DispatchInv, DispatchOK, UseInv, UseOK,
      GrantInv, GrantOK, Running, States, Statuses, Failures, Terminal,
      Charged, Labels, None
<1>10. UseOK(o)'
  BY <1>1, <1>2, RuntimeAssumption DEF IInv, Typed, OpRows, GrantRows,
      Threads, ControlInv, ControlOK, DispatchInv, DispatchOK, UseInv, UseOK,
      GrantInv, GrantOK, Running, States, Statuses, Failures, Terminal,
      Charged, Labels, None
<1>11. RequestOK(o)'
  BY <1>1, <1>2, RuntimeAssumption DEF IInv, Typed, OpRows, GrantRows,
      Threads, ControlInv, ControlOK, RequestInv, RequestOK, Running, Tame,
      Calm, States, Statuses, Failures, Terminal, Charged, Labels, None
<1>12. GrantInv'
  BY <1>1, <1>2, <1>7, GrantsKept DEF IInv
<1>13. LimitInv'
  <2>1. \A g \in Ops : ChargedTo(g)' \subseteq ChargedTo(g)
    BY <1>1, <1>2, RuntimeAssumption DEF IInv, Typed, OpRows, Threads, UseInv,
        UseOK, ControlInv, ControlOK, Running, ChargedTo, States, Statuses,
        Failures, Terminal, Charged, Labels, None
  <2>2. \A g \in Ops : grants[g].limit <= grants'[g].limit
    BY <1>1, <1>2, RuntimeAssumption DEF IInv, Typed, GrantRows, GrantInv,
        GrantOK, Tame
  <2> QED
    BY <1>6, <2>1, <2>2, LimitKept DEF IInv
<1> QED
  BY <1>6, <1>7, <1>8, <1>9, <1>10, <1>11, <1>12, <1>13, Local DEF OpOK

LEMMA BindReservationKeeps == ASSUME IInv, NEW o \in Ops, BindReservation(o) PROVE IInv'
<1> USE DEF BindReservation, At, Goto, SettleAs, Fine, Elsewhere, Thread
<1>1. grants' \in GrantRows /\ \A g \in Ops : Tame(g)
  BY RuntimeAssumption DEF IInv, Typed, GrantRows, Statuses, Tame, Calm
<1>2. ops' \in OpRows
  BY <1>1, RuntimeAssumption DEF IInv, Typed, OpRows, States, Failures,
      ApprovalFailures, GrantRows
<1>3. threads' \in Threads
  BY <1>1, RuntimeAssumption DEF IInv, Typed, Threads, Charged, Terminal,
      Failures, Labels
<1>4. uses' \in [Ops -> Charged \cup {"absent", "released"}]
  BY <1>1, RuntimeAssumption DEF IInv, Typed, Charged, OpRows, UseInv, UseOK,
      Threads
<1>5. Typed'
  BY <1>1, <1>2, <1>3, <1>4, RuntimeAssumption DEF IInv, Typed
<1>6. Others(o) /\ channel' = channel /\ faults <= faults'
  BY <1>1, RuntimeAssumption DEF IInv, Typed, Others, Same, Calm, Tame,
      OpRows, GrantRows, Threads, UseInv, UseOK
<1>7. ControlOK(o)'
  BY <1>1, RuntimeAssumption DEF IInv, Typed, OpRows, GrantRows, Threads,
      ControlInv, ControlOK, DispatchInv, DispatchOK, UseInv, UseOK, GrantInv,
      GrantOK, Running, States, Statuses, Failures, Terminal, Charged, Labels,
      None
<1>8. DispatchOK(o)'
  BY <1>1, RuntimeAssumption DEF IInv, Typed, OpRows, GrantRows, Threads,
      ControlInv, ControlOK, DispatchInv, DispatchOK, UseInv, UseOK, GrantInv,
      GrantOK, Running, States, Statuses, Failures, Terminal, Charged, Labels,
      None
<1>9. UseOK(o)'
  BY <1>1, RuntimeAssumption DEF IInv, Typed, OpRows, GrantRows, Threads,
      ControlInv, ControlOK, DispatchInv, DispatchOK, UseInv, UseOK, GrantInv,
      GrantOK, Running, States, Statuses, Failures, Terminal, Charged, Labels,
      None
<1>10. RequestOK(o)'
  BY <1>1, RuntimeAssumption DEF IInv, Typed, OpRows, GrantRows, Threads,
      ControlInv, ControlOK, RequestInv, RequestOK, Running, Tame, Calm,
      States, Statuses, Failures, Terminal, Charged, Labels, None
<1>11. GrantInv'
  BY <1>1, <1>6, GrantsKept DEF IInv
<1>12. LimitInv'
  <2>1. \A g \in Ops : ChargedTo(g)' \subseteq ChargedTo(g)
    BY <1>1, RuntimeAssumption DEF IInv, Typed, OpRows, Threads, UseInv,
        UseOK, ControlInv, ControlOK, Running, ChargedTo, States, Statuses,
        Failures, Terminal, Charged, Labels, None
  <2>2. \A g \in Ops : grants[g].limit <= grants'[g].limit
    BY <1>1, RuntimeAssumption DEF IInv, Typed, GrantRows, GrantInv, GrantOK,
        Tame
  <2> QED
    BY <1>5, <2>1, <2>2, LimitKept DEF IInv
<1> QED
  BY <1>5, <1>6, <1>7, <1>8, <1>9, <1>10, <1>11, <1>12, Local DEF OpOK

LEMMA DispatchKeeps == ASSUME IInv, NEW o \in Ops, Dispatch(o) PROVE IInv'
<1> USE DEF Dispatch, At, SettleAs, Goto, Fine, Thread
<1>1. grants' \in GrantRows /\ \A g \in Ops : Tame(g)
  BY RuntimeAssumption DEF IInv, Typed, GrantRows, Statuses, Tame, Calm
<1>2. ops' \in OpRows
  BY <1>1, RuntimeAssumption DEF IInv, Typed, OpRows, States, Failures,
      ApprovalFailures, GrantRows
<1>3. threads' \in Threads
  BY <1>1, RuntimeAssumption DEF IInv, Typed, Threads, Charged, Terminal,
      Failures, Labels
<1>4. uses' \in [Ops -> Charged \cup {"absent", "released"}]
  BY <1>1, RuntimeAssumption DEF IInv, Typed, Charged, OpRows, UseInv, UseOK,
      Threads
<1>5. Typed'
  BY <1>1, <1>2, <1>3, <1>4, RuntimeAssumption DEF IInv, Typed
<1>6. Others(o) /\ channel' = channel /\ faults <= faults'
  BY <1>1, RuntimeAssumption DEF IInv, Typed, Others, Same, Calm, Tame,
      OpRows, GrantRows, Threads, UseInv, UseOK
<1>7. ControlOK(o)'
  BY <1>1, RuntimeAssumption DEF IInv, Typed, OpRows, GrantRows, Threads,
      ControlInv, ControlOK, DispatchInv, DispatchOK, UseInv, UseOK, GrantInv,
      GrantOK, Running, States, Statuses, Failures, Terminal, Charged, Labels,
      None
<1>8. DispatchOK(o)'
  BY <1>1, RuntimeAssumption DEF IInv, Typed, OpRows, GrantRows, Threads,
      ControlInv, ControlOK, DispatchInv, DispatchOK, UseInv, UseOK, GrantInv,
      GrantOK, Running, States, Statuses, Failures, Terminal, Charged, Labels,
      None
<1>9. UseOK(o)'
  BY <1>1, RuntimeAssumption DEF IInv, Typed, OpRows, GrantRows, Threads,
      ControlInv, ControlOK, DispatchInv, DispatchOK, UseInv, UseOK, GrantInv,
      GrantOK, Running, States, Statuses, Failures, Terminal, Charged, Labels,
      None
<1>10. RequestOK(o)'
  BY <1>1, RuntimeAssumption DEF IInv, Typed, OpRows, GrantRows, Threads,
      ControlInv, ControlOK, RequestInv, RequestOK, Running, Tame, Calm,
      States, Statuses, Failures, Terminal, Charged, Labels, None
<1>11. GrantInv'
  BY <1>1, <1>6, GrantsKept DEF IInv
<1>12. LimitInv'
  <2>1. \A g \in Ops : ChargedTo(g)' \subseteq ChargedTo(g)
    BY <1>1, RuntimeAssumption DEF IInv, Typed, OpRows, Threads, UseInv,
        UseOK, ControlInv, ControlOK, Running, ChargedTo, States, Statuses,
        Failures, Terminal, Charged, Labels, None
  <2>2. \A g \in Ops : grants[g].limit <= grants'[g].limit
    BY <1>1, RuntimeAssumption DEF IInv, Typed, GrantRows, GrantInv, GrantOK,
        Tame
  <2> QED
    BY <1>5, <2>1, <2>2, LimitKept DEF IInv
<1> QED
  BY <1>5, <1>6, <1>7, <1>8, <1>9, <1>10, <1>11, <1>12, Local DEF OpOK

LEMMA ReconcileExecutionKeeps == ASSUME IInv, NEW o \in Ops, ReconcileExecution(o) PROVE IInv'
<1> USE DEF ReconcileExecution, At, SettleAs, Fine, Elsewhere, Thread
<1>1. grants' \in GrantRows /\ \A g \in Ops : Tame(g)
  BY RuntimeAssumption DEF IInv, Typed, GrantRows, Statuses, Tame, Calm
<1>2. ops' \in OpRows
  BY <1>1, RuntimeAssumption DEF IInv, Typed, OpRows, States, Failures,
      ApprovalFailures, GrantRows
<1>3. threads' \in Threads
  BY <1>1, RuntimeAssumption DEF IInv, Typed, Threads, Charged, Terminal,
      Failures, Labels
<1>4. uses' \in [Ops -> Charged \cup {"absent", "released"}]
  BY <1>1, RuntimeAssumption DEF IInv, Typed, Charged, OpRows, UseInv, UseOK,
      Threads
<1>5. Typed'
  BY <1>1, <1>2, <1>3, <1>4, RuntimeAssumption DEF IInv, Typed
<1>6. Others(o) /\ channel' = channel /\ faults <= faults'
  BY <1>1, RuntimeAssumption DEF IInv, Typed, Others, Same, Calm, Tame,
      OpRows, GrantRows, Threads, UseInv, UseOK
<1>7. ControlOK(o)'
  BY <1>1, RuntimeAssumption DEF IInv, Typed, OpRows, GrantRows, Threads,
      ControlInv, ControlOK, DispatchInv, DispatchOK, UseInv, UseOK, GrantInv,
      GrantOK, Running, States, Statuses, Failures, Terminal, Charged, Labels,
      None
<1>8. DispatchOK(o)'
  BY <1>1, RuntimeAssumption DEF IInv, Typed, OpRows, GrantRows, Threads,
      ControlInv, ControlOK, DispatchInv, DispatchOK, UseInv, UseOK, GrantInv,
      GrantOK, Running, States, Statuses, Failures, Terminal, Charged, Labels,
      None
<1>9. UseOK(o)'
  BY <1>1, RuntimeAssumption DEF IInv, Typed, OpRows, GrantRows, Threads,
      ControlInv, ControlOK, DispatchInv, DispatchOK, UseInv, UseOK, GrantInv,
      GrantOK, Running, States, Statuses, Failures, Terminal, Charged, Labels,
      None
<1>10. RequestOK(o)'
  BY <1>1, RuntimeAssumption DEF IInv, Typed, OpRows, GrantRows, Threads,
      ControlInv, ControlOK, RequestInv, RequestOK, Running, Tame, Calm,
      States, Statuses, Failures, Terminal, Charged, Labels, None
<1>11. GrantInv'
  BY <1>1, <1>6, GrantsKept DEF IInv
<1>12. LimitInv'
  <2>1. \A g \in Ops : ChargedTo(g)' \subseteq ChargedTo(g)
    BY <1>1, RuntimeAssumption DEF IInv, Typed, OpRows, Threads, UseInv,
        UseOK, ControlInv, ControlOK, Running, ChargedTo, States, Statuses,
        Failures, Terminal, Charged, Labels, None
  <2>2. \A g \in Ops : grants[g].limit <= grants'[g].limit
    BY <1>1, RuntimeAssumption DEF IInv, Typed, GrantRows, GrantInv, GrantOK,
        Tame
  <2> QED
    BY <1>5, <2>1, <2>2, LimitKept DEF IInv
<1> QED
  BY <1>5, <1>6, <1>7, <1>8, <1>9, <1>10, <1>11, <1>12, Local DEF OpOK

LEMMA SettleKeeps == ASSUME IInv, NEW o \in Ops, Settle(o) PROVE IInv'
<1> USE DEF Settle, At, Fine, EndAs, Fault, Elsewhere, Thread
<1>1. \/ grants' = grants /\ uses' = uses
      \/ ops[o].approval \in Ops /\ Settled(o, threads[o].want)
  BY RuntimeAssumption
     DEF IInv, Typed, OpRows, UseInv, UseOK, Settled, None
<1>2. /\ grants' \in GrantRows /\ \A g \in Ops : Tame(g)
      /\ \/ uses' = uses
         \/ /\ uses[o] \in {"reserved", "retained"}
            /\ uses' = [uses EXCEPT ![o] = threads[o].want]
  <2>1. CASE grants' = grants /\ uses' = uses
    BY <2>1 DEF IInv, Typed, GrantRows, Tame, Calm
  <2>2. CASE ops[o].approval \in Ops /\ Settled(o, threads[o].want)
    BY <2>2, Settlement DEF IInv
  <2> QED
    BY <1>1, <2>1, <2>2
<1>3. ops' \in OpRows
  BY <1>1, <1>2, RuntimeAssumption DEF IInv, Typed, OpRows, States, Failures,
      ApprovalFailures, GrantRows
<1>4. threads' \in Threads
  BY <1>1, <1>2, RuntimeAssumption DEF IInv, Typed, Threads, Charged,
      Terminal, Failures, Labels
<1>5. uses' \in [Ops -> Charged \cup {"absent", "released"}]
  BY <1>1, <1>2, RuntimeAssumption DEF IInv, Typed, Charged, OpRows, UseInv,
      UseOK, Threads, ControlInv, ControlOK
<1>6. Typed'
  BY <1>1, <1>2, <1>3, <1>4, <1>5, RuntimeAssumption DEF IInv, Typed
<1>7. Others(o) /\ channel' = channel /\ faults <= faults'
  BY <1>1, <1>2, RuntimeAssumption DEF IInv, Typed, Others, Same, Calm, Tame,
      OpRows, GrantRows, Threads, UseInv, UseOK
<1>8. ControlOK(o)'
  BY <1>1, <1>2, RuntimeAssumption DEF IInv, Typed, OpRows, GrantRows,
      Threads, ControlInv, ControlOK, DispatchInv, DispatchOK, UseInv, UseOK,
      GrantInv, GrantOK, Running, States, Statuses, Failures, Terminal,
      Charged, Labels, None, Settled, SetUse
<1>9. DispatchOK(o)'
  BY <1>1, <1>2, RuntimeAssumption DEF IInv, Typed, OpRows, GrantRows,
      Threads, ControlInv, ControlOK, DispatchInv, DispatchOK, UseInv, UseOK,
      GrantInv, GrantOK, Running, States, Statuses, Failures, Terminal,
      Charged, Labels, None, Settled, SetUse
<1>10. UseOK(o)'
  BY <1>1, <1>2, RuntimeAssumption DEF IInv, Typed, OpRows, GrantRows,
      Threads, ControlInv, ControlOK, DispatchInv, DispatchOK, UseInv, UseOK,
      GrantInv, GrantOK, Running, States, Statuses, Failures, Terminal,
      Charged, Labels, None, Settled, SetUse
<1>11. RequestOK(o)'
  BY <1>1, <1>2, RuntimeAssumption DEF IInv, Typed, OpRows, GrantRows,
      Threads, ControlInv, ControlOK, RequestInv, RequestOK, Running, Tame,
      Calm, States, Statuses, Failures, Terminal, Charged, Labels, None,
      Settled, SetUse
<1>12. GrantInv'
  BY <1>1, <1>2, <1>7, GrantsKept DEF IInv
<1>13. LimitInv'
  <2>1. \A g \in Ops : ChargedTo(g)' \subseteq ChargedTo(g)
    BY <1>1, <1>2, RuntimeAssumption DEF IInv, Typed, OpRows, Threads, UseInv,
        UseOK, ControlInv, ControlOK, Running, ChargedTo, States, Statuses,
        Failures, Terminal, Charged, Labels, None
  <2>2. \A g \in Ops : grants[g].limit <= grants'[g].limit
    BY <1>1, <1>2, RuntimeAssumption DEF IInv, Typed, GrantRows, GrantInv,
        GrantOK, Tame
  <2> QED
    BY <1>6, <2>1, <2>2, LimitKept DEF IInv
<1> QED
  BY <1>6, <1>7, <1>8, <1>9, <1>10, <1>11, <1>12, <1>13, Local DEF OpOK

LEMMA EndKeeps == ASSUME IInv, NEW o \in Ops, End(o) PROVE IInv'
<1> USE DEF End, At, Unlock, Fine, SetState, Fault, EndAs, Elsewhere, Idle,
      Thread
<1>1. /\ ops' \in OpRows /\ faults' \in 0 .. MaxFaults /\ faults <= faults'
      /\ \A p \in Ops \ {o} : ops'[p] = ops[p]
      /\ ops'[o].approval = ops[o].approval
      /\ \/ ops'[o].state = ops[o].state
         \/ ops'[o].state = threads[o].end /\ threads'[o].at = "idle"
  <2>1. CASE threads[o].end = "succeeded"
    BY <2>1, RuntimeAssumption
       DEF IInv, Typed, OpRows, Threads, States, SetState, Unlock, Idle
  <2>2. CASE threads[o].end # "succeeded"
    <3>1. threads[o].end \in Failures
      BY <2>2 DEF IInv, Typed, Threads, Terminal, ControlInv, ControlOK
    <3> QED
      BY <2>2, <3>1, Failing DEF IInv, Typed, Threads, Unlock, Idle
  <2> QED
    BY <2>1, <2>2
<1>2. /\ \/ threads'[o].at = "idle"
         \/ threads'[o].at = "end" /\ threads'[o].end = "failed"
      /\ threads' \in Threads /\ \A p \in Ops \ {o} : threads'[p] = threads[p]
  <2>1. \E t \in {Idle, [at |-> "end", want |-> "none", end |-> "failed"]} :
          threads' = [threads EXCEPT ![o] = t]
    OBVIOUS
  <2> QED
    BY <2>1 DEF IInv, Typed, Threads, Labels, Terminal, Failures
<1>3. \/ /\ ops[o].state = "executing"
         /\ threads[o].end \in {"succeeded", "failed"}
      \/ /\ ops[o].state = "pending" /\ ops[o].approval = None
         /\ threads[o].end # "succeeded"
  BY DEF IInv, ControlInv, ControlOK
<1>4. /\ threads[o].at = "end" /\ channel' = channel /\ crashes' = crashes
      /\ UNCHANGED <<grants, uses, dispatched, effects, interrupted, unlocked>>
  OBVIOUS
<1> HIDE DEF End, At, Unlock, Idle, Fine, SetState, Fault, EndAs, Thread, Elsewhere
<1>5. grants' \in GrantRows /\ \A g \in Ops : Tame(g)
  BY <1>1, <1>2, <1>3, <1>4, RuntimeAssumption DEF IInv, Typed, GrantRows,
      Statuses, Tame, Calm
<1>6. threads' \in Threads
  BY <1>1, <1>2, <1>3, <1>4, <1>5, RuntimeAssumption DEF IInv, Typed, Threads,
      Charged, Terminal, Failures, Labels
<1>7. uses' \in [Ops -> Charged \cup {"absent", "released"}]
  BY <1>1, <1>2, <1>3, <1>4, <1>5, RuntimeAssumption DEF IInv, Typed, Charged,
      OpRows, UseInv, UseOK, Threads
<1>8. Typed'
  BY <1>1, <1>2, <1>3, <1>4, <1>5, <1>1, <1>6, <1>7, RuntimeAssumption DEF
      IInv, Typed
<1>9. Others(o) /\ channel' = channel /\ faults <= faults'
  BY <1>1, <1>2, <1>3, <1>4, <1>5, RuntimeAssumption DEF IInv, Typed, Others,
      Same, Calm, Tame, OpRows, GrantRows, Threads, UseInv, UseOK
<1>10. ControlOK(o)'
  BY <1>1, <1>2, <1>3, <1>4, RuntimeAssumption DEF IInv, Typed, ControlInv,
      ControlOK, Running, Failures, Terminal, Threads
<1>11. DispatchOK(o)'
  BY <1>1, <1>2, <1>3, <1>4, <1>5, RuntimeAssumption DEF IInv, Typed, OpRows,
      GrantRows, Threads, ControlInv, ControlOK, DispatchInv, DispatchOK,
      UseInv, UseOK, GrantInv, GrantOK, Running, States, Statuses, Failures,
      Terminal, Charged, Labels, None
<1>12. UseOK(o)'
  BY <1>1, <1>2, <1>3, <1>4, <1>5, RuntimeAssumption DEF IInv, Typed, OpRows,
      GrantRows, Threads, ControlInv, ControlOK, DispatchInv, DispatchOK,
      UseInv, UseOK, GrantInv, GrantOK, Running, States, Statuses, Failures,
      Terminal, Charged, Labels, None
<1>13. RequestOK(o)'
  BY <1>1, <1>2, <1>3, <1>4, RuntimeAssumption DEF IInv, Typed, Threads,
      RequestInv, RequestOK, Terminal, Failures
<1>14. GrantInv'
  BY <1>1, <1>2, <1>3, <1>4, <1>5, <1>9, GrantsKept DEF IInv
<1>15. LimitInv'
  <2>1. \A g \in Ops : ChargedTo(g)' \subseteq ChargedTo(g)
    BY <1>1, <1>2, <1>3, <1>4, <1>5, RuntimeAssumption DEF ChargedTo
  <2>2. \A g \in Ops : grants[g].limit <= grants'[g].limit
    BY <1>1, <1>2, <1>3, <1>4, <1>5, RuntimeAssumption DEF IInv, Typed,
        GrantRows, GrantInv, GrantOK, Tame
  <2> QED
    BY <1>8, <2>1, <2>2, LimitKept DEF IInv
<1> QED
  BY <1>8, <1>9, <1>10, <1>11, <1>12, <1>13, <1>14, <1>15, Local DEF OpOK

LEMMA ReconcileInterruptedKeeps == ASSUME IInv, NEW o \in Ops, ReconcileInterrupted(o) PROVE IInv'
<1> USE DEF ReconcileInterrupted, At, Fine, Goto, Fault, EndAs, Thread
<1>1. grants' \in GrantRows /\ \A g \in Ops : Tame(g)
  BY RuntimeAssumption DEF IInv, Typed, GrantRows, Statuses, Tame, Calm
<1>2. ops' \in OpRows
  BY <1>1, RuntimeAssumption DEF IInv, Typed, OpRows, States, Failures,
      ApprovalFailures, GrantRows
<1>3. threads' \in Threads
  BY <1>1, RuntimeAssumption DEF IInv, Typed, Threads, Charged, Terminal,
      Failures, Labels
<1>4. uses' \in [Ops -> Charged \cup {"absent", "released"}]
  BY <1>1, RuntimeAssumption DEF IInv, Typed, Charged, OpRows, UseInv, UseOK,
      Threads
<1>5. Typed'
  BY <1>1, <1>2, <1>3, <1>4, RuntimeAssumption DEF IInv, Typed
<1>6. Others(o) /\ channel' = channel /\ faults <= faults'
  BY <1>1, RuntimeAssumption DEF IInv, Typed, Others, Same, Calm, Tame,
      OpRows, GrantRows, Threads, UseInv, UseOK
<1>7. ControlOK(o)'
  BY <1>1, RuntimeAssumption DEF IInv, Typed, OpRows, GrantRows, Threads,
      ControlInv, ControlOK, DispatchInv, DispatchOK, UseInv, UseOK, GrantInv,
      GrantOK, Running, States, Statuses, Failures, Terminal, Charged, Labels,
      None
<1>8. DispatchOK(o)'
  BY <1>1, RuntimeAssumption DEF IInv, Typed, OpRows, GrantRows, Threads,
      ControlInv, ControlOK, DispatchInv, DispatchOK, UseInv, UseOK, GrantInv,
      GrantOK, Running, States, Statuses, Failures, Terminal, Charged, Labels,
      None
<1>9. UseOK(o)'
  BY <1>1, RuntimeAssumption DEF IInv, Typed, OpRows, GrantRows, Threads,
      ControlInv, ControlOK, DispatchInv, DispatchOK, UseInv, UseOK, GrantInv,
      GrantOK, Running, States, Statuses, Failures, Terminal, Charged, Labels,
      None
<1>10. RequestOK(o)'
  BY <1>1, RuntimeAssumption DEF IInv, Typed, OpRows, GrantRows, Threads,
      ControlInv, ControlOK, RequestInv, RequestOK, Running, Tame, Calm,
      States, Statuses, Failures, Terminal, Charged, Labels, None
<1>11. GrantInv'
  BY <1>1, <1>6, GrantsKept DEF IInv
<1>12. LimitInv'
  <2>1. \A g \in Ops : ChargedTo(g)' \subseteq ChargedTo(g)
    BY <1>1, RuntimeAssumption DEF IInv, Typed, OpRows, Threads, UseInv,
        UseOK, ControlInv, ControlOK, Running, ChargedTo, States, Statuses,
        Failures, Terminal, Charged, Labels, None
  <2>2. \A g \in Ops : grants[g].limit <= grants'[g].limit
    BY <1>1, RuntimeAssumption DEF IInv, Typed, GrantRows, GrantInv, GrantOK,
        Tame
  <2> QED
    BY <1>5, <2>1, <2>2, LimitKept DEF IInv
<1> QED
  BY <1>5, <1>6, <1>7, <1>8, <1>9, <1>10, <1>11, <1>12, Local DEF OpOK

LEMMA SettleRecoveredKeeps == ASSUME IInv, NEW o \in Ops, SettleRecovered(o) PROVE IInv'
<1> USE DEF SettleRecovered, At, Fine, EndAs, Fault, Elsewhere, Thread
<1>1. \/ grants' = grants /\ uses' = uses
      \/ ops[o].approval \in Ops /\ Settled(o, "committed")
  BY RuntimeAssumption
     DEF IInv, Typed, OpRows, UseInv, UseOK, Settled, None
<1>2. /\ grants' \in GrantRows /\ \A g \in Ops : Tame(g)
      /\ \/ uses' = uses
         \/ /\ uses[o] \in {"reserved", "retained"}
            /\ uses' = [uses EXCEPT ![o] = "committed"]
  <2>1. CASE grants' = grants /\ uses' = uses
    BY <2>1 DEF IInv, Typed, GrantRows, Tame, Calm
  <2>2. CASE ops[o].approval \in Ops /\ Settled(o, "committed")
    BY <2>2, Settlement DEF IInv
  <2> QED
    BY <1>1, <2>1, <2>2
<1>3. ops' \in OpRows
  BY <1>1, <1>2, RuntimeAssumption DEF IInv, Typed, OpRows, States, Failures,
      ApprovalFailures, GrantRows
<1>4. threads' \in Threads
  BY <1>1, <1>2, RuntimeAssumption DEF IInv, Typed, Threads, Charged,
      Terminal, Failures, Labels
<1>5. uses' \in [Ops -> Charged \cup {"absent", "released"}]
  BY <1>1, <1>2, RuntimeAssumption DEF IInv, Typed, Charged, OpRows, UseInv,
      UseOK, Threads
<1>6. Typed'
  BY <1>1, <1>2, <1>3, <1>4, <1>5, RuntimeAssumption DEF IInv, Typed
<1>7. Others(o) /\ channel' = channel /\ faults <= faults'
  BY <1>1, <1>2, RuntimeAssumption DEF IInv, Typed, Others, Same, Calm, Tame,
      OpRows, GrantRows, Threads, UseInv, UseOK
<1>8. ControlOK(o)'
  BY <1>1, <1>2, RuntimeAssumption DEF IInv, Typed, OpRows, GrantRows,
      Threads, ControlInv, ControlOK, DispatchInv, DispatchOK, UseInv, UseOK,
      GrantInv, GrantOK, Running, States, Statuses, Failures, Terminal,
      Charged, Labels, None, Settled, SetUse
<1>9. DispatchOK(o)'
  BY <1>1, <1>2, RuntimeAssumption DEF IInv, Typed, OpRows, GrantRows,
      Threads, ControlInv, ControlOK, DispatchInv, DispatchOK, UseInv, UseOK,
      GrantInv, GrantOK, Running, States, Statuses, Failures, Terminal,
      Charged, Labels, None, Settled, SetUse
<1>10. UseOK(o)'
  BY <1>1, <1>2, RuntimeAssumption DEF IInv, Typed, OpRows, GrantRows,
      Threads, ControlInv, ControlOK, DispatchInv, DispatchOK, UseInv, UseOK,
      GrantInv, GrantOK, Running, States, Statuses, Failures, Terminal,
      Charged, Labels, None, Settled, SetUse
<1>11. RequestOK(o)'
  BY <1>1, <1>2, RuntimeAssumption DEF IInv, Typed, OpRows, GrantRows,
      Threads, ControlInv, ControlOK, RequestInv, RequestOK, Running, Tame,
      Calm, States, Statuses, Failures, Terminal, Charged, Labels, None,
      Settled, SetUse
<1>12. GrantInv'
  BY <1>1, <1>2, <1>7, GrantsKept DEF IInv
<1>13. LimitInv'
  <2>1. \A g \in Ops : ChargedTo(g)' \subseteq ChargedTo(g)
    BY <1>1, <1>2, RuntimeAssumption DEF IInv, Typed, OpRows, Threads, UseInv,
        UseOK, ControlInv, ControlOK, Running, ChargedTo, States, Statuses,
        Failures, Terminal, Charged, Labels, None
  <2>2. \A g \in Ops : grants[g].limit <= grants'[g].limit
    BY <1>1, <1>2, RuntimeAssumption DEF IInv, Typed, GrantRows, GrantInv,
        GrantOK, Tame
  <2> QED
    BY <1>6, <2>1, <2>2, LimitKept DEF IInv
<1> QED
  BY <1>6, <1>7, <1>8, <1>9, <1>10, <1>11, <1>12, <1>13, Local DEF OpOK

LEMMA RetainRecoveredKeeps == ASSUME IInv, NEW o \in Ops, RetainRecovered(o) PROVE IInv'
<1> USE DEF RetainRecovered, At, EndAs, Fine, Fault, Elsewhere, Thread
<1>1. grants' \in GrantRows /\ \A g \in Ops : Tame(g)
  BY RuntimeAssumption, Settlement DEF IInv, Typed, OpRows, GrantRows, UseInv,
      UseOK, Tame, Calm, Threads
<1>2. ops' \in OpRows
  BY <1>1, RuntimeAssumption DEF IInv, Typed, OpRows, States, Failures,
      ApprovalFailures, GrantRows
<1>3. threads' \in Threads
  BY <1>1, RuntimeAssumption DEF IInv, Typed, Threads, Charged, Terminal,
      Failures, Labels
<1>4. uses' \in [Ops -> Charged \cup {"absent", "released"}]
  BY <1>1, RuntimeAssumption, Settlement DEF IInv, Typed, Charged, OpRows,
      UseInv, UseOK, Threads, ControlInv, ControlOK
<1>5. Typed'
  BY <1>1, <1>2, <1>3, <1>4, RuntimeAssumption DEF IInv, Typed
<1>6. Others(o) /\ channel' = channel /\ faults <= faults'
  BY <1>1, RuntimeAssumption, Settlement DEF IInv, Typed, Others, Same, Calm,
      Tame, OpRows, GrantRows, Threads, UseInv, UseOK
<1>7. ControlOK(o)'
  BY <1>1, RuntimeAssumption, Settlement DEF IInv, Typed, OpRows, GrantRows,
      Threads, ControlInv, ControlOK, DispatchInv, DispatchOK, UseInv, UseOK,
      GrantInv, GrantOK, Running, States, Statuses, Failures, Terminal,
      Charged, Labels, None
<1>8. DispatchOK(o)'
  BY <1>1, RuntimeAssumption, Settlement DEF IInv, Typed, OpRows, GrantRows,
      Threads, ControlInv, ControlOK, DispatchInv, DispatchOK, UseInv, UseOK,
      GrantInv, GrantOK, Running, States, Statuses, Failures, Terminal,
      Charged, Labels, None
<1>9. UseOK(o)'
  BY <1>1, RuntimeAssumption, Settlement DEF IInv, Typed, OpRows, GrantRows,
      Threads, ControlInv, ControlOK, DispatchInv, DispatchOK, UseInv, UseOK,
      GrantInv, GrantOK, Running, States, Statuses, Failures, Terminal,
      Charged, Labels, None
<1>10. RequestOK(o)'
  BY <1>1, RuntimeAssumption, Settlement DEF IInv, Typed, OpRows, GrantRows,
      Threads, ControlInv, ControlOK, RequestInv, RequestOK, Running, Tame,
      Calm, States, Statuses, Failures, Terminal, Charged, Labels, None
<1>11. GrantInv'
  BY <1>1, <1>6, GrantsKept DEF IInv
<1>12. LimitInv'
  <2>1. \A g \in Ops : ChargedTo(g)' \subseteq ChargedTo(g)
    BY <1>1, RuntimeAssumption, Settlement DEF IInv, Typed, OpRows, Threads,
        UseInv, UseOK, ControlInv, ControlOK, Running, ChargedTo, States,
        Statuses, Failures, Terminal, Charged, Labels, None
  <2>2. \A g \in Ops : grants[g].limit <= grants'[g].limit
    BY <1>1, RuntimeAssumption DEF IInv, Typed, GrantRows, GrantInv, GrantOK,
        Tame
  <2> QED
    BY <1>5, <2>1, <2>2, LimitKept DEF IInv
<1> QED
  BY <1>5, <1>6, <1>7, <1>8, <1>9, <1>10, <1>11, <1>12, Local DEF OpOK

LEMMA SubmitDirectGrantKeeps == ASSUME IInv, NEW o \in Ops, SubmitDirectGrant(o) PROVE IInv'
<1> USE DEF SubmitDirectGrant, At, Insert, Fine, Elsewhere
<1>1. grants' \in GrantRows /\ \A g \in Ops : Tame(g)
  BY RuntimeAssumption DEF IInv, Typed, GrantRows, Statuses, Tame, Calm
<1>2. ops' \in OpRows
  BY <1>1, RuntimeAssumption DEF IInv, Typed, OpRows, States, Failures,
      ApprovalFailures, GrantRows
<1>3. threads' \in Threads
  BY <1>1, RuntimeAssumption DEF IInv, Typed, Threads, Charged, Terminal,
      Failures, Labels
<1>4. uses' \in [Ops -> Charged \cup {"absent", "released"}]
  BY <1>1, RuntimeAssumption DEF IInv, Typed, Charged, OpRows, UseInv, UseOK,
      Threads
<1>5. Typed'
  BY <1>1, <1>2, <1>3, <1>4, RuntimeAssumption DEF IInv, Typed
<1>6. Others(o) /\ channel' = channel /\ faults <= faults'
  BY <1>1, RuntimeAssumption DEF IInv, Typed, Others, Same, Calm, Tame,
      OpRows, GrantRows, Threads, UseInv, UseOK
<1>7. ControlOK(o)'
  BY <1>1, RuntimeAssumption DEF IInv, Typed, OpRows, GrantRows, Threads,
      ControlInv, ControlOK, DispatchInv, DispatchOK, UseInv, UseOK, GrantInv,
      GrantOK, Running, States, Statuses, Failures, Terminal, Charged, Labels,
      None
<1>8. DispatchOK(o)'
  BY <1>1, RuntimeAssumption DEF IInv, Typed, OpRows, GrantRows, Threads,
      ControlInv, ControlOK, DispatchInv, DispatchOK, UseInv, UseOK, GrantInv,
      GrantOK, Running, States, Statuses, Failures, Terminal, Charged, Labels,
      None
<1>9. UseOK(o)'
  BY <1>1, RuntimeAssumption DEF IInv, Typed, OpRows, GrantRows, Threads,
      ControlInv, ControlOK, DispatchInv, DispatchOK, UseInv, UseOK, GrantInv,
      GrantOK, Running, States, Statuses, Failures, Terminal, Charged, Labels,
      None
<1>10. RequestOK(o)'
  BY <1>1, RuntimeAssumption DEF IInv, Typed, OpRows, GrantRows, Threads,
      ControlInv, ControlOK, RequestInv, RequestOK, Running, Tame, Calm,
      States, Statuses, Failures, Terminal, Charged, Labels, None
<1>11. GrantInv'
  BY <1>1, <1>6, GrantsKept DEF IInv
<1>12. LimitInv'
  <2>1. \A g \in Ops : ChargedTo(g)' \subseteq ChargedTo(g)
    BY <1>1, RuntimeAssumption DEF IInv, Typed, OpRows, Threads, UseInv,
        UseOK, ControlInv, ControlOK, Running, ChargedTo, States, Statuses,
        Failures, Terminal, Charged, Labels, None
  <2>2. \A g \in Ops : grants[g].limit <= grants'[g].limit
    BY <1>1, RuntimeAssumption DEF IInv, Typed, GrantRows, GrantInv, GrantOK,
        Tame
  <2> QED
    BY <1>5, <2>1, <2>2, LimitKept DEF IInv
<1> QED
  BY <1>5, <1>6, <1>7, <1>8, <1>9, <1>10, <1>11, <1>12, Local DEF OpOK

LEMMA SubmitPendingKeeps == ASSUME IInv, NEW o \in Ops, SubmitPending(o) PROVE IInv'
<1> USE DEF SubmitPending, At, Insert, Goto, Fine, Elsewhere, Thread
<1>1. grants' \in GrantRows /\ \A g \in Ops : Tame(g)
  BY RuntimeAssumption DEF IInv, Typed, GrantRows, Statuses, Tame, Calm
<1>2. ops' \in OpRows
  BY <1>1, RuntimeAssumption DEF IInv, Typed, OpRows, States, Failures,
      ApprovalFailures, GrantRows
<1>3. threads' \in Threads
  BY <1>1, RuntimeAssumption DEF IInv, Typed, Threads, Charged, Terminal,
      Failures, Labels
<1>4. uses' \in [Ops -> Charged \cup {"absent", "released"}]
  BY <1>1, RuntimeAssumption DEF IInv, Typed, Charged, OpRows, UseInv, UseOK,
      Threads
<1>5. Typed'
  BY <1>1, <1>2, <1>3, <1>4, RuntimeAssumption DEF IInv, Typed
<1>6. Others(o) /\ channel' = channel /\ faults <= faults'
  BY <1>1, RuntimeAssumption DEF IInv, Typed, Others, Same, Calm, Tame,
      OpRows, GrantRows, Threads, UseInv, UseOK
<1>7. ControlOK(o)'
  BY <1>1, RuntimeAssumption DEF IInv, Typed, OpRows, GrantRows, Threads,
      ControlInv, ControlOK, DispatchInv, DispatchOK, UseInv, UseOK, GrantInv,
      GrantOK, Running, States, Statuses, Failures, Terminal, Charged, Labels,
      None
<1>8. DispatchOK(o)'
  BY <1>1, RuntimeAssumption DEF IInv, Typed, OpRows, GrantRows, Threads,
      ControlInv, ControlOK, DispatchInv, DispatchOK, UseInv, UseOK, GrantInv,
      GrantOK, Running, States, Statuses, Failures, Terminal, Charged, Labels,
      None
<1>9. UseOK(o)'
  BY <1>1, RuntimeAssumption DEF IInv, Typed, OpRows, GrantRows, Threads,
      ControlInv, ControlOK, DispatchInv, DispatchOK, UseInv, UseOK, GrantInv,
      GrantOK, Running, States, Statuses, Failures, Terminal, Charged, Labels,
      None
<1>10. RequestOK(o)'
  BY <1>1, RuntimeAssumption DEF IInv, Typed, OpRows, GrantRows, Threads,
      ControlInv, ControlOK, RequestInv, RequestOK, Running, Tame, Calm,
      States, Statuses, Failures, Terminal, Charged, Labels, None
<1>11. GrantInv'
  BY <1>1, <1>6, GrantsKept DEF IInv
<1>12. LimitInv'
  <2>1. \A g \in Ops : ChargedTo(g)' \subseteq ChargedTo(g)
    BY <1>1, RuntimeAssumption DEF IInv, Typed, OpRows, Threads, UseInv,
        UseOK, ControlInv, ControlOK, Running, ChargedTo, States, Statuses,
        Failures, Terminal, Charged, Labels, None
  <2>2. \A g \in Ops : grants[g].limit <= grants'[g].limit
    BY <1>1, RuntimeAssumption DEF IInv, Typed, GrantRows, GrantInv, GrantOK,
        Tame
  <2> QED
    BY <1>5, <2>1, <2>2, LimitKept DEF IInv
<1> QED
  BY <1>5, <1>6, <1>7, <1>8, <1>9, <1>10, <1>11, <1>12, Local DEF OpOK

LEMMA DecideKeeps == ASSUME IInv, NEW o \in Ops, Decide(o) PROVE IInv'
<1> USE DEF Decide, Fine, Elsewhere
<1>1. grants' \in GrantRows
  <2>1. \E status \in Statuses, limit \in 0 .. MaxUses :
          grants' = [grants EXCEPT ![o] = [status |-> status, limit |-> limit]]
    BY RuntimeAssumption DEF IInv, Typed, GrantRows, Statuses
  <2> QED
    BY <2>1 DEF IInv, Typed, GrantRows
<1>2. ops' \in OpRows
  BY <1>1, RuntimeAssumption DEF IInv, Typed, OpRows, States, Failures,
      ApprovalFailures, GrantRows
<1>3. threads' \in Threads
  BY <1>1, RuntimeAssumption DEF IInv, Typed, Threads, Charged, Terminal,
      Failures, Labels
<1>4. uses' \in [Ops -> Charged \cup {"absent", "released"}]
  BY <1>1, RuntimeAssumption DEF IInv, Typed, Charged, OpRows, UseInv, UseOK,
      Threads
<1>5. Typed'
  BY <1>1, <1>2, <1>3, <1>4, RuntimeAssumption DEF IInv, Typed
<1>6. Others(o) /\ channel' = channel /\ faults <= faults'
  BY <1>1, RuntimeAssumption DEF IInv, Typed, Others, Same, Calm, Tame,
      OpRows, GrantRows, Threads, UseInv, UseOK
<1>7. ControlOK(o)'
  BY <1>1, RuntimeAssumption DEF IInv, Typed, OpRows, GrantRows, Threads,
      ControlInv, ControlOK, DispatchInv, DispatchOK, UseInv, UseOK, GrantInv,
      GrantOK, Running, States, Statuses, Failures, Terminal, Charged, Labels,
      None
<1>8. DispatchOK(o)'
  BY <1>1, RuntimeAssumption DEF IInv, Typed, OpRows, GrantRows, Threads,
      ControlInv, ControlOK, DispatchInv, DispatchOK, UseInv, UseOK, GrantInv,
      GrantOK, Running, States, Statuses, Failures, Terminal, Charged, Labels,
      None
<1>9. UseOK(o)'
  BY <1>1, RuntimeAssumption DEF IInv, Typed, OpRows, GrantRows, Threads,
      ControlInv, ControlOK, DispatchInv, DispatchOK, UseInv, UseOK, GrantInv,
      GrantOK, Running, States, Statuses, Failures, Terminal, Charged, Labels,
      None
<1>10. RequestOK(o)'
  BY <1>1, RuntimeAssumption DEF IInv, Typed, OpRows, GrantRows, Threads,
      ControlInv, ControlOK, RequestInv, RequestOK, Running, Tame, Calm,
      States, Statuses, Failures, Terminal, Charged, Labels, None
<1>11. GrantInv'
  BY RuntimeAssumption DEF IInv, Typed, GrantRows, GrantInv, GrantOK,
      RequestInv, RequestOK, ControlInv, ControlOK, Statuses
<1>12. LimitInv'
  <2>1. \A g \in Ops : ChargedTo(g)' \subseteq ChargedTo(g)
    BY <1>1, RuntimeAssumption DEF IInv, Typed, OpRows, Threads, UseInv,
        UseOK, ControlInv, ControlOK, Running, ChargedTo, States, Statuses,
        Failures, Terminal, Charged, Labels, None
  <2>2. \A g \in Ops : grants[g].limit <= grants'[g].limit
    BY <1>1, RuntimeAssumption DEF IInv, Typed, GrantRows, GrantInv, GrantOK,
        Tame
  <2> QED
    BY <1>5, <2>1, <2>2, LimitKept DEF IInv
<1> QED
  BY <1>5, <1>6, <1>7, <1>8, <1>9, <1>10, <1>11, <1>12, Local DEF OpOK

LEMMA ExpireKeeps == ASSUME IInv, NEW o \in Ops, Expire(o) PROVE IInv'
<1> USE DEF Expire, Fine, Elsewhere
<1>1. grants' \in GrantRows /\ \A g \in Ops : Tame(g)
  BY RuntimeAssumption DEF IInv, Typed, GrantRows, Statuses, Tame, Calm
<1>2. ops' \in OpRows
  BY <1>1, RuntimeAssumption DEF IInv, Typed, OpRows, States, Failures,
      ApprovalFailures, GrantRows
<1>3. threads' \in Threads
  BY <1>1, RuntimeAssumption DEF IInv, Typed, Threads, Charged, Terminal,
      Failures, Labels
<1>4. uses' \in [Ops -> Charged \cup {"absent", "released"}]
  BY <1>1, RuntimeAssumption DEF IInv, Typed, Charged, OpRows, UseInv, UseOK,
      Threads
<1>5. Typed'
  BY <1>1, <1>2, <1>3, <1>4, RuntimeAssumption DEF IInv, Typed
<1>6. Others(o) /\ channel' = channel /\ faults <= faults'
  BY <1>1, RuntimeAssumption DEF IInv, Typed, Others, Same, Calm, Tame,
      OpRows, GrantRows, Threads, UseInv, UseOK
<1>7. ControlOK(o)'
  BY <1>1, RuntimeAssumption DEF IInv, Typed, OpRows, GrantRows, Threads,
      ControlInv, ControlOK, DispatchInv, DispatchOK, UseInv, UseOK, GrantInv,
      GrantOK, Running, States, Statuses, Failures, Terminal, Charged, Labels,
      None
<1>8. DispatchOK(o)'
  BY <1>1, RuntimeAssumption DEF IInv, Typed, OpRows, GrantRows, Threads,
      ControlInv, ControlOK, DispatchInv, DispatchOK, UseInv, UseOK, GrantInv,
      GrantOK, Running, States, Statuses, Failures, Terminal, Charged, Labels,
      None
<1>9. UseOK(o)'
  BY <1>1, RuntimeAssumption DEF IInv, Typed, OpRows, GrantRows, Threads,
      ControlInv, ControlOK, DispatchInv, DispatchOK, UseInv, UseOK, GrantInv,
      GrantOK, Running, States, Statuses, Failures, Terminal, Charged, Labels,
      None
<1>10. RequestOK(o)'
  BY <1>1, RuntimeAssumption DEF IInv, Typed, OpRows, GrantRows, Threads,
      ControlInv, ControlOK, RequestInv, RequestOK, Running, Tame, Calm,
      States, Statuses, Failures, Terminal, Charged, Labels, None
<1>11. GrantInv'
  BY <1>1, <1>6, GrantsKept DEF IInv
<1>12. LimitInv'
  <2>1. \A g \in Ops : ChargedTo(g)' \subseteq ChargedTo(g)
    BY <1>1, RuntimeAssumption DEF IInv, Typed, OpRows, Threads, UseInv,
        UseOK, ControlInv, ControlOK, Running, ChargedTo, States, Statuses,
        Failures, Terminal, Charged, Labels, None
  <2>2. \A g \in Ops : grants[g].limit <= grants'[g].limit
    BY <1>1, RuntimeAssumption DEF IInv, Typed, GrantRows, GrantInv, GrantOK,
        Tame
  <2> QED
    BY <1>5, <2>1, <2>2, LimitKept DEF IInv
<1> QED
  BY <1>5, <1>6, <1>7, <1>8, <1>9, <1>10, <1>11, <1>12, Local DEF OpOK

LEMMA RevokeKeeps == ASSUME IInv, NEW o \in Ops, Revoke(o) PROVE IInv'
<1> USE DEF Revoke, Fine, Elsewhere
<1>1. grants' \in GrantRows /\ \A g \in Ops : Tame(g)
  BY RuntimeAssumption DEF IInv, Typed, GrantRows, Statuses, Tame, Calm
<1>2. ops' \in OpRows
  BY <1>1, RuntimeAssumption DEF IInv, Typed, OpRows, States, Failures,
      ApprovalFailures, GrantRows
<1>3. threads' \in Threads
  BY <1>1, RuntimeAssumption DEF IInv, Typed, Threads, Charged, Terminal,
      Failures, Labels
<1>4. uses' \in [Ops -> Charged \cup {"absent", "released"}]
  BY <1>1, RuntimeAssumption DEF IInv, Typed, Charged, OpRows, UseInv, UseOK,
      Threads
<1>5. Typed'
  BY <1>1, <1>2, <1>3, <1>4, RuntimeAssumption DEF IInv, Typed
<1>6. Others(o) /\ channel' = channel /\ faults <= faults'
  BY <1>1, RuntimeAssumption DEF IInv, Typed, Others, Same, Calm, Tame,
      OpRows, GrantRows, Threads, UseInv, UseOK
<1>7. ControlOK(o)'
  BY <1>1, RuntimeAssumption DEF IInv, Typed, OpRows, GrantRows, Threads,
      ControlInv, ControlOK, DispatchInv, DispatchOK, UseInv, UseOK, GrantInv,
      GrantOK, Running, States, Statuses, Failures, Terminal, Charged, Labels,
      None
<1>8. DispatchOK(o)'
  BY <1>1, RuntimeAssumption DEF IInv, Typed, OpRows, GrantRows, Threads,
      ControlInv, ControlOK, DispatchInv, DispatchOK, UseInv, UseOK, GrantInv,
      GrantOK, Running, States, Statuses, Failures, Terminal, Charged, Labels,
      None
<1>9. UseOK(o)'
  BY <1>1, RuntimeAssumption DEF IInv, Typed, OpRows, GrantRows, Threads,
      ControlInv, ControlOK, DispatchInv, DispatchOK, UseInv, UseOK, GrantInv,
      GrantOK, Running, States, Statuses, Failures, Terminal, Charged, Labels,
      None
<1>10. RequestOK(o)'
  BY <1>1, RuntimeAssumption DEF IInv, Typed, OpRows, GrantRows, Threads,
      ControlInv, ControlOK, RequestInv, RequestOK, Running, Tame, Calm,
      States, Statuses, Failures, Terminal, Charged, Labels, None
<1>11. GrantInv'
  BY <1>1, <1>6, GrantsKept DEF IInv
<1>12. LimitInv'
  <2>1. \A g \in Ops : ChargedTo(g)' \subseteq ChargedTo(g)
    BY <1>1, RuntimeAssumption DEF IInv, Typed, OpRows, Threads, UseInv,
        UseOK, ControlInv, ControlOK, Running, ChargedTo, States, Statuses,
        Failures, Terminal, Charged, Labels, None
  <2>2. \A g \in Ops : grants[g].limit <= grants'[g].limit
    BY <1>1, RuntimeAssumption DEF IInv, Typed, GrantRows, GrantInv, GrantOK,
        Tame
  <2> QED
    BY <1>5, <2>1, <2>2, LimitKept DEF IInv
<1> QED
  BY <1>5, <1>6, <1>7, <1>8, <1>9, <1>10, <1>11, <1>12, Local DEF OpOK

LEMMA RetainStaleKeeps == ASSUME IInv, NEW o \in Ops, RetainStale(o) PROVE IInv'
<1> USE DEF RetainStale, SetUse, Fine, Elsewhere
<1>1. grants' \in GrantRows /\ \A g \in Ops : Tame(g)
  BY RuntimeAssumption DEF IInv, Typed, GrantRows, Statuses, Tame, Calm
<1>2. ops' \in OpRows
  BY <1>1, RuntimeAssumption DEF IInv, Typed, OpRows, States, Failures,
      ApprovalFailures, GrantRows
<1>3. threads' \in Threads
  BY <1>1, RuntimeAssumption DEF IInv, Typed, Threads, Charged, Terminal,
      Failures, Labels
<1>4. uses' \in [Ops -> Charged \cup {"absent", "released"}]
  BY <1>1, RuntimeAssumption DEF IInv, Typed, Charged, OpRows, UseInv, UseOK,
      Threads
<1>5. Typed'
  BY <1>1, <1>2, <1>3, <1>4, RuntimeAssumption DEF IInv, Typed
<1>6. Others(o) /\ channel' = channel /\ faults <= faults'
  BY <1>1, RuntimeAssumption DEF IInv, Typed, Others, Same, Calm, Tame,
      OpRows, GrantRows, Threads, UseInv, UseOK
<1>7. ControlOK(o)'
  BY <1>1, RuntimeAssumption DEF IInv, Typed, OpRows, GrantRows, Threads,
      ControlInv, ControlOK, DispatchInv, DispatchOK, UseInv, UseOK, GrantInv,
      GrantOK, Running, States, Statuses, Failures, Terminal, Charged, Labels,
      None
<1>8. DispatchOK(o)'
  BY <1>1, RuntimeAssumption DEF IInv, Typed, OpRows, GrantRows, Threads,
      ControlInv, ControlOK, DispatchInv, DispatchOK, UseInv, UseOK, GrantInv,
      GrantOK, Running, States, Statuses, Failures, Terminal, Charged, Labels,
      None
<1>9. UseOK(o)'
  BY <1>1, RuntimeAssumption DEF IInv, Typed, OpRows, GrantRows, Threads,
      ControlInv, ControlOK, DispatchInv, DispatchOK, UseInv, UseOK, GrantInv,
      GrantOK, Running, States, Statuses, Failures, Terminal, Charged, Labels,
      None
<1>10. RequestOK(o)'
  BY <1>1, RuntimeAssumption DEF IInv, Typed, OpRows, GrantRows, Threads,
      ControlInv, ControlOK, RequestInv, RequestOK, Running, Tame, Calm,
      States, Statuses, Failures, Terminal, Charged, Labels, None
<1>11. GrantInv'
  BY <1>1, <1>6, GrantsKept DEF IInv
<1>12. LimitInv'
  <2>1. \A g \in Ops : ChargedTo(g)' \subseteq ChargedTo(g)
    BY <1>1, RuntimeAssumption DEF IInv, Typed, OpRows, Threads, UseInv,
        UseOK, ControlInv, ControlOK, Running, ChargedTo, States, Statuses,
        Failures, Terminal, Charged, Labels, None
  <2>2. \A g \in Ops : grants[g].limit <= grants'[g].limit
    BY <1>1, RuntimeAssumption DEF IInv, Typed, GrantRows, GrantInv, GrantOK,
        Tame
  <2> QED
    BY <1>5, <2>1, <2>2, LimitKept DEF IInv
<1> QED
  BY <1>5, <1>6, <1>7, <1>8, <1>9, <1>10, <1>11, <1>12, Local DEF OpOK


LEMMA SubmitActiveGrantKeeps ==
  ASSUME IInv, NEW o \in Ops, NEW g \in Ops, SubmitActiveGrant(o, g) PROVE IInv'
<1> USE DEF SubmitActiveGrant, At, Insert, Fine, Elsewhere
<1>1. /\ ops[o].state = "absent" /\ ops[o].approval = None
      /\ threads[o].at = "idle" /\ uses[o] = "absent" /\ o \notin effects
      /\ grants[o].status = "absent" /\ dispatched[o] = 0
      /\ unlocked[o] = "none" /\ o \notin interrupted
  BY RuntimeAssumption DEF IInv, Typed, ControlInv, ControlOK, DispatchInv,
     DispatchOK, UseInv, UseOK, Failures
<1>2. /\ ops' \in OpRows /\ ops'[o] = [state |-> "approved", approval |-> g]
      /\ \A p \in Ops \ {o} : ops'[p] = ops[p]
  BY DEF IInv, Typed, OpRows, States
<1>3. Typed' /\ Others(o) /\ channel' = channel /\ faults <= faults'
  BY <1>2, RuntimeAssumption DEF IInv, Typed, Others, Same, Calm
<1>4. ControlOK(o)' /\ DispatchOK(o)' /\ UseOK(o)'
  BY <1>1, <1>2 DEF ControlOK, DispatchOK, UseOK, Running
<1>5. RequestOK(o)'
  BY <1>1, <1>2 DEF IInv, RequestInv, RequestOK, Terminal, Failures
<1>6. GrantInv'
  BY DEF IInv, GrantInv, GrantOK
<1>7. LimitInv'
  <2>1. \A h \in Ops : ChargedTo(h)' \subseteq ChargedTo(h)
    BY <1>1, <1>2 DEF ChargedTo, Charged
  <2>2. \A h \in Ops : grants[h].limit <= grants'[h].limit
    BY RuntimeAssumption DEF IInv, Typed, GrantRows
  <2> QED
    BY <1>3, <2>1, <2>2, LimitKept DEF IInv
<1> QED
  BY <1>3, <1>4, <1>5, <1>6, <1>7, Local DEF OpOK

\* The only step that charges an approval: there was room for one more.
LEMMA ReserveKeeps == ASSUME IInv, NEW o \in Ops, Reserve(o) PROVE IInv'
<1> DEFINE g == ops[o].approval
<1> USE DEF At
<1>1. /\ ops[o].state = "executing" /\ threads[o].at = "execute"
      /\ uses[o] = "absent" /\ o \notin effects /\ o \notin interrupted
      /\ dispatched[o] = 0 /\ unlocked[o] = "none"
  BY RuntimeAssumption DEF IInv, Typed, ControlInv, ControlOK, DispatchInv,
     DispatchOK, UseInv, UseOK, Failures, Running, Reserve
<1>2. /\ threads' \in Threads
      /\ \A p \in Ops \ {o} : threads'[p] = threads[p]
  BY DEF IInv, Typed, Threads, Labels, Charged, Terminal, Failures, Reserve,
     Goto, EndAs, Thread
<1>3. \/ uses' = uses
      \/ g \in Ops /\ Available(g) /\ uses' = [uses EXCEPT ![o] = "reserved"]
  BY DEF IInv, Typed, OpRows, Reserve, SetUse
<1>4. \/ threads'[o].at = "dispatch" /\ g = None
      \/ threads'[o].at = "bound" /\ uses'[o] = "reserved"
      \/ threads'[o].at = "end" /\ threads'[o].end = "failed"
  BY DEF IInv, Typed, Threads, Reserve, Goto, EndAs, Thread, SetUse
<1>5. /\ UNCHANGED <<ops, grants, channel, dispatched, effects, unlocked,
                     interrupted, crashes>>
      /\ faults' \in 0 .. MaxFaults /\ faults <= faults'
  BY RuntimeAssumption DEF IInv, Typed, Reserve, Elsewhere, Fine, Fault
<1>6. Typed'
  BY <1>2, <1>3, <1>5 DEF IInv, Typed, Charged
<1>7. Others(o)
  BY <1>2, <1>3, <1>5 DEF IInv, Typed, Others, Same, Calm
<1>8. ControlOK(o)' /\ DispatchOK(o)'
  BY <1>1, <1>4, <1>5 DEF ControlOK, DispatchOK, Running, Failures
<1>9. UseOK(o)'
  BY <1>1, <1>3, <1>4, <1>5, RuntimeAssumption DEF IInv, Typed, UseOK, None
<1>10. RequestOK(o)'
  BY <1>1, <1>4, <1>5, RuntimeAssumption DEF IInv, Typed, RequestInv, RequestOK
<1>11. GrantInv'
  BY <1>5 DEF IInv, GrantInv, GrantOK
<1>12. LimitInv'
  <2>1. CASE uses' = uses
    BY <2>1, <1>5 DEF IInv, LimitInv, Within, ChargedTo
  <2>2. CASE g \in Ops /\ Available(g) /\ uses' = [uses EXCEPT ![o] = "reserved"]
    <3> SUFFICES ASSUME NEW h \in Ops PROVE Within(h)'
      BY DEF LimitInv
    <3>1. IsFiniteSet(ChargedTo(h))
      BY RuntimeAssumption, FS_Subset DEF ChargedTo
    <3>2. grants[h].limit \in Nat /\ Cardinality(ChargedTo(h)) \in Nat
      BY <3>1, FS_CardinalityType DEF IInv, Typed, GrantRows
    <3>3. CASE h = g
      <4>1. ChargedTo(h)' = ChargedTo(h) \cup {o} /\ o \notin ChargedTo(h)
        BY <2>2, <3>3, <1>1, <1>5 DEF IInv, Typed, ChargedTo, Charged
      <4>2. Cardinality(ChargedTo(h)') = Cardinality(ChargedTo(h)) + 1
        BY <3>1, <4>1, FS_AddElement
      <4>3. Cardinality(ChargedTo(h)) < grants[h].limit
        BY <2>2, <3>3 DEF Available
      <4> QED
        BY <3>2, <4>2, <4>3, <1>5 DEF Within
    <3>4. CASE h # g
      <4>1. ChargedTo(h)' = ChargedTo(h)
        BY <2>2, <3>4, <1>1, <1>5 DEF IInv, Typed, ChargedTo, Charged
      <4> QED
        BY <4>1, <1>5 DEF IInv, LimitInv, Within
    <3> QED
      BY <3>3, <3>4
  <2> QED
    BY <1>3, <2>1, <2>2
<1> QED
  BY <1>5, <1>6, <1>7, <1>8, <1>9, <1>10, <1>11, <1>12, Local DEF OpOK

\* A crash loses the threads and leaves the two stores as they are.
LEMMA CrashKeeps == ASSUME IInv, Crash PROVE IInv'
<1>1. /\ threads' = [o \in Ops |-> Idle] /\ unlocked' = [o \in Ops |-> "none"]
      /\ interrupted' = {o \in Ops : ops[o].state = "executing"}
      /\ crashes' \in 0 .. MaxCrashes
      /\ UNCHANGED <<channel, ops, grants, uses, dispatched, effects, faults>>
  BY RuntimeAssumption DEF IInv, Typed, Crash, Fine, Executing
<1>2. \A o \in Ops : threads'[o].at = "idle" /\ threads'[o] = Idle
  BY <1>1 DEF Idle
<1>3. Typed'
  BY <1>1 DEF IInv, Typed, Threads, Idle, Labels, Charged, Terminal
<1>4. ControlInv'
  BY <1>1, <1>2 DEF IInv, ControlInv, ControlOK, Running
<1>5. DispatchInv' /\ UseInv'
  BY <1>1, <1>2 DEF IInv, DispatchInv, DispatchOK, UseInv, UseOK
<1>6. RequestInv'
  BY <1>1, <1>2 DEF IInv, RequestInv, RequestOK
<1>7. GrantInv' /\ LimitInv'
  BY <1>1 DEF IInv, GrantInv, GrantOK, LimitInv, Within, ChargedTo
<1> QED
  BY <1>3, <1>4, <1>5, <1>6, <1>7 DEF IInv

LEMMA RecoverFailsKeeps == ASSUME IInv, RecoverFails PROVE IInv'
<1>1. /\ interrupted' = {} /\ faults' \in 0 .. MaxFaults /\ faults' # 0
      /\ UNCHANGED <<channel, ops, grants, uses, dispatched, effects, threads,
                     unlocked, crashes>>
  BY RuntimeAssumption DEF IInv, Typed, RecoverFails, Fault
<1>2. Typed' /\ ControlInv'
  BY <1>1 DEF IInv, Typed, ControlInv, ControlOK
<1>3. DispatchInv' /\ UseInv'
  BY <1>1 DEF IInv, DispatchInv, DispatchOK, UseInv, UseOK
<1>4. RequestInv' /\ GrantInv' /\ LimitInv'
  BY <1>1 DEF IInv, RequestInv, RequestOK, GrantInv, GrantOK, LimitInv,
     Within, ChargedTo
<1> QED
  BY <1>2, <1>3, <1>4 DEF IInv

LEMMA StutterKeeps == ASSUME IInv, UNCHANGED vars PROVE IInv'
<1>1. Typed' /\ ControlInv'
  BY DEF vars, IInv, Typed, ControlInv, ControlOK
<1>2. DispatchInv' /\ UseInv'
  BY DEF vars, IInv, DispatchInv, DispatchOK, UseInv, UseOK
<1>3. RequestInv' /\ GrantInv' /\ LimitInv'
  BY DEF vars, IInv, RequestInv, RequestOK, GrantInv, GrantOK, LimitInv,
     Within, ChargedTo
<1> QED
  BY <1>1, <1>2, <1>3 DEF IInv

LEMMA InitOK == Init => IInv
<1> SUFFICES ASSUME Init PROVE IInv
  OBVIOUS
<1>1. Typed
  BY RuntimeAssumption DEF Init, Typed, OpRows, GrantRows, Threads, States,
     Statuses, Labels, Charged, Terminal, Idle
<1>2. ControlInv /\ DispatchInv /\ UseInv /\ RequestInv /\ GrantInv
  BY RuntimeAssumption DEF Init, ControlInv, ControlOK, Running, Idle,
     DispatchInv, DispatchOK, UseInv, UseOK, RequestInv, RequestOK, GrantInv,
     GrantOK, Terminal, Failures
<1>3. LimitInv
  <2>1. \A g \in Ops : ChargedTo(g) = {}
    BY DEF Init, ChargedTo, Charged
  <2>2. \A g \in Ops : grants[g].limit = 0
    BY DEF Init
  <2> QED
    BY <2>1, <2>2, FS_EmptySet DEF LimitInv, Within
<1> QED
  BY <1>1, <1>2, <1>3 DEF IInv

LEMMA StepKeeps == ASSUME IInv, NEW o \in Ops, Step(o) PROVE IInv'
  BY RequestRefusedKeeps, RequestApprovalKeeps, BindPlanKeeps,
     AbandonApprovalKeeps, AbandonUnnotifiedKeeps, FailUnnotifiedKeeps,
     CancelKeeps, RecoverApprovalKeeps, SyncApprovalKeeps, ClaimKeeps,
     ReserveKeeps, BindReservationKeeps, DispatchKeeps, ReconcileExecutionKeeps,
     SettleKeeps, EndKeeps, ReconcileInterruptedKeeps, SettleRecoveredKeeps,
     RetainRecoveredKeeps DEF Step

LEMMA NextOK == IInv /\ [Next]_vars => IInv'
<1> SUFFICES ASSUME IInv, [Next]_vars PROVE IInv'
  OBVIOUS
<1>1. ASSUME NEW o \in Ops, Submit(o) PROVE IInv'
  BY <1>1, SubmitDirectGrantKeeps, SubmitPendingKeeps, SubmitActiveGrantKeeps
     DEF Submit
<1>2. ASSUME NEW o \in Ops, Environment(o) PROVE IInv'
  BY <1>2, DecideKeeps, ExpireKeeps, RevokeKeeps, RetainStaleKeeps
     DEF Environment
<1> QED
  BY <1>1, <1>2, StepKeeps, CancelApprovalKeeps, CrashKeeps, RecoverFailsKeeps,
     StutterKeeps DEF Next

\* The inductive invariant holds in every behaviour.
THEOREM Invariance == Spec => []IInv
  BY InitOK, NextOK, PTL DEF Spec

\* Both stores and every holder of an operation stay well typed (TypeOK), for
\* any number of operations, failed calls and crashes.
THEOREM TypeCorrectness == Spec => []TypeOK
<1>1. IInv => TypeOK
  BY DEF IInv, Typed, OpRows, GrantRows, Threads, ControlInv, ControlOK, TypeOK,
     Executing
<1> QED
  BY <1>1, Invariance, PTL

\* The provider is called at most once for an operation (executeReserved), and
\* recovery never replays it.
THEOREM AtMostOnce == Spec => []ExecutedAtMostOnce
<1>1. IInv => ExecutedAtMostOnce
  BY DEF IInv, DispatchInv, DispatchOK, ExecutedAtMostOnce
<1> QED
  BY <1>1, Invariance, PTL

\* What was refused or canceled was never executed.
THEOREM Refusal == Spec => []RefusedNeverRan
<1>1. IInv => RefusedNeverRan
  BY DEF IInv, DispatchInv, DispatchOK, RefusedNeverRan
<1> QED
  BY <1>1, Invariance, PTL

\* What took effect under an approval stays charged to it (settleApproval).
THEOREM Accounting == Spec => []EffectIsCharged
<1>1. IInv => EffectIsCharged
  BY DEF IInv, Typed, UseInv, UseOK, EffectIsCharged
<1> QED
  BY <1>1, Invariance, PTL

\* What is reported succeeded under an approval was committed first
\* (succeed, settleRecoveredApproval).
THEOREM SuccessPaid == Spec => []SuccessIsPaid
<1>1. IInv => SuccessIsPaid
  BY DEF IInv, Typed, UseInv, UseOK, SuccessIsPaid
<1> QED
  BY <1>1, Invariance, PTL

\* No more operations take effect under a grant than it was approved for,
\* however many share it.
THEOREM WithinLimit == Spec => []EffectsWithinLimit
<1>1. ASSUME IInv PROVE EffectsWithinLimit
  <2> SUFFICES ASSUME NEW g \in Ops
               PROVE  Cardinality({o \in effects : ops[o].approval = g})
                        <= grants[g].limit
    BY DEF EffectsWithinLimit
  <2> DEFINE S == {o \in effects : ops[o].approval = g}
  <2>1. S \subseteq ChargedTo(g)
    BY <1>1, RuntimeAssumption DEF IInv, Typed, UseInv, UseOK, ChargedTo
  <2>2. IsFiniteSet(ChargedTo(g))
    BY RuntimeAssumption, FS_Subset DEF ChargedTo
  <2>3. /\ IsFiniteSet(S) /\ Cardinality(S) <= Cardinality(ChargedTo(g))
    BY <2>1, <2>2, FS_Subset
  <2>4. Cardinality(S) \in Nat /\ Cardinality(ChargedTo(g)) \in Nat
    BY <2>2, <2>3, FS_CardinalityType
  <2>5. grants[g].limit \in Nat /\ Cardinality(ChargedTo(g)) <= grants[g].limit
    BY <1>1 DEF IInv, Typed, GrantRows, LimitInv, Within
  <2> QED
    BY <2>3, <2>4, <2>5
<1> QED
  BY <1>1, Invariance, PTL

\* While the stores answer, no finished operation leaves its request open.
THEOREM RequestsClosed == Spec => []NoOrphanRequest
<1>1. IInv => NoOrphanRequest
  BY DEF IInv, RequestInv, RequestOK, NoOrphanRequest
<1> QED
  BY <1>1, Invariance, PTL

\* A step that changes the row of one operation does so before it is finished.
Changes(o) ==
  /\ \A p \in Ops \ {o} : ops'[p] = ops[p]
  /\ ops[o].state \in Terminal => ops'[o] = ops[o]

LEMMA ChangesFinished ==
  ASSUME NEW o \in Ops, Changes(o) PROVE FinishedStep
  BY DEF Changes, FinishedStep

LEMMA StepUnfinished == ASSUME IInv, NEW o \in Ops, Step(o) PROVE FinishedStep
<1> USE DEF IInv, Typed, OpRows, Changes, Terminal, Failures
<1>1. CASE BindPlan(o) \/ RecoverApproval(o) \/ SyncApproval(o) \/ Claim(o)
  <2>1. Changes(o)
    BY <1>1 DEF BindPlan, RecoverApproval, SyncApproval, Claim, SetState
  <2> QED
    BY <2>1, ChangesFinished
<1>2. CASE Cancel(o)
  <2>1. Changes(o)
    BY <1>2 DEF Cancel, SetState
  <2> QED
    BY <2>1, ChangesFinished
<1>3. CASE FailUnnotified(o)
  <2>1. Changes(o)
    BY <1>3 DEF FailUnnotified, Fail, Allowed, SetState
  <2> QED
    BY <2>1, ChangesFinished
<1>4. CASE End(o)
  <2>1. ops[o].state \in {"executing", "pending"}
    BY <1>4 DEF End, At, ControlInv, ControlOK
  <2>2. \A p \in Ops \ {o} : ops'[p] = ops[p]
    BY <1>4 DEF End, Fail, SetState
  <2> QED
    BY <2>1, <2>2, ChangesFinished
<1>5. CASE ops' = ops
  BY <1>5 DEF FinishedStep
<1> QED
  BY <1>1, <1>2, <1>3, <1>4, <1>5
     DEF Step, RequestRefused, RequestApproval, AbandonApproval,
         AbandonUnnotified, Reserve, BindReservation, Dispatch,
         ReconcileExecution, Settle, ReconcileInterrupted, SettleRecovered,
         RetainRecovered

\* Neither the holder of the lock, nor the submitter without it, nor recovery
\* ever changes a finished operation.
THEOREM TerminalFinality == Spec => TerminalIsFinal
<1>1. IInv /\ [Next]_vars => [FinishedStep]_vars
  <2> SUFFICES ASSUME IInv, Next PROVE FinishedStep
    OBVIOUS
  <2>1. ASSUME NEW o \in Ops, Submit(o) PROVE FinishedStep
    <3>1. Changes(o)
      BY <2>1 DEF IInv, Typed, OpRows, Submit, SubmitDirectGrant,
         SubmitActiveGrant, SubmitPending, Insert, Changes, Terminal, Failures
    <3> QED
      BY <3>1, ChangesFinished
  <2>2. ASSUME NEW o \in Ops, Environment(o) \/ CancelApproval(o)
        PROVE  FinishedStep
    BY <2>2 DEF Environment, Decide, Expire, Revoke, RetainStale,
       CancelApproval, FinishedStep
  <2>3. CASE Crash \/ RecoverFails
    BY <2>3 DEF Crash, RecoverFails, FinishedStep
  <2> QED
    BY <2>1, <2>2, <2>3, StepUnfinished DEF Next
<1> QED
  BY <1>1, Invariance, PTL DEF Spec, TerminalIsFinal

=============================================================================
