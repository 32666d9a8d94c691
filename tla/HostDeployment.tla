---------------------------- MODULE HostDeployment ----------------------------
(***************************************************************************)
(* Host deployment: the journaled transaction of deployment/transaction    *)
(* and the engine of internal/host/deployment that drives it, with its     *)
(* ownership receipts and the restart of services after a rollback.        *)
(*                                                                         *)
(* A command holds the host lock, so one command runs at a time.  An       *)
(* action makes at most one durable change: a journal write, a receipt     *)
(* write, or one call of a step's Apply, Rollback or finalizer, so a crash *)
(* may fall between any two.  AtomicWrite fails only before its rename: a  *)
(* failed write leaves the old file.                                       *)
(***************************************************************************)
EXTENDS Integers, FiniteSets

CONSTANTS
  N,            \* steps of the transaction
  Recoverable,  \* steps whose kind has a "running:" recovery handler
  Components,   \* component steps: their undo consumes its backup, and only
                \* they can end a failed Apply with an uncertain outcome
  Services,     \* steps that stop or start services
  Accounts,     \* steps that create a managed account, with its home
  Clients,      \* steps that quarantine a stale client configuration
  MaxFaults     \* bound: crashes and failed calls in a behaviour

Steps == 1 .. N

ASSUME DeploymentAssumption ==
  /\ N \in Nat \ {0} /\ MaxFaults \in Nat
  /\ Recoverable \subseteq Steps /\ Components \subseteq Steps \ Recoverable
  /\ Services \subseteq Steps
  /\ Accounts \cup Clients \subseteq Steps \ (Recoverable \cup Components)
  /\ Accounts \cap Clients = {}

VARIABLES
  disk,     \* the journal file; phase "none" when it is absent
  host,     \* what each step has made of the host; "left" is what an undo
            \* no longer sees: an account's home without its user, or a
            \* client configuration moved away without the metadata of it
  backup,   \* the steps whose backup behind the rollback handle exists
  receipt,  \* ownership receipts of this deployment: "pending", "saved"
  stale,    \* services may run with configuration that was since changed
  faults,   \* faults so far
  pc,       \* where the running command is; "idle" when there is none
  mem,      \* the journal in the command's memory
  run       \* the command's locals

vars == <<disk, host, backup, receipt, stale, faults, pc, mem, run>>

Phases     == {"none", "applying", "rolling_back", "recovery_required",
               "committed"}
StepStates == {"pending", "running", "complete", "rolled_back", "finalized"}
Effects    == {"old", "mixed", "new", "left"}

NoJournal == [phase |-> "none", steps |-> [i \in Steps |-> "pending"]]

\* The command's flags.  apply: ApplyDescriptors rather than PlanReview;
\* inRun: Run has begun; committed, rolledBack: what Pending found in
\* finishInterruptedSetup; touched: the transaction reached a service step;
\* retried, unrecorded: attempt and failures of rollback.
Flags == {"apply", "inRun", "committed", "rolledBack", "touched", "retried",
          "unrecorded"}

\* index: the loop of Run; todo, failed: the lists of rollback.
NoRun == [flags |-> {}, index |-> 1, todo |-> {}, failed |-> {}]

Is(flag)              == flag \in run.flags
When(condition, flag) == IF condition THEN {flag} ELSE {}

Fault == faults < MaxFaults /\ faults' = faults + 1
Fine  == UNCHANGED faults

Goto(label) == pc' = label

\* The command returns: its lock and its memory are gone.
Return == Goto("idle") /\ mem' = NoJournal /\ run' = NoRun

\* write(journal): the file becomes the journal, or stays as it was.
Write(journal) == Fine /\ disk' = journal
WriteFails     == Fault /\ UNCHANGED disk

Uninvolved == UNCHANGED <<host, backup, receipt, stale>>

(***************************************************************************)
(* finishInterruptedSetup.  A command for another deployment pack than the *)
(* journal's is refused and changes nothing.  A command that plans only    *)
(* (apply = FALSE) ends here, and so does one whose plan is stale, blocked *)
(* or cannot be made.                                                      *)
(***************************************************************************)
Start(apply) ==
  /\ pc = "idle" /\ Goto("finish")
  /\ run' = [NoRun EXCEPT !.flags = When(apply, "apply")]
  /\ Fine /\ UNCHANGED <<disk, mem>> /\ Uninvolved

TouchedServices(journal) == \E i \in Services : journal.steps[i] # "pending"

\* Mutant: a committed transaction is rolled back as well.
FinishRollsBackAll ==
  /\ pc = "finish" /\ mem' = disk /\ UNCHANGED run
  /\ Goto(IF disk.phase = "none" THEN "restart" ELSE "recover")
  /\ Fine /\ UNCHANGED disk /\ Uninvolved

FinishInterrupted ==
  /\ pc = "finish"
  /\ mem' = disk
  /\ run' = [run EXCEPT !.flags = @
               \cup When(disk.phase = "committed", "committed")
               \cup When(disk.phase \notin {"none", "committed"}, "rolledBack")
               \cup When(TouchedServices(disk), "touched")]
  /\ Goto(CASE disk.phase = "none"      -> "restart"
            [] disk.phase = "committed" -> "finalize"
            [] OTHER                    -> "recover")
  /\ Fine /\ UNCHANGED disk /\ Uninvolved

\* After a rollback the pending receipt is discarded; after a finalised
\* commit it becomes the receipt, and needs to be there.
CommitPendingReceipt ==
  /\ pc = "receipt" /\ Is("committed")
  /\ \/ "pending" \in receipt /\ Fine /\ Goto("discard") /\ UNCHANGED <<mem, run>>
        /\ receipt' = receipt \cup {"saved"}
     \/ "pending" \notin receipt /\ Fine /\ Return /\ UNCHANGED receipt
     \/ Fault /\ Return /\ UNCHANGED receipt
  /\ UNCHANGED <<disk, host, backup, stale>>

DiscardPendingReceipt ==
  /\ \/ pc = "receipt" /\ ~Is("committed")
     \/ pc = "discard"
  /\ \/ Fine /\ receipt' = receipt \ {"pending"}
        /\ IF Is("inRun") THEN Return
           ELSE Goto("restart") /\ UNCHANGED <<mem, run>>
     \/ Fault /\ Return /\ UNCHANGED receipt
  /\ UNCHANGED <<disk, host, backup, stale>>

\* RestartActive runs when the rollback touched services, or when the
\* installer's own record asks for recovery, which it may at any time.
Restart ==
  /\ pc = "restart"
  /\ \/ /\ ~(Is("rolledBack") /\ Is("touched"))
        /\ Fine /\ UNCHANGED stale
        /\ IF Is("apply") THEN Goto("plan") /\ UNCHANGED <<mem, run>> ELSE Return
     \/ /\ Fine /\ stale' = FALSE
        /\ IF Is("apply") THEN Goto("plan") /\ UNCHANGED <<mem, run>> ELSE Return
     \/ Fault /\ Return /\ UNCHANGED stale
  /\ UNCHANGED <<disk, host, backup, receipt>>

(***************************************************************************)
(* Finalize                                                                *)
(***************************************************************************)
FinalizeStep(i) ==
  /\ pc = "finalize" /\ mem.steps[i] = "complete"
  /\ \A j \in Steps : j < i => mem.steps[j] = "finalized"
  /\ \/ Fine /\ Goto("finalized") /\ UNCHANGED run
        /\ mem' = [mem EXCEPT !.steps[i] = "finalized"]
        /\ backup' = backup \ {i}
     \/ Fault /\ Return /\ backup' \in {backup, backup \ {i}}
  /\ UNCHANGED <<disk, host, receipt, stale>>

FinalizeWrite ==
  /\ pc = "finalized"
  /\ \/ Write(mem) /\ Goto("finalize") /\ UNCHANGED <<mem, run>>
     \/ WriteFails /\ Return
  /\ Uninvolved

FinalizeClear ==
  /\ pc = "finalize" /\ \A i \in Steps : mem.steps[i] = "finalized"
  /\ \/ Fine /\ disk' = NoJournal /\ UNCHANGED <<mem, run>>
        /\ Goto(IF Is("inRun") THEN "save" ELSE "receipt")
     \/ WriteFails /\ Return
  /\ Uninvolved

(***************************************************************************)
(* Recover                                                                 *)
(***************************************************************************)
Uncertain(journal) ==
  \E i \in Steps \ Recoverable : journal.steps[i] = "running"

\* Mutant: a transaction marked for recovery is left to the operator.
RecoverOnce ==
  /\ pc = "recover" /\ ~Uncertain(mem)
  /\ IF mem.phase = "recovery_required" THEN Return
     ELSE Goto("rollback") /\ UNCHANGED <<mem, run>>
  /\ Fine /\ UNCHANGED disk /\ Uninvolved

Recover ==
  /\ pc = "recover" /\ ~Uncertain(mem)
  /\ Goto("rollback")
  /\ Fine /\ UNCHANGED <<disk, mem, run>> /\ Uninvolved

RecoverUncertain ==
  /\ pc = "recover" /\ Uncertain(mem)
  /\ \/ Write([mem EXCEPT !.phase = "recovery_required"])
     \/ WriteFails
  /\ Return /\ Uninvolved

(***************************************************************************)
(* rollback and compensate                                                 *)
(***************************************************************************)
Unfinished(journal) ==
  {i \in Steps : journal.steps[i] \in {"running", "complete"}}

RollbackBegin ==
  /\ pc = "rollback" /\ Goto("undo")
  /\ mem' = [mem EXCEPT !.phase = "rolling_back"]
  /\ run' = [run EXCEPT !.todo = Unfinished(mem), !.failed = {}]
  /\ Write(mem') \/ WriteFails
  /\ Uninvolved

\* The newest step first.
NextUndo(i) == pc = "undo" /\ i \in run.todo /\ \A j \in run.todo : j <= i

\* A finished component is undone from its backup only; one whose Apply failed
\* counts as undone when it reported that it had rolled itself back.  A client
\* configuration is moved back before its metadata is removed: between the two
\* ("mixed") its backup is not there to be verified, and restoring it fails.
CanUndo(i) ==
  /\ i \in Components =>
       /\ mem.steps[i] = "complete" => i \in backup
       /\ mem.steps[i] = "running" => host[i] = "old"
  /\ i \in Clients => host[i] # "mixed"

\* An undo that does not finish leaves the step as it was or closer to old;
\* a component's backup is the last thing to go.  The user of an account goes
\* before its home.
HalfUndone(i) ==
  {host[i]} \cup (IF host[i] \in {"mixed", "new"}
                  THEN {"old", "mixed"} \cup When(i \in Accounts, "left")
                  ELSE {})

UndoStops(i) ==
  \E effect \in HalfUndone(i) :
    /\ host' = [host EXCEPT ![i] = effect]
    /\ backup' \in {backup} \cup (IF effect = "old" THEN {backup \ {i}} ELSE {})

\* The undo of an account without its user, or of a client without its
\* metadata, finds nothing to do and succeeds.
UndoStep(i) ==
  /\ NextUndo(i) /\ CanUndo(i)
  /\ host' = [host EXCEPT ![i] = IF @ = "left" THEN "left" ELSE "old"]
  /\ backup' = backup \ {i}
  /\ mem' = [mem EXCEPT !.steps[i] = "rolled_back"]
  /\ run' = [run EXCEPT !.todo = @ \ {i}]
  /\ Goto("undone")
  /\ Fine /\ UNCHANGED <<disk, receipt, stale>>

\* What CanUndo excludes always fails, and so does the undo of a component
\* whose failed Apply did not report its own rollback; every other undo fails
\* by a fault.
UndoFails(i) ==
  /\ NextUndo(i)
  /\ \/ /\ ~CanUndo(i) \/ (i \in Components /\ mem.steps[i] = "running")
        /\ Fine /\ UNCHANGED <<host, backup>>
     \/ CanUndo(i) /\ Fault /\ UndoStops(i)
  /\ run' = [run EXCEPT !.todo = @ \ {i}, !.failed = @ \cup {i}]
  /\ UNCHANGED <<disk, receipt, stale, pc, mem>>

\* The record of an undo that succeeded; a failed write only counts as a
\* failure of this attempt.
UndoWrite ==
  /\ pc = "undone" /\ Goto("undo")
  /\ \/ Write(mem) /\ UNCHANGED run
     \/ WriteFails /\ run' = [run EXCEPT !.flags = @ \cup {"unrecorded"}]
  /\ UNCHANGED mem /\ Uninvolved

\* Each failed undo is tried once more after all the others.
UndoAgain ==
  /\ pc = "undo" /\ run.todo = {} /\ run.failed # {} /\ ~Is("retried")
  /\ run' = [run EXCEPT !.todo = run.failed, !.failed = {},
                        !.flags = (@ \cup {"retried"}) \ {"unrecorded"}]
  /\ Fine /\ UNCHANGED <<disk, pc, mem>> /\ Uninvolved

RollbackFails ==
  /\ pc = "undo" /\ run.todo = {}
  /\ IF run.failed = {} THEN Is("unrecorded") ELSE Is("retried")
  /\ \/ Write([mem EXCEPT !.phase = "recovery_required"])
     \/ WriteFails
  /\ IF Is("inRun") THEN Goto("runFailed") /\ UNCHANGED <<mem, run>> ELSE Return
  /\ Uninvolved

\* Mutant: the journal is cleared although an undo keeps failing.
RollbackClearsAnyway ==
  /\ pc = "undo" /\ run.todo = {} /\ (run.failed = {} \/ Is("retried"))
  /\ Fine /\ disk' = NoJournal
  /\ IF Is("inRun") THEN Goto("runFailed") ELSE Goto("receipt")
  /\ UNCHANGED <<mem, run>> /\ Uninvolved

RollbackClear ==
  /\ pc = "undo" /\ run.todo = {} /\ run.failed = {} /\ ~Is("unrecorded")
  /\ \/ Fine /\ disk' = NoJournal /\ UNCHANGED <<mem, run>>
        /\ Goto(IF Is("inRun") THEN "runFailed" ELSE "receipt")
     \/ /\ WriteFails
        /\ IF Is("inRun") THEN Goto("runFailed") /\ UNCHANGED <<mem, run>>
           ELSE Return
  /\ Uninvolved

(***************************************************************************)
(* ApplyDescriptors                                                        *)
(***************************************************************************)
AllNew == \A i \in Steps : host[i] = "new"

\* The plan finds the deployment in place: only the receipt is saved.
Noop ==
  /\ pc = "plan" /\ AllNew
  /\ \/ Fine /\ receipt' = receipt \cup {"saved"}
     \/ Fault /\ UNCHANGED receipt
  /\ Return /\ UNCHANGED <<disk, host, backup, stale>>

\* What the undo of an earlier transaction has left behind.
LeftBehind == {i \in Steps : host[i] = "left"}

\* A deployment to apply: what is in place is the old state from here on, but
\* for the home of an account that is missing.
StagePendingReceipt ==
  /\ pc = "plan"
  /\ \/ /\ Fine /\ Goto("run") /\ UNCHANGED <<mem, run>>
        /\ host' = [i \in Steps |->
                      IF i \in LeftBehind \cap Accounts THEN "left" ELSE "old"]
        /\ receipt' = IF AllNew THEN {"pending"} ELSE receipt \cup {"pending"}
        /\ stale' = (stale /\ ~AllNew)
     \/ Fault /\ Return /\ UNCHANGED <<host, receipt, stale>>
  /\ UNCHANGED <<disk, backup>>

\* The steps cannot be built: by a fault, or because the home of an account
\* to be created exists (identitySteps).
StepsRefused ==
  /\ pc = "run" /\ Return
  /\ \/ Fault /\ receipt' \in {receipt, receipt \ {"pending"}}
     \/ LeftBehind \cap Accounts # {} /\ Fine /\ receipt' = receipt \ {"pending"}
  /\ UNCHANGED <<disk, host, backup, stale>>

RunBegin ==
  /\ pc = "run" /\ LeftBehind \cap Accounts = {}
  /\ mem' = [NoJournal EXCEPT !.phase = "applying"]
  /\ run' = [run EXCEPT !.flags = {"apply", "inRun"}, !.index = 1]
  /\ IF disk.phase # "none"
     THEN Fine /\ UNCHANGED disk /\ Goto("runFailed")
     ELSE \/ Write(mem') /\ Goto("mark")
          \/ WriteFails /\ Goto("runFailed")
  /\ Uninvolved

MarkRunning ==
  /\ pc = "mark" /\ UNCHANGED run
  /\ \/ mem' = [mem EXCEPT !.steps[run.index] = "running"]
        /\ Write(mem') /\ Goto("apply")
     \/ WriteFails /\ Goto("rollback") /\ UNCHANGED mem
  /\ Uninvolved

\* An Apply that fails.  A client's moves the file back when its metadata
\* cannot be written, and where that fails too the file stays away.  useradd
\* (external) records the user before it makes the home.
HalfApplied(i) ==
  IF i \in Clients THEN {"old", "left"} ELSE {"old", "mixed", "new"}

Apply ==
  /\ pc = "apply" /\ run.index \in Steps
  /\ stale' = (stale \/ run.index \in Services)
  /\ run' = [run EXCEPT !.flags = @ \cup When(run.index \in Services, "touched")]
  /\ \/ Fine /\ Goto("complete")
        /\ host' = [host EXCEPT ![run.index] = "new"]
        /\ backup' = backup \cup {run.index}
     \/ Fault /\ Goto("applyFailed") /\ UNCHANGED backup
        /\ \E effect \in HalfApplied(run.index) :
             host' = [host EXCEPT ![run.index] = effect]
  /\ UNCHANGED <<disk, receipt, mem>>

ApplyFailed ==
  /\ pc = "applyFailed" /\ UNCHANGED run
  /\ mem' = [mem EXCEPT !.phase = "rolling_back"]
  /\ \/ Write(mem') /\ Goto("rollback")
     \/ WriteFails /\ Goto("runFailed")
  /\ Uninvolved

\* Mutant: the index runs past the last step.
MarkCompletePastEnd ==
  /\ pc = "complete" /\ Goto(IF run.index < N THEN "mark" ELSE "commit")
  /\ mem' = [mem EXCEPT !.steps[run.index] = "complete"] /\ Write(mem')
  /\ run' = [run EXCEPT !.index = @ + 1]
  /\ Uninvolved

MarkComplete ==
  /\ pc = "complete"
  /\ mem' = [mem EXCEPT !.steps[run.index] = "complete"]
  /\ \/ /\ Write(mem')
        /\ Goto(IF run.index < N THEN "mark" ELSE "commit")
        /\ run' = [run EXCEPT !.index = IF @ < N THEN @ + 1 ELSE @]
     \/ WriteFails /\ Goto("rollback") /\ UNCHANGED run
  /\ Uninvolved

\* Mutant: finalisation does not wait for the commit record.
CommitUnchecked ==
  /\ pc = "commit" /\ UNCHANGED run /\ Goto("finalize")
  /\ mem' = [mem EXCEPT !.phase = "committed"]
  /\ Write(mem') \/ WriteFails
  /\ Uninvolved

Commit ==
  /\ pc = "commit" /\ UNCHANGED run
  /\ mem' = [mem EXCEPT !.phase = "committed"]
  /\ \/ Write(mem') /\ Goto("finalize")
     \/ WriteFails /\ Goto("runFailed")
  /\ Uninvolved

\* Run returned an error: the pending receipt is discarded, and the services
\* are restarted when the rollback left no journal.
RunFailed ==
  /\ pc = "runFailed"
  /\ \/ Fine /\ receipt' = receipt \ {"pending"}
     \/ Fault /\ UNCHANGED receipt
  /\ IF Is("touched") /\ disk.phase = "none"
     THEN Goto("restartRun") /\ UNCHANGED <<mem, run>> ELSE Return
  /\ UNCHANGED <<disk, host, backup, stale>>

RestartAfterRun ==
  /\ pc = "restartRun" /\ Return
  /\ (Fine /\ stale' = FALSE) \/ (Fault /\ UNCHANGED stale)
  /\ UNCHANGED <<disk, host, backup, receipt>>

SaveOwnershipReceipt ==
  /\ pc = "save"
  /\ \/ Fine /\ receipt' = receipt \cup {"saved"} /\ Goto("discard")
        /\ UNCHANGED <<mem, run>>
     \/ Fault /\ Return /\ UNCHANGED receipt
  /\ UNCHANGED <<disk, host, backup, stale>>

(***************************************************************************)
(* Crashes: between two durable changes, or inside a step's call           *)
(***************************************************************************)
Crash ==
  /\ pc # "idle" /\ Fault /\ Return
  /\ UNCHANGED <<disk, host, backup, receipt, stale>>

CrashInApply ==
  /\ pc = "apply" /\ Fault /\ Return
  /\ stale' = (stale \/ run.index \in Services)
  /\ \E effect \in HalfApplied(run.index) \cup {"new"} :
       host' = [host EXCEPT ![run.index] = effect]
  /\ backup' \in {backup, backup \cup {run.index}}
  /\ UNCHANGED <<disk, receipt>>

CrashInUndo(i) ==
  /\ NextUndo(i) /\ CanUndo(i) /\ UndoStops(i) /\ Fault /\ Return
  /\ UNCHANGED <<disk, receipt, stale>>

Init ==
  /\ disk = NoJournal /\ mem = NoJournal /\ run = NoRun /\ pc = "idle"
  /\ host = [i \in Steps |-> "old"] /\ backup = {}
  /\ receipt = {}
  /\ stale = FALSE /\ faults = 0

Command ==
  \/ FinishInterrupted \/ CommitPendingReceipt \/ DiscardPendingReceipt
  \/ Restart \/ FinalizeWrite \/ FinalizeClear \/ Recover \/ RecoverUncertain
  \/ \E i \in Steps : FinalizeStep(i) \/ UndoStep(i) \/ UndoFails(i)
  \/ RollbackBegin \/ UndoWrite \/ UndoAgain \/ RollbackFails \/ RollbackClear
  \/ Noop \/ StagePendingReceipt \/ StepsRefused \/ RunBegin \/ MarkRunning
  \/ Apply \/ ApplyFailed \/ MarkComplete \/ Commit \/ RunFailed
  \/ RestartAfterRun \/ SaveOwnershipReceipt

Next ==
  \/ \E apply \in BOOLEAN : Start(apply)
  \/ Command
  \/ Crash \/ CrashInApply
  \/ \E i \in Steps : CrashInUndo(i)

Spec == Init /\ [][Next]_vars

\* A command that was started goes on until it returns or crashes, and the
\* operator repeats it; a fault is not forced.
FairSpec == Spec /\ WF_vars(Command) /\ WF_vars(\E apply \in BOOLEAN : Start(apply))

(***************************************************************************)
(* Properties                                                              *)
(***************************************************************************)
Journals == [phase : Phases, steps : [Steps -> StepStates]]

Labels == {"idle", "finish", "receipt", "discard", "restart", "finalize",
           "finalized", "recover", "rollback", "undo", "undone", "plan",
           "run", "mark", "apply", "applyFailed", "complete", "commit",
           "runFailed", "restartRun", "save"}

Locals == [flags : SUBSET Flags, index : Steps, todo : SUBSET Steps,
           failed : SUBSET Steps]

TypeOK ==
  /\ disk \in Journals /\ mem \in Journals
  /\ host \in [Steps -> Effects] /\ LeftBehind \subseteq Accounts \cup Clients
  /\ backup \subseteq Steps
  /\ receipt \subseteq {"pending", "saved"}
  /\ stale \in BOOLEAN /\ faults \in Nat /\ pc \in Labels
  /\ run \in Locals

\* Without a journal the host carries the whole deployment, or nothing of it
\* but the homes and the client configurations that an undo no longer sees,
\* whatever crashed, failed to apply, failed to be undone or failed to be
\* written on the way: the journal goes last (rollback, Finalize).
AllOrNothing ==
  disk.phase = "none" =>
    AllNew \/ \A i \in Steps \ LeftBehind : host[i] = "old"

\* A finished step that is still in effect can be undone from its backup for
\* as long as the journal on disk is not committed: finalisation never runs
\* ahead of the commit record.
BackupKept ==
  \A i \in Steps :
    (/\ disk.phase \notin {"none", "committed"}
     /\ disk.steps[i] = "complete" /\ host[i] = "new") => i \in backup

CommitStep ==
  disk.phase = "committed" =>
    host' = host /\ disk'.phase \in {"committed", "none"}

\* A committed transaction is only finalised: no recovery or rollback touches
\* the host or takes the commit back.
CommitIsFinal == [][CommitStep]_vars

\* A finished step whose undo was not recorded after it had used up what it
\* needs: a component's backup, or a client's that was moved back while its
\* metadata stayed.
Consumed ==
  /\ disk.phase \notin {"none", "committed"}
  /\ \E i \in Steps :
       /\ disk.steps[i] = "complete"
       /\ \/ i \in Components \ backup
          \/ i \in Clients /\ host[i] = "mixed"

\* An interrupted transaction is finalised or rolled back once the faults end
\* and the command is repeated (finishInterruptedSetup), whichever writes,
\* steps and undos failed: it waits for an operator only when the step that
\* was running has no recovery handler, or the backup of a component or of a
\* stale client is used up.
RecoveryEnds ==
  disk.phase # "none" ~> (disk.phase = "none" \/ Uncertain(disk) \/ Consumed)

\* "finishInterruptedSetup completes an earlier transaction: it finalizes a
\* committed one and rolls back any other" (engine.go:194), but for the
\* uncertain steps that Recover leaves to the operator.
RecoveryCompletes ==
  disk.phase # "none" ~> (disk.phase = "none" \/ Uncertain(disk))
=============================================================================
