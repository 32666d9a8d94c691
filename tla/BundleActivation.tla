--------------------------- MODULE BundleActivation ---------------------------
(***************************************************************************)
(* The installer of internal/host/bundle: activation, rollback and removal *)
(* of complete host releases, with their transaction file, the `current`   *)
(* link, the activation record, the services and the state of the          *)
(* components.                                                             *)
(*                                                                         *)
(* The activation lock lets one command run at a time.  An action makes at *)
(* most one durable change, so that a crash may fall between any two, with *)
(* two exceptions where the code runs over several services and only their *)
(* outcome matters: stopping and starting the services of a release.  A    *)
(* write that fails leaves the old file: the one failure that leaves the   *)
(* new one, of the directory's sync after the rename, is left out.         *)
(*                                                                         *)
(* Digests, signatures and readiness probes are reduced to what they       *)
(* decide.  A datum stands for the contents of a state file: the format it *)
(* is in and the command that created it.  "No binary reads an older state *)
(* format": a service whose files have another format does not start.      *)
(***************************************************************************)
EXTENDS Integers, Sequences

CONSTANTS
  Bundles,      \* releases that can be installed
  Components,   \* their components, each with one service and one state
  None,         \* no release, no record, no file, no directory
  Has,          \* Has[b]: the components of release b
  Format,       \* Format[b][c]: the state format of component c in release b
  Replace,      \* Replace[b]: components that declare replace_state
  ByFile,       \* components that declare state_files; others move the
                \* whole state directory
  StateFiles,   \* the files of a state, in the order the manifest lists them
  MaxCalls,     \* bound: commands in a behaviour
  MaxFaults     \* bound: crashes and failed calls in a behaviour

Files   == {StateFiles[i] : i \in 1 .. Len(StateFiles)}
Formats == {Format[b][c] : b \in Bundles, c \in Components}

ASSUME BundleAssumption ==
  /\ None \notin Bundles /\ None \notin Components
  /\ Has \in [Bundles -> SUBSET Components]
  /\ Replace \in [Bundles -> SUBSET Components]
  /\ ByFile \subseteq Components
  /\ StateFiles \in Seq(STRING) /\ StateFiles # <<>>
  /\ MaxCalls \in Nat /\ MaxFaults \in Nat

\* A manifest that lists a state file twice is refused.
ASSUME FilesAssumption ==
  \A i, j \in 1 .. Len(StateFiles) : StateFiles[i] = StateFiles[j] => i = j

VARIABLES
  releases,  \* staged releases
  current,   \* the release `current` points to
  record,    \* activation.json
  txn,       \* transaction.json
  live,      \* live[c]: the state directory of a component
  backup,    \* backup[c][b]: <state_dir>.unyolo-backup-<b>
  running,   \* running[c]: the release whose executable the service runs
  enabled,   \* enabled services
  call,      \* the running command
  calls,     \* commands so far
  faults,    \* faults so far
  ghost      \* history: what the transaction found when it began

disk     == <<releases, current, record, txn>>
state    == <<live, backup>>
services == <<running, enabled>>
vars     == <<disk, state, services, call, calls, faults, ghost>>

Maybe(S) == S \cup {None}

Data   == [format : Formats, by : 0 .. MaxCalls]
States == [Files -> Maybe(Data)]
Empty  == [f \in Files |-> None]

Records == [active : Bundles, previous : Maybe(Bundles), recovery : BOOLEAN]
Record(active, previous) ==
  [active |-> active, previous |-> previous, recovery |-> FALSE]

\* activationTransaction.  before and final are the records to go back to and
\* to commit.
Transactions == [candidate : Bundles, previous : Maybe(Bundles),
                 before : Maybe(Records), final : Records]

ASSUME NoneAssumption ==
  /\ None \notin Records /\ None \notin Transactions
  /\ None \notin States /\ None \notin Data

Idle == "idle"

\* op, bundle, other, owned: the command and its arguments.  at: its next
\* step.  old, new: the releases a restore goes back to and comes from, or
\* the previous one and the candidate of an activation.  todo: components
\* whose state is still to be moved; done: those already archived.  moving,
\* files: the component being moved and the files left.  then: what the
\* restore is part of; bad: some step of it failed.
NoCall == [op |-> "none", bundle |-> None, other |-> None, owned |-> {},
           at |-> Idle, old |-> None, new |-> None, todo |-> {}, done |-> {},
           moving |-> None, files |-> <<>>, then |-> "none", bad |-> FALSE]

NoGhost == [op |-> "none", live |-> [c \in Components |-> None],
            left |-> {}, broken |-> {}]

At(label) == call.at = label

Fault == faults < MaxFaults /\ faults' = faults + 1
Fine  == UNCHANGED faults

Goto(label) == call' = [call EXCEPT !.at = label]
Return      == call' = NoCall

Of(b) == IF b = None THEN {} ELSE Has[b]

\* The components whose state format differs between two releases.
Changed(old, new) ==
  {c \in Of(old) \cap Of(new) : Format[old][c] # Format[new][c]}

Fits(b, c, s) == \A f \in Files : s[f] # None => s[f].format = Format[b][c]

(***************************************************************************)
(* Commands.                                                               *)
(***************************************************************************)
Begin(op, bundle, other, owned) ==
  /\ At(Idle) /\ calls < MaxCalls /\ calls' = calls + 1
  /\ call' = [NoCall EXCEPT !.op = op, !.bundle = bundle, !.other = other,
                            !.owned = owned, !.at = "recover"]
  /\ UNCHANGED <<disk, state, services, faults, ghost>>

Activate(b)                == Begin("activate", b, None, {})
Rollback                   == Begin("rollback", None, None, {})
RollbackCandidate(b, prev) == b # prev /\ Begin("rollback candidate", b, prev, {})
RestartActive              == Begin("restart", None, None, {})
DeactivateCandidate(b)     == Begin("deactivate", b, None, {})

DeactivateInstallation(b, baseline, owned) ==
  /\ b \in owned /\ baseline \notin owned
  /\ Begin("remove", b, baseline, owned)

(***************************************************************************)
(* The services.  A service that is not running starts the executable of   *)
(* `current`, creates the state files it does not find, and stays down     *)
(* when those it finds have another format.                                *)
(***************************************************************************)
Created(c) == [f \in Files |->
  IF live[c] = None \/ live[c][f] = None
  THEN [format |-> Format[current][c], by |-> calls] ELSE live[c][f]]

Starts(c) == /\ running[c] = None /\ c \in Of(current)
             /\ live[c] = None \/ Fits(current, c, live[c])

StartSome(S) ==
  LET up == {c \in S : Starts(c)}
  IN  /\ running' = [c \in Components |-> IF c \in up THEN current ELSE running[c]]
      /\ live' = [c \in Components |-> IF c \in up THEN Created(c) ELSE live[c]]

\* startAndVerify succeeds when every service of the release runs its
\* executable; otherwise only some were started.
StartAndVerify(b) == Fine /\ StartSome(Of(b)) /\ \A c \in Of(b) : running'[c] = b
StartFails(b)     == \/ /\ Fine /\ StartSome(Of(b))
                        /\ \E c \in Of(b) : running'[c] # b
                     \/ Fault /\ \E S \in SUBSET Of(b) : StartSome(S)

StopSome(S) == running' = [c \in Components |->
                             IF c \in S THEN None ELSE running[c]]
Stop(b)      == Fine /\ StopSome(Of(b))
StopFails(b) == Fault /\ \E S \in SUBSET Of(b) : StopSome(S)

\* synchronizeEnabledServices enables those of one release and disables the
\* services only the other one has.
Synchronize(old, new) == enabled' = (enabled \cup Of(new)) \ (Of(old) \ Of(new))

\* The reload, or one call of synchronizeEnabledServices, fails.
SynchronizeFails(old, new) ==
  /\ Fault
  /\ \/ \E S \in SUBSET Of(new) : enabled' = enabled \cup S
     \/ \E S \in SUBSET (Of(old) \ Of(new)) : enabled' = (enabled \cup Of(new)) \ S

(***************************************************************************)
(* recoverInterruptedActivation, the first step of every command.          *)
(***************************************************************************)
\* transactionCommitted.  Releases do not change once they are stored, so
\* verifyRelease of the active one is left out.
Committed(t) == record = t.final /\ current = record.active

\* restore begins by stopping the services of the release it leaves.
RestoreFor(then, old, new) ==
  call' = [call EXCEPT !.at = "restore stop", !.then = then, !.old = old,
                       !.new = new, !.bad = FALSE]

RecoverNothing ==
  /\ At("recover") /\ txn = None /\ Goto("body")
  /\ Fine /\ UNCHANGED <<disk, state, services, calls, ghost>>

RecoverCommitted ==
  /\ At("recover") /\ txn # None /\ Committed(txn)
  /\ \/ Fine /\ Goto("body") /\ txn' = None
     \/ Fault /\ Return /\ UNCHANGED txn
  /\ UNCHANGED <<releases, current, record, state, services, calls, ghost>>

\* Mutant: the transaction of an interrupted activation is dropped.
RecoverForgets ==
  /\ At("recover") /\ txn # None /\ ~Committed(txn)
  /\ Fine /\ Goto("body") /\ txn' = None
  /\ UNCHANGED <<releases, current, record, state, services, calls, ghost>>

RecoverInterrupted ==
  /\ At("recover") /\ txn # None /\ ~Committed(txn)
  /\ RestoreFor("recovered", txn.previous, txn.candidate)
  /\ Fine /\ UNCHANGED <<disk, state, services, calls, ghost>>

(***************************************************************************)
(* Activate.                                                               *)
(***************************************************************************)
Stage ==
  /\ At("body") /\ call.op = "activate"
  /\ \/ Fine /\ Goto("baseline") /\ releases' = releases \cup {call.bundle}
     \/ Fault /\ Return /\ UNCHANGED releases
  /\ UNCHANGED <<current, record, txn, state, services, calls, ghost>>

\* activationSnapshotMatches.
Matches == IF current = None THEN record = None
           ELSE record # None /\ record.active = current /\ ~record.recovery

BaselineRefused ==
  /\ At("baseline") /\ ~Matches
  /\ Return /\ Fine /\ UNCHANGED <<disk, state, services, calls, ghost>>

\* The release is active already: its services are enabled, and verified.
ActiveAlready ==
  /\ At("baseline") /\ Matches /\ current = call.bundle
  /\ \/ Fine /\ enabled' = enabled \cup Of(current)
     \/ Fault /\ \E S \in SUBSET Of(current) : enabled' = enabled \cup S
  /\ Return /\ UNCHANGED <<disk, state, running, calls, ghost>>

\* The transaction is on disk before anything else changes.
BeginTransaction(candidate, previous) ==
  /\ txn' = [candidate |-> candidate, previous |-> previous, before |-> record,
             final |-> Record(candidate, previous)]
  /\ ghost' = [op |-> call.op, live |-> live, broken |-> {},
               left |-> {c \in Components : backup[c][candidate] # None}]

CommitActivation ==
  /\ At("baseline") /\ Matches /\ current # call.bundle
  /\ \/ /\ Fine /\ BeginTransaction(call.bundle, current)
        /\ call' = [call EXCEPT !.at = "stop", !.old = current,
                                !.new = call.bundle]
     \/ Fault /\ Return /\ UNCHANGED <<txn, ghost>>
  /\ UNCHANGED <<releases, current, record, state, services, calls>>

\* Mutant: a failed activation goes back to the record, not to the state.
FailActivationRecordOnly ==
  call' = [call EXCEPT !.at = "restored", !.then = "failed", !.bad = FALSE]

\* failActivation restores the release the transaction began with.
FailActivation == RestoreFor("failed", txn.previous, txn.candidate)

StopOld ==
  /\ At("stop")
  /\ \/ /\ Stop(call.old)
        /\ call' = [call EXCEPT !.at = "prepare", !.done = {},
                                !.todo = Changed(call.old, call.new)]
     \/ StopFails(call.old) /\ FailActivation
  /\ UNCHANGED <<disk, state, enabled, calls, ghost>>

\* undoPreparedState, then failActivation.
UndoPrepared(undo) == call' = [call EXCEPT !.at = "undo", !.todo = undo,
                                           !.moving = None, !.files = <<>>]

\* prepareState refuses a change of format that is not declared, and a
\* component whose backup for this candidate exists already.
PrepareRefused(c) ==
  /\ At("prepare") /\ call.moving = None /\ c \in call.todo
  /\ c \notin Replace[call.new] \/ backup[c][call.new] # None
  /\ UndoPrepared(call.done)
  /\ Fine /\ UNCHANGED <<disk, state, services, calls, ghost>>

\* Archiving a directory renames it to its backup and makes a new one; with
\* state_files it makes the backup directory and moves the files.  The
\* directory is there: the services of the old release ran.
\* Mutant: the old state is not kept.
ArchiveBeginDrops(c) ==
  /\ At("prepare") /\ call.moving = None /\ c \in call.todo
  /\ c \in Replace[call.new] /\ backup[c][call.new] = None
  /\ c \notin ByFile
  /\ live' = [live EXCEPT ![c] = None]
  /\ call' = [call EXCEPT !.moving = c] /\ Fine
  /\ UNCHANGED <<disk, backup, services, calls, ghost>>

ArchiveBegin(c) ==
  /\ At("prepare") /\ call.moving = None /\ c \in call.todo
  /\ c \in Replace[call.new] /\ backup[c][call.new] = None
  /\ \/ /\ c \notin ByFile /\ Fine
        /\ backup' = [backup EXCEPT ![c][call.new] = live[c]]
        /\ live' = [live EXCEPT ![c] = None]
        /\ call' = [call EXCEPT !.moving = c]
     \/ /\ c \in ByFile /\ Fine /\ UNCHANGED live
        /\ backup' = [backup EXCEPT ![c][call.new] = Empty]
        /\ call' = [call EXCEPT !.moving = c, !.files = StateFiles]
     \/ Fault /\ UndoPrepared(call.done) /\ UNCHANGED state
  /\ UNCHANGED <<disk, services, calls, ghost>>

\* A directory whose successor cannot be made is renamed back; the sync of
\* its parent may fail after all is done.
ArchiveDirectory ==
  LET c == call.moving
  IN  /\ At("prepare") /\ c # None /\ c \notin ByFile
      /\ \/ /\ Fine /\ UNCHANGED backup
            /\ live' = [live EXCEPT ![c] = Empty]
            /\ call' = [call EXCEPT !.todo = @ \ {c}, !.done = @ \cup {c},
                                    !.moving = None]
         \/ /\ Fault /\ UndoPrepared(call.done)
            /\ live' = [live EXCEPT ![c] = backup[c][call.new]]
            /\ backup' = [backup EXCEPT ![c][call.new] = None]
         \/ /\ Fault /\ UndoPrepared(call.done) /\ UNCHANGED backup
            /\ live' = [live EXCEPT ![c] = Empty]
      /\ UNCHANGED <<disk, services, calls, ghost>>

\* A file that is not there is skipped.  When a move fails, restoreStateFiles
\* runs over all the names.
ArchiveFile ==
  LET c == call.moving
      f == Head(call.files)
  IN  /\ At("prepare") /\ c \in ByFile /\ call.files # <<>>
      /\ \/ /\ Fine /\ UNCHANGED ghost
            /\ live' = [live EXCEPT ![c][f] = None]
            /\ backup' = [backup EXCEPT ![c][call.new][f] = live[c][f]]
            /\ call' = [call EXCEPT !.files = Tail(@)]
         \/ /\ Fault /\ UndoPrepared(call.done \cup {c}) /\ UNCHANGED state
            /\ ghost' = [ghost EXCEPT !.broken = @ \cup {c}]
      /\ UNCHANGED <<disk, services, calls>>

ArchiveFilesDone ==
  LET c == call.moving
  IN  /\ At("prepare") /\ c \in ByFile /\ call.files = <<>>
      /\ \/ /\ Fine
            /\ call' = [call EXCEPT !.todo = @ \ {c}, !.done = @ \cup {c},
                                    !.moving = None]
         \/ Fault /\ UndoPrepared(call.done)
      /\ UNCHANGED <<disk, state, services, calls, ghost>>

SwitchCurrent ==
  /\ At("prepare") /\ call.moving = None /\ call.todo = {}
  /\ \/ Fine /\ current' = call.new /\ Goto("services")
     \/ Fault /\ FailActivation /\ UNCHANGED current
  /\ UNCHANGED <<releases, record, txn, state, services, calls, ghost>>

\* Mutant: the services are started and not waited for.
StartCandidateUnverified ==
  /\ At("services") /\ Fine /\ StartSome(Of(call.new))
  /\ Synchronize(call.old, call.new) /\ Goto("commit")
  /\ UNCHANGED <<disk, backup, calls, ghost>>

StartCandidate ==
  /\ At("services")
  /\ \/ /\ StartAndVerify(call.new) /\ Synchronize(call.old, call.new)
        /\ Goto("commit")
     \/ /\ StartFails(call.new) /\ Synchronize(call.old, call.new)
        /\ FailActivation
     \/ /\ SynchronizeFails(call.old, call.new) /\ FailActivation
        /\ UNCHANGED <<live, running>>
  /\ UNCHANGED <<disk, backup, calls, ghost>>

\* The record is the commit point.
CommitRecord ==
  /\ At("commit")
  /\ \/ Fine /\ record' = txn.final /\ Goto("clear")
     \/ Fault /\ FailActivation /\ UNCHANGED record
  /\ UNCHANGED <<releases, current, txn, state, services, calls, ghost>>

\* clearTransaction; what follows depends on what the transaction was for.
ClearTransaction ==
  /\ At("clear")
  /\ \/ /\ Fine /\ txn' = None
        /\ CASE call.then = "recovered" ->
                call' = [call EXCEPT !.at = "body", !.then = "none"]
             [] call.then = "removed" -> Goto("purge")
             [] call.then # "failed" /\ call.op = "deactivate" -> Goto("forget")
             [] OTHER -> Return
     \/ Fault /\ Return /\ UNCHANGED txn
  /\ UNCHANGED <<releases, current, record, state, services, calls, ghost>>

(***************************************************************************)
(* restore: every step is taken whatever became of the ones before, except *)
(* that services are started only after a reload.                          *)
(***************************************************************************)
RestoreStop ==
  /\ At("restore stop")
  /\ \/ Stop(call.new) /\ call' = [call EXCEPT !.at = "restore",
          !.todo = Changed(call.old, call.new) \cap Replace[call.new]]
     \/ StopFails(call.new) /\ call' = [call EXCEPT !.at = "restore", !.bad = TRUE,
          !.todo = Changed(call.old, call.new) \cap Replace[call.new]]
  /\ UNCHANGED <<disk, state, enabled, calls, ghost>>

Restoring == (At("restore") \/ At("undo"))

\* restoreComponentState: without a backup nothing is to be done.
RestoreNothing(c) ==
  /\ Restoring /\ call.moving = None /\ c \in call.todo
  /\ backup[c][call.new] = None
  /\ call' = [call EXCEPT !.todo = @ \ {c}]
  /\ Fine /\ UNCHANGED <<disk, state, services, calls, ghost>>

RestoreFails(c) ==
  /\ Restoring /\ call.moving = None /\ c \in call.todo
  /\ backup[c][call.new] # None
  /\ call' = [call EXCEPT !.todo = @ \ {c}, !.bad = TRUE]
  /\ Fault /\ UNCHANGED <<disk, state, services, calls, ghost>>

\* The live directory makes room for the backup; with state_files each name
\* is handled in turn.
RestoreBegin(c) ==
  /\ Restoring /\ call.moving = None /\ c \in call.todo
  /\ backup[c][call.new] # None
  /\ call' = [call EXCEPT !.moving = c,
                          !.files = IF c \in ByFile THEN StateFiles ELSE <<>>]
  /\ live' = IF c \in ByFile THEN live ELSE [live EXCEPT ![c] = None]
  /\ Fine /\ UNCHANGED <<disk, backup, services, calls, ghost>>

\* A name that was not archived is removed from the live directory.
RestoreFile ==
  LET c == call.moving
      f == Head(call.files)
      archived == backup[c][call.new][f]
  IN  /\ Restoring /\ c \in ByFile /\ call.files # <<>>
      /\ \/ /\ Fine /\ UNCHANGED ghost
            /\ live' = [live EXCEPT ![c][f] = archived]
            /\ backup' = [backup EXCEPT ![c][call.new][f] = None]
            /\ call' = [call EXCEPT !.files = Tail(@)]
         \/ /\ Fault /\ UNCHANGED state
            /\ call' = [call EXCEPT !.todo = @ \ {c}, !.bad = TRUE,
                                    !.moving = None, !.files = <<>>]
            /\ ghost' = [ghost EXCEPT !.broken = @ \cup {c}]
      /\ UNCHANGED <<disk, services, calls>>

RestoreMoved ==
  LET c == call.moving
      gone == [backup EXCEPT ![c][call.new] = None]
  IN  /\ Restoring /\ c # None /\ call.files = <<>>
      /\ live' = IF c \in ByFile THEN live
                 ELSE [live EXCEPT ![c] = backup[c][call.new]]
      /\ \/ /\ Fine /\ backup' = gone /\ UNCHANGED ghost
            /\ call' = [call EXCEPT !.todo = @ \ {c}, !.moving = None]
         \/ /\ Fault /\ backup' = IF c \in ByFile THEN backup ELSE gone
            /\ call' = [call EXCEPT !.todo = @ \ {c}, !.moving = None, !.bad = TRUE]
            /\ ghost' = [ghost EXCEPT !.broken = @ \cup ({c} \cap ByFile)]
      /\ UNCHANGED <<disk, services, calls>>

UndoDone ==
  /\ At("undo") /\ call.moving = None /\ call.todo = {}
  /\ FailActivation
  /\ Fine /\ UNCHANGED <<disk, state, services, calls, ghost>>

RestoreSwitch ==
  /\ At("restore") /\ call.moving = None /\ call.todo = {}
  /\ \/ Fine /\ current' = call.old /\ Goto("restore services")
     \/ /\ Fault /\ UNCHANGED current
        /\ call' = [call EXCEPT !.at = "restore services", !.bad = TRUE]
  /\ UNCHANGED <<releases, record, txn, state, services, calls, ghost>>

RestoreServices ==
  /\ At("restore services")
  /\ \/ /\ StartAndVerify(call.old) /\ Synchronize(call.new, call.old)
        /\ Goto("restored")
     \/ /\ StartFails(call.old) /\ Synchronize(call.new, call.old)
        /\ call' = [call EXCEPT !.at = "restored", !.bad = TRUE]
     \/ /\ SynchronizeFails(call.new, call.old) /\ UNCHANGED <<live, running>>
        /\ call' = [call EXCEPT !.at = "restored", !.bad = TRUE]
  /\ UNCHANGED <<disk, backup, calls, ghost>>

\* failActivation and restoreInterruptedTransaction end alike: the record
\* goes back to what it was, or to one that asks for recovery and leaves the
\* transaction for the next command.
Undoing == call.then \in {"failed", "recovered"}

RestoreActivationRecord ==
  /\ At("restored") /\ Undoing /\ ~call.bad
  /\ \/ Fine /\ record' = txn.before /\ Goto("clear")
     \/ Fault /\ Goto("recovery record") /\ UNCHANGED record
  /\ UNCHANGED <<releases, current, txn, state, services, calls, ghost>>

\* Mutant: the record names `current` even when there is none.
WriteRecoveryRecordUnnamed ==
  /\ At("recovery record") \/ (At("restored") /\ Undoing /\ call.bad)
  /\ Fine /\ Return /\ record' = [active |-> current, previous |-> txn.previous,
                                  recovery |-> TRUE]
  /\ UNCHANGED <<releases, current, txn, state, services, calls, ghost>>

WriteRecoveryRecord ==
  /\ At("recovery record") \/ (At("restored") /\ Undoing /\ call.bad)
  /\ \/ Fine /\ record' = [active |-> IF current = None THEN txn.candidate ELSE current,
                           previous |-> txn.previous, recovery |-> TRUE]
     \/ Fault /\ UNCHANGED record
  /\ Return
  /\ UNCHANGED <<releases, current, txn, state, services, calls, ghost>>

(***************************************************************************)
(* commitRollback and the commands that lead to it.                        *)
(***************************************************************************)
\* commitRollback makes the previous release the candidate, and restores it
\* from the active one.
CommitRollback ==
  \/ /\ Fine /\ BeginTransaction(record.previous, record.active)
     /\ RestoreFor("rolled back", record.previous, record.active)
  \/ Fault /\ Return /\ UNCHANGED <<txn, ghost>>

CanCommitRollback == record.active \in releases /\ record.previous \in releases

Refused == Return /\ Fine /\ UNCHANGED <<txn, ghost>>

RollbackBody ==
  /\ At("body") /\ call.op = "rollback"
  /\ IF record # None /\ record.previous # None /\ CanCommitRollback
     THEN CommitRollback ELSE Refused
  /\ UNCHANGED <<releases, current, record, state, services, calls>>

\* rollbackCandidateLocked: the candidate must be the active release; one
\* without a predecessor is taken down without a transaction.
RollbackFirst ==
  /\ record.active \in releases /\ record.previous = None
  /\ RestoreFor("first", None, record.active)
  /\ Fine /\ UNCHANGED <<txn, ghost>>

RollbackCandidateLocked ==
  IF record = None \/ record.active # call.bundle THEN Refused
  ELSE IF record.previous = None THEN RollbackFirst
  ELSE IF CanCommitRollback THEN CommitRollback ELSE Refused

RollbackCandidateBody ==
  /\ At("body") /\ call.op = "rollback candidate" /\ RollbackCandidateLocked
  /\ UNCHANGED <<releases, current, record, state, services, calls>>

\* DeactivateCandidate, which goes on once the candidate is not active.
DeactivateBody ==
  /\ At("body") /\ call.op = "deactivate"
  /\ IF IF record = None THEN current = call.bundle ELSE current # record.active
     THEN Refused
     ELSE IF record # None /\ record.active = call.bundle
          THEN RollbackCandidateLocked
          ELSE Goto("forget") /\ Fine /\ UNCHANGED <<txn, ghost>>
  /\ UNCHANGED <<releases, current, record, state, services, calls>>

\* A rollback's record, or that of an installation's removal, which names no
\* previous release and so is not the final record of its transaction.
RolledBack ==
  /\ At("restored") /\ call.then \in {"rolled back", "removed"}
  /\ IF call.bad THEN FailActivation /\ Fine /\ UNCHANGED record
     ELSE \/ /\ Fine /\ Goto("clear")
             /\ record' = IF call.then = "removed"
                          THEN Record(call.old, None) ELSE txn.final
          \/ /\ Fault /\ UNCHANGED record
             /\ IF call.then = "removed" THEN Return ELSE FailActivation
  /\ UNCHANGED <<releases, current, txn, state, services, calls, ghost>>

FirstTakenDown ==
  /\ At("restored") /\ call.then = "first"
  /\ \/ /\ ~call.bad /\ Fine /\ record' = None
        /\ CASE call.op = "deactivate" -> Goto("forget")
             [] call.op = "remove" -> Goto("purge")
             [] OTHER -> Return
     \/ call.bad /\ Fine /\ Return /\ UNCHANGED record
     \/ Fault /\ Return /\ UNCHANGED record
  /\ UNCHANGED <<releases, current, txn, state, services, calls, ghost>>

\* The candidate leaves the rollback chain before its release is removed.
Forget ==
  /\ At("forget")
  /\ \/ /\ Fine
        /\ IF record # None /\ record.active = call.bundle THEN Return ELSE Goto("purge")
        /\ record' = IF record # None /\ record.active # call.bundle
                        /\ record.previous = call.bundle
                     THEN [record EXCEPT !.previous = None] ELSE record
     \/ Fault /\ Return /\ UNCHANGED record
  /\ UNCHANGED <<releases, current, txn, state, services, calls, ghost>>

\* Mutant: any other active release is taken for the baseline.
RemoveAnyBaseline ==
  /\ At("body") /\ call.op = "remove" /\ current # call.bundle
  /\ Goto("purge") /\ Fine
  /\ UNCHANGED <<txn, ghost, releases, current, record, state, services, calls>>

\* DeactivateInstallation restores the baseline, or nothing.
RemoveBody ==
  /\ At("body") /\ call.op = "remove"
  /\ IF current # call.bundle
     THEN IF current = call.other THEN Goto("purge") /\ Fine /\ UNCHANGED <<txn, ghost>>
          ELSE Refused
     ELSE IF call.other = None
          THEN RestoreFor("first", None, current) /\ Fine /\ UNCHANGED <<txn, ghost>>
     ELSE IF call.other \in releases /\ record # None /\ record.active = call.bundle
          THEN \/ /\ Fine /\ BeginTransaction(call.other, call.bundle)
                  /\ RestoreFor("removed", call.other, call.bundle)
               \/ Fault /\ Return /\ UNCHANGED <<txn, ghost>>
          ELSE Refused
  /\ UNCHANGED <<releases, current, record, state, services, calls>>

\* Releases are removed one directory at a time.
Purged == IF call.op = "remove" THEN call.owned ELSE {call.bundle}

Purge ==
  /\ At("purge")
  /\ \/ /\ \E b \in Purged \cap releases : releases' = releases \ {b}
        /\ Fine /\ UNCHANGED call
     \/ Purged \cap releases = {} /\ Fine /\ Return /\ UNCHANGED releases
     \/ Fault /\ Return /\ UNCHANGED releases
  /\ UNCHANGED <<current, record, txn, state, services, calls, ghost>>

\* RestartActive.
RestartBody ==
  /\ At("body") /\ call.op = "restart"
  /\ IF current # None /\ record # None /\ record.active = current
     THEN \/ Stop(current) /\ Goto("restart")
          \/ StopFails(current) /\ Return
     ELSE Return /\ Fine /\ UNCHANGED running
  /\ UNCHANGED <<disk, state, enabled, calls, ghost>>

RestartServices ==
  /\ At("restart") /\ Return
  /\ \/ /\ StartAndVerify(current) /\ enabled' = enabled \cup Of(current)
        /\ record' = IF record.recovery
                     THEN Record(record.active, IF record.previous = record.active
                                                THEN None ELSE record.previous)
                     ELSE record
     \/ /\ StartFails(current) /\ enabled' = enabled \cup Of(current)
        /\ UNCHANGED record
     \/ /\ Fault /\ \E S \in SUBSET Of(current) : enabled' = enabled \cup S
        /\ UNCHANGED <<live, running, record>>
  /\ UNCHANGED <<releases, current, txn, backup, calls, ghost>>

(***************************************************************************)
(* The command dies; the services keep running.                            *)
(***************************************************************************)
Crash ==
  /\ ~At(Idle) /\ Fault /\ Return
  /\ ghost' = [ghost EXCEPT !.broken = @ \cup ({call.moving} \cap ByFile)]
  /\ UNCHANGED <<disk, state, services, calls>>

Init ==
  /\ releases = {} /\ current = None /\ record = None /\ txn = None
  /\ live = [c \in Components |-> None]
  /\ backup = [c \in Components |-> [b \in Bundles |-> None]]
  /\ running = [c \in Components |-> None] /\ enabled = {}
  /\ call = NoCall /\ calls = 0 /\ faults = 0 /\ ghost = NoGhost

Commands ==
  \/ \E b \in Bundles : Activate(b) \/ DeactivateCandidate(b)
  \/ Rollback \/ RestartActive
  \/ \E b \in Bundles, prev \in Maybe(Bundles) : RollbackCandidate(b, prev)
  \/ \E b \in Bundles, baseline \in Maybe(Bundles), owned \in SUBSET Bundles :
       DeactivateInstallation(b, baseline, owned)

Steps ==
  \/ RecoverNothing \/ RecoverCommitted \/ RecoverInterrupted
  \/ Stage \/ BaselineRefused \/ ActiveAlready \/ CommitActivation
  \/ StopOld \/ SwitchCurrent \/ StartCandidate \/ CommitRecord
  \/ \E c \in Components : PrepareRefused(c) \/ ArchiveBegin(c)
  \/ ArchiveDirectory \/ ArchiveFile \/ ArchiveFilesDone
  \/ ClearTransaction
  \/ RestoreStop \/ RestoreFile \/ RestoreMoved \/ UndoDone \/ RestoreSwitch
  \/ \E c \in Components : RestoreNothing(c) \/ RestoreFails(c) \/ RestoreBegin(c)
  \/ RestoreServices \/ RestoreActivationRecord \/ WriteRecoveryRecord
  \/ RollbackBody \/ RollbackCandidateBody \/ RolledBack \/ FirstTakenDown
  \/ DeactivateBody \/ Forget \/ RemoveBody \/ Purge
  \/ RestartBody \/ RestartServices

Next == Commands \/ Steps \/ Crash

Spec == Init /\ [][Next]_vars

(***************************************************************************)
(* Properties.                                                             *)
(***************************************************************************)
Labels == {Idle, "recover", "body", "baseline", "stop", "prepare", "undo",
           "services", "commit", "clear", "restore stop", "restore",
           "restore services", "restored", "recovery record", "forget",
           "purge", "restart"}

\* Files, links, services and the command's locals have their types.
TypeOK ==
  /\ releases \subseteq Bundles /\ current \in Maybe(Bundles)
  /\ record \in Maybe(Records) /\ txn \in Maybe(Transactions)
  /\ live \in [Components -> Maybe(States)]
  /\ backup \in [Components -> [Bundles -> Maybe(States)]]
  /\ running \in [Components -> Maybe(Bundles)] /\ enabled \subseteq Components
  /\ call.at \in Labels /\ call.moving \in Maybe(Components)
  /\ call.old \in Maybe(Bundles) /\ call.new \in Maybe(Bundles)
  /\ call.todo \subseteq Components /\ call.done \subseteq Components
  /\ calls \in 0 .. MaxCalls /\ faults \in 0 .. MaxFaults

\* Without a transaction to recover, the link and the record agree
\* (activationSnapshotMatches): the link never names a release that the
\* record does not, and no record asks for a recovery.  Only the removal of
\* the last release, which has no transaction, can leave a record whose link
\* is gone.
RecordNamesCurrent ==
  (txn = None /\ At(Idle)) =>
    /\ current # None => record # None /\ record.active = current
    /\ record # None => ~record.recovery

\* validActivationTransaction.
ValidTransaction(t) ==
  /\ t.candidate # t.previous /\ (t.previous = None) = (t.before = None)
  /\ t.final.active = t.candidate /\ t.final.previous = t.previous
  /\ ~t.final.recovery
  /\ t.before # None => t.before.active = t.previous /\ ~t.before.recovery

\* Whatever a later command has to read is there: the release `current`
\* points to, and an unfinished transaction that passes validation and whose
\* releases, both of which restoreInterruptedTransaction needs, still exist.
RecoveryCanRead ==
  /\ current # None => current \in releases
  /\ txn # None => /\ ValidTransaction(txn)
                   /\ {txn.candidate, txn.previous} \subseteq Maybe(releases)

\* The data of before whose component was not left with a backup by an
\* earlier activation of the same candidate, and whose files were not cut off
\* in the middle of a move.
Covered(c) == c \notin ghost.left /\ c \notin ghost.broken

KeptIn(c, s) == \A f \in Files :
  LET datum == ghost.live[c][f]
  IN  ghost.live[c] # None /\ datum # None => s # None /\ s[f] = datum

\* An activation that does not commit gives every component back the state
\* it had before, whatever failed and however often the installer crashed
\* and recovered.
StateKept ==
  [][ txn # None /\ txn' = None /\ record # txn.final /\ ghost.op = "activate"
      => \A c \in Components : Covered(c) => KeptIn(c, live'[c]) ]_vars

\* At every moment of an activation the old state is somewhere restore will
\* find it: live, or in the backup of the candidate, which restoreState moves
\* back for the components it considers changed.
StateReachable ==
  txn # None /\ ghost.op = "activate" /\ record # txn.final =>
    \A c \in Components : Covered(c) /\ c \notin {call.moving} \cap ByFile =>
      \/ KeptIn(c, live[c])
      \/ /\ c \in Changed(txn.previous, txn.candidate) \cap Replace[txn.candidate]
         /\ backup[c][txn.candidate] # None
         /\ KeptIn(c, backup[c][txn.candidate])

\* A release becomes the active one of the record only while its services run
\* its executables and are enabled for the next boot, and no service that it
\* does not have is left of the release it replaced.
CommitIsVerified ==
  [][ record' \in Records /\ ~record'.recovery
        /\ (record = None \/ record.recovery \/ record.active # record'.active)
      => /\ Of(record'.active) \subseteq enabled'
         /\ \A c \in Components : running'[c] =
              IF c \in Of(record'.active) THEN record'.active ELSE None ]_vars

\* activate.go: "Activate stages and commits a complete release or restores
\* the previous one."  Stated for components that declare state_files too,
\* wherever the installer is cut off.
RestoresPrevious ==
  [][ txn # None /\ txn' = None /\ record # txn.final /\ ghost.op = "activate"
      => \A c \in Components :
           c \notin ghost.left => KeptIn(c, live'[c]) ]_vars
===============================================================================
