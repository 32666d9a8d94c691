------------------------- MODULE HostDeploymentProofs -------------------------
(***************************************************************************)
(* Proofs about HostDeployment.  IInv says what the journal on disk, and   *)
(* the one in the command's memory, know about the host at each point of a *)
(* command.                                                                *)
(***************************************************************************)
EXTENDS HostDeployment, TLAPS

Open == {"applying", "rolling_back", "recovery_required"}

\* No step is in effect, but for what an undo no longer sees.
Nothing == \A i \in Steps : host[i] \in {"old", "left"}

\* What an uncommitted journal may be relied on for: a step it does not
\* name as started is not in effect, and a finished one has its backup.
Sound(steps) ==
  \A i \in Steps :
    /\ steps[i] \in {"pending", "rolled_back"} => host[i] \in {"old", "left"}
    /\ steps[i] = "complete" /\ host[i] = "new" => i \in backup
    /\ steps[i] # "finalized"

Finalizable(steps) == \A i \in Steps : steps[i] \in {"complete", "finalized"}

DiskOK ==
  /\ disk.phase = "none" => Nothing \/ AllNew
  /\ disk.phase = "committed" =>
       AllNew /\ pc \in {"idle", "finish", "finalize", "finalized"}
  /\ disk.phase = "committed" => Finalizable(disk.steps)
  /\ disk.phase \in Open => Sound(disk.steps)

\* Run, up to its commit: the markers up to the index are on disk.
ApplyingOK ==
  pc \in {"mark", "apply", "complete", "applyFailed", "commit"} =>
    /\ mem = disk /\ disk.phase = "applying"
    /\ \A i \in Steps : mem.steps[i] = "complete" => host[i] = "new"
    /\ \A i \in Steps : i < run.index => mem.steps[i] = "complete"
    /\ pc \in {"apply", "complete", "applyFailed"} =>
         mem.steps[run.index] = "running"
    /\ pc = "complete" => host[run.index] = "new" /\ run.index \in backup
    /\ pc = "commit" => \A i \in Steps : mem.steps[i] = "complete"

RollbackOK ==
  /\ pc \in {"recover", "rollback", "undo", "undone"} =>
       disk.phase \in Open /\ Sound(mem.steps)
  /\ pc = "recover" => mem.phase \in Open
  /\ pc \in {"undo", "undone"} =>
       /\ mem.phase = "rolling_back"
       /\ \A i \in Steps : mem.steps[i] \in {"running", "complete"} =>
                             i \in run.todo \cup run.failed

FinalizeOK ==
  pc \in {"finalize", "finalized"} =>
    disk.phase = "committed" /\ mem.phase = "committed" /\ Finalizable(mem.steps)

ClearOK ==
  /\ pc \in {"receipt", "discard", "save", "restart", "plan", "run",
             "restartRun"} => disk.phase = "none"
  /\ pc = "run" => Nothing

IInv == TypeOK /\ DiskOK /\ ApplyingOK /\ RollbackOK /\ FinalizeOK /\ ClearOK

LEMMA NoJournalTyped == NoJournal \in Journals
  BY DEF NoJournal, Journals, Phases, StepStates

LEMMA NoRunTyped == NoRun \in Locals
  BY DeploymentAssumption DEF NoRun, Locals, Steps

LEMMA StartOK == ASSUME NEW apply \in BOOLEAN, IInv, Start(apply) PROVE IInv'
<1> USE DEF Start, When, Fault, Fine, Goto, Return, Write, WriteFails,
  Uninvolved
<1>1. disk' \in Journals /\ mem' \in Journals
  BY NoJournalTyped DEF IInv, TypeOK, Journals, Phases, StepStates, NoJournal
<1>2. run' \in Locals
  BY NoRunTyped, DeploymentAssumption DEF IInv, TypeOK, Locals, Flags, Steps,
    NoRun
<1>3. /\ host' \in [Steps -> Effects] /\ backup' \subseteq Steps
      /\ LeftBehind' \subseteq Accounts \cup Clients
  BY DEF IInv, TypeOK, Effects, Locals, LeftBehind
<1>4. receipt' \subseteq {"pending", "saved"} /\ pc' \in Labels
  BY DEF IInv, TypeOK, Labels
<1>5. stale' \in BOOLEAN
  BY DEF IInv, TypeOK
<1>6. faults' \in Nat
  BY DEF IInv, TypeOK
<1>7. DiskOK'
  BY DEF IInv, TypeOK, Journals, Locals, NoJournal, DiskOK, ApplyingOK,
    RollbackOK, FinalizeOK, ClearOK, Open, Sound, Finalizable, Nothing, AllNew
<1>8. ApplyingOK'
  BY DeploymentAssumption DEF IInv, TypeOK, Journals, Locals, NoJournal,
    DiskOK, ApplyingOK, RollbackOK, FinalizeOK, ClearOK, Open, Sound,
    Finalizable, Nothing, AllNew, Steps
<1>9. RollbackOK' /\ FinalizeOK' /\ ClearOK'
  BY DEF IInv, TypeOK, Journals, Locals, NoJournal, DiskOK, ApplyingOK,
    RollbackOK, FinalizeOK, ClearOK, Open, Sound, Finalizable, Nothing, AllNew
<1> QED
  BY <1>1, <1>2, <1>3, <1>4, <1>5, <1>6, <1>7, <1>8, <1>9 DEF IInv, TypeOK

LEMMA FinishInterruptedOK == ASSUME IInv, FinishInterrupted PROVE IInv'
<1> USE DEF FinishInterrupted, When, Fault, Fine, Goto, Return, Write,
  WriteFails, Uninvolved
<1>1. disk' \in Journals /\ mem' \in Journals
  BY NoJournalTyped DEF IInv, TypeOK, Journals, Phases, StepStates, NoJournal
<1>2. run' \in Locals
  BY NoRunTyped, DeploymentAssumption DEF IInv, TypeOK, Locals, Flags, Steps,
    NoRun
<1>3. /\ host' \in [Steps -> Effects] /\ backup' \subseteq Steps
      /\ LeftBehind' \subseteq Accounts \cup Clients
  BY DEF IInv, TypeOK, Effects, Locals, LeftBehind
<1>4. receipt' \subseteq {"pending", "saved"} /\ pc' \in Labels
  BY DEF IInv, TypeOK, Labels
<1>5. stale' \in BOOLEAN
  BY DEF IInv, TypeOK
<1>6. faults' \in Nat
  BY DEF IInv, TypeOK
<1>7. DiskOK'
  BY DEF IInv, TypeOK, Journals, Locals, NoJournal, DiskOK, ApplyingOK,
    RollbackOK, FinalizeOK, ClearOK, Open, Sound, Finalizable, Nothing, AllNew
<1>8. ApplyingOK'
  BY DeploymentAssumption DEF IInv, TypeOK, Journals, Locals, NoJournal,
    DiskOK, ApplyingOK, RollbackOK, FinalizeOK, ClearOK, Open, Sound,
    Finalizable, Nothing, AllNew, Steps
<1>9. RollbackOK' /\ FinalizeOK' /\ ClearOK'
  BY DEF IInv, TypeOK, Journals, Phases, Locals, DiskOK, ApplyingOK,
    RollbackOK, FinalizeOK, ClearOK, Open, Sound, Finalizable, Nothing, AllNew
<1> QED
  BY <1>1, <1>2, <1>3, <1>4, <1>5, <1>6, <1>7, <1>8, <1>9 DEF IInv, TypeOK

LEMMA CommitPendingReceiptOK == ASSUME IInv, CommitPendingReceipt PROVE IInv'
<1> USE DEF CommitPendingReceipt, Fault, Fine, Goto, Return, Write,
  WriteFails, Uninvolved
<1>1. disk' \in Journals /\ mem' \in Journals
  BY NoJournalTyped DEF IInv, TypeOK, Journals, Phases, StepStates, NoJournal
<1>2. run' \in Locals
  BY NoRunTyped, DeploymentAssumption DEF IInv, TypeOK, Locals, Flags, Steps,
    NoRun
<1>3. /\ host' \in [Steps -> Effects] /\ backup' \subseteq Steps
      /\ LeftBehind' \subseteq Accounts \cup Clients
  BY DEF IInv, TypeOK, Effects, Locals, LeftBehind
<1>4. receipt' \subseteq {"pending", "saved"} /\ pc' \in Labels
  BY DEF IInv, TypeOK, Labels
<1>5. stale' \in BOOLEAN
  BY DEF IInv, TypeOK
<1>6. faults' \in Nat
  BY DEF IInv, TypeOK
<1>7. DiskOK'
  BY DEF IInv, TypeOK, Journals, Locals, NoJournal, DiskOK, ApplyingOK,
    RollbackOK, FinalizeOK, ClearOK, Open, Sound, Finalizable, Nothing, AllNew
<1>8. ApplyingOK'
  BY DeploymentAssumption DEF IInv, TypeOK, Journals, Locals, NoJournal,
    DiskOK, ApplyingOK, RollbackOK, FinalizeOK, ClearOK, Open, Sound,
    Finalizable, Nothing, AllNew, Steps
<1>9. RollbackOK' /\ FinalizeOK' /\ ClearOK'
  BY DEF IInv, TypeOK, Journals, Locals, NoJournal, DiskOK, ApplyingOK,
    RollbackOK, FinalizeOK, ClearOK, Open, Sound, Finalizable, Nothing, AllNew
<1> QED
  BY <1>1, <1>2, <1>3, <1>4, <1>5, <1>6, <1>7, <1>8, <1>9 DEF IInv, TypeOK

LEMMA DiscardPendingReceiptOK == ASSUME IInv, DiscardPendingReceipt PROVE IInv'
<1> USE DEF DiscardPendingReceipt, Fault, Fine, Goto, Return, Write,
  WriteFails, Uninvolved
<1>1. disk' \in Journals /\ mem' \in Journals
  BY NoJournalTyped DEF IInv, TypeOK, Journals, Phases, StepStates, NoJournal
<1>2. run' \in Locals
  BY NoRunTyped, DeploymentAssumption DEF IInv, TypeOK, Locals, Flags, Steps,
    NoRun
<1>3. /\ host' \in [Steps -> Effects] /\ backup' \subseteq Steps
      /\ LeftBehind' \subseteq Accounts \cup Clients
  BY DEF IInv, TypeOK, Effects, Locals, LeftBehind
<1>4. receipt' \subseteq {"pending", "saved"} /\ pc' \in Labels
  BY DEF IInv, TypeOK, Labels
<1>5. stale' \in BOOLEAN
  BY DEF IInv, TypeOK
<1>6. faults' \in Nat
  BY DEF IInv, TypeOK
<1>7. DiskOK'
  BY DEF IInv, TypeOK, Journals, Locals, NoJournal, DiskOK, ApplyingOK,
    RollbackOK, FinalizeOK, ClearOK, Open, Sound, Finalizable, Nothing, AllNew
<1>8. ApplyingOK'
  BY DeploymentAssumption DEF IInv, TypeOK, Journals, Locals, NoJournal,
    DiskOK, ApplyingOK, RollbackOK, FinalizeOK, ClearOK, Open, Sound,
    Finalizable, Nothing, AllNew, Steps
<1>9. RollbackOK' /\ FinalizeOK' /\ ClearOK'
  BY DEF IInv, TypeOK, Journals, Locals, NoJournal, DiskOK, ApplyingOK,
    RollbackOK, FinalizeOK, ClearOK, Open, Sound, Finalizable, Nothing, AllNew
<1> QED
  BY <1>1, <1>2, <1>3, <1>4, <1>5, <1>6, <1>7, <1>8, <1>9 DEF IInv, TypeOK

LEMMA RestartOK == ASSUME IInv, Restart PROVE IInv'
<1> USE DEF Restart, Fault, Fine, Goto, Return, Write, WriteFails, Uninvolved
<1>1. disk' \in Journals /\ mem' \in Journals
  BY NoJournalTyped DEF IInv, TypeOK, Journals, Phases, StepStates, NoJournal
<1>2. run' \in Locals
  BY NoRunTyped, DeploymentAssumption DEF IInv, TypeOK, Locals, Flags, Steps,
    NoRun
<1>3. /\ host' \in [Steps -> Effects] /\ backup' \subseteq Steps
      /\ LeftBehind' \subseteq Accounts \cup Clients
  BY DEF IInv, TypeOK, Effects, Locals, LeftBehind
<1>4. receipt' \subseteq {"pending", "saved"} /\ pc' \in Labels
  BY DEF IInv, TypeOK, Labels
<1>5. stale' \in BOOLEAN
  BY DEF IInv, TypeOK
<1>6. faults' \in Nat
  BY DEF IInv, TypeOK
<1>7. DiskOK'
  BY DEF IInv, TypeOK, Journals, Locals, NoJournal, DiskOK, ApplyingOK,
    RollbackOK, FinalizeOK, ClearOK, Open, Sound, Finalizable, Nothing, AllNew
<1>8. ApplyingOK'
  BY DeploymentAssumption DEF IInv, TypeOK, Journals, Locals, NoJournal,
    DiskOK, ApplyingOK, RollbackOK, FinalizeOK, ClearOK, Open, Sound,
    Finalizable, Nothing, AllNew, Steps
<1>9. RollbackOK' /\ FinalizeOK' /\ ClearOK'
  BY DEF IInv, TypeOK, Journals, Locals, NoJournal, DiskOK, ApplyingOK,
    RollbackOK, FinalizeOK, ClearOK, Open, Sound, Finalizable, Nothing, AllNew
<1> QED
  BY <1>1, <1>2, <1>3, <1>4, <1>5, <1>6, <1>7, <1>8, <1>9 DEF IInv, TypeOK

LEMMA FinalizeWriteOK == ASSUME IInv, FinalizeWrite PROVE IInv'
<1> USE DEF FinalizeWrite, Fault, Fine, Goto, Return, Write, WriteFails,
  Uninvolved
<1>1. disk' \in Journals /\ mem' \in Journals
  BY NoJournalTyped DEF IInv, TypeOK, Journals, Phases, StepStates, NoJournal
<1>2. run' \in Locals
  BY NoRunTyped, DeploymentAssumption DEF IInv, TypeOK, Locals, Flags, Steps,
    NoRun
<1>3. /\ host' \in [Steps -> Effects] /\ backup' \subseteq Steps
      /\ LeftBehind' \subseteq Accounts \cup Clients
  BY DEF IInv, TypeOK, Effects, Locals, LeftBehind
<1>4. receipt' \subseteq {"pending", "saved"} /\ pc' \in Labels
  BY DEF IInv, TypeOK, Labels
<1>5. stale' \in BOOLEAN
  BY DEF IInv, TypeOK
<1>6. faults' \in Nat
  BY DEF IInv, TypeOK
<1>7. DiskOK'
  BY DEF IInv, TypeOK, Journals, Locals, NoJournal, DiskOK, ApplyingOK,
    RollbackOK, FinalizeOK, ClearOK, Open, Sound, Finalizable, Nothing, AllNew
<1>8. ApplyingOK'
  BY DeploymentAssumption DEF IInv, TypeOK, Journals, Locals, NoJournal,
    DiskOK, ApplyingOK, RollbackOK, FinalizeOK, ClearOK, Open, Sound,
    Finalizable, Nothing, AllNew, Steps
<1>9. RollbackOK' /\ FinalizeOK' /\ ClearOK'
  BY DEF IInv, TypeOK, Journals, Locals, NoJournal, DiskOK, ApplyingOK,
    RollbackOK, FinalizeOK, ClearOK, Open, Sound, Finalizable, Nothing, AllNew
<1> QED
  BY <1>1, <1>2, <1>3, <1>4, <1>5, <1>6, <1>7, <1>8, <1>9 DEF IInv, TypeOK

LEMMA FinalizeClearOK == ASSUME IInv, FinalizeClear PROVE IInv'
<1> USE DEF FinalizeClear, Fault, Fine, Goto, Return, Write, WriteFails,
  Uninvolved
<1>1. disk' \in Journals /\ mem' \in Journals
  BY NoJournalTyped DEF IInv, TypeOK, Journals, Phases, StepStates, NoJournal
<1>2. run' \in Locals
  BY NoRunTyped, DeploymentAssumption DEF IInv, TypeOK, Locals, Flags, Steps,
    NoRun
<1>3. /\ host' \in [Steps -> Effects] /\ backup' \subseteq Steps
      /\ LeftBehind' \subseteq Accounts \cup Clients
  BY DEF IInv, TypeOK, Effects, Locals, LeftBehind
<1>4. receipt' \subseteq {"pending", "saved"} /\ pc' \in Labels
  BY DEF IInv, TypeOK, Labels
<1>5. stale' \in BOOLEAN
  BY DEF IInv, TypeOK
<1>6. faults' \in Nat
  BY DEF IInv, TypeOK
<1>7. DiskOK'
  BY DEF IInv, TypeOK, Journals, Locals, NoJournal, DiskOK, ApplyingOK,
    RollbackOK, FinalizeOK, ClearOK, Open, Sound, Finalizable, Nothing, AllNew
<1>8. ApplyingOK'
  BY DeploymentAssumption DEF IInv, TypeOK, Journals, Locals, NoJournal,
    DiskOK, ApplyingOK, RollbackOK, FinalizeOK, ClearOK, Open, Sound,
    Finalizable, Nothing, AllNew, Steps
<1>9. RollbackOK' /\ FinalizeOK' /\ ClearOK'
  BY DEF IInv, TypeOK, Journals, Locals, NoJournal, DiskOK, ApplyingOK,
    RollbackOK, FinalizeOK, ClearOK, Open, Sound, Finalizable, Nothing, AllNew
<1> QED
  BY <1>1, <1>2, <1>3, <1>4, <1>5, <1>6, <1>7, <1>8, <1>9 DEF IInv, TypeOK

LEMMA RecoverOK == ASSUME IInv, Recover PROVE IInv'
<1> USE DEF Recover, Fault, Fine, Goto, Return, Write, WriteFails, Uninvolved
<1>1. disk' \in Journals /\ mem' \in Journals
  BY NoJournalTyped DEF IInv, TypeOK, Journals, Phases, StepStates, NoJournal
<1>2. run' \in Locals
  BY NoRunTyped, DeploymentAssumption DEF IInv, TypeOK, Locals, Flags, Steps,
    NoRun
<1>3. /\ host' \in [Steps -> Effects] /\ backup' \subseteq Steps
      /\ LeftBehind' \subseteq Accounts \cup Clients
  BY DEF IInv, TypeOK, Effects, Locals, LeftBehind
<1>4. receipt' \subseteq {"pending", "saved"} /\ pc' \in Labels
  BY DEF IInv, TypeOK, Labels
<1>5. stale' \in BOOLEAN
  BY DEF IInv, TypeOK
<1>6. faults' \in Nat
  BY DEF IInv, TypeOK
<1>7. DiskOK'
  BY DEF IInv, TypeOK, Journals, Locals, NoJournal, DiskOK, ApplyingOK,
    RollbackOK, FinalizeOK, ClearOK, Open, Sound, Finalizable, Nothing, AllNew
<1>8. ApplyingOK'
  BY DeploymentAssumption DEF IInv, TypeOK, Journals, Locals, NoJournal,
    DiskOK, ApplyingOK, RollbackOK, FinalizeOK, ClearOK, Open, Sound,
    Finalizable, Nothing, AllNew, Steps
<1>9. RollbackOK' /\ FinalizeOK' /\ ClearOK'
  BY DEF IInv, TypeOK, Journals, Locals, NoJournal, DiskOK, ApplyingOK,
    RollbackOK, FinalizeOK, ClearOK, Open, Sound, Finalizable, Nothing, AllNew
<1> QED
  BY <1>1, <1>2, <1>3, <1>4, <1>5, <1>6, <1>7, <1>8, <1>9 DEF IInv, TypeOK

LEMMA RecoverUncertainOK == ASSUME IInv, RecoverUncertain PROVE IInv'
<1> USE DEF RecoverUncertain, Fault, Fine, Goto, Return, Write, WriteFails,
  Uninvolved
<1>1. disk' \in Journals /\ mem' \in Journals
  BY NoJournalTyped DEF IInv, TypeOK, Journals, Phases, StepStates, NoJournal
<1>2. run' \in Locals
  BY NoRunTyped, DeploymentAssumption DEF IInv, TypeOK, Locals, Flags, Steps,
    NoRun
<1>3. /\ host' \in [Steps -> Effects] /\ backup' \subseteq Steps
      /\ LeftBehind' \subseteq Accounts \cup Clients
  BY DEF IInv, TypeOK, Effects, Locals, LeftBehind
<1>4. receipt' \subseteq {"pending", "saved"} /\ pc' \in Labels
  BY DEF IInv, TypeOK, Labels
<1>5. stale' \in BOOLEAN
  BY DEF IInv, TypeOK
<1>6. faults' \in Nat
  BY DEF IInv, TypeOK
<1>7. DiskOK'
  BY DEF IInv, TypeOK, Journals, Locals, NoJournal, DiskOK, ApplyingOK,
    RollbackOK, FinalizeOK, ClearOK, Open, Sound, Finalizable, Nothing, AllNew
<1>8. ApplyingOK'
  BY DeploymentAssumption DEF IInv, TypeOK, Journals, Locals, NoJournal,
    DiskOK, ApplyingOK, RollbackOK, FinalizeOK, ClearOK, Open, Sound,
    Finalizable, Nothing, AllNew, Steps
<1>9. RollbackOK' /\ FinalizeOK' /\ ClearOK'
  BY DEF IInv, TypeOK, Journals, Locals, NoJournal, DiskOK, ApplyingOK,
    RollbackOK, FinalizeOK, ClearOK, Open, Sound, Finalizable, Nothing, AllNew
<1> QED
  BY <1>1, <1>2, <1>3, <1>4, <1>5, <1>6, <1>7, <1>8, <1>9 DEF IInv, TypeOK

LEMMA RollbackBeginOK == ASSUME IInv, RollbackBegin PROVE IInv'
<1> USE DEF RollbackBegin, Unfinished, Fault, Fine, Goto, Return, Write,
  WriteFails, Uninvolved
<1>1. disk' \in Journals /\ mem' \in Journals
  BY NoJournalTyped DEF IInv, TypeOK, Journals, Phases, StepStates, NoJournal
<1>2. run' \in Locals
  BY NoRunTyped, DeploymentAssumption DEF IInv, TypeOK, Locals, Flags, Steps,
    NoRun
<1>3. /\ host' \in [Steps -> Effects] /\ backup' \subseteq Steps
      /\ LeftBehind' \subseteq Accounts \cup Clients
  BY DEF IInv, TypeOK, Effects, Locals, LeftBehind
<1>4. receipt' \subseteq {"pending", "saved"} /\ pc' \in Labels
  BY DEF IInv, TypeOK, Labels
<1>5. stale' \in BOOLEAN
  BY DEF IInv, TypeOK
<1>6. faults' \in Nat
  BY DEF IInv, TypeOK
<1>7. DiskOK'
  BY DEF IInv, TypeOK, Journals, Locals, NoJournal, DiskOK, ApplyingOK,
    RollbackOK, FinalizeOK, ClearOK, Open, Sound, Finalizable, Nothing, AllNew
<1>8. ApplyingOK'
  BY DeploymentAssumption DEF IInv, TypeOK, Journals, Locals, NoJournal,
    DiskOK, ApplyingOK, RollbackOK, FinalizeOK, ClearOK, Open, Sound,
    Finalizable, Nothing, AllNew, Steps
<1>9. RollbackOK' /\ FinalizeOK' /\ ClearOK'
  BY DEF IInv, TypeOK, Journals, Locals, NoJournal, DiskOK, ApplyingOK,
    RollbackOK, FinalizeOK, ClearOK, Open, Sound, Finalizable, Nothing, AllNew
<1> QED
  BY <1>1, <1>2, <1>3, <1>4, <1>5, <1>6, <1>7, <1>8, <1>9 DEF IInv, TypeOK

LEMMA UndoWriteOK == ASSUME IInv, UndoWrite PROVE IInv'
<1> USE DEF UndoWrite, Fault, Fine, Goto, Return, Write, WriteFails, Uninvolved
<1>1. disk' \in Journals /\ mem' \in Journals
  BY NoJournalTyped DEF IInv, TypeOK, Journals, Phases, StepStates, NoJournal
<1>2. run' \in Locals
  BY NoRunTyped, DeploymentAssumption DEF IInv, TypeOK, Locals, Flags, Steps,
    NoRun
<1>3. /\ host' \in [Steps -> Effects] /\ backup' \subseteq Steps
      /\ LeftBehind' \subseteq Accounts \cup Clients
  BY DEF IInv, TypeOK, Effects, Locals, LeftBehind
<1>4. receipt' \subseteq {"pending", "saved"} /\ pc' \in Labels
  BY DEF IInv, TypeOK, Labels
<1>5. stale' \in BOOLEAN
  BY DEF IInv, TypeOK
<1>6. faults' \in Nat
  BY DEF IInv, TypeOK
<1>7. DiskOK'
  BY DEF IInv, TypeOK, Journals, Locals, NoJournal, DiskOK, ApplyingOK,
    RollbackOK, FinalizeOK, ClearOK, Open, Sound, Finalizable, Nothing, AllNew
<1>8. ApplyingOK'
  BY DeploymentAssumption DEF IInv, TypeOK, Journals, Locals, NoJournal,
    DiskOK, ApplyingOK, RollbackOK, FinalizeOK, ClearOK, Open, Sound,
    Finalizable, Nothing, AllNew, Steps
<1>9. RollbackOK' /\ FinalizeOK' /\ ClearOK'
  BY DEF IInv, TypeOK, Journals, Locals, NoJournal, DiskOK, ApplyingOK,
    RollbackOK, FinalizeOK, ClearOK, Open, Sound, Finalizable, Nothing, AllNew
<1> QED
  BY <1>1, <1>2, <1>3, <1>4, <1>5, <1>6, <1>7, <1>8, <1>9 DEF IInv, TypeOK

LEMMA UndoAgainOK == ASSUME IInv, UndoAgain PROVE IInv'
<1> USE DEF UndoAgain, Fault, Fine, Goto, Return, Write, WriteFails, Uninvolved
<1>1. disk' \in Journals /\ mem' \in Journals
  BY NoJournalTyped DEF IInv, TypeOK, Journals, Phases, StepStates, NoJournal
<1>2. run' \in Locals
  BY NoRunTyped, DeploymentAssumption DEF IInv, TypeOK, Locals, Flags, Steps,
    NoRun
<1>3. /\ host' \in [Steps -> Effects] /\ backup' \subseteq Steps
      /\ LeftBehind' \subseteq Accounts \cup Clients
  BY DEF IInv, TypeOK, Effects, Locals, LeftBehind
<1>4. receipt' \subseteq {"pending", "saved"} /\ pc' \in Labels
  BY DEF IInv, TypeOK, Labels
<1>5. stale' \in BOOLEAN
  BY DEF IInv, TypeOK
<1>6. faults' \in Nat
  BY DEF IInv, TypeOK
<1>7. DiskOK'
  BY DEF IInv, TypeOK, Journals, Locals, NoJournal, DiskOK, ApplyingOK,
    RollbackOK, FinalizeOK, ClearOK, Open, Sound, Finalizable, Nothing, AllNew
<1>8. ApplyingOK'
  BY DeploymentAssumption DEF IInv, TypeOK, Journals, Locals, NoJournal,
    DiskOK, ApplyingOK, RollbackOK, FinalizeOK, ClearOK, Open, Sound,
    Finalizable, Nothing, AllNew, Steps
<1>9. RollbackOK' /\ FinalizeOK' /\ ClearOK'
  BY DEF IInv, TypeOK, Journals, Locals, NoJournal, DiskOK, ApplyingOK,
    RollbackOK, FinalizeOK, ClearOK, Open, Sound, Finalizable, Nothing, AllNew
<1> QED
  BY <1>1, <1>2, <1>3, <1>4, <1>5, <1>6, <1>7, <1>8, <1>9 DEF IInv, TypeOK

LEMMA RollbackFailsOK == ASSUME IInv, RollbackFails PROVE IInv'
<1> USE DEF RollbackFails, Fault, Fine, Goto, Return, Write, WriteFails,
  Uninvolved
<1>1. disk' \in Journals /\ mem' \in Journals
  BY NoJournalTyped DEF IInv, TypeOK, Journals, Phases, StepStates, NoJournal
<1>2. run' \in Locals
  BY NoRunTyped, DeploymentAssumption DEF IInv, TypeOK, Locals, Flags, Steps,
    NoRun
<1>3. /\ host' \in [Steps -> Effects] /\ backup' \subseteq Steps
      /\ LeftBehind' \subseteq Accounts \cup Clients
  BY DEF IInv, TypeOK, Effects, Locals, LeftBehind
<1>4. receipt' \subseteq {"pending", "saved"} /\ pc' \in Labels
  BY DEF IInv, TypeOK, Labels
<1>5. stale' \in BOOLEAN
  BY DEF IInv, TypeOK
<1>6. faults' \in Nat
  BY DEF IInv, TypeOK
<1>7. DiskOK'
  BY DEF IInv, TypeOK, Journals, Locals, NoJournal, DiskOK, ApplyingOK,
    RollbackOK, FinalizeOK, ClearOK, Open, Sound, Finalizable, Nothing, AllNew
<1>8. ApplyingOK'
  BY DeploymentAssumption DEF IInv, TypeOK, Journals, Locals, NoJournal,
    DiskOK, ApplyingOK, RollbackOK, FinalizeOK, ClearOK, Open, Sound,
    Finalizable, Nothing, AllNew, Steps
<1>9. RollbackOK' /\ FinalizeOK' /\ ClearOK'
  BY DEF IInv, TypeOK, Journals, Locals, NoJournal, DiskOK, ApplyingOK,
    RollbackOK, FinalizeOK, ClearOK, Open, Sound, Finalizable, Nothing, AllNew
<1> QED
  BY <1>1, <1>2, <1>3, <1>4, <1>5, <1>6, <1>7, <1>8, <1>9 DEF IInv, TypeOK

LEMMA RollbackClearOK == ASSUME IInv, RollbackClear PROVE IInv'
<1> USE DEF RollbackClear, Fault, Fine, Goto, Return, Write, WriteFails,
  Uninvolved
<1>1. disk' \in Journals /\ mem' \in Journals
  BY NoJournalTyped DEF IInv, TypeOK, Journals, Phases, StepStates, NoJournal
<1>2. run' \in Locals
  BY NoRunTyped, DeploymentAssumption DEF IInv, TypeOK, Locals, Flags, Steps,
    NoRun
<1>3. /\ host' \in [Steps -> Effects] /\ backup' \subseteq Steps
      /\ LeftBehind' \subseteq Accounts \cup Clients
  BY DEF IInv, TypeOK, Effects, Locals, LeftBehind
<1>4. receipt' \subseteq {"pending", "saved"} /\ pc' \in Labels
  BY DEF IInv, TypeOK, Labels
<1>5. stale' \in BOOLEAN
  BY DEF IInv, TypeOK
<1>6. faults' \in Nat
  BY DEF IInv, TypeOK
<1>7. DiskOK'
  <2>1. Nothing
    BY DEF IInv, TypeOK, Journals, StepStates, RollbackOK, Sound, Nothing
  <2> QED BY <2>1 DEF IInv, TypeOK, Journals, Locals, NoJournal, DiskOK,
    ApplyingOK, RollbackOK, FinalizeOK, ClearOK, Open, Sound, Finalizable,
    Nothing, AllNew
<1>8. ApplyingOK'
  BY DeploymentAssumption DEF IInv, TypeOK, Journals, Locals, NoJournal,
    DiskOK, ApplyingOK, RollbackOK, FinalizeOK, ClearOK, Open, Sound,
    Finalizable, Nothing, AllNew, Steps
<1>9. RollbackOK' /\ FinalizeOK' /\ ClearOK'
  BY DEF IInv, TypeOK, Journals, Locals, NoJournal, DiskOK, ApplyingOK,
    RollbackOK, FinalizeOK, ClearOK, Open, Sound, Finalizable, Nothing, AllNew
<1> QED
  BY <1>1, <1>2, <1>3, <1>4, <1>5, <1>6, <1>7, <1>8, <1>9 DEF IInv, TypeOK

LEMMA NoopOK == ASSUME IInv, Noop PROVE IInv'
<1> USE DEF Noop, Fault, Fine, Goto, Return, Write, WriteFails, Uninvolved
<1>1. disk' \in Journals /\ mem' \in Journals
  BY NoJournalTyped DEF IInv, TypeOK, Journals, Phases, StepStates, NoJournal
<1>2. run' \in Locals
  BY NoRunTyped, DeploymentAssumption DEF IInv, TypeOK, Locals, Flags, Steps,
    NoRun
<1>3. /\ host' \in [Steps -> Effects] /\ backup' \subseteq Steps
      /\ LeftBehind' \subseteq Accounts \cup Clients
  BY DEF IInv, TypeOK, Effects, Locals, LeftBehind
<1>4. receipt' \subseteq {"pending", "saved"} /\ pc' \in Labels
  BY DEF IInv, TypeOK, Labels
<1>5. stale' \in BOOLEAN
  BY DEF IInv, TypeOK
<1>6. faults' \in Nat
  BY DEF IInv, TypeOK
<1>7. DiskOK'
  BY DEF IInv, TypeOK, Journals, Locals, NoJournal, DiskOK, ApplyingOK,
    RollbackOK, FinalizeOK, ClearOK, Open, Sound, Finalizable, Nothing, AllNew
<1>8. ApplyingOK'
  BY DeploymentAssumption DEF IInv, TypeOK, Journals, Locals, NoJournal,
    DiskOK, ApplyingOK, RollbackOK, FinalizeOK, ClearOK, Open, Sound,
    Finalizable, Nothing, AllNew, Steps
<1>9. RollbackOK' /\ FinalizeOK' /\ ClearOK'
  BY DEF IInv, TypeOK, Journals, Locals, NoJournal, DiskOK, ApplyingOK,
    RollbackOK, FinalizeOK, ClearOK, Open, Sound, Finalizable, Nothing, AllNew
<1> QED
  BY <1>1, <1>2, <1>3, <1>4, <1>5, <1>6, <1>7, <1>8, <1>9 DEF IInv, TypeOK

LEMMA StagePendingReceiptOK == ASSUME IInv, StagePendingReceipt PROVE IInv'
<1> USE DEF StagePendingReceipt, Fault, Fine, Goto, Return, Write, WriteFails,
  Uninvolved
<1>1. disk' \in Journals /\ mem' \in Journals
  BY NoJournalTyped DEF IInv, TypeOK, Journals, Phases, StepStates, NoJournal
<1>2. run' \in Locals
  BY NoRunTyped, DeploymentAssumption DEF IInv, TypeOK, Locals, Flags, Steps,
    NoRun
<1>3. /\ host' \in [Steps -> Effects] /\ backup' \subseteq Steps
      /\ LeftBehind' \subseteq Accounts \cup Clients
  BY DEF IInv, TypeOK, Effects, Locals, LeftBehind
<1>4. receipt' \subseteq {"pending", "saved"} /\ pc' \in Labels
  BY DEF IInv, TypeOK, Labels
<1>5. stale' \in BOOLEAN
  BY DEF IInv, TypeOK
<1>6. faults' \in Nat
  BY DEF IInv, TypeOK
<1>7. DiskOK'
  BY DEF IInv, TypeOK, Journals, Locals, NoJournal, DiskOK, ApplyingOK,
    RollbackOK, FinalizeOK, ClearOK, Open, Sound, Finalizable, Nothing, AllNew
<1>8. ApplyingOK'
  BY DeploymentAssumption DEF IInv, TypeOK, Journals, Locals, NoJournal,
    DiskOK, ApplyingOK, RollbackOK, FinalizeOK, ClearOK, Open, Sound,
    Finalizable, Nothing, AllNew, Steps
<1>9. RollbackOK' /\ FinalizeOK' /\ ClearOK'
  BY DEF IInv, TypeOK, Journals, Locals, NoJournal, DiskOK, ApplyingOK,
    RollbackOK, FinalizeOK, ClearOK, Open, Sound, Finalizable, Nothing, AllNew
<1> QED
  BY <1>1, <1>2, <1>3, <1>4, <1>5, <1>6, <1>7, <1>8, <1>9 DEF IInv, TypeOK

LEMMA StepsRefusedOK == ASSUME IInv, StepsRefused PROVE IInv'
<1> USE DEF StepsRefused, Fault, Fine, Goto, Return, Write, WriteFails,
  Uninvolved
<1>1. disk' \in Journals /\ mem' \in Journals
  BY NoJournalTyped DEF IInv, TypeOK, Journals, Phases, StepStates, NoJournal
<1>2. run' \in Locals
  BY NoRunTyped, DeploymentAssumption DEF IInv, TypeOK, Locals, Flags, Steps,
    NoRun
<1>3. /\ host' \in [Steps -> Effects] /\ backup' \subseteq Steps
      /\ LeftBehind' \subseteq Accounts \cup Clients
  BY DEF IInv, TypeOK, Effects, Locals, LeftBehind
<1>4. receipt' \subseteq {"pending", "saved"} /\ pc' \in Labels
  BY DEF IInv, TypeOK, Labels
<1>5. stale' \in BOOLEAN
  BY DEF IInv, TypeOK
<1>6. faults' \in Nat
  BY DEF IInv, TypeOK
<1>7. DiskOK'
  BY DEF IInv, TypeOK, Journals, Locals, NoJournal, DiskOK, ApplyingOK,
    RollbackOK, FinalizeOK, ClearOK, Open, Sound, Finalizable, Nothing, AllNew
<1>8. ApplyingOK'
  BY DeploymentAssumption DEF IInv, TypeOK, Journals, Locals, NoJournal,
    DiskOK, ApplyingOK, RollbackOK, FinalizeOK, ClearOK, Open, Sound,
    Finalizable, Nothing, AllNew, Steps
<1>9. RollbackOK' /\ FinalizeOK' /\ ClearOK'
  BY DEF IInv, TypeOK, Journals, Locals, NoJournal, DiskOK, ApplyingOK,
    RollbackOK, FinalizeOK, ClearOK, Open, Sound, Finalizable, Nothing, AllNew
<1> QED
  BY <1>1, <1>2, <1>3, <1>4, <1>5, <1>6, <1>7, <1>8, <1>9 DEF IInv, TypeOK

LEMMA RunBeginOK == ASSUME IInv, RunBegin PROVE IInv'
<1> USE DEF RunBegin, Fault, Fine, Goto, Return, Write, WriteFails, Uninvolved
<1>1. disk' \in Journals /\ mem' \in Journals
  BY NoJournalTyped DEF IInv, TypeOK, Journals, Phases, StepStates, NoJournal
<1>2. run' \in Locals
  BY NoRunTyped, DeploymentAssumption DEF IInv, TypeOK, Locals, Flags, Steps,
    NoRun
<1>3. /\ host' \in [Steps -> Effects] /\ backup' \subseteq Steps
      /\ LeftBehind' \subseteq Accounts \cup Clients
  BY DEF IInv, TypeOK, Effects, Locals, LeftBehind
<1>4. receipt' \subseteq {"pending", "saved"} /\ pc' \in Labels
  BY DEF IInv, TypeOK, Labels
<1>5. stale' \in BOOLEAN
  BY DEF IInv, TypeOK
<1>6. faults' \in Nat
  BY DEF IInv, TypeOK
<1>7. DiskOK'
  BY DEF IInv, TypeOK, Journals, Locals, NoJournal, DiskOK, ApplyingOK,
    RollbackOK, FinalizeOK, ClearOK, Open, Sound, Finalizable, Nothing, AllNew
<1>8. ApplyingOK'
  <2>1. \A j \in Steps : mem'.steps[j] = "pending"
    BY DEF NoJournal
  <2>2. \A j \in Steps : ~(j < run'.index)
    BY DEF IInv, TypeOK, Locals, Steps
  <2>3. pc' = "mark" => mem'.phase = "applying" /\ disk' = mem'
    BY DEF NoJournal
  <2>4. pc' \in {"mark", "runFailed"}
    OBVIOUS
  <2> QED BY <2>1, <2>2, <2>3, <2>4 DEF ApplyingOK
<1>9. RollbackOK' /\ FinalizeOK' /\ ClearOK'
  BY DEF IInv, TypeOK, Journals, Locals, NoJournal, DiskOK, ApplyingOK,
    RollbackOK, FinalizeOK, ClearOK, Open, Sound, Finalizable, Nothing, AllNew
<1> QED
  BY <1>1, <1>2, <1>3, <1>4, <1>5, <1>6, <1>7, <1>8, <1>9 DEF IInv, TypeOK

LEMMA MarkRunningOK == ASSUME IInv, MarkRunning PROVE IInv'
<1> USE DEF MarkRunning, Fault, Fine, Goto, Return, Write, WriteFails,
  Uninvolved
<1>1. disk' \in Journals /\ mem' \in Journals
  BY NoJournalTyped DEF IInv, TypeOK, Journals, Phases, StepStates, NoJournal
<1>2. run' \in Locals
  BY NoRunTyped, DeploymentAssumption DEF IInv, TypeOK, Locals, Flags, Steps,
    NoRun
<1>3. /\ host' \in [Steps -> Effects] /\ backup' \subseteq Steps
      /\ LeftBehind' \subseteq Accounts \cup Clients
  BY DEF IInv, TypeOK, Effects, Locals, LeftBehind
<1>4. receipt' \subseteq {"pending", "saved"} /\ pc' \in Labels
  BY DEF IInv, TypeOK, Labels
<1>5. stale' \in BOOLEAN
  BY DEF IInv, TypeOK
<1>6. faults' \in Nat
  BY DEF IInv, TypeOK
<1>7. DiskOK'
  BY DEF IInv, TypeOK, Journals, Locals, NoJournal, DiskOK, ApplyingOK,
    RollbackOK, FinalizeOK, ClearOK, Open, Sound, Finalizable, Nothing, AllNew
<1>8. ApplyingOK'
  BY DeploymentAssumption DEF IInv, TypeOK, Journals, Locals, NoJournal,
    DiskOK, ApplyingOK, RollbackOK, FinalizeOK, ClearOK, Open, Sound,
    Finalizable, Nothing, AllNew, Steps
<1>9. RollbackOK' /\ FinalizeOK' /\ ClearOK'
  BY DEF IInv, TypeOK, Journals, Locals, NoJournal, DiskOK, ApplyingOK,
    RollbackOK, FinalizeOK, ClearOK, Open, Sound, Finalizable, Nothing, AllNew
<1> QED
  BY <1>1, <1>2, <1>3, <1>4, <1>5, <1>6, <1>7, <1>8, <1>9 DEF IInv, TypeOK

LEMMA ApplyOK == ASSUME IInv, Apply PROVE IInv'
<1> USE DEF Apply, When, Fault, Fine, Goto, Return, Write, WriteFails,
  Uninvolved
<1>1. disk' \in Journals /\ mem' \in Journals
  BY NoJournalTyped DEF IInv, TypeOK, Journals, Phases, StepStates, NoJournal
<1>2. run' \in Locals
  BY NoRunTyped, DeploymentAssumption DEF IInv, TypeOK, Locals, Flags, Steps,
    NoRun
<1>3. /\ host' \in [Steps -> Effects] /\ backup' \subseteq Steps
      /\ LeftBehind' \subseteq Accounts \cup Clients
  BY DEF IInv, TypeOK, Effects, Locals, LeftBehind, HalfApplied
<1>4. receipt' \subseteq {"pending", "saved"} /\ pc' \in Labels
  BY DEF IInv, TypeOK, Labels
<1>5. stale' \in BOOLEAN
  BY DEF IInv, TypeOK
<1>6. faults' \in Nat
  BY DEF IInv, TypeOK
<1>7. DiskOK'
  BY DEF IInv, TypeOK, Journals, Locals, NoJournal, DiskOK, ApplyingOK,
    RollbackOK, FinalizeOK, ClearOK, Open, Sound, Finalizable, Nothing, AllNew
<1>8. ApplyingOK'
  BY DeploymentAssumption DEF IInv, TypeOK, Journals, Locals, NoJournal,
    DiskOK, ApplyingOK, RollbackOK, FinalizeOK, ClearOK, Open, Sound,
    Finalizable, Nothing, AllNew, Steps
<1>9. RollbackOK' /\ FinalizeOK' /\ ClearOK'
  BY DEF IInv, TypeOK, Journals, Locals, NoJournal, DiskOK, ApplyingOK,
    RollbackOK, FinalizeOK, ClearOK, Open, Sound, Finalizable, Nothing, AllNew
<1> QED
  BY <1>1, <1>2, <1>3, <1>4, <1>5, <1>6, <1>7, <1>8, <1>9 DEF IInv, TypeOK

LEMMA ApplyFailedOK == ASSUME IInv, ApplyFailed PROVE IInv'
<1> USE DEF ApplyFailed, Fault, Fine, Goto, Return, Write, WriteFails,
  Uninvolved
<1>1. disk' \in Journals /\ mem' \in Journals
  BY NoJournalTyped DEF IInv, TypeOK, Journals, Phases, StepStates, NoJournal
<1>2. run' \in Locals
  BY NoRunTyped, DeploymentAssumption DEF IInv, TypeOK, Locals, Flags, Steps,
    NoRun
<1>3. /\ host' \in [Steps -> Effects] /\ backup' \subseteq Steps
      /\ LeftBehind' \subseteq Accounts \cup Clients
  BY DEF IInv, TypeOK, Effects, Locals, LeftBehind
<1>4. receipt' \subseteq {"pending", "saved"} /\ pc' \in Labels
  BY DEF IInv, TypeOK, Labels
<1>5. stale' \in BOOLEAN
  BY DEF IInv, TypeOK
<1>6. faults' \in Nat
  BY DEF IInv, TypeOK
<1>7. DiskOK'
  BY DEF IInv, TypeOK, Journals, Locals, NoJournal, DiskOK, ApplyingOK,
    RollbackOK, FinalizeOK, ClearOK, Open, Sound, Finalizable, Nothing, AllNew
<1>8. ApplyingOK'
  BY DeploymentAssumption DEF IInv, TypeOK, Journals, Locals, NoJournal,
    DiskOK, ApplyingOK, RollbackOK, FinalizeOK, ClearOK, Open, Sound,
    Finalizable, Nothing, AllNew, Steps
<1>9. RollbackOK' /\ FinalizeOK' /\ ClearOK'
  BY DEF IInv, TypeOK, Journals, Locals, NoJournal, DiskOK, ApplyingOK,
    RollbackOK, FinalizeOK, ClearOK, Open, Sound, Finalizable, Nothing, AllNew
<1> QED
  BY <1>1, <1>2, <1>3, <1>4, <1>5, <1>6, <1>7, <1>8, <1>9 DEF IInv, TypeOK

LEMMA MarkCompleteOK == ASSUME IInv, MarkComplete PROVE IInv'
<1> USE DEF MarkComplete, Fault, Fine, Goto, Return, Write, WriteFails,
  Uninvolved
<1>1. disk' \in Journals /\ mem' \in Journals
  BY NoJournalTyped DEF IInv, TypeOK, Journals, Phases, StepStates, NoJournal
<1>2. run' \in Locals
  BY NoRunTyped, DeploymentAssumption, SMTT(30) DEF IInv, TypeOK, Locals, Flags, Steps,
    NoRun
<1>3. /\ host' \in [Steps -> Effects] /\ backup' \subseteq Steps
      /\ LeftBehind' \subseteq Accounts \cup Clients
  BY DEF IInv, TypeOK, Effects, Locals, LeftBehind
<1>4. receipt' \subseteq {"pending", "saved"} /\ pc' \in Labels
  BY DEF IInv, TypeOK, Labels
<1>5. stale' \in BOOLEAN
  BY DEF IInv, TypeOK
<1>6. faults' \in Nat
  BY DEF IInv, TypeOK
<1>7. DiskOK'
  BY DEF IInv, TypeOK, Journals, Locals, NoJournal, DiskOK, ApplyingOK,
    RollbackOK, FinalizeOK, ClearOK, Open, Sound, Finalizable, Nothing, AllNew
<1>8. ApplyingOK'
  BY DeploymentAssumption DEF IInv, TypeOK, Journals, Locals, NoJournal,
    DiskOK, ApplyingOK, RollbackOK, FinalizeOK, ClearOK, Open, Sound,
    Finalizable, Nothing, AllNew, Steps
<1>9. RollbackOK' /\ FinalizeOK' /\ ClearOK'
  BY DEF IInv, TypeOK, Journals, Locals, NoJournal, DiskOK, ApplyingOK,
    RollbackOK, FinalizeOK, ClearOK, Open, Sound, Finalizable, Nothing, AllNew
<1> QED
  BY <1>1, <1>2, <1>3, <1>4, <1>5, <1>6, <1>7, <1>8, <1>9 DEF IInv, TypeOK

LEMMA CommitOK == ASSUME IInv, Commit PROVE IInv'
<1> USE DEF Commit, Fault, Fine, Goto, Return, Write, WriteFails, Uninvolved
<1>1. disk' \in Journals /\ mem' \in Journals
  BY NoJournalTyped DEF IInv, TypeOK, Journals, Phases, StepStates, NoJournal
<1>2. run' \in Locals
  BY NoRunTyped, DeploymentAssumption DEF IInv, TypeOK, Locals, Flags, Steps,
    NoRun
<1>3. /\ host' \in [Steps -> Effects] /\ backup' \subseteq Steps
      /\ LeftBehind' \subseteq Accounts \cup Clients
  BY DEF IInv, TypeOK, Effects, Locals, LeftBehind
<1>4. receipt' \subseteq {"pending", "saved"} /\ pc' \in Labels
  BY DEF IInv, TypeOK, Labels
<1>5. stale' \in BOOLEAN
  BY DEF IInv, TypeOK
<1>6. faults' \in Nat
  BY DEF IInv, TypeOK
<1>7. DiskOK'
  BY DEF IInv, TypeOK, Journals, Locals, NoJournal, DiskOK, ApplyingOK,
    RollbackOK, FinalizeOK, ClearOK, Open, Sound, Finalizable, Nothing, AllNew
<1>8. ApplyingOK'
  BY DeploymentAssumption DEF IInv, TypeOK, Journals, Locals, NoJournal,
    DiskOK, ApplyingOK, RollbackOK, FinalizeOK, ClearOK, Open, Sound,
    Finalizable, Nothing, AllNew, Steps
<1>9. RollbackOK' /\ FinalizeOK' /\ ClearOK'
  BY DEF IInv, TypeOK, Journals, Locals, NoJournal, DiskOK, ApplyingOK,
    RollbackOK, FinalizeOK, ClearOK, Open, Sound, Finalizable, Nothing, AllNew
<1> QED
  BY <1>1, <1>2, <1>3, <1>4, <1>5, <1>6, <1>7, <1>8, <1>9 DEF IInv, TypeOK

LEMMA RunFailedOK == ASSUME IInv, RunFailed PROVE IInv'
<1> USE DEF RunFailed, Fault, Fine, Goto, Return, Write, WriteFails, Uninvolved
<1>1. disk' \in Journals /\ mem' \in Journals
  BY NoJournalTyped DEF IInv, TypeOK, Journals, Phases, StepStates, NoJournal
<1>2. run' \in Locals
  BY NoRunTyped, DeploymentAssumption DEF IInv, TypeOK, Locals, Flags, Steps,
    NoRun
<1>3. /\ host' \in [Steps -> Effects] /\ backup' \subseteq Steps
      /\ LeftBehind' \subseteq Accounts \cup Clients
  BY DEF IInv, TypeOK, Effects, Locals, LeftBehind
<1>4. receipt' \subseteq {"pending", "saved"} /\ pc' \in Labels
  BY DEF IInv, TypeOK, Labels
<1>5. stale' \in BOOLEAN
  BY DEF IInv, TypeOK
<1>6. faults' \in Nat
  BY DEF IInv, TypeOK
<1>7. DiskOK'
  BY DEF IInv, TypeOK, Journals, Locals, NoJournal, DiskOK, ApplyingOK,
    RollbackOK, FinalizeOK, ClearOK, Open, Sound, Finalizable, Nothing, AllNew
<1>8. ApplyingOK'
  BY DeploymentAssumption DEF IInv, TypeOK, Journals, Locals, NoJournal,
    DiskOK, ApplyingOK, RollbackOK, FinalizeOK, ClearOK, Open, Sound,
    Finalizable, Nothing, AllNew, Steps
<1>9. RollbackOK' /\ FinalizeOK' /\ ClearOK'
  BY DEF IInv, TypeOK, Journals, Locals, NoJournal, DiskOK, ApplyingOK,
    RollbackOK, FinalizeOK, ClearOK, Open, Sound, Finalizable, Nothing, AllNew
<1> QED
  BY <1>1, <1>2, <1>3, <1>4, <1>5, <1>6, <1>7, <1>8, <1>9 DEF IInv, TypeOK

LEMMA RestartAfterRunOK == ASSUME IInv, RestartAfterRun PROVE IInv'
<1> USE DEF RestartAfterRun, Fault, Fine, Goto, Return, Write, WriteFails,
  Uninvolved
<1>1. disk' \in Journals /\ mem' \in Journals
  BY NoJournalTyped DEF IInv, TypeOK, Journals, Phases, StepStates, NoJournal
<1>2. run' \in Locals
  BY NoRunTyped, DeploymentAssumption DEF IInv, TypeOK, Locals, Flags, Steps,
    NoRun
<1>3. /\ host' \in [Steps -> Effects] /\ backup' \subseteq Steps
      /\ LeftBehind' \subseteq Accounts \cup Clients
  BY DEF IInv, TypeOK, Effects, Locals, LeftBehind
<1>4. receipt' \subseteq {"pending", "saved"} /\ pc' \in Labels
  BY DEF IInv, TypeOK, Labels
<1>5. stale' \in BOOLEAN
  BY DEF IInv, TypeOK
<1>6. faults' \in Nat
  BY DEF IInv, TypeOK
<1>7. DiskOK'
  BY DEF IInv, TypeOK, Journals, Locals, NoJournal, DiskOK, ApplyingOK,
    RollbackOK, FinalizeOK, ClearOK, Open, Sound, Finalizable, Nothing, AllNew
<1>8. ApplyingOK'
  BY DeploymentAssumption DEF IInv, TypeOK, Journals, Locals, NoJournal,
    DiskOK, ApplyingOK, RollbackOK, FinalizeOK, ClearOK, Open, Sound,
    Finalizable, Nothing, AllNew, Steps
<1>9. RollbackOK' /\ FinalizeOK' /\ ClearOK'
  BY DEF IInv, TypeOK, Journals, Locals, NoJournal, DiskOK, ApplyingOK,
    RollbackOK, FinalizeOK, ClearOK, Open, Sound, Finalizable, Nothing, AllNew
<1> QED
  BY <1>1, <1>2, <1>3, <1>4, <1>5, <1>6, <1>7, <1>8, <1>9 DEF IInv, TypeOK

LEMMA SaveOwnershipReceiptOK == ASSUME IInv, SaveOwnershipReceipt PROVE IInv'
<1> USE DEF SaveOwnershipReceipt, Fault, Fine, Goto, Return, Write,
  WriteFails, Uninvolved
<1>1. disk' \in Journals /\ mem' \in Journals
  BY NoJournalTyped DEF IInv, TypeOK, Journals, Phases, StepStates, NoJournal
<1>2. run' \in Locals
  BY NoRunTyped, DeploymentAssumption DEF IInv, TypeOK, Locals, Flags, Steps,
    NoRun
<1>3. /\ host' \in [Steps -> Effects] /\ backup' \subseteq Steps
      /\ LeftBehind' \subseteq Accounts \cup Clients
  BY DEF IInv, TypeOK, Effects, Locals, LeftBehind
<1>4. receipt' \subseteq {"pending", "saved"} /\ pc' \in Labels
  BY DEF IInv, TypeOK, Labels
<1>5. stale' \in BOOLEAN
  BY DEF IInv, TypeOK
<1>6. faults' \in Nat
  BY DEF IInv, TypeOK
<1>7. DiskOK'
  BY DEF IInv, TypeOK, Journals, Locals, NoJournal, DiskOK, ApplyingOK,
    RollbackOK, FinalizeOK, ClearOK, Open, Sound, Finalizable, Nothing, AllNew
<1>8. ApplyingOK'
  BY DeploymentAssumption DEF IInv, TypeOK, Journals, Locals, NoJournal,
    DiskOK, ApplyingOK, RollbackOK, FinalizeOK, ClearOK, Open, Sound,
    Finalizable, Nothing, AllNew, Steps
<1>9. RollbackOK' /\ FinalizeOK' /\ ClearOK'
  BY DEF IInv, TypeOK, Journals, Locals, NoJournal, DiskOK, ApplyingOK,
    RollbackOK, FinalizeOK, ClearOK, Open, Sound, Finalizable, Nothing, AllNew
<1> QED
  BY <1>1, <1>2, <1>3, <1>4, <1>5, <1>6, <1>7, <1>8, <1>9 DEF IInv, TypeOK

LEMMA CrashOK == ASSUME IInv, Crash PROVE IInv'
<1> USE DEF Crash, Fault, Fine, Goto, Return, Write, WriteFails, Uninvolved
<1>1. disk' \in Journals /\ mem' \in Journals
  BY NoJournalTyped DEF IInv, TypeOK, Journals, Phases, StepStates, NoJournal
<1>2. run' \in Locals
  BY NoRunTyped, DeploymentAssumption DEF IInv, TypeOK, Locals, Flags, Steps,
    NoRun
<1>3. /\ host' \in [Steps -> Effects] /\ backup' \subseteq Steps
      /\ LeftBehind' \subseteq Accounts \cup Clients
  BY DEF IInv, TypeOK, Effects, Locals, LeftBehind
<1>4. receipt' \subseteq {"pending", "saved"} /\ pc' \in Labels
  BY DEF IInv, TypeOK, Labels
<1>5. stale' \in BOOLEAN
  BY DEF IInv, TypeOK
<1>6. faults' \in Nat
  BY DEF IInv, TypeOK
<1>7. DiskOK'
  BY DEF IInv, TypeOK, Journals, Locals, NoJournal, DiskOK, ApplyingOK,
    RollbackOK, FinalizeOK, ClearOK, Open, Sound, Finalizable, Nothing, AllNew
<1>8. ApplyingOK'
  BY DeploymentAssumption DEF IInv, TypeOK, Journals, Locals, NoJournal,
    DiskOK, ApplyingOK, RollbackOK, FinalizeOK, ClearOK, Open, Sound,
    Finalizable, Nothing, AllNew, Steps
<1>9. RollbackOK' /\ FinalizeOK' /\ ClearOK'
  BY DEF IInv, TypeOK, Journals, Locals, NoJournal, DiskOK, ApplyingOK,
    RollbackOK, FinalizeOK, ClearOK, Open, Sound, Finalizable, Nothing, AllNew
<1> QED
  BY <1>1, <1>2, <1>3, <1>4, <1>5, <1>6, <1>7, <1>8, <1>9 DEF IInv, TypeOK

LEMMA CrashInApplyOK == ASSUME IInv, CrashInApply PROVE IInv'
<1> USE DEF CrashInApply, Fault, Fine, Goto, Return, Write, WriteFails,
  Uninvolved
<1>1. disk' \in Journals /\ mem' \in Journals
  BY NoJournalTyped DEF IInv, TypeOK, Journals, Phases, StepStates, NoJournal
<1>2. run' \in Locals
  BY NoRunTyped, DeploymentAssumption DEF IInv, TypeOK, Locals, Flags, Steps,
    NoRun
<1>3. /\ host' \in [Steps -> Effects] /\ backup' \subseteq Steps
      /\ LeftBehind' \subseteq Accounts \cup Clients
  BY DEF IInv, TypeOK, Effects, Locals, LeftBehind, HalfApplied, When
<1>4. receipt' \subseteq {"pending", "saved"} /\ pc' \in Labels
  BY DEF IInv, TypeOK, Labels
<1>5. stale' \in BOOLEAN
  BY DEF IInv, TypeOK
<1>6. faults' \in Nat
  BY DEF IInv, TypeOK
<1>7. DiskOK'
  BY DEF IInv, TypeOK, Journals, Locals, NoJournal, DiskOK, ApplyingOK,
    RollbackOK, FinalizeOK, ClearOK, Open, Sound, Finalizable, Nothing, AllNew
<1>8. ApplyingOK'
  BY DeploymentAssumption DEF IInv, TypeOK, Journals, Locals, NoJournal,
    DiskOK, ApplyingOK, RollbackOK, FinalizeOK, ClearOK, Open, Sound,
    Finalizable, Nothing, AllNew, Steps
<1>9. RollbackOK' /\ FinalizeOK' /\ ClearOK'
  BY DEF IInv, TypeOK, Journals, Locals, NoJournal, DiskOK, ApplyingOK,
    RollbackOK, FinalizeOK, ClearOK, Open, Sound, Finalizable, Nothing, AllNew
<1> QED
  BY <1>1, <1>2, <1>3, <1>4, <1>5, <1>6, <1>7, <1>8, <1>9 DEF IInv, TypeOK

LEMMA FinalizeStepOK == ASSUME NEW i \in Steps, IInv, FinalizeStep(i) PROVE
  IInv'
<1> USE DEF FinalizeStep, Fault, Fine, Goto, Return, Write, WriteFails,
  Uninvolved
<1>1. disk' \in Journals /\ mem' \in Journals
  BY NoJournalTyped DEF IInv, TypeOK, Journals, Phases, StepStates, NoJournal
<1>2. run' \in Locals
  BY NoRunTyped, DeploymentAssumption DEF IInv, TypeOK, Locals, Flags, Steps,
    NoRun
<1>3. /\ host' \in [Steps -> Effects] /\ backup' \subseteq Steps
      /\ LeftBehind' \subseteq Accounts \cup Clients
  BY DEF IInv, TypeOK, Effects, Locals, LeftBehind
<1>4. receipt' \subseteq {"pending", "saved"} /\ pc' \in Labels
  BY DEF IInv, TypeOK, Labels
<1>5. stale' \in BOOLEAN
  BY DEF IInv, TypeOK
<1>6. faults' \in Nat
  BY DEF IInv, TypeOK
<1>7. DiskOK'
  BY DEF IInv, TypeOK, Journals, Locals, NoJournal, DiskOK, ApplyingOK,
    RollbackOK, FinalizeOK, ClearOK, Open, Sound, Finalizable, Nothing, AllNew
<1>8. ApplyingOK'
  BY DeploymentAssumption DEF IInv, TypeOK, Journals, Locals, NoJournal,
    DiskOK, ApplyingOK, RollbackOK, FinalizeOK, ClearOK, Open, Sound,
    Finalizable, Nothing, AllNew, Steps
<1>9. RollbackOK' /\ FinalizeOK' /\ ClearOK'
  BY DEF IInv, TypeOK, Journals, Locals, NoJournal, DiskOK, ApplyingOK,
    RollbackOK, FinalizeOK, ClearOK, Open, Sound, Finalizable, Nothing, AllNew
<1> QED
  BY <1>1, <1>2, <1>3, <1>4, <1>5, <1>6, <1>7, <1>8, <1>9 DEF IInv, TypeOK

LEMMA UndoStepOK == ASSUME NEW i \in Steps, IInv, UndoStep(i) PROVE IInv'
<1> USE DEF UndoStep, NextUndo, CanUndo, Fault, Fine, Goto, Return, Write,
  WriteFails, Uninvolved
<1>1. disk' \in Journals /\ mem' \in Journals
  BY NoJournalTyped DEF IInv, TypeOK, Journals, Phases, StepStates, NoJournal
<1>2. run' \in Locals
  BY NoRunTyped, DeploymentAssumption DEF IInv, TypeOK, Locals, Flags, Steps,
    NoRun
<1>3. /\ host' \in [Steps -> Effects] /\ backup' \subseteq Steps
      /\ LeftBehind' \subseteq Accounts \cup Clients
  BY DEF IInv, TypeOK, Effects, Locals, LeftBehind
<1>4. receipt' \subseteq {"pending", "saved"} /\ pc' \in Labels
  BY DEF IInv, TypeOK, Labels
<1>5. stale' \in BOOLEAN
  BY DEF IInv, TypeOK
<1>6. faults' \in Nat
  BY DEF IInv, TypeOK
<1>7. DiskOK'
  BY DEF IInv, TypeOK, Journals, Locals, NoJournal, DiskOK, ApplyingOK,
    RollbackOK, FinalizeOK, ClearOK, Open, Sound, Finalizable, Nothing, AllNew
<1>8. ApplyingOK'
  BY DeploymentAssumption DEF IInv, TypeOK, Journals, Locals, NoJournal,
    DiskOK, ApplyingOK, RollbackOK, FinalizeOK, ClearOK, Open, Sound,
    Finalizable, Nothing, AllNew, Steps
<1>9. RollbackOK' /\ FinalizeOK' /\ ClearOK'
  BY DEF IInv, TypeOK, Journals, Locals, NoJournal, DiskOK, ApplyingOK,
    RollbackOK, FinalizeOK, ClearOK, Open, Sound, Finalizable, Nothing, AllNew
<1> QED
  BY <1>1, <1>2, <1>3, <1>4, <1>5, <1>6, <1>7, <1>8, <1>9 DEF IInv, TypeOK

\* An undo that stops leaves one step closer to old, or behind.
Stopped(i, effect) ==
  /\ host' = [host EXCEPT ![i] = effect]
  /\ backup' \subseteq backup /\ backup \ backup' \subseteq {i}
  /\ backup' = backup \/ effect = "old"
  /\ effect = "new" => host[i] = "new"
  /\ host[i] \in {"old", "left"} => effect = host[i]
  /\ effect = "left" => host[i] = "left" \/ i \in Accounts

LEMMA UndoStopsOK ==
  ASSUME NEW i \in Steps, TypeOK, UndoStops(i)
  PROVE  \E effect \in Effects : Stopped(i, effect)
<1>1. PICK effect \in HalfUndone(i) :
        /\ host' = [host EXCEPT ![i] = effect]
        /\ backup' \in {backup}
             \cup (IF effect = "old" THEN {backup \ {i}} ELSE {})
  BY DEF UndoStops
<1>2. host[i] \in Effects /\ backup \subseteq Steps
  BY DEF TypeOK
<1>3. effect \in Effects /\ Stopped(i, effect)
  BY <1>1, <1>2 DEF HalfUndone, Stopped, Effects, When
<1> QED BY <1>3

LEMMA UndoFailsOK == ASSUME NEW i \in Steps, IInv, UndoFails(i) PROVE IInv'
<1> USE DEF UndoFails, NextUndo, CanUndo, Fault, Fine,
  Goto, Return, Write, WriteFails, Uninvolved
<1>0. \E effect \in Effects :
        Stopped(i, effect)
          \/ (effect = host[i] /\ host' = host /\ backup' = backup)
  BY UndoStopsOK DEF IInv, TypeOK
<1>1. disk' \in Journals /\ mem' \in Journals
  BY NoJournalTyped DEF IInv, TypeOK, Journals, Phases, StepStates, NoJournal
<1>2. run' \in Locals
  BY NoRunTyped, DeploymentAssumption DEF IInv, TypeOK, Locals, Flags, Steps,
    NoRun
<1>3. /\ host' \in [Steps -> Effects] /\ backup' \subseteq Steps
      /\ LeftBehind' \subseteq Accounts \cup Clients
  BY <1>0 DEF IInv, TypeOK, Stopped, LeftBehind
<1>4. receipt' \subseteq {"pending", "saved"} /\ pc' \in Labels
  BY DEF IInv, TypeOK, Labels
<1>5. stale' \in BOOLEAN
  BY DEF IInv, TypeOK
<1>6. faults' \in Nat
  BY DEF IInv, TypeOK
<1>7. DiskOK'
  BY <1>0 DEF Stopped, IInv, TypeOK, Journals, Locals, NoJournal, DiskOK, ApplyingOK,
    RollbackOK, FinalizeOK, ClearOK, Open, Sound, Finalizable, Nothing, AllNew
<1>8. ApplyingOK'
  BY DeploymentAssumption DEF IInv, TypeOK, Journals, Locals, NoJournal,
    DiskOK, ApplyingOK, RollbackOK, FinalizeOK, ClearOK, Open, Sound,
    Finalizable, Nothing, AllNew, Steps
<1>9. RollbackOK' /\ FinalizeOK' /\ ClearOK'
  BY <1>0 DEF Stopped, IInv, TypeOK, Journals, Locals, NoJournal, DiskOK, ApplyingOK,
    RollbackOK, FinalizeOK, ClearOK, Open, Sound, Finalizable, Nothing, AllNew
<1> QED
  BY <1>1, <1>2, <1>3, <1>4, <1>5, <1>6, <1>7, <1>8, <1>9 DEF IInv, TypeOK

LEMMA CrashInUndoOK == ASSUME NEW i \in Steps, IInv, CrashInUndo(i) PROVE IInv'
<1> USE DEF CrashInUndo, NextUndo, CanUndo, Fault,
  Fine, Goto, Return, Write, WriteFails, Uninvolved
<1>0. \E effect \in Effects : Stopped(i, effect)
  BY UndoStopsOK DEF IInv
<1>1. disk' \in Journals /\ mem' \in Journals
  BY NoJournalTyped DEF IInv, TypeOK, Journals, Phases, StepStates, NoJournal
<1>2. run' \in Locals
  BY NoRunTyped, DeploymentAssumption DEF IInv, TypeOK, Locals, Flags, Steps,
    NoRun
<1>3. /\ host' \in [Steps -> Effects] /\ backup' \subseteq Steps
      /\ LeftBehind' \subseteq Accounts \cup Clients
  BY <1>0 DEF IInv, TypeOK, Stopped, LeftBehind
<1>4. receipt' \subseteq {"pending", "saved"} /\ pc' \in Labels
  BY DEF IInv, TypeOK, Labels
<1>5. stale' \in BOOLEAN
  BY DEF IInv, TypeOK
<1>6. faults' \in Nat
  BY DEF IInv, TypeOK
<1>7. DiskOK'
  BY <1>0 DEF Stopped, IInv, TypeOK, Journals, Locals, NoJournal, DiskOK, ApplyingOK,
    RollbackOK, FinalizeOK, ClearOK, Open, Sound, Finalizable, Nothing, AllNew
<1>8. ApplyingOK'
  BY DeploymentAssumption DEF IInv, TypeOK, Journals, Locals, NoJournal,
    DiskOK, ApplyingOK, RollbackOK, FinalizeOK, ClearOK, Open, Sound,
    Finalizable, Nothing, AllNew, Steps
<1>9. RollbackOK' /\ FinalizeOK' /\ ClearOK'
  BY <1>0 DEF Stopped, IInv, TypeOK, Journals, Locals, NoJournal, DiskOK, ApplyingOK,
    RollbackOK, FinalizeOK, ClearOK, Open, Sound, Finalizable, Nothing, AllNew
<1> QED
  BY <1>1, <1>2, <1>3, <1>4, <1>5, <1>6, <1>7, <1>8, <1>9 DEF IInv, TypeOK

LEMMA InitOK == Init => IInv
<1> SUFFICES ASSUME Init PROVE IInv
  OBVIOUS
<1>1. TypeOK
  BY NoJournalTyped, NoRunTyped DEF Init, TypeOK, Effects, Labels, LeftBehind
<1>2. DiskOK /\ ApplyingOK /\ RollbackOK /\ FinalizeOK /\ ClearOK
  BY DEF Init, NoJournal, DiskOK, ApplyingOK, RollbackOK, FinalizeOK, ClearOK,
    Open, Sound, Finalizable, Nothing, AllNew
<1> QED BY <1>1, <1>2 DEF IInv

LEMMA UnchangedOK == ASSUME IInv, UNCHANGED vars PROVE IInv'
<1>1. TypeOK'
  BY DEF IInv, TypeOK, vars, LeftBehind
<1>2. DiskOK' /\ ApplyingOK' /\ RollbackOK' /\ FinalizeOK' /\ ClearOK'
  BY DEF IInv, vars, DiskOK, ApplyingOK, RollbackOK, FinalizeOK, ClearOK,
    Open, Sound, Finalizable, Nothing, AllNew
<1> QED BY <1>1, <1>2 DEF IInv

LEMMA NextOK == ASSUME IInv, Next PROVE IInv'
<1>1. CASE \E apply \in BOOLEAN : Start(apply)
  BY <1>1, StartOK
<1>2. CASE Command
  BY <1>2, FinishInterruptedOK, CommitPendingReceiptOK,
     DiscardPendingReceiptOK, RestartOK, FinalizeWriteOK,
     FinalizeClearOK, RecoverOK, RecoverUncertainOK, RollbackBeginOK,
     UndoWriteOK, UndoAgainOK, RollbackFailsOK, RollbackClearOK,
     NoopOK, StagePendingReceiptOK, StepsRefusedOK, RunBeginOK,
     MarkRunningOK, ApplyOK, ApplyFailedOK, MarkCompleteOK, CommitOK,
     RunFailedOK, RestartAfterRunOK, SaveOwnershipReceiptOK,
     FinalizeStepOK, UndoStepOK, UndoFailsOK DEF Command
<1>3. CASE Crash \/ CrashInApply
  BY <1>3, CrashOK, CrashInApplyOK
<1>4. CASE \E i \in Steps : CrashInUndo(i)
  BY <1>4, CrashInUndoOK
<1> QED BY <1>1, <1>2, <1>3, <1>4 DEF Next

\* A step from a committed journal is a step of its finalisation, of a command
\* that has not looked at it yet, or a crash.
LEMMA CommitHolds == ASSUME IInv, Next PROVE CommitStep
<1> SUFFICES ASSUME disk.phase = "committed"
             PROVE  host' = host /\ disk'.phase \in {"committed", "none"}
  BY DEF CommitStep
<1> USE DEF Fault, Fine, Goto, Return, Write, WriteFails, Uninvolved
<1>1. pc \in {"idle", "finish", "finalize", "finalized"}
  BY DEF IInv, DiskOK
<1>2. CASE \E apply \in BOOLEAN : Start(apply)
  BY <1>2 DEF Start
<1>3. CASE Crash
  BY <1>3 DEF Crash
<1>4. CASE FinishInterrupted
  BY <1>4 DEF FinishInterrupted
<1>5. CASE FinalizeWrite
  BY <1>5 DEF FinalizeWrite, IInv, FinalizeOK
<1>6. CASE FinalizeClear
  BY <1>6 DEF FinalizeClear, NoJournal
<1>7. CASE \E i \in Steps : FinalizeStep(i)
  BY <1>7 DEF FinalizeStep
<1>8. ~(CrashInApply \/ \E i \in Steps : CrashInUndo(i) \/ UndoStep(i) \/
  UndoFails(i))
  BY <1>1 DEF CrashInApply, CrashInUndo, UndoStep, UndoFails, NextUndo
<1>9. ~(\/ Recover \/ RecoverUncertain \/ RollbackBegin \/ UndoWrite
        \/ UndoAgain \/ RollbackFails \/ RollbackClear)
  BY <1>1 DEF Recover, RecoverUncertain, RollbackBegin, UndoWrite, UndoAgain,
              RollbackFails, RollbackClear
<1>10. ~(\/ CommitPendingReceipt \/ DiscardPendingReceipt \/ Restart \/ Noop
         \/ StagePendingReceipt \/ StepsRefused \/ RunBegin \/ MarkRunning)
  BY <1>1 DEF CommitPendingReceipt, DiscardPendingReceipt, Restart, Noop,
              StagePendingReceipt, StepsRefused, RunBegin, MarkRunning
<1>11. ~(\/ Apply \/ ApplyFailed \/ MarkComplete \/ Commit \/ RunFailed
         \/ RestartAfterRun \/ SaveOwnershipReceipt)
  BY <1>1 DEF Apply, ApplyFailed, MarkComplete, Commit, RunFailed,
              RestartAfterRun, SaveOwnershipReceipt
<1> QED
  BY <1>2, <1>3, <1>4, <1>5, <1>6, <1>7, <1>8, <1>9, <1>10, <1>11
  DEF Next, Command

\* The inductive invariant: what the journal and the command know of the host
\* is true of it before and after every durable change.
THEOREM Invariance == Spec => []IInv
<1>1. Init => IInv
  BY InitOK
<1>2. IInv /\ [Next]_vars => IInv'
  BY NextOK, UnchangedOK
<1> QED BY <1>1, <1>2, PTL DEF Spec

\* The journal, the host and the locals of a command stay typed, for any
\* number of steps and faults.
THEOREM TypeCorrectness == Spec => []TypeOK
<1>1. IInv => TypeOK
  BY DEF IInv
<1> QED BY <1>1, Invariance, PTL

\* Whatever crashes and fails, and however often, once its journal is gone a
\* deployment is in place as a whole, or nothing of it is but the homes and the
\* client configurations that deleteManagedAccount and restoreStaleClient no
\* longer see.
THEOREM Atomicity == Spec => []AllOrNothing
<1>1. IInv => AllOrNothing
  BY DEF IInv, DiskOK, AllOrNothing, Nothing, LeftBehind
<1> QED BY <1>1, Invariance, PTL

\* Finalisation never removes a backup that a recovery may still need.
THEOREM BackupsOutliveRollback == Spec => []BackupKept
<1>1. IInv => BackupKept
  BY DEF IInv, TypeOK, Journals, Phases, DiskOK, Open, Sound, BackupKept
<1> QED BY <1>1, Invariance, PTL

\* No step of any command takes a committed deployment back.
THEOREM CommitFinality == Spec => CommitIsFinal
<1>1. IInv /\ [Next]_vars => [CommitStep]_vars
  BY CommitHolds
<1> QED BY <1>1, Invariance, PTL DEF Spec, CommitIsFinal

===============================================================================
