----------------------- MODULE BundleActivationProofs -----------------------
(***************************************************************************)
(* Proofs about the installer of host releases, for any set of releases,   *)
(* components and manifests and any number of crashes and failed calls.    *)
(*                                                                         *)
(* The first layer, PlaceInv, says what the transaction, the record and    *)
(* the `current` link are at each step of a command.                       *)
(***************************************************************************)
EXTENDS BundleActivation, TLAPS

Ops   == {"none", "activate", "rollback", "rollback candidate", "restart",
          "deactivate", "remove"}
Thens == {"none", "failed", "recovered", "rolled back", "removed", "first"}

Calls == [op : Ops, bundle : Maybe(Bundles), other : Maybe(Bundles),
          owned : SUBSET Bundles, at : Labels, old : Maybe(Bundles),
          new : Maybe(Bundles), todo : SUBSET Components,
          done : SUBSET Components, moving : Maybe(Components),
          files : Seq(Files), then : Thens, bad : BOOLEAN]

Outside    == {"body", "baseline", "forget", "purge", "restart"}
Activating == {"stop", "prepare", "undo", "services", "commit"}
Restores   == {"restore stop", "restore", "restore services", "restored",
               "recovery record"}

\* A record that asks for no recovery and never names one release twice.
Sound(r) == r # None => ~r.recovery /\ r.previous # r.active

\* What holds whenever no transaction is on disk.
Agrees == /\ Sound(record)
          /\ current # None => record # None /\ record.active = current

\* A transaction that has not been committed.
Pending == txn # None /\ record # txn.final

DiskTyped == /\ releases \subseteq Bundles /\ current \in Maybe(releases)
             /\ record \in Maybe(Records) /\ txn \in Maybe(Transactions)

DiskInv ==
  /\ txn # None => /\ ValidTransaction(txn) /\ Sound(txn.before)
                   /\ txn.candidate \in releases
                   /\ txn.previous \in Maybe(releases)
  /\ txn = None => Agrees
  /\ txn # None /\ record = txn.final => current = txn.candidate

\* The arguments of a command.
ArgsInv ==
  /\ call.op \in {"activate", "rollback candidate", "deactivate", "remove"}
       => call.bundle \in Bundles
  /\ call.op = "remove" => call.bundle \in call.owned /\ call.other \notin call.owned

\* What a restore belongs to: the release it goes back to is that before the
\* transaction, or the candidate of a rollback, or none.
RestoreInv ==
  /\ Undoing => Pending /\ call.old = txn.previous /\ call.new = txn.candidate
  /\ call.then \in {"rolled back", "removed"} =>
       Pending /\ call.old = txn.candidate /\ call.new = txn.previous
  /\ call.then = "removed" => call.op = "remove" /\ call.old = call.other
  /\ call.then = "first" =>
       /\ txn = None /\ call.old = None
       /\ record # None /\ call.new = record.active
  /\ call.then # "none" /\ call.new \in Bundles

ClearInv == /\ txn # None /\ Sound(record)
            /\ current = IF record = None THEN None ELSE record.active
            /\ call.then = "removed" => call.op = "remove" /\ current = call.other

CallInv ==
  /\ call.at \in Outside => txn = None
  /\ call.at \in {"recover", "body", "baseline"} => call.then = "none"
  /\ call.at = "baseline" => call.op = "activate" /\ call.bundle \in releases
  /\ call.at \in Activating =>
       Pending /\ call.old = txn.previous /\ call.new = txn.candidate
       /\ call.then = "none"
  /\ call.at \in {"services", "commit"} => current = call.new
  /\ call.at \in Restores => RestoreInv
  /\ call.at \in {"restore services", "restored"} /\ ~call.bad => current = call.old
  /\ call.at = "recovery record" => Undoing
  /\ call.at = "clear" => ClearInv
  /\ call.at = "purge" => call.op \in {"deactivate", "remove"} /\ current \notin Purged
  /\ call.at = "forget" => call.op = "deactivate"
  /\ call.at = "restart" => current # None /\ record # None
  /\ call.moving # None => call.at \in {"prepare", "undo", "restore"}

Counted == calls \in 0 .. MaxCalls /\ faults \in 0 .. MaxFaults

PlaceInv == DiskTyped /\ DiskInv /\ call \in Calls /\ ArgsInv /\ CallInv /\ Counted

-----------------------------------------------------------------------------
(* Facts about the model's operators.                                      *)

LEMMA StateFilesTyped == StateFiles \in Seq(Files)
<1>1. \A i \in 1 .. Len(StateFiles) : StateFiles[i] \in Files
  BY DEF Files
<1> QED  BY <1>1, BundleAssumption

\* Every release has components of the system only.
LEMMA OfComponents ==
  ASSUME NEW b \in Maybe(Bundles) PROVE Of(b) \subseteq Components
BY BundleAssumption DEF Of, Maybe

\* And so are the components whose format changes.
LEMMA ChangedComponents ==
  ASSUME NEW a \in Maybe(Bundles), NEW b \in Maybe(Bundles)
  PROVE  Changed(a, b) \subseteq Components
BY OfComponents DEF Changed

\* The arguments of the command stay what they are; and so does the restore
\* or the activation it is in.
SameArgs == /\ call'.op = call.op /\ call'.bundle = call.bundle
            /\ call'.other = call.other /\ call'.owned = call.owned

SameJob == /\ SameArgs /\ call'.then = call.then
           /\ call'.old = call.old /\ call'.new = call.new

LEMMA NoCallTyped == NoCall \in Calls
BY BundleAssumption DEF NoCall, Calls, Maybe, Ops, Labels, Thens, Idle

\* What the ways to go on make of the command's locals.
LEMMA GotoFields ==
  ASSUME call \in Calls, NEW l \in Labels, Goto(l)
  PROVE  /\ call' \in Calls /\ SameJob /\ call'.at = l
         /\ call'.moving = call.moving /\ call'.bad = call.bad
BY DEF Goto, Calls, SameJob, SameArgs

LEMMA RestoreForFields ==
  ASSUME call \in Calls, NEW t \in Thens, NEW old \in Maybe(Bundles),
         NEW new \in Maybe(Bundles), RestoreFor(t, old, new)
  PROVE  /\ call' \in Calls /\ SameArgs /\ call'.at = "restore stop"
         /\ call'.then = t /\ call'.old = old /\ call'.new = new
         /\ call'.moving = call.moving /\ call'.bad = FALSE
BY DEF RestoreFor, Calls, SameArgs, Labels

LEMMA UndoPreparedFields ==
  ASSUME call \in Calls, NEW S \in SUBSET Components, UndoPrepared(S)
  PROVE  /\ call' \in Calls /\ SameJob /\ call'.at = "undo"
         /\ call'.moving = None /\ call'.bad = call.bad
<1>1. None \in Maybe(Components) /\ <<>> \in Seq(Files) /\ "undo" \in Labels
  BY DEF Maybe, Labels
<1> QED  BY <1>1 DEF UndoPrepared, Calls, SameJob, SameArgs

-----------------------------------------------------------------------------
(* The steps of a command and PlaceInv.                                    *)

LEMMA PlaceCounted ==
  ASSUME Counted, Fine \/ Fault, calls' = calls PROVE Counted'
BY BundleAssumption DEF Counted, Fine, Fault

LEMMA PlaceArgs == ASSUME ArgsInv, SameArgs PROVE ArgsInv'
BY DEF ArgsInv, SameArgs

LEMMA PlaceDisk ==
  ASSUME DiskTyped, DiskInv, UNCHANGED disk PROVE DiskTyped' /\ DiskInv'
BY DEF DiskTyped, DiskInv, disk, Agrees

\* The command ends.
LEMMA PlaceReturn ==
  ASSUME DiskTyped', DiskInv', Counted', Return PROVE PlaceInv'
<1>1. call'.at = "idle" /\ call'.op = "none" /\ call'.moving = None /\ call' \in Calls
  BY NoCallTyped DEF Return, NoCall, Idle
<1>2. ArgsInv'
  BY <1>1 DEF ArgsInv
<1>3. CallInv'
  BY <1>1 DEF CallInv, Outside, Activating, Restores
<1> QED  BY <1>1, <1>2, <1>3 DEF PlaceInv

\* A step that leaves the files alone and goes on with the same job.
LEMMA PlaceWithin ==
  ASSUME PlaceInv, UNCHANGED disk, Counted', call' \in Calls, SameJob,
         \/ call.at \in {"prepare", "undo", "restore"} /\ call'.at = call.at
         \/ call.at = "prepare" /\ call'.at = "undo"
  PROVE  PlaceInv'
<1>1. DiskTyped' /\ DiskInv' /\ ArgsInv'
  BY PlaceDisk, PlaceArgs DEF PlaceInv, SameJob
<1>2. CallInv'
  BY DEF PlaceInv, CallInv, SameJob, SameArgs, disk, RestoreInv, Undoing, Pending,
         Outside, Activating, Restores
<1> QED  BY <1>1, <1>2 DEF PlaceInv

\* A transaction that is not committed is undone.
LEMMA PlaceFail ==
  ASSUME PlaceInv, Pending, DiskTyped', DiskInv', Counted', FailActivation,
         record' = record, txn' = txn, call.moving = None
  PROVE  PlaceInv'
<1>1. /\ txn.previous \in Maybe(Bundles) /\ txn.candidate \in Maybe(Bundles)
      /\ txn.candidate \in Bundles
  BY DEF Pending, PlaceInv, DiskTyped, Transactions, Maybe
<1>2. /\ call' \in Calls /\ SameArgs /\ call'.at = "restore stop"
      /\ call'.then = "failed" /\ call'.old = txn.previous
      /\ call'.new = txn.candidate /\ call'.moving = None
  BY <1>1, RestoreForFields DEF PlaceInv, FailActivation, Thens
<1>3. ArgsInv'
  BY <1>2, PlaceArgs DEF PlaceInv
<1>4. CallInv'
  BY <1>1, <1>2 DEF CallInv, RestoreInv, Undoing, Pending, Outside, Activating, Restores
<1> QED  BY <1>2, <1>3, <1>4 DEF PlaceInv

LEMMA PlaceRecover ==
  ASSUME PlaceInv, RecoverNothing \/ RecoverCommitted \/ RecoverInterrupted
  PROVE  PlaceInv'
<1>0. Counted' /\ "body" \in Labels /\ call.then = "none"
  BY PlaceCounted DEF PlaceInv, CallInv, At, RecoverNothing, RecoverCommitted,
                      RecoverInterrupted, Labels
<1>1. CASE RecoverNothing
  <2>1. /\ call' \in Calls /\ SameJob /\ call'.at = "body" /\ call'.moving = None
    BY <1>0, <1>1, GotoFields DEF RecoverNothing, PlaceInv, CallInv, At
  <2>2. CallInv'
    BY <1>0, <1>1, <2>1
       DEF RecoverNothing, CallInv, Outside, Activating, Restores, disk, SameJob
  <2> QED  BY <1>0, <1>1, <2>1, <2>2, PlaceDisk, PlaceArgs DEF PlaceInv, SameJob, RecoverNothing
<1>2. CASE RecoverCommitted
  <2>1. DiskTyped' /\ DiskInv'
    <3>1. txn \in Transactions /\ txn.final \in Records /\ txn.final # None
      BY <1>2, NoneAssumption DEF RecoverCommitted, PlaceInv, DiskTyped, Maybe, Transactions
    <3>2. ValidTransaction(txn) /\ record = txn.final /\ current = record.active
      BY <1>2 DEF RecoverCommitted, Committed, PlaceInv, DiskInv
    <3>3. Agrees
      BY <3>1, <3>2 DEF Agrees, Sound, ValidTransaction
    <3> QED  BY <1>2, <3>1, <3>2, <3>3
                DEF RecoverCommitted, PlaceInv, DiskTyped, DiskInv, Agrees, Maybe
  <2>2. CASE Goto("body") /\ txn' = None
    <3>1. /\ call' \in Calls /\ SameJob /\ call'.at = "body" /\ call'.moving = None
      BY <1>0, <1>2, <2>2, GotoFields DEF RecoverCommitted, PlaceInv, CallInv, At
    <3>2. CallInv'
      BY <1>0, <2>2, <3>1 DEF CallInv, Outside, Activating, Restores, SameJob
    <3> QED  BY <1>0, <2>1, <3>1, <3>2, PlaceArgs DEF PlaceInv, SameJob
  <2> QED  BY <1>0, <1>2, <2>1, <2>2, PlaceReturn DEF RecoverCommitted
<1>3. CASE RecoverInterrupted
  <2>1. Pending
    BY <1>3 DEF RecoverInterrupted, Committed, Pending, PlaceInv, DiskInv, ValidTransaction
  <2>2. /\ txn.previous \in Maybe(Bundles) /\ txn.candidate \in Maybe(Bundles)
        /\ txn.candidate \in Bundles
    BY <2>1 DEF Pending, PlaceInv, DiskTyped, Transactions, Maybe
  <2>3. /\ call' \in Calls /\ SameArgs /\ call'.at = "restore stop"
        /\ call'.then = "recovered" /\ call'.old = txn.previous
        /\ call'.new = txn.candidate /\ call'.moving = None
    BY <1>3, <2>2, RestoreForFields DEF RecoverInterrupted, PlaceInv, CallInv, At, Thens
  <2>4. CallInv'
    BY <1>3, <2>1, <2>2, <2>3
       DEF CallInv, RestoreInv, Undoing, Pending, Outside, Activating, Restores,
           RecoverInterrupted, disk
  <2> QED  BY <1>0, <1>3, <2>3, <2>4, PlaceDisk, PlaceArgs DEF PlaceInv, RecoverInterrupted
<1> QED  BY <1>1, <1>2, <1>3

LEMMA PlaceStage == ASSUME PlaceInv, Stage PROVE PlaceInv'
<1>0. Counted' /\ "baseline" \in Labels
  BY PlaceCounted DEF PlaceInv, Stage, Labels
<1>1. call.bundle \in Bundles /\ txn = None /\ call.moving = None /\ call.then = "none"
  BY DEF Stage, PlaceInv, ArgsInv, At, CallInv, Outside
<1>2. DiskTyped' /\ DiskInv'
  BY <1>1 DEF Stage, PlaceInv, DiskTyped, DiskInv, Agrees, Maybe
<1>3. CASE Goto("baseline") /\ releases' = releases \cup {call.bundle}
  <2>1. /\ call' \in Calls /\ SameJob /\ call'.at = "baseline" /\ call'.moving = None
    BY <1>0, <1>1, <1>3, GotoFields DEF PlaceInv
  <2>2. CallInv'
    BY <1>1, <1>3, <2>1
       DEF Stage, CallInv, Outside, Activating, Restores, SameJob, SameArgs
  <2> QED  BY <1>0, <1>2, <2>1, <2>2, PlaceArgs DEF PlaceInv, SameJob
<1> QED  BY <1>0, <1>2, <1>3, PlaceReturn DEF Stage

LEMMA PlaceBaseline ==
  ASSUME PlaceInv, BaselineRefused \/ ActiveAlready PROVE PlaceInv'
BY PlaceCounted, PlaceDisk, PlaceReturn DEF PlaceInv, BaselineRefused, ActiveAlready

\* A transaction that begins is valid, and its releases are there.
LEMMA PlaceBegin ==
  ASSUME PlaceInv, txn = None, NEW candidate \in releases,
         NEW previous \in Maybe(releases), candidate # previous,
         (previous = None) = (record = None),
         record # None => record.active = previous,
         BeginTransaction(candidate, previous),
         UNCHANGED <<releases, current, record>>
  PROVE  /\ DiskTyped' /\ DiskInv' /\ Pending'
         /\ txn'.candidate = candidate /\ txn'.previous = previous
<1> DEFINE t == [candidate |-> candidate, previous |-> previous, before |-> record,
                 final |-> Record(candidate, previous)]
<1>1. candidate \in Bundles /\ previous \in Maybe(Bundles) /\ Sound(record)
  BY DEF PlaceInv, DiskTyped, DiskInv, Agrees, Maybe
<1>2. /\ Record(candidate, previous) \in Records
      /\ Record(candidate, previous).active = candidate
      /\ Record(candidate, previous).previous = previous
      /\ ~Record(candidate, previous).recovery
  BY <1>1 DEF Record, Records
<1>3. t \in Transactions /\ t # None
  BY <1>1, <1>2, NoneAssumption DEF Transactions, PlaceInv, DiskTyped
<1>4. txn' = t
  BY DEF BeginTransaction
<1>5. /\ t.candidate = candidate /\ t.previous = previous /\ t.before = record
      /\ t.final = Record(candidate, previous)
  OBVIOUS
<1> HIDE DEF t
<1>8. ValidTransaction(t) /\ record # t.final
  <2>1. t.before # None => t.before.active = t.previous /\ ~t.before.recovery
    BY <1>1, <1>5 DEF Sound
  <2>2. record # t.final
    BY <1>2, <1>5, NoneAssumption
  <2>3. t.previous = None <=> t.before = None
    BY <1>5
  <2> QED  BY <1>2, <1>5, <2>1, <2>2, <2>3 DEF ValidTransaction
<1>6. DiskTyped'
  BY <1>3, <1>4 DEF PlaceInv, DiskTyped, Maybe
<1>7. DiskInv' /\ Pending'
  BY <1>1, <1>3, <1>4, <1>5, <1>8 DEF DiskInv, Pending
<1> QED  BY <1>4, <1>5, <1>6, <1>7

LEMMA PlaceCommitActivation == ASSUME PlaceInv, CommitActivation PROVE PlaceInv'
<1>0. Counted'
  BY PlaceCounted DEF PlaceInv, CommitActivation
<1>1. /\ call.bundle \in releases /\ txn = None /\ call.moving = None
      /\ current \in Maybe(releases) /\ current # call.bundle /\ call.then = "none"
  BY DEF CommitActivation, PlaceInv, At, CallInv, Outside, DiskTyped
<1>2. CASE /\ BeginTransaction(call.bundle, current)
           /\ call' = [call EXCEPT !.at = "stop", !.old = current, !.new = call.bundle]
  <2>1. /\ DiskTyped' /\ DiskInv' /\ Pending'
        /\ txn'.candidate = call.bundle /\ txn'.previous = current
    BY <1>1, <1>2, PlaceBegin DEF CommitActivation, Matches
  <2>2. /\ call' \in Calls /\ SameArgs /\ call'.at = "stop" /\ call'.moving = None /\ call'.then = "none"
        /\ call'.old = current /\ call'.new = call.bundle
    BY <1>1, <1>2, ZenonT(60) DEF PlaceInv, DiskTyped, Calls, Labels, Maybe, SameArgs
  <2>3. CallInv'
    BY <2>1, <2>2 DEF CallInv, Outside, Activating, Restores
  <2> QED  BY <1>0, <2>1, <2>2, <2>3, PlaceArgs DEF PlaceInv
<1>3. CASE Return /\ UNCHANGED <<txn, ghost>>
  BY <1>0, <1>3, PlaceDisk, PlaceReturn DEF PlaceInv, CommitActivation, disk
<1> QED  BY <1>2, <1>3 DEF CommitActivation

LEMMA PlaceStopOld == ASSUME PlaceInv, StopOld PROVE PlaceInv'
<1>0. Counted'
  BY PlaceCounted DEF PlaceInv, StopOld, Stop, StopFails
<1>1. /\ DiskTyped' /\ DiskInv' /\ Pending /\ call.moving = None
      /\ call.old = txn.previous /\ call.new = txn.candidate /\ UNCHANGED disk
      /\ call.then = "none"
  BY PlaceDisk DEF StopOld, PlaceInv, At, CallInv, Activating
<1>2. CASE call' = [call EXCEPT !.at = "prepare", !.done = {},
                                !.todo = Changed(call.old, call.new)]
  <2>1. Changed(call.old, call.new) \in SUBSET Components
    BY ChangedComponents DEF PlaceInv, Calls
  <2>2. /\ call' \in Calls /\ SameJob /\ call'.at = "prepare" /\ call'.moving = None
    BY <1>1, <1>2, <2>1 DEF PlaceInv, Calls, Labels, SameArgs, SameJob
  <2>3. CallInv'
    BY <1>1, <2>2 DEF CallInv, Outside, Activating, Restores, Pending, disk, SameJob
  <2> QED  BY <1>0, <1>1, <2>2, <2>3, PlaceArgs DEF PlaceInv, SameJob
<1> QED  BY <1>0, <1>1, <1>2, PlaceFail DEF StopOld, disk

LEMMA PlaceSwitchCurrent == ASSUME PlaceInv, SwitchCurrent PROVE PlaceInv'
<1>0. Counted' /\ "services" \in Labels
  BY PlaceCounted DEF PlaceInv, SwitchCurrent, Labels
<1>1. /\ Pending /\ call.moving = None /\ txn' = txn /\ record' = record
      /\ call.old = txn.previous /\ call.new = txn.candidate /\ releases' = releases
      /\ call.then = "none"
  BY DEF SwitchCurrent, PlaceInv, At, CallInv, Activating
<1>2. CASE current' = call.new /\ Goto("services")
  <2>1. /\ call' \in Calls /\ SameJob /\ call'.at = "services" /\ call'.moving = None
    BY <1>0, <1>1, <1>2, GotoFields DEF PlaceInv
  <2>2. DiskTyped' /\ DiskInv'
    BY <1>1, <1>2 DEF PlaceInv, DiskTyped, DiskInv, Pending, Maybe
  <2>3. CallInv'
    BY <1>1, <1>2, <2>1 DEF CallInv, Outside, Activating, Restores, Pending, SameJob
  <2> QED  BY <1>0, <2>1, <2>2, <2>3, PlaceArgs DEF PlaceInv, SameJob
<1>3. CASE FailActivation /\ UNCHANGED current
  BY <1>0, <1>1, <1>3, PlaceFail, PlaceDisk DEF PlaceInv, disk
<1> QED  BY <1>2, <1>3 DEF SwitchCurrent

LEMMA PlaceStartCandidate == ASSUME PlaceInv, StartCandidate PROVE PlaceInv'
<1>0. Counted' /\ "commit" \in Labels
  BY PlaceCounted
     DEF PlaceInv, StartCandidate, Labels, StartAndVerify, StartFails, SynchronizeFails
<1>1. /\ DiskTyped' /\ DiskInv' /\ Pending /\ call.moving = None /\ UNCHANGED disk
      /\ call.old = txn.previous /\ call.new = txn.candidate /\ current = call.new
      /\ call.then = "none"
  BY PlaceDisk DEF StartCandidate, PlaceInv, At, CallInv, Activating
<1>2. CASE Goto("commit")
  <2>1. /\ call' \in Calls /\ SameJob /\ call'.at = "commit" /\ call'.moving = None
    BY <1>0, <1>1, <1>2, GotoFields DEF PlaceInv
  <2>2. CallInv'
    BY <1>1, <2>1 DEF CallInv, Outside, Activating, Restores, Pending, disk, SameJob
  <2> QED  BY <1>0, <1>1, <2>1, <2>2, PlaceArgs DEF PlaceInv, SameJob
<1> QED  BY <1>0, <1>1, <1>2, PlaceFail DEF StartCandidate, disk

\* The record is written last: by then `current` is the release it names.
LEMMA PlaceCommitRecord == ASSUME PlaceInv, CommitRecord PROVE PlaceInv'
<1>0. Counted' /\ "clear" \in Labels
  BY PlaceCounted DEF PlaceInv, CommitRecord, Labels
<1>1. /\ Pending /\ call.moving = None /\ txn' = txn /\ UNCHANGED <<releases, current>>
      /\ current = txn.candidate /\ ValidTransaction(txn) /\ call.then # "removed"
  BY DEF CommitRecord, PlaceInv, At, CallInv, Activating, DiskInv, Pending
<1>2. CASE record' = txn.final /\ Goto("clear")
  <2>1. /\ call' \in Calls /\ SameJob /\ call'.at = "clear" /\ call'.moving = None
    BY <1>0, <1>1, <1>2, GotoFields DEF PlaceInv
  <2>2. txn.final \in Records /\ txn.final # None
    BY <1>1, NoneAssumption DEF Pending, PlaceInv, DiskTyped, Transactions, Maybe
  <2>3. DiskTyped' /\ DiskInv'
    BY <1>1, <1>2, <2>2 DEF PlaceInv, DiskTyped, DiskInv, Pending, Maybe
  <2>4. CallInv'
    BY <1>1, <1>2, <2>1, <2>2
       DEF CallInv, Outside, Activating, Restores, Pending, ClearInv, Sound,
           ValidTransaction, SameJob
  <2> QED  BY <1>0, <2>1, <2>3, <2>4, PlaceArgs DEF PlaceInv, SameJob
<1>3. CASE FailActivation /\ UNCHANGED record
  BY <1>0, <1>1, <1>3, PlaceFail, PlaceDisk DEF PlaceInv, disk
<1> QED  BY <1>2, <1>3 DEF CommitRecord

LEMMA PlaceClear == ASSUME PlaceInv, ClearTransaction PROVE PlaceInv'
<1>0. Counted' /\ "purge" \in Labels /\ "forget" \in Labels
  BY PlaceCounted DEF PlaceInv, ClearTransaction, Labels
<1>1. /\ txn # None /\ call.moving = None /\ ClearInv
      /\ UNCHANGED <<releases, current, record>>
  BY DEF ClearTransaction, PlaceInv, At, CallInv, ClearInv
<1>2. CASE txn' = None
  <2>1. DiskTyped' /\ DiskInv'
    BY <1>1, <1>2 DEF PlaceInv, DiskTyped, DiskInv, ClearInv, Agrees, Maybe, Sound
  <2>2. CASE call' = [call EXCEPT !.at = "body", !.then = "none"]
    <3>1. /\ call' \in Calls /\ SameArgs /\ call'.at = "body" /\ call'.then = "none"
          /\ call'.moving = None
      BY <1>1, <2>2 DEF PlaceInv, Calls, Labels, Thens, SameArgs
    <3>2. CallInv'
      BY <1>2, <3>1 DEF CallInv, Outside, Activating, Restores
    <3> QED  BY <1>0, <2>1, <3>1, <3>2, PlaceArgs DEF PlaceInv
  <2>3. CASE call.then = "removed" /\ Goto("purge")
    <3>1. /\ call' \in Calls /\ SameJob /\ call'.at = "purge" /\ call'.moving = None
      BY <1>0, <1>1, <2>3, GotoFields DEF PlaceInv
    <3>2. CallInv'
      BY <1>1, <1>2, <2>3, <3>1
         DEF CallInv, Outside, Activating, Restores, ClearInv, PlaceInv, ArgsInv, Purged,
             SameJob, SameArgs
    <3> QED  BY <1>0, <2>1, <3>1, <3>2, PlaceArgs DEF PlaceInv, SameJob
  <2>4. CASE call.op = "deactivate" /\ Goto("forget")
    <3>1. /\ call' \in Calls /\ SameJob /\ call'.at = "forget" /\ call'.moving = None
      BY <1>0, <1>1, <2>4, GotoFields DEF PlaceInv
    <3>2. CallInv'
      BY <1>2, <2>4, <3>1 DEF CallInv, Outside, Activating, Restores, SameJob, SameArgs
    <3> QED  BY <1>0, <2>1, <3>1, <3>2, PlaceArgs DEF PlaceInv, SameJob
  <2>5. CASE Return
    BY <1>0, <2>1, <2>5, PlaceReturn
  <2>6. txn' # txn
    BY <1>1, <1>2
  <2> QED  BY <2>2, <2>3, <2>4, <2>5, <2>6 DEF ClearTransaction
<1>3. CASE Return /\ UNCHANGED txn
  BY <1>0, <1>1, <1>3, PlaceDisk, PlaceReturn DEF PlaceInv, disk
<1> QED  BY <1>2, <1>3 DEF ClearTransaction

LEMMA PlaceRestoreStop == ASSUME PlaceInv, RestoreStop PROVE PlaceInv'
<1>0. Counted'
  BY PlaceCounted DEF PlaceInv, RestoreStop, Stop, StopFails
<1> DEFINE S == Changed(call.old, call.new) \cap Replace[call.new]
<1>1. /\ DiskTyped' /\ DiskInv' /\ RestoreInv /\ call.moving = None /\ UNCHANGED disk
  BY PlaceDisk DEF RestoreStop, PlaceInv, At, CallInv, Restores
<1>2. S \in SUBSET Components
  BY ChangedComponents DEF PlaceInv, Calls
<1> HIDE DEF S
<1>3. \/ call' = [call EXCEPT !.at = "restore", !.todo = S]
      \/ call' = [call EXCEPT !.at = "restore", !.bad = TRUE, !.todo = S]
  BY DEF RestoreStop, S
<1>4. /\ call' \in Calls /\ SameJob /\ call'.at = "restore" /\ call'.moving = None
  BY <1>1, <1>2, <1>3, ZenonT(60) DEF PlaceInv, Calls, Labels, SameJob, SameArgs
<1>5. CallInv'
  BY <1>1, <1>4 DEF CallInv, Outside, Activating, Restores, RestoreInv, Undoing, Pending,
                    SameJob, SameArgs, disk
<1> QED  BY <1>0, <1>1, <1>4, <1>5, PlaceArgs DEF PlaceInv, SameJob

LEMMA PlaceRestoreSwitch == ASSUME PlaceInv, RestoreSwitch PROVE PlaceInv'
<1>0. Counted' /\ "restore services" \in Labels
  BY PlaceCounted DEF PlaceInv, RestoreSwitch, Labels
<1>1. /\ RestoreInv /\ call.moving = None /\ UNCHANGED <<releases, record, txn>>
  BY DEF RestoreSwitch, PlaceInv, At, CallInv, Restores
<1>2. call.old \in Maybe(releases)
  BY <1>1 DEF RestoreInv, Pending, PlaceInv, DiskInv, Undoing, Calls, Thens, Maybe
<1>3. DiskTyped' /\ DiskInv'
  <2>1. CASE current' = current
    BY <1>1, <2>1, PlaceDisk DEF PlaceInv, disk
  <2>2. CASE current' = call.old
    <3>1. txn = None => call.old = None
      BY <1>1 DEF RestoreInv, Pending, PlaceInv, Calls, Thens, Undoing
    <3>2. txn # None => record # txn.final
      BY <1>1 DEF RestoreInv, Pending, PlaceInv, Calls, Thens, Undoing
    <3> QED  BY <1>1, <1>2, <2>2, <3>1, <3>2 DEF PlaceInv, DiskTyped, DiskInv, Agrees
  <2> QED  BY <2>1, <2>2 DEF RestoreSwitch
<1>4. /\ call' \in Calls /\ SameJob /\ call'.at = "restore services" /\ call'.moving = None
      /\ ~call'.bad => current' = call.old
  <2>1. CASE current' = call.old /\ Goto("restore services")
    BY <1>0, <1>1, <2>1, GotoFields DEF PlaceInv
  <2>2. CASE call' = [call EXCEPT !.at = "restore services", !.bad = TRUE]
    BY <1>0, <1>1, <2>2 DEF PlaceInv, Calls, SameJob, SameArgs
  <2> QED  BY <2>1, <2>2 DEF RestoreSwitch
<1>5. CallInv'
  BY <1>1, <1>4 DEF CallInv, Outside, Activating, Restores, RestoreInv, Undoing, Pending,
                    SameJob, SameArgs
<1> QED  BY <1>0, <1>3, <1>4, <1>5, PlaceArgs DEF PlaceInv, SameJob

LEMMA PlaceRestoreServices == ASSUME PlaceInv, RestoreServices PROVE PlaceInv'
<1>0. Counted' /\ "restored" \in Labels
  BY PlaceCounted
     DEF PlaceInv, RestoreServices, Labels, StartAndVerify, StartFails, SynchronizeFails
<1>1. /\ DiskTyped' /\ DiskInv' /\ RestoreInv /\ call.moving = None /\ UNCHANGED disk
      /\ ~call.bad => current = call.old
  BY PlaceDisk DEF RestoreServices, PlaceInv, At, CallInv, Restores
<1>2. \/ Goto("restored")
      \/ call' = [call EXCEPT !.at = "restored", !.bad = TRUE]
  BY DEF RestoreServices
<1>3. /\ call' \in Calls /\ SameJob /\ call'.at = "restored" /\ call'.moving = None
      /\ ~call'.bad => current = call.old
  <2>1. CASE Goto("restored")
    BY <1>0, <1>1, <2>1, GotoFields DEF PlaceInv
  <2>2. CASE call' = [call EXCEPT !.at = "restored", !.bad = TRUE]
    BY <1>0, <1>1, <2>2 DEF PlaceInv, Calls, SameJob, SameArgs
  <2> QED  BY <1>2, <2>1, <2>2
<1>4. CallInv'
  BY <1>1, <1>3 DEF CallInv, Outside, Activating, Restores, RestoreInv, Undoing, Pending,
                    SameJob, SameArgs, disk
<1> QED  BY <1>0, <1>1, <1>3, <1>4, PlaceArgs DEF PlaceInv, SameJob

LEMMA PlaceRestoreRecord == ASSUME PlaceInv, RestoreActivationRecord PROVE PlaceInv'
<1>0. Counted' /\ "clear" \in Labels /\ "recovery record" \in Labels
  BY PlaceCounted DEF PlaceInv, RestoreActivationRecord, Labels
<1>1. /\ RestoreInv /\ Pending /\ Undoing /\ call.moving = None
      /\ UNCHANGED <<releases, current, txn>>
      /\ current = txn.previous
  BY DEF RestoreActivationRecord, PlaceInv, At, CallInv, Restores, RestoreInv
<1>2. /\ ValidTransaction(txn) /\ Sound(txn.before) /\ txn.before \in Maybe(Records)
      /\ txn.final # None
  BY <1>1, NoneAssumption DEF PlaceInv, DiskInv, DiskTyped, Pending, Transactions, Maybe
<1>3. CASE record' = txn.before /\ Goto("clear")
  <2>1. /\ call' \in Calls /\ SameJob /\ call'.at = "clear" /\ call'.moving = None
    BY <1>0, <1>1, <1>3, GotoFields DEF PlaceInv
  <2>2. txn.before # txn.final
    BY <1>2 DEF ValidTransaction
  <2>3. DiskTyped' /\ DiskInv'
    BY <1>1, <1>2, <1>3, <2>2 DEF PlaceInv, DiskTyped, DiskInv, Pending
  <2>4. current = IF txn.before = None THEN None ELSE txn.before.active
    BY <1>1, <1>2 DEF ValidTransaction
  <2>5. CallInv'
    BY <1>1, <1>2, <1>3, <2>1, <2>4
       DEF CallInv, Outside, Activating, Restores, ClearInv, Pending, SameJob, Undoing
  <2> QED  BY <1>0, <2>1, <2>3, <2>5, PlaceArgs DEF PlaceInv, SameJob
<1>4. CASE Goto("recovery record") /\ UNCHANGED record
  <2>1. /\ call' \in Calls /\ SameJob /\ call'.at = "recovery record" /\ call'.moving = None
    BY <1>0, <1>1, <1>4, GotoFields DEF PlaceInv
  <2>2. CallInv'
    BY <1>1, <1>4, <2>1
       DEF CallInv, Outside, Activating, Restores, RestoreInv, Pending, SameJob, SameArgs,
           Undoing
  <2> QED  BY <1>0, <1>1, <1>4, <2>1, <2>2, PlaceArgs, PlaceDisk DEF PlaceInv, SameJob, disk
<1> QED  BY <1>3, <1>4 DEF RestoreActivationRecord

\* A record that asks for recovery is never the one a transaction commits.
LEMMA PlaceRecoveryRecord == ASSUME PlaceInv, WriteRecoveryRecord PROVE PlaceInv'
<1>0. Counted' /\ Return
  BY PlaceCounted DEF PlaceInv, WriteRecoveryRecord
<1>1. /\ Pending /\ UNCHANGED <<releases, current, txn>>
  BY DEF WriteRecoveryRecord, PlaceInv, At, CallInv, Restores, RestoreInv
<1> DEFINE r == [active |-> IF current = None THEN txn.candidate ELSE current,
                 previous |-> txn.previous, recovery |-> TRUE]
<1>2. r \in Records /\ r.recovery = TRUE
  BY <1>1 DEF PlaceInv, DiskTyped, Pending, Transactions, Records, Maybe
<1> HIDE DEF r
<1>3. ValidTransaction(txn) /\ txn.final \in Records
  BY <1>1 DEF PlaceInv, DiskInv, DiskTyped, Pending, Transactions, Maybe
<1>4. DiskTyped' /\ DiskInv'
  <2>1. CASE record' = r
    <3>1. r # txn.final
      BY <1>2, <1>3 DEF ValidTransaction
    <3> QED  BY <1>1, <1>2, <2>1, <3>1 DEF PlaceInv, DiskTyped, DiskInv, Pending, Maybe
  <2>2. CASE record' = record
    BY <1>1, <2>2, PlaceDisk DEF PlaceInv, disk
  <2> QED  BY <2>1, <2>2 DEF WriteRecoveryRecord, r
<1> QED  BY <1>0, <1>4, PlaceReturn

LEMMA PlaceRefused ==
  ASSUME PlaceInv, Refused, UNCHANGED <<releases, current, record, calls>>
  PROVE  PlaceInv'
BY PlaceCounted, PlaceDisk, PlaceReturn DEF PlaceInv, Refused, disk

LEMMA PlaceCommitRollback ==
  ASSUME PlaceInv, At("body"), CommitRollback, record # None, record.previous # None,
         CanCommitRollback, UNCHANGED <<releases, current, record, calls>>
  PROVE  PlaceInv'
<1>0. Counted'
  BY PlaceCounted DEF PlaceInv, CommitRollback
<1>1. /\ txn = None /\ call.moving = None /\ Sound(record)
      /\ record.previous \in releases /\ record.active \in releases
  BY DEF PlaceInv, At, CallInv, Outside, DiskInv, Agrees, CanCommitRollback
<1>2. CASE /\ BeginTransaction(record.previous, record.active)
           /\ RestoreFor("rolled back", record.previous, record.active)
  <2>1. record.previous \in Bundles /\ record.active \in Bundles
    BY <1>1 DEF PlaceInv, DiskTyped
  <2>2. /\ DiskTyped' /\ DiskInv' /\ Pending'
        /\ txn'.candidate = record.previous /\ txn'.previous = record.active
    <3>1. record.active \in Maybe(releases) /\ record.active # None
      BY <1>1, <2>1, BundleAssumption DEF Maybe
    <3> QED  BY <1>1, <1>2, <3>1, PlaceBegin DEF Sound
  <2>3. /\ call' \in Calls /\ SameArgs /\ call'.at = "restore stop"
        /\ call'.then = "rolled back" /\ call'.old = record.previous
        /\ call'.new = record.active /\ call'.moving = None
    BY <1>1, <1>2, <2>1, RestoreForFields, ZenonT(60) DEF PlaceInv, Thens, Maybe
  <2>4. CallInv'
    BY <2>1, <2>2, <2>3 DEF CallInv, RestoreInv, Undoing, Outside, Activating, Restores
  <2> QED  BY <1>0, <2>2, <2>3, <2>4, PlaceArgs DEF PlaceInv
<1>3. CASE Return /\ UNCHANGED <<txn, ghost>>
  BY <1>0, <1>3, PlaceDisk, PlaceReturn DEF PlaceInv, disk
<1> QED  BY <1>2, <1>3 DEF CommitRollback

\* The restore that takes down a release without a predecessor.
LEMMA PlaceTakeDown ==
  ASSUME PlaceInv, At("body"), Fine, UNCHANGED <<disk, calls>>, NEW b \in Bundles,
         RestoreFor("first", None, b), record # None, b = record.active
  PROVE  PlaceInv'
<1>0. Counted'
  BY PlaceCounted DEF PlaceInv
<1>1. txn = None /\ call.moving = None
  BY DEF PlaceInv, At, CallInv, Outside
<1>2. /\ call' \in Calls /\ SameArgs /\ call'.at = "restore stop"
      /\ call'.then = "first" /\ call'.old = None /\ call'.new = b /\ call'.moving = None
  BY <1>1, RestoreForFields DEF PlaceInv, Thens, Maybe
<1>3. CallInv'
  BY <1>1, <1>2 DEF CallInv, RestoreInv, Undoing, Outside, Activating, Restores, disk
<1> QED  BY <1>0, <1>2, <1>3, PlaceDisk, PlaceArgs DEF PlaceInv

LEMMA PlaceRollbackLocked ==
  ASSUME PlaceInv, At("body"), RollbackCandidateLocked,
         UNCHANGED <<releases, current, record, calls>>
  PROVE  PlaceInv'
<1>1. CASE Refused
  BY <1>1, PlaceRefused
<1>2. CASE record # None /\ RollbackFirst
  <2>1. record.active \in Bundles
    BY <1>2 DEF PlaceInv, DiskTyped, Records, Maybe
  <2> QED  BY <1>2, <2>1, PlaceTakeDown DEF RollbackFirst, disk
<1>3. CASE record # None /\ record.previous # None /\ CanCommitRollback /\ CommitRollback
  BY <1>3, PlaceCommitRollback
<1> QED  BY <1>1, <1>2, <1>3 DEF RollbackCandidateLocked

LEMMA PlaceRollback ==
  ASSUME PlaceInv, RollbackBody \/ RollbackCandidateBody PROVE PlaceInv'
<1>1. CASE RollbackBody
  BY <1>1, PlaceCommitRollback, PlaceRefused DEF RollbackBody
<1>2. CASE RollbackCandidateBody
  BY <1>2, PlaceRollbackLocked DEF RollbackCandidateBody
<1> QED  BY <1>1, <1>2

LEMMA PlaceDeactivate == ASSUME PlaceInv, DeactivateBody PROVE PlaceInv'
<1>1. CASE Refused
  BY <1>1, PlaceRefused DEF DeactivateBody
<1>2. CASE RollbackCandidateLocked
  BY <1>2, PlaceRollbackLocked DEF DeactivateBody
<1>3. CASE Goto("forget") /\ Fine /\ UNCHANGED <<txn, ghost>>
  <2>0. Counted' /\ "forget" \in Labels
    BY <1>3, PlaceCounted DEF PlaceInv, DeactivateBody, Labels
  <2>1. txn = None /\ call.moving = None /\ call.op = "deactivate"
    BY DEF DeactivateBody, PlaceInv, At, CallInv, Outside
  <2>2. /\ call' \in Calls /\ SameJob /\ call'.at = "forget" /\ call'.moving = None
    BY <1>3, <2>0, <2>1, GotoFields DEF PlaceInv
  <2>3. CallInv'
    BY <1>3, <2>1, <2>2
       DEF CallInv, Outside, Activating, Restores, SameJob, SameArgs
  <2> QED  BY <1>3, <2>0, <2>2, <2>3, PlaceDisk, PlaceArgs
              DEF PlaceInv, SameJob, disk, DeactivateBody
<1> QED  BY <1>1, <1>2, <1>3 DEF DeactivateBody

LEMMA PlaceRolledBack == ASSUME PlaceInv, RolledBack PROVE PlaceInv'
<1>0. Counted' /\ "clear" \in Labels
  BY PlaceCounted DEF PlaceInv, RolledBack, Labels
<1>1. /\ RestoreInv /\ Pending /\ call.moving = None /\ UNCHANGED <<releases, current, txn>>
      /\ call.old = txn.candidate /\ call.then \in {"rolled back", "removed"}
      /\ ~call.bad => current = call.old
  BY DEF RolledBack, PlaceInv, At, CallInv, Restores, RestoreInv
<1>2. /\ ValidTransaction(txn) /\ txn.final \in Records /\ txn.final # None
      /\ txn.candidate \in Bundles
  BY <1>1, NoneAssumption DEF PlaceInv, DiskInv, DiskTyped, Pending, Transactions, Maybe
<1>3. CASE FailActivation /\ UNCHANGED record
  BY <1>0, <1>1, <1>3, PlaceFail, PlaceDisk DEF PlaceInv, disk
<1>4. CASE Return /\ UNCHANGED record
  BY <1>0, <1>1, <1>4, PlaceReturn, PlaceDisk DEF PlaceInv, disk
<1>5. CASE /\ ~call.bad /\ Goto("clear")
           /\ record' = IF call.then = "removed" THEN Record(call.old, None) ELSE txn.final
  <2>1. /\ call' \in Calls /\ SameJob /\ call'.at = "clear" /\ call'.moving = None
    BY <1>0, <1>1, <1>5, GotoFields DEF PlaceInv
  <2>2. /\ record' \in Records /\ record' # None /\ record'.active = txn.candidate
        /\ Sound(record')
    <3>1. CASE call.then = "removed"
      <4>1. /\ Record(call.old, None) \in Records /\ Record(call.old, None).active = call.old
            /\ ~Record(call.old, None).recovery /\ Record(call.old, None).previous = None
        BY <1>1, <1>2 DEF Record, Records, Maybe
      <4>2. call.old # None
        BY <1>1, <1>2, BundleAssumption
      <4> QED  BY <1>1, <1>5, <3>1, <4>1, <4>2, NoneAssumption DEF Sound
    <3>2. CASE call.then # "removed"
      BY <1>2, <1>5, <3>2 DEF ValidTransaction, Sound
    <3> QED  BY <3>1, <3>2
  <2>3. DiskTyped' /\ DiskInv'
    BY <1>1, <1>5, <2>2 DEF PlaceInv, DiskTyped, DiskInv, Pending, Maybe
  <2>4. CallInv'
    BY <1>1, <1>5, <2>1, <2>2
       DEF CallInv, Outside, Activating, Restores, ClearInv, Pending, SameJob, SameArgs,
           RestoreInv
  <2> QED  BY <1>0, <2>1, <2>3, <2>4, PlaceArgs DEF PlaceInv, SameJob
<1> QED  BY <1>3, <1>4, <1>5 DEF RolledBack

LEMMA PlaceFirst == ASSUME PlaceInv, FirstTakenDown PROVE PlaceInv'
<1>0. Counted' /\ "forget" \in Labels /\ "purge" \in Labels
  BY PlaceCounted DEF PlaceInv, FirstTakenDown, Labels
<1>1. /\ txn = None /\ call.moving = None /\ UNCHANGED <<releases, current, txn>>
      /\ ~call.bad => current = None
  BY DEF FirstTakenDown, PlaceInv, At, CallInv, Restores, RestoreInv
<1>2. CASE ~call.bad /\ record' = None
  <2>1. DiskTyped' /\ DiskInv'
    BY <1>1, <1>2 DEF PlaceInv, DiskTyped, DiskInv, Agrees, Sound, Maybe
  <2>2. CASE call.op = "deactivate" /\ Goto("forget")
    <3>1. /\ call' \in Calls /\ SameJob /\ call'.at = "forget" /\ call'.moving = None
      BY <1>0, <1>1, <2>2, GotoFields DEF PlaceInv
    <3>2. CallInv'
      BY <1>1, <2>2, <3>1 DEF CallInv, Outside, Activating, Restores, SameJob, SameArgs
    <3> QED  BY <1>0, <2>1, <3>1, <3>2, PlaceArgs DEF PlaceInv, SameJob
  <2>3. CASE call.op = "remove" /\ Goto("purge")
    <3>1. /\ call' \in Calls /\ SameJob /\ call'.at = "purge" /\ call'.moving = None
      BY <1>0, <1>1, <2>3, GotoFields DEF PlaceInv
    <3>2. None \notin call.owned
      BY BundleAssumption DEF PlaceInv, Calls
    <3>3. CallInv'
      BY <1>1, <1>2, <2>3, <3>1, <3>2
         DEF CallInv, Outside, Activating, Restores, Purged, SameJob, SameArgs
    <3> QED  BY <1>0, <2>1, <3>1, <3>3, PlaceArgs DEF PlaceInv, SameJob
  <2>4. CASE Return
    BY <1>0, <2>1, <2>4, PlaceReturn
  <2> QED  BY <1>2, <2>2, <2>3, <2>4 DEF FirstTakenDown
<1>3. CASE Return /\ UNCHANGED record
  BY <1>0, <1>1, <1>3, PlaceReturn, PlaceDisk DEF PlaceInv, disk
<1> QED  BY <1>2, <1>3 DEF FirstTakenDown

LEMMA PlaceForget == ASSUME PlaceInv, Forget PROVE PlaceInv'
<1>0. Counted' /\ "purge" \in Labels
  BY PlaceCounted DEF PlaceInv, Forget, Labels
<1>1. /\ txn = None /\ call.moving = None /\ UNCHANGED <<releases, current, txn>>
      /\ call.op = "deactivate" /\ call.bundle \in Bundles /\ Agrees
  BY DEF Forget, PlaceInv, At, CallInv, Outside, ArgsInv, DiskInv
<1>2. CASE record' = record
  <2>1. DiskTyped' /\ DiskInv'
    BY <1>1, <1>2, PlaceDisk DEF PlaceInv, disk
  <2>2. CASE Goto("purge") /\ ~(record # None /\ record.active = call.bundle)
    <3>1. /\ call' \in Calls /\ SameJob /\ call'.at = "purge" /\ call'.moving = None
      BY <1>0, <1>1, <2>2, GotoFields DEF PlaceInv
    <3>2. CallInv'
      BY <1>1, <2>2, <3>1, BundleAssumption
         DEF CallInv, Outside, Activating, Restores, Purged, SameJob, SameArgs, Agrees
    <3> QED  BY <1>0, <2>1, <3>1, <3>2, PlaceArgs DEF PlaceInv, SameJob
  <2> QED  BY <1>0, <2>1, <2>2, PlaceReturn DEF Forget
<1>3. CASE /\ record # None /\ record.active # call.bundle
           /\ record' = [record EXCEPT !.previous = None] /\ Goto("purge")
  <2>1. /\ record' \in Records /\ record'.active = record.active /\ record'.previous = None
        /\ record'.recovery = record.recovery /\ record.active \in Bundles
    BY <1>3 DEF PlaceInv, DiskTyped, Records, Maybe
  <2>2. record' # None /\ record.active # None
    BY <2>1, NoneAssumption, BundleAssumption
  <2>3. DiskTyped' /\ DiskInv'
    BY <1>1, <1>3, <2>1, <2>2 DEF PlaceInv, DiskTyped, DiskInv, Agrees, Sound, Maybe
  <2>4. /\ call' \in Calls /\ SameJob /\ call'.at = "purge" /\ call'.moving = None
    BY <1>0, <1>1, <1>3, GotoFields DEF PlaceInv
  <2>5. CallInv'
    BY <1>1, <1>3, <2>4, BundleAssumption
       DEF CallInv, Outside, Activating, Restores, Purged, SameJob, SameArgs, Agrees
  <2> QED  BY <1>0, <2>3, <2>4, <2>5, PlaceArgs DEF PlaceInv, SameJob
<1> QED  BY <1>2, <1>3 DEF Forget

LEMMA PlaceRemove == ASSUME PlaceInv, RemoveBody PROVE PlaceInv'
<1>0. "purge" \in Labels
  BY DEF Labels
<1>1. /\ txn = None /\ call.moving = None /\ UNCHANGED <<releases, current, record, calls>>
      /\ call.op = "remove" /\ call.bundle \in Bundles /\ At("body")
      /\ call.bundle \in call.owned /\ call.other \notin call.owned
      /\ current \in Maybe(releases)
  BY DEF RemoveBody, PlaceInv, At, CallInv, Outside, ArgsInv, DiskTyped
<1>2. CASE Refused
  BY <1>1, <1>2, PlaceRefused
<1>3. CASE current = call.other /\ Goto("purge") /\ Fine /\ UNCHANGED <<txn, ghost>>
  <2>1. /\ call' \in Calls /\ SameJob /\ call'.at = "purge" /\ call'.moving = None
    BY <1>0, <1>1, <1>3, GotoFields DEF PlaceInv
  <2>2. CallInv'
    BY <1>1, <1>3, <2>1
       DEF CallInv, Outside, Activating, Restores, Purged, SameJob, SameArgs
  <2> QED  BY <1>1, <1>3, <2>1, <2>2, PlaceCounted, PlaceDisk, PlaceArgs
              DEF PlaceInv, SameJob, disk
<1>4. CASE /\ current = call.bundle /\ RestoreFor("first", None, current)
           /\ Fine /\ UNCHANGED <<txn, ghost>>
  <2>1. record # None /\ record.active = current
    BY <1>1, <1>4, BundleAssumption DEF PlaceInv, DiskInv, Agrees
  <2> QED  BY <1>1, <1>4, <2>1, PlaceTakeDown DEF disk
<1>5. CASE /\ current = call.bundle /\ call.other \in releases /\ record # None
           /\ record.active = call.bundle
           /\ Fine /\ BeginTransaction(call.other, call.bundle)
           /\ RestoreFor("removed", call.other, call.bundle)
  <2>1. /\ call.other \in Bundles /\ call.bundle \in releases /\ call.bundle # None
    BY <1>1, <1>5, BundleAssumption DEF PlaceInv, DiskTyped, Maybe
  <2>2. /\ DiskTyped' /\ DiskInv' /\ Pending'
        /\ txn'.candidate = call.other /\ txn'.previous = call.bundle
    BY <1>1, <1>5, <2>1, PlaceBegin DEF Maybe
  <2>3. /\ call' \in Calls /\ SameArgs /\ call'.at = "restore stop"
        /\ call'.then = "removed" /\ call'.old = call.other
        /\ call'.new = call.bundle /\ call'.moving = None
    BY <1>1, <1>5, <2>1, RestoreForFields, ZenonT(60) DEF PlaceInv, Thens, Maybe
  <2>4. CallInv'
    BY <1>1, <2>2, <2>3
       DEF CallInv, RestoreInv, Undoing, Outside, Activating, Restores, SameArgs
  <2> QED  BY <1>1, <1>5, <2>2, <2>3, <2>4, PlaceCounted, PlaceArgs DEF PlaceInv
<1>6. CASE Fault /\ Return /\ UNCHANGED <<txn, ghost>>
  BY <1>1, <1>6, PlaceCounted, PlaceDisk, PlaceReturn DEF PlaceInv, disk
<1> QED  BY <1>2, <1>3, <1>4, <1>5, <1>6 DEF RemoveBody

\* A release is removed only while it is not the current one, and while no
\* transaction needs it.
LEMMA PlacePurge == ASSUME PlaceInv, Purge PROVE PlaceInv'
<1>0. Counted'
  BY PlaceCounted DEF PlaceInv, Purge
<1>1. txn = None /\ current \notin Purged /\ UNCHANGED <<current, record, txn>>
  BY DEF Purge, PlaceInv, At, CallInv, Outside
<1>2. CASE (\E b \in Purged \cap releases : releases' = releases \ {b}) /\ UNCHANGED call
  <2>1. DiskTyped' /\ DiskInv'
    BY <1>1, <1>2 DEF PlaceInv, DiskTyped, DiskInv, Agrees, Maybe
  <2>2. CallInv'
    BY <1>1, <1>2 DEF Purge, At, PlaceInv, CallInv, Outside, Activating, Restores, Purged
  <2> QED  BY <1>0, <1>2, <2>1, <2>2 DEF PlaceInv, ArgsInv
<1>3. CASE Return /\ UNCHANGED releases
  BY <1>0, <1>1, <1>3, PlaceDisk, PlaceReturn DEF PlaceInv, disk
<1> QED  BY <1>2, <1>3 DEF Purge

LEMMA PlaceRestart == ASSUME PlaceInv, RestartBody PROVE PlaceInv'
<1>0. Counted' /\ "restart" \in Labels
  BY PlaceCounted DEF PlaceInv, RestartBody, Labels, Stop, StopFails
<1>1. /\ DiskTyped' /\ DiskInv' /\ txn = None /\ call.moving = None /\ UNCHANGED disk
  BY PlaceDisk DEF RestartBody, PlaceInv, At, CallInv, Outside
<1>2. CASE current # None /\ record # None /\ Goto("restart")
  <2>1. /\ call' \in Calls /\ SameJob /\ call'.at = "restart" /\ call'.moving = None
    BY <1>0, <1>1, <1>2, GotoFields DEF PlaceInv
  <2>2. CallInv'
    BY <1>1, <1>2, <2>1 DEF CallInv, Outside, Activating, Restores, disk
  <2> QED  BY <1>0, <1>1, <2>1, <2>2, PlaceArgs DEF PlaceInv, SameJob
<1> QED  BY <1>0, <1>1, <1>2, PlaceReturn DEF RestartBody

LEMMA PlaceRestartServices == ASSUME PlaceInv, RestartServices PROVE PlaceInv'
<1>0. Counted' /\ Return
  BY PlaceCounted DEF PlaceInv, RestartServices, StartAndVerify, StartFails
<1>1. /\ txn = None /\ UNCHANGED <<releases, current, txn>> /\ Agrees /\ record # None
  BY DEF RestartServices, PlaceInv, At, CallInv, Outside, DiskInv
<1>2. record' = record
  BY <1>1 DEF RestartServices, Agrees, Sound
<1> QED  BY <1>0, <1>1, <1>2, PlaceDisk, PlaceReturn DEF PlaceInv, disk

LEMMA PlaceCommands == ASSUME PlaceInv, Commands PROVE PlaceInv'
<1>1. PICK op \in Ops, b \in Maybe(Bundles), other \in Maybe(Bundles),
           owned \in SUBSET Bundles :
        /\ Begin(op, b, other, owned)
        /\ op \in {"activate", "rollback candidate", "deactivate", "remove"} => b \in Bundles
        /\ op = "remove" => b \in owned /\ other \notin owned
  <2>1. None \in Maybe(Bundles) /\ {} \in SUBSET Bundles /\ Bundles \subseteq Maybe(Bundles)
    BY DEF Maybe
  <2>2. CASE \E b \in Bundles : Activate(b)
    BY <2>1, <2>2 DEF Activate, Ops
  <2>3. CASE \E b \in Bundles : DeactivateCandidate(b)
    BY <2>1, <2>3 DEF DeactivateCandidate, Ops
  <2>4. CASE Rollback
    BY <2>1, <2>4 DEF Rollback, Ops
  <2>5. CASE RestartActive
    BY <2>1, <2>5 DEF RestartActive, Ops
  <2>6. CASE \E b \in Bundles, prev \in Maybe(Bundles) : RollbackCandidate(b, prev)
    BY <2>1, <2>6 DEF RollbackCandidate, Ops
  <2>7. CASE \E b \in Bundles, baseline \in Maybe(Bundles), owned \in SUBSET Bundles :
               DeactivateInstallation(b, baseline, owned)
    BY <2>1, <2>7 DEF DeactivateInstallation, Ops
  <2> QED  BY <2>2, <2>3, <2>4, <2>5, <2>6, <2>7 DEF Commands
<1>2. /\ call' = [NoCall EXCEPT !.op = op, !.bundle = b, !.other = other,
                                !.owned = owned, !.at = "recover"]
      /\ UNCHANGED <<disk, faults>> /\ calls < MaxCalls /\ calls' = calls + 1
  BY <1>1 DEF Begin
<1>3. /\ call' \in Calls /\ call'.at = "recover" /\ call'.moving = None
      /\ call'.then = "none" /\ call'.op = op /\ call'.bundle = b
      /\ call'.other = other /\ call'.owned = owned
  BY <1>2, NoCallTyped DEF NoCall, Calls, Labels
<1>4. DiskTyped' /\ DiskInv'
  BY <1>2, PlaceDisk DEF PlaceInv
<1>5. ArgsInv' /\ CallInv'
  BY <1>1, <1>3 DEF ArgsInv, CallInv, Outside, Activating, Restores
<1>6. Counted'
  BY <1>2, BundleAssumption DEF PlaceInv, Counted
<1> QED  BY <1>3, <1>4, <1>5, <1>6 DEF PlaceInv

\* Moving state leaves the files of the installer alone.
LEMMA PlacePrepare ==
  ASSUME PlaceInv, \/ \E c \in Components : PrepareRefused(c) \/ ArchiveBegin(c)
                   \/ ArchiveDirectory \/ ArchiveFile \/ ArchiveFilesDone
  PROVE  PlaceInv'
<1>0. Counted' /\ call \in Calls /\ UNCHANGED disk /\ call.at = "prepare"
  BY PlaceCounted DEF PlaceInv, PrepareRefused, ArchiveBegin, ArchiveDirectory, ArchiveFile,
                      ArchiveFilesDone, At
<1>1. \/ \E S \in SUBSET Components : UndoPrepared(S)
      \/ \E c \in Components : call' = [call EXCEPT !.moving = c]
      \/ \E c \in Components : call' = [call EXCEPT !.moving = c, !.files = StateFiles]
      \/ call.files # <<>> /\ call' = [call EXCEPT !.files = Tail(@)]
      \/ \E c \in Components : call' = [call EXCEPT !.todo = @ \ {c}, !.done = @ \cup {c},
                                                    !.moving = None]
  <2>1. call.done \in SUBSET Components /\ call.moving \in Maybe(Components)
    BY <1>0 DEF Calls
  <2>2. CASE \E c \in Components : PrepareRefused(c)
    BY <2>1, <2>2 DEF PrepareRefused
  <2>3. CASE \E c \in Components : ArchiveBegin(c)
    BY <2>1, <2>3 DEF ArchiveBegin
  <2>4. CASE ArchiveDirectory
    BY <2>1, <2>4 DEF ArchiveDirectory, Maybe
  <2>5. CASE ArchiveFile
    <3>1. call.moving \in Components
      BY <2>5, BundleAssumption DEF ArchiveFile
    <3> QED  BY <2>1, <2>5, <3>1 DEF ArchiveFile
  <2>6. CASE ArchiveFilesDone
    <3>1. call.moving \in Components
      BY <2>6, BundleAssumption DEF ArchiveFilesDone
    <3> QED  BY <2>1, <2>6, <3>1 DEF ArchiveFilesDone
  <2> QED  BY <2>2, <2>3, <2>4, <2>5, <2>6
<1>2. call' \in Calls /\ SameJob /\ call'.at \in {"prepare", "undo"}
  <2>1. CASE \E S \in SUBSET Components : UndoPrepared(S)
    BY <1>0, <2>1, UndoPreparedFields
  <2>2. CASE \E c \in Components : call' = [call EXCEPT !.moving = c]
    BY <1>0, <2>2 DEF Calls, SameJob, SameArgs, Maybe
  <2>3. CASE \E c \in Components : call' = [call EXCEPT !.moving = c, !.files = StateFiles]
    BY <1>0, <2>3, StateFilesTyped, ZenonT(60) DEF Calls, SameJob, SameArgs, Maybe
  <2>4. CASE call.files # <<>> /\ call' = [call EXCEPT !.files = Tail(@)]
    <3>1. Tail(call.files) \in Seq(Files)
      BY <1>0, <2>4 DEF Calls
    <3> QED  BY <1>0, <2>4, <3>1 DEF Calls, SameJob, SameArgs
  <2>5. CASE \E c \in Components : call' = [call EXCEPT !.todo = @ \ {c}, !.done = @ \cup {c},
                                                        !.moving = None]
    <3>1. PICK c \in Components :
            call' = [call EXCEPT !.todo = @ \ {c}, !.done = @ \cup {c}, !.moving = None]
      BY <2>5
    <3>2. /\ call.todo \ {c} \in SUBSET Components /\ call.done \cup {c} \in SUBSET Components
          /\ None \in Maybe(Components)
      BY <1>0 DEF Calls, Maybe
    <3> QED  BY <1>0, <3>1, <3>2 DEF Calls, SameJob, SameArgs
  <2> QED  BY <1>1, <2>1, <2>2, <2>3, <2>4, <2>5
<1> QED  BY <1>0, <1>2, PlaceWithin

LEMMA PlaceRestore ==
  ASSUME PlaceInv, \/ \E c \in Components : \/ RestoreNothing(c) \/ RestoreFails(c)
                                            \/ RestoreBegin(c)
                   \/ RestoreFile \/ RestoreMoved
  PROVE  PlaceInv'
<1>0. Counted' /\ call \in Calls /\ UNCHANGED disk /\ call.at \in {"undo", "restore"}
  BY PlaceCounted DEF PlaceInv, RestoreNothing, RestoreFails, RestoreBegin, RestoreFile,
                      RestoreMoved, Restoring, At
<1>1. \/ \E c : call' = [call EXCEPT !.todo = @ \ {c}]
      \/ \E c : call' = [call EXCEPT !.todo = @ \ {c}, !.bad = TRUE]
      \/ \E c \in Components, fs \in Seq(Files) :
           call' = [call EXCEPT !.moving = c, !.files = fs]
      \/ call.files # <<>> /\ call' = [call EXCEPT !.files = Tail(@)]
      \/ \E c : call' = [call EXCEPT !.todo = @ \ {c}, !.bad = TRUE, !.moving = None,
                                     !.files = <<>>]
      \/ \E c : call' = [call EXCEPT !.todo = @ \ {c}, !.moving = None]
      \/ \E c : call' = [call EXCEPT !.todo = @ \ {c}, !.moving = None, !.bad = TRUE]
  <2>1. CASE \E c \in Components : RestoreNothing(c)
    BY <2>1 DEF RestoreNothing
  <2>2. CASE \E c \in Components : RestoreFails(c)
    BY <2>2 DEF RestoreFails
  <2>3. CASE \E c \in Components : RestoreBegin(c)
    <3>1. StateFiles \in Seq(Files) /\ <<>> \in Seq(Files)
      BY StateFilesTyped
    <3> QED  BY <2>3, <3>1 DEF RestoreBegin
  <2>4. CASE RestoreFile
    BY <2>4 DEF RestoreFile
  <2>5. CASE RestoreMoved
    BY <2>5 DEF RestoreMoved
  <2> QED  BY <2>1, <2>2, <2>3, <2>4, <2>5
<1>2. call' \in Calls /\ SameJob /\ call'.at = call.at
  <2>1. CASE \E c : call' = [call EXCEPT !.todo = @ \ {c}]
    BY <1>0, <2>1 DEF Calls, SameJob, SameArgs
  <2>2. CASE \E c : call' = [call EXCEPT !.todo = @ \ {c}, !.bad = TRUE]
    BY <1>0, <2>2, ZenonT(60) DEF Calls, SameJob, SameArgs
  <2>3. CASE \E c \in Components, fs \in Seq(Files) :
           call' = [call EXCEPT !.moving = c, !.files = fs]
    BY <1>0, <2>3, ZenonT(60) DEF Calls, SameJob, SameArgs, Maybe
  <2>4. CASE call.files # <<>> /\ call' = [call EXCEPT !.files = Tail(@)]
    <3>1. Tail(call.files) \in Seq(Files)
      BY <1>0, <2>4 DEF Calls
    <3> QED  BY <1>0, <2>4, <3>1 DEF Calls, SameJob, SameArgs
  <2>5. CASE \E c : call' = [call EXCEPT !.todo = @ \ {c}, !.bad = TRUE, !.moving = None,
                                         !.files = <<>>]
    <3>1. <<>> \in Seq(Files) /\ None \in Maybe(Components)
      BY DEF Maybe
    <3> QED  BY <1>0, <2>5, <3>1, ZenonT(60) DEF Calls, SameJob, SameArgs
  <2>6. CASE \E c : call' = [call EXCEPT !.todo = @ \ {c}, !.moving = None]
    <3>1. PICK c : call' = [call EXCEPT !.todo = @ \ {c}, !.moving = None]
      BY <2>6
    <3>2. call.todo \ {c} \in SUBSET Components /\ None \in Maybe(Components)
      BY <1>0 DEF Calls, Maybe
    <3> QED  BY <1>0, <3>1, <3>2 DEF Calls, SameJob, SameArgs
  <2>7. CASE \E c : call' = [call EXCEPT !.todo = @ \ {c}, !.moving = None, !.bad = TRUE]
    <3>1. PICK c : call' = [call EXCEPT !.todo = @ \ {c}, !.moving = None, !.bad = TRUE]
      BY <2>7
    <3>2. call.todo \ {c} \in SUBSET Components /\ None \in Maybe(Components)
      BY <1>0 DEF Calls, Maybe
    <3> QED  BY <1>0, <3>1, <3>2 DEF Calls, SameJob, SameArgs
  <2> QED  BY <1>1, <2>1, <2>2, <2>3, <2>4, <2>5, <2>6, <2>7
<1> QED  BY <1>0, <1>2, PlaceWithin

LEMMA PlaceUndoDone == ASSUME PlaceInv, UndoDone PROVE PlaceInv'
<1>1. Counted' /\ DiskTyped' /\ DiskInv' /\ Pending
  BY PlaceCounted, PlaceDisk DEF PlaceInv, UndoDone, At, CallInv, Activating
<1> QED  BY <1>1, PlaceFail DEF UndoDone, disk

LEMMA PlaceInit == ASSUME Init PROVE PlaceInv
<1>1. DiskTyped /\ DiskInv
  BY DEF Init, DiskTyped, DiskInv, Agrees, Sound, Maybe
<1>2. call.at = "idle" /\ call.op = "none" /\ call.moving = None /\ call \in Calls
  BY NoCallTyped DEF Init, NoCall, Idle
<1>3. ArgsInv /\ CallInv
  BY <1>2 DEF ArgsInv, CallInv, Outside, Activating, Restores
<1>4. Counted
  BY BundleAssumption DEF Init, Counted
<1> QED  BY <1>1, <1>2, <1>3, <1>4 DEF PlaceInv

\* Every step keeps the transaction, the record and the link in step with
\* the command.
LEMMA PlaceNext == ASSUME PlaceInv, [Next]_vars PROVE PlaceInv'
<1>1. CASE UNCHANGED vars
  <2>1. UNCHANGED disk /\ call' = call /\ calls' = calls /\ faults' = faults
    BY <1>1 DEF vars
  <2>2. DiskTyped' /\ DiskInv' /\ Counted'
    BY <2>1, PlaceDisk DEF PlaceInv, Counted
  <2>3. ArgsInv' /\ call' \in Calls
    BY <2>1 DEF PlaceInv, ArgsInv
  <2>4. RestoreInv' = RestoreInv /\ ClearInv' = ClearInv
    BY <2>1 DEF RestoreInv, ClearInv, Undoing, Pending, disk
  <2>5. CallInv'
    BY <2>1, <2>4, ZenonT(60) DEF PlaceInv, CallInv, Undoing, Pending, Purged, disk
  <2> QED  BY <2>2, <2>3, <2>5 DEF PlaceInv
<1>2. CASE Crash
  BY <1>2, PlaceCounted, PlaceDisk, PlaceReturn DEF PlaceInv, Crash
<1>3. CASE Commands
  BY <1>3, PlaceCommands
<1>4. CASE Steps
  BY <1>4, PlaceRecover, PlaceStage, PlaceBaseline, PlaceCommitActivation, PlaceStopOld,
     PlaceSwitchCurrent, PlaceStartCandidate, PlaceCommitRecord, PlacePrepare, PlaceClear,
     PlaceRestoreStop, PlaceRestore, PlaceUndoDone, PlaceRestoreSwitch,
     PlaceRestoreServices, PlaceRestoreRecord, PlaceRecoveryRecord, PlaceRollback,
     PlaceRolledBack, PlaceFirst, PlaceDeactivate, PlaceForget, PlaceRemove, PlacePurge,
     PlaceRestart, PlaceRestartServices DEF Steps
<1> QED  BY <1>1, <1>2, <1>3, <1>4 DEF Next

\* PlaceInv holds throughout.
THEOREM PlaceInvariance == Spec => []PlaceInv
BY PlaceInit, PlaceNext, PTL DEF Spec

\* Without a transaction to recover, the link and the record agree and no
\* record asks for a recovery, whatever failed in Activate, Rollback or the
\* removals before and wherever they were cut off.
THEOREM RecordsAgree == Spec => []RecordNamesCurrent
<1>1. PlaceInv => RecordNamesCurrent
  BY DEF PlaceInv, DiskInv, Agrees, Sound, RecordNamesCurrent
<1> QED  BY <1>1, PlaceInvariance, PTL

\* recoverInterruptedActivation always finds a valid transaction and both its
\* releases, and the release `current` points to is never purged.
THEOREM RecoveryReads == Spec => []RecoveryCanRead
<1>1. PlaceInv => RecoveryCanRead
  BY DEF PlaceInv, DiskInv, DiskTyped, RecoveryCanRead, Maybe
<1> QED  BY <1>1, PlaceInvariance, PTL

-----------------------------------------------------------------------------
(* The second layer: the types of the state directories, and why those of  *)
(* the components with state_files exist when their files are moved.       *)

ServicesTyped == running \in [Components -> Maybe(Bundles)] /\ enabled \subseteq Components
StateTyped    == /\ live \in [Components -> Maybe(States)]
                 /\ backup \in [Components -> [Bundles -> Maybe(States)]]
GhostTyped    == ghost \in [op : Ops, live : [Components -> Maybe(States)],
                            left : SUBSET Components, broken : SUBSET Components]

\* The components of a release that move files have their directories.
Settled(b) == \A c \in ByFile \cap Of(b) : live[c] # None

\* The services of the release were all started.
Verified == \/ call.at \in {"commit", "clear"}
            \/ call.at = "restored" /\ ~call.bad

LiveInv ==
  /\ \A c \in ByFile : running[c] # None => live[c] # None
  /\ \A c \in ByFile, b \in Bundles : backup[c][b] # None => live[c] # None
  /\ ~Pending \/ Verified => Settled(current)
  /\ call.at \in {"stop", "prepare"} => Settled(call.old)

MoveInv ==
  /\ call.at = "prepare" => call.todo \subseteq Changed(call.old, call.new)
  /\ call.moving \in ByFile => backup[call.moving][call.new] # None
  /\ call.moving # None /\ call.at \in {"undo", "restore"} =>
       backup[call.moving][call.new] # None

TypesInv == ServicesTyped /\ StateTyped /\ GhostTyped /\ LiveInv /\ MoveInv

\* What the steps that start no service leave of Settled.
SettledStep == /\ ~Pending' \/ Verified' => Settled(current')
               /\ call'.at \in {"stop", "prepare"} => Settled(call'.old)

LEMMA OfNone == Of(None) = {}
BY DEF Of

LEMMA RestoreForAt ==
  ASSUME PlaceInv, NEW t, NEW old, NEW new, RestoreFor(t, old, new)
  PROVE  /\ call'.at = "restore stop" /\ call'.then = t
         /\ call'.old = old /\ call'.new = new /\ call'.bad = FALSE
         /\ call'.moving = call.moving /\ call'.files = call.files
BY DEF PlaceInv, Calls, RestoreFor

LEMMA FailActivationAt ==
  ASSUME PlaceInv, FailActivation
  PROVE  /\ call'.at = "restore stop" /\ call'.then = "failed"
         /\ call'.old = txn.previous /\ call'.new = txn.candidate
         /\ call'.moving = call.moving /\ call'.files = call.files
BY RestoreForAt DEF FailActivation

LEMMA ReturnAt ==
  ASSUME Return
  PROVE  /\ call'.at = "idle" /\ call'.moving = None /\ call'.then = "none"
         /\ call'.files = <<>>
BY DEF Return, NoCall, Idle

\* A record that asks for recovery is not the final one of a transaction.
LEMMA RecoveryPending ==
  ASSUME PlaceInv, WriteRecoveryRecord
  PROVE  Pending /\ Pending' /\ UNCHANGED <<current, txn>> /\ call'.at = Idle
<1>1. Pending /\ UNCHANGED <<current, txn>> /\ call'.at = Idle
  BY DEF WriteRecoveryRecord, PlaceInv, At, CallInv, Restores, RestoreInv, Return, NoCall
<1>2. CASE record' = record
  BY <1>1, <1>2 DEF Pending
<1>3. CASE record' = [active |-> IF current = None THEN txn.candidate ELSE current,
                      previous |-> txn.previous, recovery |-> TRUE]
  <2>1. ValidTransaction(txn)
    BY <1>1 DEF PlaceInv, DiskInv, Pending
  <2>2. record'.recovery = TRUE
    BY <1>3
  <2> QED  BY <1>1, <2>1, <2>2 DEF Pending, ValidTransaction
<1> QED  BY <1>1, <1>2, <1>3 DEF WriteRecoveryRecord

\* A rollback or removal that begins leaves a pending transaction.
LEMMA RestorePending ==
  ASSUME PlaceInv, PlaceInv', NEW t \in {"rolled back", "removed"}, NEW old, NEW new,
         RestoreFor(t, old, new)
  PROVE  Pending' /\ call'.at = "restore stop" /\ call'.then = t
<1>1. call'.at = "restore stop" /\ call'.then = t
  BY DEF PlaceInv, Calls, RestoreFor
<1> QED  BY <1>1 DEF PlaceInv, CallInv, RestoreInv, Restores

LEMMA CommandsAt ==
  ASSUME Commands
  PROVE  /\ call.at = "idle" /\ call'.at = "recover" /\ call'.moving = None
         /\ call'.files = <<>> /\ call'.then = "none"
         /\ UNCHANGED <<disk, state, services, ghost>>
<1>1. PICK op, b, other, owned : Begin(op, b, other, owned)
  BY DEF Commands, Activate, Rollback, RollbackCandidate, RestartActive,
         DeactivateCandidate, DeactivateInstallation
<1> QED  BY <1>1 DEF Begin, NoCall, At, Idle

LEMMA BodiesAt ==
  ASSUME PlaceInv, RollbackBody \/ RollbackCandidateBody \/ DeactivateBody \/ RemoveBody
  PROVE  call'.at \in {"idle", "forget", "purge", "restore stop"}
<1>1. CASE RollbackBody
  BY <1>1, ReturnAt, RestoreForAt DEF RollbackBody, CommitRollback, Refused
<1>2. CASE RollbackCandidateLocked
  BY <1>2, ReturnAt, RestoreForAt
     DEF RollbackCandidateLocked, RollbackFirst, CommitRollback, Refused
<1>3. CASE DeactivateBody /\ ~RollbackCandidateLocked
  BY <1>3, ReturnAt DEF DeactivateBody, Refused, Goto, PlaceInv, Calls
<1>4. CASE RemoveBody
  BY <1>4, ReturnAt, RestoreForAt DEF RemoveBody, Refused, Goto, PlaceInv, Calls
<1> QED  BY <1>1, <1>2, <1>3, <1>4 DEF RollbackCandidateBody

LEMMA SettledBodies ==
  ASSUME PlaceInv, PlaceInv', LiveInv,
         RollbackBody \/ RollbackCandidateBody \/ DeactivateBody \/ RemoveBody
  PROVE  SettledStep
<1>1. /\ ~Pending /\ UNCHANGED <<current, record>>
  BY DEF RollbackBody, RollbackCandidateBody, DeactivateBody, RemoveBody, PlaceInv, CallInv,
         At, Outside, Pending
<1>2. /\ Settled(current')
  BY <1>1 DEF LiveInv
<1>3. call'.at \in {"idle", "forget", "purge", "restore stop"}
  BY BodiesAt
<1> QED  BY <1>2, <1>3 DEF SettledStep

\* The steps between the moves of state and the starts of services.
QuietSteps ==
  \/ Commands \/ Crash
  \/ RecoverNothing \/ RecoverCommitted \/ RecoverInterrupted
  \/ Stage \/ BaselineRefused \/ ActiveAlready \/ CommitActivation
  \/ SwitchCurrent \/ CommitRecord \/ ClearTransaction
  \/ UndoDone \/ RestoreSwitch \/ RestoreActivationRecord \/ WriteRecoveryRecord
  \/ RollbackBody \/ RollbackCandidateBody \/ RolledBack \/ FirstTakenDown
  \/ DeactivateBody \/ Forget \/ RemoveBody \/ Purge \/ RestartBody

MoveSteps ==
  \/ \E c \in Components : PrepareRefused(c) \/ ArchiveBegin(c)
  \/ ArchiveDirectory \/ ArchiveFile \/ ArchiveFilesDone
  \/ RestoreFile \/ RestoreMoved
  \/ \E c \in Components : RestoreNothing(c) \/ RestoreFails(c) \/ RestoreBegin(c)

StartSteps == StartCandidate \/ RestoreServices \/ RestartServices

LEMMA NextSplit == Next = (QuietSteps \/ MoveSteps \/ StartSteps \/ StopOld \/ RestoreStop)
BY DEF Next, Steps, QuietSteps, MoveSteps, StartSteps

LEMMA SettledSteps ==
  ASSUME PlaceInv, PlaceInv', LiveInv, QuietSteps \/ MoveSteps \/ StopOld \/ RestoreStop
  PROVE  SettledStep
<1> USE DEF At, Goto, Return, NoCall, Idle, Verified, SettledStep, LiveInv, Settled, Pending
<1>1. CASE Commands
  <2>1. call'.at = "recover" /\ UNCHANGED disk /\ call.at = "idle"
    BY <1>1, CommandsAt
  <2> QED  BY <2>1 DEF disk
<1>2. CASE RecoverNothing
  BY <1>2, OfNone DEF RecoverNothing, PlaceInv, DiskTyped, CallInv, RestoreInv, Calls, Outside,
     Activating, Restores, disk
<1>3. CASE RecoverCommitted
  BY <1>3, OfNone DEF RecoverCommitted, PlaceInv, DiskTyped, CallInv, RestoreInv, Calls, Outside,
     Activating, Restores, disk, Committed
<1>4. CASE RecoverInterrupted
  BY <1>4, OfNone DEF RecoverInterrupted, PlaceInv, DiskTyped, CallInv, RestoreInv, Calls, Outside,
     Activating, Restores, disk, RestoreFor, Committed
<1>5. CASE Stage
  BY <1>5, OfNone DEF Stage, PlaceInv, DiskTyped, CallInv, RestoreInv, Calls, Outside,
     Activating, Restores, disk
<1>6. CASE BaselineRefused
  BY <1>6, OfNone DEF BaselineRefused, PlaceInv, DiskTyped, CallInv, RestoreInv, Calls, Outside,
     Activating, Restores, disk
<1>7. CASE ActiveAlready
  BY <1>7, OfNone DEF ActiveAlready, PlaceInv, DiskTyped, CallInv, RestoreInv, Calls, Outside,
     Activating, Restores, disk
<1>8. CASE CommitActivation
  BY <1>8, OfNone DEF CommitActivation, PlaceInv, DiskTyped, CallInv, RestoreInv, Calls, Outside,
     Activating, Restores, disk
<1>9. CASE SwitchCurrent
  BY <1>9, FailActivationAt DEF SwitchCurrent, PlaceInv, CallInv, Calls, Activating
<1>10. CASE CommitRecord
  BY <1>10, OfNone, ZenonT(60) DEF CommitRecord, PlaceInv, DiskTyped, CallInv, RestoreInv,
     Calls, Outside, Activating, Restores, disk, FailActivation, RestoreFor
<1>11. CASE RestoreStop
  BY <1>11, OfNone, ZenonT(60) DEF RestoreStop, PlaceInv, DiskTyped, CallInv, RestoreInv,
     Calls, Outside, Activating, Restores, disk
<1>12. CASE RestoreActivationRecord
  BY <1>12, OfNone DEF RestoreActivationRecord, PlaceInv, DiskTyped, CallInv, RestoreInv,
     Calls, Outside, Activating, Restores, disk, Undoing
<1>13. CASE FirstTakenDown
  BY <1>13, OfNone DEF FirstTakenDown, PlaceInv, DiskTyped, CallInv, RestoreInv, Calls, Outside,
     Activating, Restores, disk
<1>14. CASE Forget
  BY <1>14, OfNone DEF Forget, PlaceInv, DiskTyped, CallInv, RestoreInv, Calls, Outside,
     Activating, Restores, disk
<1>15. CASE Purge
  BY <1>15, OfNone DEF Purge, PlaceInv, DiskTyped, CallInv, RestoreInv, Calls, Outside,
     Activating, Restores, disk
<1>16. CASE RestartBody
  BY <1>16, OfNone DEF RestartBody, PlaceInv, DiskTyped, CallInv, RestoreInv, Calls, Outside,
     Activating, Restores, disk
<1>17. CASE RestartServices
  BY <1>17, OfNone DEF RestartServices, PlaceInv, DiskTyped, CallInv, RestoreInv, Calls, Outside,
     Activating, Restores, disk
<1>18. CASE ArchiveDirectory
  BY <1>18, OfNone, ZenonT(60) DEF ArchiveDirectory, PlaceInv, DiskTyped, CallInv, RestoreInv,
     Calls, Outside, Activating, Restores, disk, UndoPrepared
<1>19. CASE ArchiveFile
  BY <1>19, OfNone DEF ArchiveFile, PlaceInv, DiskTyped, CallInv, RestoreInv, Calls, Outside,
     Activating, Restores, disk, UndoPrepared
<1>20. CASE ArchiveFilesDone
  BY <1>20, OfNone DEF ArchiveFilesDone, PlaceInv, DiskTyped, CallInv, RestoreInv, Calls, Outside,
     Activating, Restores, disk, UndoPrepared
<1>21. CASE RestoreFile
  BY <1>21, OfNone DEF RestoreFile, PlaceInv, DiskTyped, CallInv, RestoreInv, Calls, Outside,
     Activating, Restores, disk, Restoring
<1>22. CASE RestoreMoved
  BY <1>22, OfNone DEF RestoreMoved, PlaceInv, DiskTyped, CallInv, RestoreInv, Calls, Outside,
     Activating, Restores, disk, Restoring
<1>23. CASE UndoDone
  BY <1>23, OfNone DEF UndoDone, PlaceInv, DiskTyped, CallInv, RestoreInv, Calls, Outside,
     Activating, Restores, disk, FailActivation, RestoreFor
<1>24. CASE Crash
  BY <1>24, OfNone DEF Crash, PlaceInv, DiskTyped, CallInv, RestoreInv, Calls, Outside,
     Activating, Restores, disk
<1>25. CASE \E c \in Components : PrepareRefused(c)
  BY <1>25 DEF PrepareRefused, PlaceInv, CallInv, RestoreInv, Calls, Activating, Restores,
     disk, UndoPrepared, Restoring
<1>26. CASE \E c \in Components : ArchiveBegin(c)
  BY <1>26, ZenonT(60) DEF ArchiveBegin, PlaceInv, CallInv, RestoreInv, Calls, Activating, Restores,
     disk, UndoPrepared, Restoring
<1>27. CASE \E c \in Components : RestoreNothing(c)
  BY <1>27 DEF RestoreNothing, PlaceInv, CallInv, RestoreInv, Calls, Activating, Restores,
     disk, UndoPrepared, Restoring
<1>28. CASE \E c \in Components : RestoreFails(c)
  BY <1>28, ZenonT(60) DEF RestoreFails, PlaceInv, CallInv, RestoreInv, Calls, Activating, Restores,
     disk, UndoPrepared, Restoring
<1>29. CASE \E c \in Components : RestoreBegin(c)
  BY <1>29, ZenonT(60) DEF RestoreBegin, PlaceInv, CallInv, RestoreInv, Calls, Activating, Restores,
     disk, UndoPrepared, Restoring
<1>30. CASE StopOld
  <2>1. Pending /\ Pending' /\ call'.at \in {"prepare", "restore stop"}
    BY <1>30, FailActivationAt DEF StopOld, PlaceInv, CallInv, Activating, Calls, disk
  <2>2. call'.at = "prepare" => call'.old = call.old
    BY <1>30, FailActivationAt DEF StopOld, PlaceInv, Calls
  <2> QED  BY <1>30, <2>1, <2>2 DEF StopOld
<1>31. CASE ClearTransaction
  <2>1. call'.at \in {"body", "purge", "forget", Idle}
    <3>1. call \in Calls
      BY DEF PlaceInv
    <3>2. CASE call' = [call EXCEPT !.at = "body", !.then = "none"]
      BY <3>1, <3>2 DEF Calls
    <3>3. CASE Goto("purge") \/ Goto("forget") \/ Return
      BY <3>1, <3>3 DEF Calls
    <3> QED  BY <1>31, <3>2, <3>3 DEF ClearTransaction
  <2> QED  BY <1>31, <2>1 DEF ClearTransaction
<1>32. CASE RestoreSwitch
  <2>1. call'.at = "restore services" /\ UNCHANGED <<record, txn>>
    BY <1>32 DEF RestoreSwitch, PlaceInv, Calls
  <2>2. current' = current \/ current' = call.old
    BY <1>32 DEF RestoreSwitch
  <2>3. Pending \/ call.old = None
    BY <1>32 DEF RestoreSwitch, PlaceInv, CallInv, RestoreInv, Restores, Calls, Thens, Undoing
  <2> QED  BY <2>1, <2>2, <2>3, OfNone
<1>33. CASE WriteRecoveryRecord
  BY <1>33, RecoveryPending
<1>34. CASE RolledBack
  <2>1. Pending /\ UNCHANGED <<current, txn>>
    BY <1>34 DEF RolledBack, PlaceInv, CallInv, RestoreInv, Restores
  <2>2. call'.at \in {"clear", "restore stop", Idle}
    <3>1. FailActivation \/ Return \/ Goto("clear")
      BY <1>34 DEF RolledBack
    <3>2. Goto("clear") => call'.at = "clear"
      BY DEF PlaceInv, Calls
    <3>3. Return => call'.at = Idle
      OBVIOUS
    <3>4. FailActivation => call'.at = "restore stop"
      BY FailActivationAt
    <3> QED  BY <3>1, <3>2, <3>3, <3>4
  <2>3. CASE ~call.bad
    BY <1>34, <2>1, <2>2, <2>3 DEF RolledBack
  <2>4. CASE call.bad
    BY <1>34, <2>1, <2>4, FailActivationAt DEF RolledBack
  <2> QED  BY <2>3, <2>4
<1>35. CASE RollbackBody \/ RollbackCandidateBody \/ DeactivateBody \/ RemoveBody
  BY <1>35, SettledBodies
<1> QED  BY <1>1, <1>2, <1>3, <1>4, <1>5, <1>6, <1>7, <1>8, <1>9, <1>10, <1>11,
            <1>12, <1>13, <1>14, <1>15, <1>16, <1>17, <1>18, <1>19,
            <1>20, <1>21, <1>22, <1>23, <1>24, <1>25, <1>26, <1>27,
            <1>28, <1>29, <1>30, <1>31, <1>32, <1>33, <1>34, <1>35
     DEF QuietSteps, MoveSteps

\* A quiet step leaves all state where it is, and moves none.
LEMMA QuietLeaves ==
  ASSUME PlaceInv, QuietSteps
  PROVE  /\ UNCHANGED <<live, backup>>
         /\ call'.at \notin {"prepare", "undo", "restore"}
<1>1. CASE Commands
  BY <1>1, CommandsAt DEF state
<1>2. CASE RecoverNothing
  BY <1>2 DEF RecoverNothing, state, Goto, Calls, PlaceInv
<1>3. CASE RecoverCommitted
  BY <1>3, ReturnAt DEF RecoverCommitted, state, Goto, Calls, PlaceInv
<1>4. CASE RecoverInterrupted
  BY <1>4, RestoreForAt DEF RecoverInterrupted, state
<1>5. CASE Stage
  BY <1>5, ReturnAt DEF Stage, state, Goto, Calls, PlaceInv
<1>6. CASE BaselineRefused
  BY <1>6, ReturnAt DEF BaselineRefused, state
<1>7. CASE ActiveAlready
  BY <1>7, ReturnAt DEF ActiveAlready, state
<1>8. CASE CommitActivation
  BY <1>8, ReturnAt DEF CommitActivation, state, Goto, Calls, PlaceInv
<1>9. CASE SwitchCurrent
  BY <1>9, FailActivationAt DEF SwitchCurrent, state, Goto, Calls, PlaceInv
<1>10. CASE CommitRecord
  BY <1>10, FailActivationAt DEF CommitRecord, state, Goto, Calls, PlaceInv
<1>11. CASE ClearTransaction
  BY <1>11, ReturnAt DEF ClearTransaction, state, Goto, Calls, PlaceInv
<1>12. CASE UndoDone
  BY <1>12, FailActivationAt DEF UndoDone, state
<1>13. CASE RestoreSwitch
  BY <1>13 DEF RestoreSwitch, state, Goto, Calls, PlaceInv
<1>14. CASE RestoreActivationRecord
  BY <1>14 DEF RestoreActivationRecord, state, Goto, Calls, PlaceInv
<1>15. CASE WriteRecoveryRecord
  BY <1>15, ReturnAt DEF WriteRecoveryRecord, state
<1>16. CASE FirstTakenDown
  BY <1>16, ReturnAt DEF FirstTakenDown, state, Goto, Calls, PlaceInv
<1>17. CASE Forget
  BY <1>17, ReturnAt DEF Forget, state, Goto, Calls, PlaceInv
<1>18. CASE RestartBody
  BY <1>18, ReturnAt DEF RestartBody, state, Goto, Calls, PlaceInv
<1>19. CASE Crash
  BY <1>19, ReturnAt DEF Crash, state
<1>20. CASE RolledBack
  <2>1. FailActivation \/ Return \/ Goto("clear")
    BY <1>20 DEF RolledBack
  <2>2. Goto("clear") => call'.at = "clear"
    BY DEF Goto, PlaceInv, Calls
  <2> QED  BY <1>20, <2>1, <2>2, FailActivationAt, ReturnAt DEF RolledBack, state
<1>21. CASE Purge
  <2>1. call'.at = "purge" \/ call'.at = "idle"
    BY <1>21, ReturnAt DEF Purge, At
  <2> QED  BY <1>21, <2>1 DEF Purge, state
<1>22. CASE RollbackBody \/ RollbackCandidateBody \/ DeactivateBody \/ RemoveBody
  <2>1. UNCHANGED <<live, backup>>
    BY <1>22 DEF RollbackBody, RollbackCandidateBody, DeactivateBody, RemoveBody, state
  <2> QED  BY <1>22, <2>1, BodiesAt
<1> QED  BY <1>1, <1>2, <1>3, <1>4, <1>5, <1>6, <1>7, <1>8, <1>9, <1>10, <1>11,
            <1>12, <1>13, <1>14, <1>15, <1>16, <1>17, <1>18, <1>19,
            <1>20, <1>21, <1>22
     DEF QuietSteps

LEMMA EmptyTyped == Empty \in States
BY DEF Empty, States, Maybe

\* The history is rewritten when a transaction begins and otherwise only
\* notes components whose files were cut off.
GhostKept == \E S \in SUBSET Components : ghost' = [ghost EXCEPT !.broken = @ \cup S]

LEMMA GhostSteps ==
  ASSUME PlaceInv, Next
  PROVE  ghost' = ghost \/ GhostKept \/ \E a, b : BeginTransaction(a, b)
<1>0. /\ {} \in SUBSET Components /\ {call.moving} \cap ByFile \in SUBSET Components
  BY BundleAssumption
<1>1. CASE QuietSteps
  <2>1. CASE Commands
    BY <2>1, CommandsAt
  <2>2. CASE CommitActivation \/ RollbackBody \/ RemoveBody
    BY <2>2 DEF CommitActivation, RollbackBody, RemoveBody, CommitRollback, Refused
  <2>3. CASE RollbackCandidateBody \/ DeactivateBody
    BY <2>3 DEF RollbackCandidateBody, DeactivateBody, RollbackCandidateLocked,
                RollbackFirst, CommitRollback, Refused
  <2>4. CASE Crash
    BY <1>0, <2>4 DEF Crash, GhostKept
  <2> QED  BY <1>1, <2>1, <2>2, <2>3, <2>4
     DEF QuietSteps, RecoverNothing, RecoverCommitted, RecoverInterrupted, Stage,
         BaselineRefused, ActiveAlready, SwitchCurrent, CommitRecord, ClearTransaction,
         UndoDone, RestoreSwitch, RestoreActivationRecord, WriteRecoveryRecord, RolledBack,
         FirstTakenDown, Forget, Purge, RestartBody
<1>2. CASE MoveSteps
  <2>1. CASE ArchiveFile \/ RestoreFile
    <3>1. {call.moving} \in SUBSET Components
      BY <2>1, BundleAssumption DEF ArchiveFile, RestoreFile
    <3> QED  BY <2>1, <3>1 DEF ArchiveFile, RestoreFile, GhostKept
  <2>2. CASE RestoreMoved
    BY <1>0, <2>2 DEF RestoreMoved, GhostKept
  <2> QED  BY <1>2, <2>1, <2>2
     DEF MoveSteps, PrepareRefused, ArchiveBegin, ArchiveDirectory, ArchiveFilesDone,
         RestoreNothing, RestoreFails, RestoreBegin
<1>3. CASE StartSteps \/ StopOld \/ RestoreStop
  BY <1>3 DEF StartSteps, StartCandidate, RestoreServices, RestartServices, StopOld,
              RestoreStop
<1> QED  BY <1>1, <1>2, <1>3, NextSplit

LEMMA GhostNext ==
  ASSUME PlaceInv, TypesInv, Next PROVE GhostTyped'
<1>1. /\ call.op \in Ops /\ call.moving \in Maybe(Components)
  BY DEF PlaceInv, Calls
<1>2. ghost' = ghost \/ GhostKept \/ \E a, b : BeginTransaction(a, b)
  BY GhostSteps
<1>3. CASE ghost' = ghost
  BY <1>3 DEF TypesInv, GhostTyped
<1>4. CASE GhostKept
  BY <1>4 DEF TypesInv, GhostTyped, GhostKept
<1>5. CASE \E a, b : BeginTransaction(a, b)
  BY <1>1, <1>5 DEF TypesInv, GhostTyped, StateTyped, BeginTransaction
<1> QED  BY <1>2, <1>3, <1>4, <1>5

\* A file that a service creates has its format and is dated.
LEMMA CreatedTyped ==
  ASSUME PlaceInv, TypesInv, NEW c \in Of(current)
  PROVE  c \in Components /\ current \in Bundles /\ Created(c) \in States
<1>1. current \in Bundles /\ c \in Components
  BY BundleAssumption DEF PlaceInv, DiskTyped, Of, Maybe
<1>2. [format |-> Format[current][c], by |-> calls] \in Data
  BY <1>1 DEF Data, Formats, PlaceInv, Counted
<1>3. live[c] = None \/ live[c] \in States
  BY <1>1 DEF TypesInv, StateTyped, Maybe
<1> QED  BY <1>1, <1>2, <1>3 DEF Created, States, Maybe

LiveKept == \A c \in ByFile : live[c] # None => live'[c] # None

LEMMA StartTypes ==
  ASSUME PlaceInv, TypesInv, NEW S \in SUBSET Components, StartSome(S)
  PROVE  /\ running' \in [Components -> Maybe(Bundles)]
         /\ live' \in [Components -> Maybe(States)]
         /\ LiveKept
         /\ \A c \in ByFile : running'[c] # None => live'[c] # None
<1> DEFINE up == {c \in S : Starts(c)}
<1>1. \A c \in up : c \in Of(current)
  BY DEF Starts
<1>2. \A c \in up : Created(c) \in States /\ current \in Bundles
  BY <1>1, CreatedTyped
<1>3. /\ running' = [c \in Components |-> IF c \in up THEN current ELSE running[c]]
      /\ live' = [c \in Components |-> IF c \in up THEN Created(c) ELSE live[c]]
  BY DEF StartSome
<1> HIDE DEF up
<1>4. running' \in [Components -> Maybe(Bundles)]
  BY <1>2, <1>3 DEF TypesInv, ServicesTyped, Maybe
<1>5. live' \in [Components -> Maybe(States)]
  BY <1>2, <1>3 DEF TypesInv, StateTyped, Maybe
<1>6. \A c \in ByFile : \/ live'[c] \in States
                        \/ live'[c] = live[c] /\ running'[c] = running[c]
  BY <1>2, <1>3, BundleAssumption
<1> QED  BY <1>4, <1>5, <1>6, NoneAssumption DEF LiveKept, TypesInv, LiveInv

LEMMA StopTypes ==
  ASSUME TypesInv, NEW S, StopSome(S)
  PROVE  /\ running' \in [Components -> Maybe(Bundles)]
         /\ \A c \in Components : running'[c] \in {running[c], None}
BY DEF TypesInv, ServicesTyped, StopSome, Maybe

\* Which services run, and which are enabled, after a step.
LEMMA EnabledNext ==
  ASSUME PlaceInv, TypesInv, Next PROVE enabled' \subseteq Components
<1>1. /\ Of(current) \subseteq Components /\ Of(call.old) \subseteq Components
      /\ Of(call.new) \subseteq Components
  BY OfComponents DEF PlaceInv, DiskTyped, Calls, Maybe
<1>2. enabled \subseteq Components
  BY DEF TypesInv, ServicesTyped
<1>3. CASE ActiveAlready
  BY <1>1, <1>2, <1>3 DEF ActiveAlready
<1>4. CASE StartCandidate \/ RestoreServices
  BY <1>1, <1>2, <1>4 DEF StartCandidate, RestoreServices, Synchronize, SynchronizeFails
<1>5. CASE RestartServices
  BY <1>1, <1>2, <1>5 DEF RestartServices
<1>6. CASE enabled' = enabled
  BY <1>2, <1>6
<1> QED  BY <1>3, <1>4, <1>5, <1>6, CommandsAt
   DEF Next, Steps, Crash, RecoverNothing, RecoverCommitted, RecoverInterrupted, Stage,
       BaselineRefused, SwitchCurrent, CommitRecord, ClearTransaction, CommitActivation,
       UndoDone, RestoreSwitch, RestoreActivationRecord, WriteRecoveryRecord, RolledBack,
       FirstTakenDown, Forget, Purge, RestartBody, RollbackBody, RollbackCandidateBody,
       DeactivateBody, RemoveBody, StopOld, RestoreStop, PrepareRefused, ArchiveBegin,
       ArchiveDirectory, ArchiveFile, ArchiveFilesDone, RestoreFile, RestoreMoved,
       RestoreNothing, RestoreFails, RestoreBegin, services

BackupLive == \A c \in ByFile, b \in Bundles : backup[c][b] # None => live[c] # None

\* What a move of state has to establish.
MoveOK == StateTyped' /\ LiveKept /\ BackupLive' /\ MoveInv'

LEMMA MovingNew ==
  ASSUME PlaceInv, call.at \in {"prepare", "undo", "restore"}
  PROVE  call.new \in Bundles /\ call.old \in Maybe(Bundles)
<1>1. call.old \in Maybe(Bundles)
  BY DEF PlaceInv, Calls
<1>2. CASE call.at = "restore"
  BY <1>1, <1>2 DEF PlaceInv, CallInv, Restores, RestoreInv
<1>3. CASE call.at # "restore"
  <2>1. Pending /\ call.new = txn.candidate
    BY <1>3 DEF PlaceInv, CallInv, Activating
  <2> QED  BY <1>1, <2>1 DEF PlaceInv, DiskTyped, Pending, Transactions, Maybe
<1> QED  BY <1>2, <1>3

\* The state is left alone and no component is being moved any more.
LEMMA MoveNothing ==
  ASSUME TypesInv, UNCHANGED <<live, backup>>, call'.moving = None,
         call'.at = "prepare" => call'.todo \subseteq Changed(call'.old, call'.new)
  PROVE  MoveOK
BY BundleAssumption DEF TypesInv, StateTyped, LiveKept, LiveInv, BackupLive, MoveInv, MoveOK

LEMMA MoveArchiveBegin ==
  ASSUME PlaceInv, TypesInv, NEW c \in Components, ArchiveBegin(c) PROVE MoveOK
<1>1. /\ call \in Calls /\ call.at = "prepare" /\ call.new \in Bundles
      /\ call.old \in Maybe(Bundles) /\ call.moving = None /\ c \in call.todo
  BY MovingNew DEF ArchiveBegin, PlaceInv, At
<1>2. /\ live \in [Components -> Maybe(States)] /\ BackupLive
      /\ backup \in [Components -> [Bundles -> Maybe(States)]]
      /\ call.todo \subseteq Changed(call.old, call.new) /\ Settled(call.old)
  BY <1>1 DEF TypesInv, StateTyped, LiveInv, BackupLive, MoveInv
<1>3. CASE /\ c \notin ByFile /\ call' = [call EXCEPT !.moving = c]
           /\ backup' = [backup EXCEPT ![c][call.new] = live[c]]
           /\ live' = [live EXCEPT ![c] = None]
  <2>1. /\ call'.moving = c /\ call'.at = "prepare" /\ call'.todo = call.todo
        /\ call'.old = call.old /\ call'.new = call.new
    BY <1>1, <1>3 DEF Calls
  <2>2. StateTyped'
    BY <1>1, <1>2, <1>3 DEF StateTyped, Maybe
  <2>3. \A d \in ByFile : live'[d] = live[d] /\ backup'[d] = backup[d]
    BY <1>2, <1>3, BundleAssumption
  <2>4. LiveKept /\ BackupLive'
    BY <1>2, <2>3 DEF LiveKept, BackupLive
  <2>5. MoveInv'
    BY <1>2, <1>3, <2>1 DEF MoveInv
  <2> QED  BY <2>2, <2>4, <2>5 DEF MoveOK
<1>4. CASE /\ c \in ByFile /\ UNCHANGED live
           /\ backup' = [backup EXCEPT ![c][call.new] = Empty]
           /\ call' = [call EXCEPT !.moving = c, !.files = StateFiles]
  <2>1. /\ call'.moving = c /\ call'.at = "prepare" /\ call'.todo = call.todo
        /\ call'.old = call.old /\ call'.new = call.new
    BY <1>1, <1>4 DEF Calls
  <2>2. StateTyped' /\ backup'[c][call.new] # None
    BY <1>1, <1>2, <1>4, EmptyTyped, NoneAssumption DEF StateTyped, Maybe
  <2>3. live[c] # None
    BY <1>1, <1>2, <1>4 DEF Settled, Changed
  <2>4. \A d \in Components \ {c} : backup'[d] = backup[d]
    BY <1>2, <1>4
  <2>5. LiveKept /\ BackupLive'
    BY <1>2, <1>4, <2>3, <2>4, BundleAssumption DEF LiveKept, BackupLive
  <2>6. MoveInv'
    BY <1>2, <1>4, <2>1, <2>2 DEF MoveInv
  <2> QED  BY <2>2, <2>5, <2>6 DEF MoveOK
<1>5. CASE UndoPrepared(call.done) /\ UNCHANGED state
  <2>1. call'.moving = None /\ call'.at = "undo"
    BY <1>1, <1>5 DEF UndoPrepared, Calls
  <2> QED  BY <1>5, <2>1, MoveNothing DEF state
<1> QED  BY <1>3, <1>4, <1>5 DEF ArchiveBegin

\* One component that moves its whole directory gets another one.
LEMMA MoveDirectory ==
  ASSUME PlaceInv, TypesInv, NEW c \in Components \ ByFile, NEW b \in Bundles,
         NEW s \in Maybe(States), live' = [live EXCEPT ![c] = s],
         backup' = backup \/ backup' = [backup EXCEPT ![c][b] = None]
  PROVE  StateTyped' /\ LiveKept /\ BackupLive'
<1>1. /\ live \in [Components -> Maybe(States)] /\ BackupLive
      /\ backup \in [Components -> [Bundles -> Maybe(States)]]
  BY DEF TypesInv, StateTyped, LiveInv, BackupLive
<1>2. StateTyped'
  BY <1>1 DEF StateTyped, Maybe
<1>3. \A d \in ByFile : live'[d] = live[d] /\ backup'[d] = backup[d]
  BY <1>1, BundleAssumption
<1> QED  BY <1>1, <1>2, <1>3 DEF LiveKept, BackupLive

LEMMA MoveArchiveDirectory ==
  ASSUME PlaceInv, TypesInv, ArchiveDirectory PROVE MoveOK
<1> DEFINE c == call.moving
<1>1. /\ call \in Calls /\ call.at = "prepare" /\ call.new \in Bundles
      /\ c \in Components \ ByFile
  BY MovingNew DEF ArchiveDirectory, PlaceInv, At, Calls, Maybe
<1>2. /\ backup[c][call.new] \in Maybe(States) /\ Empty \in Maybe(States)
      /\ call.todo \subseteq Changed(call.old, call.new)
  BY <1>1, EmptyTyped DEF TypesInv, StateTyped, MoveInv, Maybe
<1> HIDE DEF c
<1>3. /\ StateTyped' /\ LiveKept /\ BackupLive'
  <2>1. PICK s \in Maybe(States) : live' = [live EXCEPT ![c] = s]
    BY <1>2 DEF ArchiveDirectory, c
  <2>2. backup' = backup \/ backup' = [backup EXCEPT ![c][call.new] = None]
    BY DEF ArchiveDirectory, c
  <2> QED  BY <1>1, <2>1, <2>2, MoveDirectory
<1>4. call'.moving = None /\ call'.old = call.old /\ call'.new = call.new
      /\ (call'.at = "undo" \/ call'.todo \subseteq call.todo)
  <2>1. CASE call' = [call EXCEPT !.todo = @ \ {c}, !.done = @ \cup {c}, !.moving = None]
    BY <1>1, <2>1 DEF Calls
  <2>2. CASE UndoPrepared(call.done)
    BY <1>1, <2>2 DEF UndoPrepared, Calls
  <2> QED  BY <2>1, <2>2 DEF ArchiveDirectory, c
<1>5. MoveInv'
  BY <1>2, <1>4, BundleAssumption DEF MoveInv
<1> QED  BY <1>3, <1>5 DEF MoveOK

\* One file of a component's state moves between its two directories.
LEMMA MoveFile ==
  ASSUME PlaceInv, TypesInv, NEW c \in ByFile, NEW b \in Bundles, backup[c][b] # None,
         NEW f \in Files, NEW x \in Maybe(Data), NEW y \in Maybe(Data),
         live' = [live EXCEPT ![c][f] = x], backup' = [backup EXCEPT ![c][b][f] = y]
  PROVE  /\ StateTyped' /\ LiveKept /\ BackupLive' /\ backup'[c][b] # None
         /\ live[c] \in States /\ backup[c][b] \in States
         /\ \A d \in Components \ {c} : live'[d] = live[d] /\ backup'[d] = backup[d]
         /\ live'[c] = [live[c] EXCEPT ![f] = x]
         /\ backup'[c][b] = [backup[c][b] EXCEPT ![f] = y]
<1>1. /\ live \in [Components -> Maybe(States)] /\ BackupLive /\ c \in Components
      /\ backup \in [Components -> [Bundles -> Maybe(States)]]
  BY BundleAssumption DEF TypesInv, StateTyped, LiveInv, BackupLive
<1>2. live[c] \in States /\ backup[c][b] \in States
  BY <1>1 DEF Maybe, BackupLive
<1>3. /\ live'[c] = [live[c] EXCEPT ![f] = x]
      /\ backup'[c][b] = [backup[c][b] EXCEPT ![f] = y]
  BY <1>1
<1>4. live'[c] \in States /\ backup'[c][b] \in States
  BY <1>2, <1>3 DEF States
<1>5. /\ \A d \in Components \ {c} : live'[d] = live[d] /\ backup'[d] = backup[d]
      /\ \A e \in Bundles \ {b} : backup'[c][e] = backup[c][e]
  BY <1>1
<1>6. DOMAIN live' = Components /\ live' = [d \in Components |-> live'[d]]
  BY <1>1
<1>7. live' \in [Components -> Maybe(States)]
  BY <1>1, <1>4, <1>5, <1>6 DEF Maybe
<1>8. backup'[c] \in [Bundles -> Maybe(States)]
  BY <1>1, <1>4, <1>5 DEF Maybe
<1>9. backup' \in [Components -> [Bundles -> Maybe(States)]]
  BY <1>1, <1>5, <1>8
<1>10. LiveKept /\ BackupLive'
  BY <1>1, <1>4, <1>5, NoneAssumption, BundleAssumption DEF LiveKept, BackupLive
<1> QED  BY <1>2, <1>3, <1>4, <1>5, <1>7, <1>9, <1>10, NoneAssumption DEF StateTyped

\* The file at the front of those left, and the two directories.
LEMMA MovingFile ==
  ASSUME PlaceInv, TypesInv, call.moving \in ByFile, call.files # <<>>
  PROVE  /\ call.new \in Bundles /\ backup[call.moving][call.new] # None
         /\ Head(call.files) \in Files
         /\ live[call.moving][Head(call.files)] \in Maybe(Data)
         /\ backup[call.moving][call.new][Head(call.files)] \in Maybe(Data)
<1>1. call.moving # None /\ call.moving \in Components /\ call.files \in Seq(Files)
  BY BundleAssumption DEF PlaceInv, Calls
<1>2. call.new \in Bundles /\ backup[call.moving][call.new] # None
  BY <1>1, MovingNew DEF PlaceInv, CallInv, TypesInv, MoveInv
<1>3. Head(call.files) \in Files
  BY <1>1
<1>4. live[call.moving] \in States /\ backup[call.moving][call.new] \in States
  BY <1>1, <1>2 DEF TypesInv, StateTyped, LiveInv, Maybe
<1> QED  BY <1>2, <1>3, <1>4 DEF States

LEMMA MoveArchiveFile == ASSUME PlaceInv, TypesInv, ArchiveFile PROVE MoveOK
<1> DEFINE c == call.moving
           f == Head(call.files)
<1>1. /\ call \in Calls /\ call.at = "prepare" /\ c \in ByFile /\ call.files # <<>>
      /\ call.todo \subseteq Changed(call.old, call.new)
  BY DEF ArchiveFile, PlaceInv, At, TypesInv, MoveInv
<1>2. CASE /\ live' = [live EXCEPT ![c][f] = None]
           /\ backup' = [backup EXCEPT ![c][call.new][f] = live[c][f]]
           /\ call' = [call EXCEPT !.files = Tail(@)]
  <2>1. /\ call.new \in Bundles /\ backup[c][call.new] # None /\ f \in Files
        /\ live[c][f] \in Maybe(Data) /\ None \in Maybe(Data)
    BY <1>1, MovingFile DEF Maybe
  <2>2. StateTyped' /\ LiveKept /\ BackupLive' /\ backup'[c][call.new] # None
    BY <1>1, <1>2, <2>1, MoveFile
  <2>3. /\ call'.moving = c /\ call'.at = "prepare" /\ call'.todo = call.todo
        /\ call'.old = call.old /\ call'.new = call.new
    BY <1>1, <1>2 DEF Calls
  <2>4. MoveInv'
    BY <1>1, <2>2, <2>3 DEF MoveInv
  <2> QED  BY <2>2, <2>4 DEF MoveOK
<1>3. CASE UndoPrepared(call.done \cup {c}) /\ UNCHANGED state
  <2>1. call'.moving = None /\ call'.at = "undo"
    BY <1>1, <1>3 DEF UndoPrepared, Calls
  <2> QED  BY <1>3, <2>1, MoveNothing DEF state
<1> QED  BY <1>2, <1>3 DEF ArchiveFile

LEMMA MoveArchiveFilesDone == ASSUME PlaceInv, TypesInv, ArchiveFilesDone PROVE MoveOK
<1> DEFINE c == call.moving
<1>1. /\ call \in Calls /\ call.at = "prepare" /\ UNCHANGED <<live, backup>>
      /\ call.todo \subseteq Changed(call.old, call.new)
  BY DEF ArchiveFilesDone, PlaceInv, At, TypesInv, MoveInv, state
<1>2. call'.moving = None /\ call'.old = call.old /\ call'.new = call.new
      /\ (call'.at = "undo" \/ call'.todo \subseteq call.todo)
  <2>1. CASE call' = [call EXCEPT !.todo = @ \ {c}, !.done = @ \cup {c}, !.moving = None]
    BY <1>1, <2>1 DEF Calls
  <2>2. CASE UndoPrepared(call.done)
    BY <1>1, <2>2 DEF UndoPrepared, Calls
  <2> QED  BY <2>1, <2>2 DEF ArchiveFilesDone
<1> QED  BY <1>1, <1>2, MoveNothing

LEMMA MoveRestoreBegin ==
  ASSUME PlaceInv, TypesInv, NEW c \in Components, RestoreBegin(c) PROVE MoveOK
<1>1. /\ call \in Calls /\ call.at \in {"undo", "restore"} /\ call.new \in Bundles
      /\ backup[c][call.new] # None /\ UNCHANGED backup
  BY MovingNew DEF RestoreBegin, PlaceInv, At, Restoring
<1>2. /\ call'.moving = c /\ call'.at = call.at /\ call'.new = call.new
  BY <1>1 DEF RestoreBegin, Calls
<1>3. MoveInv'
  BY <1>1, <1>2 DEF MoveInv
<1>4. CASE c \in ByFile
  <2>1. live' = live
    BY <1>4 DEF RestoreBegin
  <2> QED  BY <1>1, <1>3, <2>1
              DEF MoveOK, TypesInv, StateTyped, LiveKept, LiveInv, BackupLive
<1>5. CASE c \notin ByFile
  <2>1. live' = [live EXCEPT ![c] = None] /\ None \in Maybe(States)
    BY <1>5 DEF RestoreBegin, Maybe
  <2> QED  BY <1>1, <1>3, <1>5, <2>1, MoveDirectory DEF MoveOK
<1> QED  BY <1>4, <1>5

LEMMA MoveRestoreFile == ASSUME PlaceInv, TypesInv, RestoreFile PROVE MoveOK
<1> DEFINE c == call.moving
           f == Head(call.files)
<1>1. /\ call \in Calls /\ call.at \in {"undo", "restore"} /\ c \in ByFile
      /\ call.files # <<>>
  BY DEF RestoreFile, PlaceInv, At, Restoring
<1>2. CASE /\ live' = [live EXCEPT ![c][f] = backup[c][call.new][f]]
           /\ backup' = [backup EXCEPT ![c][call.new][f] = None]
           /\ call' = [call EXCEPT !.files = Tail(@)]
  <2>1. /\ call.new \in Bundles /\ backup[c][call.new] # None /\ f \in Files
        /\ backup[c][call.new][f] \in Maybe(Data) /\ None \in Maybe(Data)
    BY <1>1, MovingFile DEF Maybe
  <2>2. StateTyped' /\ LiveKept /\ BackupLive' /\ backup'[c][call.new] # None
    BY <1>1, <1>2, <2>1, MoveFile
  <2>3. /\ call'.moving = c /\ call'.at = call.at /\ call'.new = call.new
    BY <1>1, <1>2 DEF Calls
  <2>4. MoveInv'
    BY <1>1, <2>2, <2>3 DEF MoveInv
  <2> QED  BY <2>2, <2>4 DEF MoveOK
<1>3. CASE /\ UNCHANGED state
           /\ call' = [call EXCEPT !.todo = @ \ {c}, !.bad = TRUE, !.moving = None,
                                   !.files = <<>>]
  <2>1. call'.moving = None /\ call'.at = call.at
    BY <1>1, <1>3 DEF Calls
  <2> QED  BY <1>1, <1>3, <2>1, MoveNothing DEF state
<1> QED  BY <1>2, <1>3 DEF RestoreFile

LEMMA MoveRestoreMoved == ASSUME PlaceInv, TypesInv, RestoreMoved PROVE MoveOK
<1> DEFINE c == call.moving
<1>1. /\ call \in Calls /\ call.at \in {"undo", "restore"} /\ c \in Components
      /\ call.new \in Bundles /\ backup[c][call.new] \in Maybe(States)
  BY MovingNew DEF RestoreMoved, PlaceInv, At, Restoring, Calls, Maybe, TypesInv, StateTyped
<1>2. call'.moving = None /\ call'.at = call.at
  BY <1>1 DEF RestoreMoved, Calls
<1>3. MoveInv'
  BY <1>1, <1>2, BundleAssumption DEF MoveInv
<1>4. backup' = backup \/ backup' = [backup EXCEPT ![c][call.new] = None]
  BY DEF RestoreMoved
<1>5. CASE c \in ByFile
  <2>1. live' = live
    BY <1>5 DEF RestoreMoved
  <2>2. StateTyped'
    BY <1>1, <1>4, <2>1 DEF TypesInv, StateTyped, Maybe
  <2>3. \A d \in ByFile, b \in Bundles : backup'[d][b] \in {backup[d][b], None}
    BY <1>1, <1>4, BundleAssumption DEF TypesInv, StateTyped
  <2> QED  BY <1>3, <2>1, <2>2, <2>3 DEF MoveOK, TypesInv, LiveKept, LiveInv, BackupLive
<1>6. CASE c \notin ByFile
  <2>1. live' = [live EXCEPT ![c] = backup[c][call.new]]
    BY <1>6 DEF RestoreMoved
  <2> QED  BY <1>1, <1>3, <1>4, <1>6, <2>1, MoveDirectory DEF MoveOK
<1> QED  BY <1>5, <1>6

LEMMA MovesOK == ASSUME PlaceInv, TypesInv, MoveSteps PROVE MoveOK
<1>1. CASE \E c \in Components : PrepareRefused(c)
  <2>1. UNCHANGED <<live, backup>> /\ UndoPrepared(call.done) /\ call \in Calls
    BY <1>1 DEF PrepareRefused, state, PlaceInv
  <2>2. call'.moving = None /\ call'.at = "undo"
    BY <2>1 DEF UndoPrepared, Calls
  <2> QED  BY <2>1, <2>2, MoveNothing
<1>2. CASE \E c \in Components : RestoreNothing(c) \/ RestoreFails(c)
  <2>1. /\ UNCHANGED <<live, backup>> /\ call \in Calls /\ call.moving = None
        /\ call.at \in {"undo", "restore"}
    BY <1>2 DEF RestoreNothing, RestoreFails, state, PlaceInv, Restoring, At
  <2>2. call'.moving = None /\ call'.at = call.at
    BY <1>2, <2>1 DEF RestoreNothing, RestoreFails, Calls
  <2> QED  BY <2>1, <2>2, MoveNothing
<1> QED  BY <1>1, <1>2, MoveArchiveBegin, MoveArchiveDirectory, MoveArchiveFile,
            MoveArchiveFilesDone, MoveRestoreBegin, MoveRestoreFile, MoveRestoreMoved
         DEF MoveSteps

\* Away from the moves there is nothing to say about them.
LEMMA MoveElsewhere ==
  ASSUME PlaceInv', call'.at \notin {"prepare", "undo", "restore"} PROVE MoveInv'
BY BundleAssumption DEF PlaceInv, CallInv, MoveInv

\* Settled survives while directories are kept.
LEMMA SettledNext ==
  ASSUME SettledStep, LiveKept
  PROVE  /\ ~Pending' \/ Verified' => Settled(current)'
         /\ call'.at \in {"stop", "prepare"} => Settled(call.old)'
BY DEF SettledStep, LiveKept, Settled

\* A release all whose services were started has all its directories.
LEMMA VerifiedSettled ==
  ASSUME PlaceInv, TypesInv, StartAndVerify(current), UNCHANGED current
  PROVE  Settled(current)'
<1>1. Of(current) \in SUBSET Components
  BY OfComponents DEF PlaceInv, DiskTyped, Maybe
<1>2. \A c \in ByFile : running'[c] # None => live'[c] # None
  BY <1>1, StartTypes DEF StartAndVerify
<1>3. \A c \in Of(current) : running'[c] # None
  BY BundleAssumption DEF StartAndVerify, Of, PlaceInv, DiskTyped, Maybe
<1> QED  BY <1>2, <1>3 DEF Settled

LEMMA TypesStart ==
  ASSUME PlaceInv, PlaceInv', TypesInv, StartSteps PROVE TypesInv'
<1>0. UNCHANGED <<backup, current>> /\ GhostTyped' /\ enabled' \subseteq Components
  BY GhostNext, EnabledNext, NextSplit
     DEF StartSteps, StartCandidate, RestoreServices, RestartServices, disk
<1>1. Of(current) \in SUBSET Components /\ Of(call.old) \in SUBSET Components
      /\ Of(call.new) \in SUBSET Components
  BY OfComponents DEF PlaceInv, DiskTyped, Calls, Maybe
<1>2. /\ running' \in [Components -> Maybe(Bundles)]
      /\ live' \in [Components -> Maybe(States)] /\ LiveKept
      /\ \A c \in ByFile : running'[c] # None => live'[c] # None
  <2>1. (\E S \in SUBSET Components : StartSome(S)) \/ UNCHANGED <<live, running>>
    BY <1>1 DEF StartSteps, StartCandidate, RestoreServices, RestartServices,
                StartAndVerify, StartFails
  <2>2. CASE UNCHANGED <<live, running>>
    BY <2>2 DEF TypesInv, ServicesTyped, StateTyped, LiveInv, LiveKept
  <2> QED  BY <2>1, <2>2, StartTypes
<1>3. BackupLive'
  BY <1>0, <1>2 DEF TypesInv, LiveInv, BackupLive, LiveKept
<1>4. call'.at \in {"commit", "restore stop", "restored", "idle"}
  BY FailActivationAt, ReturnAt
     DEF StartSteps, StartCandidate, RestoreServices, RestartServices, Goto, PlaceInv, Calls
<1>5. ~Pending' \/ Verified' => Settled(current)'
  <2>1. CASE StartCandidate
    <3>1. Pending /\ Pending' /\ current = call.new
      BY <2>1 DEF StartCandidate, At, PlaceInv, CallInv, Activating, disk, Pending
    <3>2. CASE StartAndVerify(call.new)
      BY <1>0, <3>1, <3>2, VerifiedSettled
    <3>3. CASE FailActivation
      BY <3>1, <3>3, FailActivationAt DEF Verified
    <3> QED  BY <2>1, <3>2, <3>3 DEF StartCandidate
  <2>2. CASE RestoreServices
    <3>1. UNCHANGED <<record, txn>> /\ call \in Calls
      BY <2>2 DEF RestoreServices, disk, PlaceInv
    <3>2. CASE StartAndVerify(call.old) /\ ~call.bad
      BY <1>0, <2>2, <3>2, VerifiedSettled DEF RestoreServices, At, PlaceInv, CallInv
    <3>3. CASE call.bad \/ ~StartAndVerify(call.old)
      <4>1. call'.bad = TRUE /\ call'.at = "restored"
        BY <2>2, <3>1, <3>3 DEF RestoreServices, Goto, Calls
      <4> QED  BY <1>0, <1>2, <3>1, <4>1
                  DEF Verified, TypesInv, LiveInv, Settled, Pending, LiveKept
    <3> QED  BY <3>2, <3>3
  <2>3. CASE RestartServices
    <3>1. ~Pending
      BY <2>3 DEF RestartServices, At, PlaceInv, CallInv, Outside, Pending
    <3> QED  BY <1>0, <1>2, <3>1 DEF TypesInv, LiveInv, Settled, LiveKept
  <2> QED  BY <2>1, <2>2, <2>3 DEF StartSteps
<1>6. LiveInv'
  BY <1>2, <1>3, <1>4, <1>5 DEF LiveInv, BackupLive
<1>7. MoveInv'
  BY <1>4, MoveElsewhere
<1> QED  BY <1>0, <1>2, <1>6, <1>7 DEF TypesInv, ServicesTyped, StateTyped

\* No other step starts a service.
LEMMA RunningRest ==
  ASSUME QuietSteps \/ MoveSteps \/ StopOld \/ RestoreStop
  PROVE  running' = running \/ \E S : StopSome(S)
<1>1. CASE RestartBody \/ StopOld \/ RestoreStop
  BY <1>1 DEF RestartBody, StopOld, RestoreStop, Stop, StopFails
<1> QED  BY <1>1, CommandsAt
   DEF QuietSteps, MoveSteps, Crash, RecoverNothing, RecoverCommitted, RecoverInterrupted,
       Stage, BaselineRefused, ActiveAlready, SwitchCurrent, CommitRecord, ClearTransaction,
       CommitActivation, UndoDone, RestoreSwitch, RestoreActivationRecord,
       WriteRecoveryRecord, RolledBack, FirstTakenDown, Forget, Purge, RollbackBody,
       RollbackCandidateBody, DeactivateBody, RemoveBody, PrepareRefused, ArchiveBegin,
       ArchiveDirectory, ArchiveFile, ArchiveFilesDone, RestoreFile, RestoreMoved,
       RestoreNothing, RestoreFails, RestoreBegin, services

LEMMA TypesRest ==
  ASSUME PlaceInv, PlaceInv', TypesInv, QuietSteps \/ MoveSteps \/ StopOld \/ RestoreStop
  PROVE  TypesInv'
<1>0. /\ GhostTyped' /\ enabled' \subseteq Components /\ SettledStep
  BY GhostNext, EnabledNext, NextSplit, SettledSteps DEF TypesInv
<1>1. /\ running' \in [Components -> Maybe(Bundles)]
      /\ \A c \in Components : running'[c] \in {running[c], None}
  BY RunningRest, StopTypes DEF TypesInv, ServicesTyped
<1>2. MoveOK
  <2>1. CASE QuietSteps
    <3>1. UNCHANGED <<live, backup>> /\ MoveInv'
      BY <2>1, QuietLeaves, MoveElsewhere
    <3> QED  BY <3>1 DEF TypesInv, StateTyped, LiveKept, LiveInv, BackupLive, MoveOK
  <2>2. CASE MoveSteps
    BY <2>2, MovesOK
  <2>3. CASE StopOld
    <3>1. /\ UNCHANGED <<live, backup>> /\ call \in Calls /\ call.moving = None
      BY <2>3 DEF StopOld, state, PlaceInv, At, CallInv
    <3>2. CASE call' = [call EXCEPT !.at = "prepare", !.done = {},
                                    !.todo = Changed(call.old, call.new)]
      BY <3>1, <3>2, MoveNothing DEF Calls
    <3>3. CASE FailActivation
      BY <3>1, <3>3, MoveNothing, FailActivationAt
    <3> QED  BY <2>3, <3>2, <3>3 DEF StopOld
  <2>4. CASE RestoreStop
    <3>1. /\ UNCHANGED <<live, backup>> /\ call \in Calls /\ call.moving = None
      BY <2>4 DEF RestoreStop, state, PlaceInv, At, CallInv
    <3>2. call'.at = "restore" /\ call'.moving = None
      BY <2>4, <3>1 DEF RestoreStop, Calls
    <3> QED  BY <3>1, <3>2, MoveNothing
  <2> QED  BY <2>1, <2>2, <2>3, <2>4
<1>3. LiveInv'
  <2>1. \A c \in ByFile : running'[c] # None => live'[c] # None
    BY <1>1, <1>2, BundleAssumption DEF TypesInv, LiveInv, LiveKept, MoveOK
  <2> QED  BY <1>0, <1>2, <2>1, SettledNext DEF LiveInv, MoveOK, BackupLive
<1> QED  BY <1>0, <1>1, <1>2, <1>3 DEF TypesInv, ServicesTyped, MoveOK

LEMMA TypesInit == ASSUME Init PROVE TypesInv
<1>1. ServicesTyped /\ StateTyped
  BY DEF Init, ServicesTyped, StateTyped, Maybe
<1>2. GhostTyped
  BY DEF Init, GhostTyped, NoGhost, Ops, Maybe
<1>3. call.at = "idle" /\ call.moving = None
  BY DEF Init, NoCall, Idle
<1>4. LiveInv /\ MoveInv
  BY <1>3, OfNone, BundleAssumption DEF Init, LiveInv, MoveInv, Settled
<1> QED  BY <1>1, <1>2, <1>4 DEF TypesInv

LEMMA TypesNext == ASSUME PlaceInv, PlaceInv', TypesInv, [Next]_vars PROVE TypesInv'
<1>1. CASE UNCHANGED vars
  BY <1>1 DEF vars, disk, state, services, TypesInv, ServicesTyped, StateTyped, GhostTyped,
              LiveInv, MoveInv, Settled, Verified, Pending
<1> QED  BY <1>1, NextSplit, TypesStart, TypesRest

THEOREM TypesInvariance == Spec => []TypesInv
BY PlaceInvariance, TypesInit, TypesNext, PTL DEF Spec

\* The files, links and services of the host and the locals of the running
\* command always have their types; in particular restoreComponentState and
\* prepareState never move a state file into a directory that is not there.
THEOREM BundleTypeCorrectness == Spec => []TypeOK
<1>1. PlaceInv /\ TypesInv => TypeOK
  BY DEF PlaceInv, DiskTyped, Counted, Calls, TypesInv, ServicesTyped, StateTyped, TypeOK, Maybe
<1> QED  BY <1>1, PlaceInvariance, TypesInvariance, PTL

-----------------------------------------------------------------------------
(* The third layer: which services run.                                    *)

\* Exactly the services of a release run, from that release; only services
\* of S run; the release the record names.
Runs(b) == \A c \in Components : running[c] = IF c \in Of(b) THEN b ELSE None
Only(S) == \A c \in Components \ S : running[c] = None
Active  == IF record = None THEN None ELSE record.active

ReleasesRun ==
  /\ txn = None => Only(Of(Active))
  /\ txn # None => Only(Of(txn.previous) \cup Of(txn.candidate))
  /\ txn # None /\ record = txn.final => Only(Of(txn.candidate))

LabelsRun ==
  /\ call.at = "stop" => Only(Of(call.old))
  /\ call.at \in {"prepare", "services"} => Only({})
  /\ call.at = "commit" => Runs(call.new) /\ Of(call.new) \subseteq enabled
  /\ call.at \in {"restore", "restore services"} /\ ~call.bad =>
       Only(Components \ Of(call.new))
  /\ call.at = "restored" /\ ~call.bad => Runs(call.old) /\ Of(call.old) \subseteq enabled
  /\ call.at = "clear" => Runs(Active) /\ Of(Active) \subseteq enabled

ServicesInv == ReleasesRun /\ LabelsRun

\* No service starts.
Stopping == \A c \in Components : running[c] = None => running'[c] = None

LEMMA RunsSame ==
  ASSUME ReleasesRun, UNCHANGED <<record, txn>>, Stopping PROVE ReleasesRun'
BY DEF ReleasesRun, Only, Active, Stopping

LEMMA RunsElsewhere ==
  ASSUME call'.at \in {"idle", "recover", "body", "baseline", "undo", "restore stop",
                       "recovery record", "forget", "purge", "restart"}
  PROVE  LabelsRun'
BY DEF LabelsRun

LEMMA RunsQuiet ==
  ASSUME PlaceInv, ServicesInv, UNCHANGED <<record, txn>>, Stopping,
         call'.at \in {"idle", "recover", "body", "baseline", "undo", "restore stop",
                       "recovery record", "forget", "purge", "restart"}
  PROVE  ServicesInv'
BY RunsSame, RunsElsewhere DEF ServicesInv

\* A release that has just been started, when nothing else ran.
LEMMA RunsVerified ==
  ASSUME TypesInv, NEW b, StartAndVerify(b), Only(Of(b)) PROVE Runs(b)'
<1>1. \A c \in Components : c \notin Of(b) => running'[c] = running[c]
  BY DEF StartAndVerify, StartSome
<1>2. \A c \in Components : running'[c] = IF c \in Of(b) THEN b ELSE None
  BY <1>1 DEF StartAndVerify, Only
<1> QED  BY <1>2 DEF Runs

LEMMA RunsStarted ==
  ASSUME NEW b, StartAndVerify(b) \/ StartFails(b)
  PROVE  \A c \in Components \ Of(b) : running'[c] = running[c]
BY DEF StartAndVerify, StartFails, StartSome

LEMMA Synchronized ==
  ASSUME NEW a, NEW b, Synchronize(a, b) PROVE Of(b) \subseteq enabled'
BY DEF Synchronize

LEMMA RunsCommitActivation ==
  ASSUME PlaceInv, PlaceInv', ServicesInv, CommitActivation PROVE ServicesInv'
<1>1. txn = None /\ call \in Calls /\ UNCHANGED <<record, running>>
  BY DEF CommitActivation, PlaceInv, At, CallInv, Outside, services
<1>2. CASE Return /\ UNCHANGED <<txn, ghost>>
  BY <1>1, <1>2, ReturnAt, RunsQuiet DEF Stopping
<1>3. CASE /\ BeginTransaction(call.bundle, current)
           /\ call' = [call EXCEPT !.at = "stop", !.old = current, !.new = call.bundle]
  <2>1. call'.at = "stop" /\ call'.old = current
    BY <1>1, <1>3 DEF Calls
  <2>2. Pending' /\ txn'.previous = current
    BY <1>3, <2>1 DEF PlaceInv, CallInv, Activating, BeginTransaction
  <2>3. Active = current
    BY DEF CommitActivation, Matches, Active
  <2>4. Only(Of(current))'
    BY <1>1, <2>3 DEF ServicesInv, ReleasesRun, Only, CommitActivation
  <2>5. ReleasesRun' /\ LabelsRun'
    BY <1>1, <2>1, <2>2, <2>4 DEF ReleasesRun, LabelsRun, Only, Pending, CommitActivation
  <2> QED  BY <2>5 DEF ServicesInv
<1> QED  BY <1>2, <1>3 DEF CommitActivation

\* A transaction begins whose previous release is the active one.
LEMMA RunsBegin ==
  ASSUME PlaceInv, PlaceInv', ServicesInv, At("body"), NEW t \in {"rolled back", "removed"},
         NEW old, NEW new, RestoreFor(t, old, new), BeginTransaction(old, new), record # None,
         record.active = new, UNCHANGED running
  PROVE  ServicesInv'
<1>1. Pending' /\ call'.at = "restore stop"
  BY RestorePending
<1>2. txn = None /\ txn'.previous = new
  BY DEF PlaceInv, At, CallInv, Outside, BeginTransaction
<1>3. Only(Of(new))
  BY <1>2 DEF ServicesInv, ReleasesRun, Active
<1>4. ReleasesRun'
  BY <1>1, <1>2, <1>3 DEF ReleasesRun, Only, Pending
<1> QED  BY <1>1, <1>4, RunsElsewhere DEF ServicesInv

LEMMA RunsBodies ==
  ASSUME PlaceInv, PlaceInv', ServicesInv,
         RollbackBody \/ RollbackCandidateBody \/ DeactivateBody \/ RemoveBody
  PROVE  ServicesInv'
<1>1. /\ call'.at \in {"idle", "forget", "purge", "restore stop"} /\ Stopping
      /\ UNCHANGED <<record, running>> /\ At("body")
  BY BodiesAt
     DEF RollbackBody, RollbackCandidateBody, DeactivateBody, RemoveBody, services, Stopping
<1>2. CASE UNCHANGED txn
  BY <1>1, <1>2, RunsQuiet
<1>3. CASE txn' # txn
  <2>1. PICK t \in {"rolled back", "removed"}, old \in Maybe(Bundles), new \in Maybe(Bundles) :
          /\ RestoreFor(t, old, new) /\ BeginTransaction(old, new)
          /\ record # None /\ record.active = new
    <3>1. CASE CommitRollback /\ record # None
      <4>1. /\ RestoreFor("rolled back", record.previous, record.active)
            /\ BeginTransaction(record.previous, record.active)
            /\ record.previous \in Maybe(Bundles) /\ record.active \in Maybe(Bundles)
        BY <1>3, <3>1 DEF CommitRollback, PlaceInv, DiskTyped, Records, Maybe
      <4> QED  BY <3>1, <4>1
    <3>2. CASE RollbackBody
      BY <1>3, <3>1, <3>2 DEF RollbackBody, Refused
    <3>3. CASE RollbackCandidateLocked
      BY <1>3, <3>1, <3>3 DEF RollbackCandidateLocked, RollbackFirst, Refused
    <3>4. CASE RemoveBody
      <4>1. /\ RestoreFor("removed", call.other, call.bundle)
            /\ BeginTransaction(call.other, call.bundle)
            /\ record # None /\ record.active = call.bundle
            /\ call.other \in Maybe(Bundles) /\ call.bundle \in Maybe(Bundles)
        BY <1>3, <3>4 DEF RemoveBody, Refused, PlaceInv, Calls
      <4> QED  BY <4>1
    <3> QED  BY <1>3, <3>2, <3>3, <3>4 DEF RollbackCandidateBody, DeactivateBody, Refused
  <2> QED  BY <1>1, <2>1, RunsBegin
<1> QED  BY <1>2, <1>3

LEMMA RunsActivate ==
  ASSUME PlaceInv, PlaceInv', TypesInv, ServicesInv, StopOld \/ SwitchCurrent \/ StartCandidate
  PROVE  ServicesInv'
<1>1. /\ call \in Calls /\ Pending /\ UNCHANGED <<record, txn>>
      /\ call.old = txn.previous /\ call.new = txn.candidate
  BY DEF StopOld, SwitchCurrent, StartCandidate, PlaceInv, At, CallInv, Activating, disk
<1>2. CASE StopOld
  <2>1. Stopping
    BY <1>2 DEF StopOld, Stop, StopFails, StopSome, Stopping
  <2>2. CASE FailActivation
    BY <1>1, <2>1, <2>2, FailActivationAt, RunsQuiet
  <2>3. CASE /\ Stop(call.old)
             /\ call' = [call EXCEPT !.at = "prepare", !.done = {},
                                     !.todo = Changed(call.old, call.new)]
    <3>1. call'.at = "prepare"
      BY <1>1, <2>3 DEF Calls
    <3>2. Only({})'
      BY <1>2, <2>3 DEF StopOld, At, ServicesInv, LabelsRun, Only, Stop, StopSome
    <3>3. LabelsRun'
      BY <3>1, <3>2 DEF LabelsRun
    <3> QED  BY <1>1, <2>1, <3>3, RunsSame DEF ServicesInv
  <2> QED  BY <1>2, <2>2, <2>3 DEF StopOld
<1>3. CASE SwitchCurrent
  <2>1. Stopping /\ Only({}) /\ UNCHANGED running
    BY <1>3 DEF SwitchCurrent, services, Stopping, At, ServicesInv, LabelsRun
  <2>2. CASE FailActivation
    BY <1>1, <2>1, <2>2, FailActivationAt, RunsQuiet
  <2>3. CASE Goto("services")
    <3>1. call'.at = "services"
      BY <1>1, <2>3 DEF Goto, Calls
    <3>2. LabelsRun'
      BY <2>1, <3>1 DEF LabelsRun, Only
    <3> QED  BY <1>1, <2>1, <3>2, RunsSame DEF ServicesInv
  <2> QED  BY <1>3, <2>2, <2>3 DEF SwitchCurrent
<1>4. CASE StartCandidate
  <2>1. Only({})
    BY <1>4 DEF StartCandidate, At, ServicesInv, LabelsRun
  <2>2. CASE /\ StartAndVerify(call.new) /\ Synchronize(call.old, call.new) /\ Goto("commit")
    <3>1. call'.at = "commit" /\ call'.new = call.new
      BY <1>1, <2>2 DEF Goto, Calls
    <3>2. Runs(call.new)'
      <4>1. Only(Of(call.new))
        BY <2>1 DEF Only
      <4>2. \A c \in Components : running'[c] = IF c \in Of(call.new) THEN call.new ELSE None
        BY <2>2, <4>1, RunsVerified DEF Runs
      <4> QED  BY <3>1, <4>2 DEF Runs
    <3>3. Of(call.new)' \subseteq enabled'
      BY <2>2, <3>1, Synchronized
    <3>4. LabelsRun'
      BY <3>1, <3>2, <3>3 DEF LabelsRun
    <3>5. ReleasesRun'
      BY <1>1, <3>1, <3>2 DEF ReleasesRun, Runs, Only, Pending
    <3> QED  BY <3>4, <3>5 DEF ServicesInv
  <2>3. CASE FailActivation
    <3>1. \A c \in Components \ Of(call.new) : running'[c] = running[c]
      BY <1>4, RunsStarted DEF StartCandidate
    <3>2. ReleasesRun'
      BY <1>1, <2>1, <3>1 DEF ReleasesRun, Only, Pending
    <3> QED  BY <2>3, <3>2, FailActivationAt, RunsElsewhere DEF ServicesInv
  <2> QED  BY <1>4, <2>2, <2>3 DEF StartCandidate
<1> QED  BY <1>2, <1>3, <1>4

\* The record is written while exactly its services run.
LEMMA RunsClear ==
  ASSUME PlaceInv, PlaceInv', call'.at = "clear", UNCHANGED <<running, enabled>>,
         Runs(Active'), Of(Active') \subseteq enabled,
         Active' \in {txn'.candidate, txn'.previous}
  PROVE  ServicesInv'
<1>1. Runs(Active)' /\ Of(Active)' \subseteq enabled'
  BY DEF Runs
<1>2. LabelsRun'
  BY <1>1 DEF LabelsRun
<1>3. txn' # None
  BY DEF PlaceInv, CallInv, ClearInv
<1>4. Only(Of(Active))'
  BY <1>1 DEF Runs, Only
<1>5. record' = txn'.final => Active' = txn'.candidate
  <2>1. ValidTransaction(txn') /\ txn'.final # None
    BY <1>3, NoneAssumption DEF PlaceInv, DiskInv, DiskTyped, Transactions, Maybe
  <2> QED  BY <2>1 DEF Active, ValidTransaction
<1>6. ReleasesRun'
  BY <1>3, <1>4, <1>5 DEF ReleasesRun, Only
<1> QED  BY <1>2, <1>6 DEF ServicesInv

LEMMA RunsCommitRecord ==
  ASSUME PlaceInv, PlaceInv', ServicesInv, CommitRecord PROVE ServicesInv'
<1>1. /\ call \in Calls /\ Pending /\ UNCHANGED <<txn, running, enabled>>
      /\ call.new = txn.candidate /\ Runs(call.new) /\ Of(call.new) \subseteq enabled
  BY DEF CommitRecord, PlaceInv, At, CallInv, Activating, services, ServicesInv, LabelsRun
<1>2. CASE FailActivation /\ UNCHANGED record
  BY <1>1, <1>2, FailActivationAt, RunsQuiet DEF Stopping
<1>3. CASE record' = txn.final /\ Goto("clear")
  <2>1. call'.at = "clear"
    BY <1>1, <1>3 DEF Goto, Calls
  <2>2. Active' = call.new
    <3>1. ValidTransaction(txn) /\ txn.final # None
      BY <1>1, NoneAssumption DEF PlaceInv, DiskInv, DiskTyped, Pending, Transactions, Maybe
    <3> QED  BY <1>1, <1>3, <3>1 DEF Active, ValidTransaction
  <2> QED  BY <1>1, <2>1, <2>2, RunsClear
<1> QED  BY <1>2, <1>3 DEF CommitRecord

LEMMA RunsRestoreRecord ==
  ASSUME PlaceInv, PlaceInv', ServicesInv, RestoreActivationRecord \/ RolledBack
  PROVE  ServicesInv'
<1>1. /\ call \in Calls /\ Pending /\ UNCHANGED <<txn, running, enabled, current>>
      /\ call.old \in {txn.candidate, txn.previous} /\ call.at = "restored"
  BY DEF RestoreActivationRecord, RolledBack, PlaceInv, At, CallInv, Restores, RestoreInv,
         Undoing, services
<1>2. CASE /\ UNCHANGED record
           /\ FailActivation \/ Return \/ Goto("recovery record")
  <2>1. call'.at \in {"idle", "restore stop", "recovery record"}
    <3>1. Goto("recovery record") => call'.at = "recovery record"
      BY <1>1 DEF Goto, Calls
    <3> QED  BY <1>2, <3>1, FailActivationAt, ReturnAt
  <2> QED  BY <1>1, <1>2, <2>1, RunsQuiet DEF Stopping
<1>3. CASE ~call.bad /\ Goto("clear")
  <2>1. call'.at = "clear"
    BY <1>1, <1>3 DEF Goto, Calls
  <2>2. /\ current = call.old /\ Runs(call.old) /\ Of(call.old) \subseteq enabled
    BY <1>1, <1>3 DEF PlaceInv, CallInv, ServicesInv, LabelsRun
  <2>3. Active' = call.old
    BY <1>1, <2>1, <2>2 DEF PlaceInv, CallInv, ClearInv, Active
  <2> QED  BY <1>1, <2>1, <2>2, <2>3, RunsClear
<1> QED  BY <1>2, <1>3 DEF RestoreActivationRecord, RolledBack

LEMMA RunsEndings ==
  ASSUME PlaceInv, PlaceInv', ServicesInv,
         RecoverCommitted \/ ClearTransaction \/ FirstTakenDown \/ Forget
  PROVE  ServicesInv'
<1>1. UNCHANGED running /\ Stopping /\ call \in Calls
  BY DEF RecoverCommitted, ClearTransaction, FirstTakenDown, Forget, services, Stopping,
         PlaceInv
<1>2. call'.at \in {"idle", "body", "purge", "forget"}
  <2>1. CASE call' = [call EXCEPT !.at = "body", !.then = "none"]
    BY <1>1, <2>1 DEF Calls
  <2>2. CASE Goto("purge") \/ Goto("forget") \/ Goto("body")
    BY <1>1, <2>2 DEF Goto, Calls
  <2>3. CASE Return
    BY <2>3, ReturnAt
  <2> QED  BY <2>1, <2>2, <2>3
              DEF RecoverCommitted, ClearTransaction, FirstTakenDown, Forget
<1>3. CASE UNCHANGED <<record, txn>>
  BY <1>1, <1>2, <1>3, RunsQuiet
<1>4. CASE txn' # txn
  <2>1. txn' = None /\ UNCHANGED record /\ txn # None
    BY <1>4 DEF RecoverCommitted, ClearTransaction, FirstTakenDown, Forget
  <2>2. Only(Of(Active))
    <3>1. CASE RecoverCommitted
      <4>1. ValidTransaction(txn) /\ txn.final # None /\ record = txn.final
        BY <2>1, <3>1, NoneAssumption DEF RecoverCommitted, Committed, PlaceInv, DiskInv,
           DiskTyped, Transactions, Maybe
      <4> QED  BY <2>1, <4>1 DEF ServicesInv, ReleasesRun, Active, ValidTransaction
    <3>2. CASE ClearTransaction
      BY <3>2 DEF ClearTransaction, At, ServicesInv, LabelsRun, Runs, Only
    <3> QED  BY <1>4, <3>1, <3>2 DEF FirstTakenDown, Forget
  <2>3. ReleasesRun'
    BY <1>1, <2>1, <2>2 DEF ReleasesRun, Only, Active
  <2> QED  BY <1>2, <2>3, RunsElsewhere DEF ServicesInv
<1>5. CASE txn' = txn /\ record' # record
  <2>1. CASE FirstTakenDown
    <3>1. /\ record' = None /\ call.old = None /\ txn = None /\ Runs(None)
      BY <1>5, <2>1
         DEF FirstTakenDown, At, PlaceInv, CallInv, Restores, RestoreInv, ServicesInv, LabelsRun
    <3>2. ReleasesRun'
      BY <1>1, <1>5, <3>1, OfNone DEF ReleasesRun, Runs, Only, Active
    <3> QED  BY <1>2, <3>2, RunsElsewhere DEF ServicesInv
  <2>2. CASE Forget
    <3>1. txn = None /\ Active' = Active
      <4>1. /\ txn = None /\ record # None /\ record' = [record EXCEPT !.previous = None]
            /\ record \in Records
        BY <1>5, <2>2 DEF Forget, At, PlaceInv, CallInv, Outside, DiskTyped, Maybe
      <4>2. record' \in Records /\ record'.active = record.active
        BY <4>1 DEF Records, Maybe
      <4> QED  BY <4>1, <4>2, NoneAssumption DEF Active
    <3>2. ReleasesRun'
      BY <1>1, <1>5, <3>1 DEF ReleasesRun, Only, ServicesInv
    <3> QED  BY <1>2, <3>2, RunsElsewhere DEF ServicesInv
  <2> QED  BY <1>5, <2>1, <2>2 DEF RecoverCommitted, ClearTransaction
<1> QED  BY <1>3, <1>4, <1>5

\* No service of the release that a restore leaves is left, unless a step of
\* the restore failed.
LEMMA RunsRestore ==
  ASSUME PlaceInv, PlaceInv', TypesInv, ServicesInv,
         RestoreStop \/ RestoreSwitch \/ RestoreServices
  PROVE  ServicesInv'
<1>1. /\ call \in Calls /\ UNCHANGED <<record, txn>> /\ RestoreInv
  BY DEF RestoreStop, RestoreSwitch, RestoreServices, PlaceInv, At, CallInv, Restores, disk
<1>2. CASE RestoreStop
  <2>1. Stopping
    BY <1>2 DEF RestoreStop, Stop, StopFails, StopSome, Stopping
  <2>2. /\ call'.at = "restore" /\ call'.new = call.new
        /\ ~call'.bad => Stop(call.new)
    BY <1>1, <1>2 DEF RestoreStop, Calls
  <2>3. LabelsRun'
    BY <2>2 DEF LabelsRun, Only, Stop, StopSome
  <2> QED  BY <1>1, <2>1, <2>3, RunsSame DEF ServicesInv
<1>3. CASE RestoreSwitch
  <2>1. Stopping /\ UNCHANGED running /\ call.at = "restore"
    BY <1>3 DEF RestoreSwitch, services, Stopping, At
  <2>2. /\ call'.at = "restore services" /\ call'.new = call.new
        /\ ~call'.bad => ~call.bad
    BY <1>1, <1>3 DEF RestoreSwitch, Goto, Calls
  <2>3. LabelsRun'
    BY <2>1, <2>2 DEF LabelsRun, Only, ServicesInv
  <2> QED  BY <1>1, <2>1, <2>3, RunsSame DEF ServicesInv
<1>4. CASE RestoreServices
  <2>1. \A c \in Components \ Of(call.old) : running'[c] = running[c]
    BY <1>4, RunsStarted DEF RestoreServices
  <2>2. /\ txn = None => call.old = None /\ Active = call.new
        /\ txn # None => Pending /\ {call.old, call.new} = {txn.previous, txn.candidate}
    BY <1>1 DEF RestoreInv, Undoing, Pending, PlaceInv, Calls, Thens, Active
  <2>3. ReleasesRun'
    BY <1>1, <2>1, <2>2, OfNone DEF ServicesInv, ReleasesRun, Only, Pending, Active
  <2>4. /\ call'.at = "restored" /\ call'.old = call.old
        /\ ~call'.bad => /\ ~call.bad /\ StartAndVerify(call.old)
                         /\ Synchronize(call.new, call.old)
    BY <1>1, <1>4 DEF RestoreServices, Goto, Calls
  <2>5. ASSUME ~call'.bad PROVE Runs(call.old)' /\ Of(call.old)' \subseteq enabled'
    <3>1. Only(Components \ Of(call.new))
      BY <1>4, <2>4, <2>5 DEF RestoreServices, At, ServicesInv, LabelsRun
    <3>2. Only(Of(call.old) \cup Of(call.new))
      BY <2>2, OfNone DEF ServicesInv, ReleasesRun, Only
    <3>3. Only(Of(call.old))
      BY <3>1, <3>2 DEF Only
    <3>4. \A c \in Components : running'[c] = IF c \in Of(call.old) THEN call.old ELSE None
      BY <2>4, <2>5, <3>3, RunsVerified DEF Runs
    <3> QED  BY <2>4, <2>5, <3>4, Synchronized DEF Runs
  <2>6. LabelsRun'
    BY <2>4, <2>5 DEF LabelsRun
  <2> QED  BY <2>3, <2>6 DEF ServicesInv
<1> QED  BY <1>2, <1>3, <1>4

LEMMA RunsMoves ==
  ASSUME PlaceInv, ServicesInv, MoveSteps PROVE ServicesInv'
<1>1. UNCHANGED <<record, txn, running>> /\ call \in Calls /\ Stopping
  BY DEF MoveSteps, PrepareRefused, ArchiveBegin, ArchiveDirectory, ArchiveFile,
         ArchiveFilesDone, RestoreFile, RestoreMoved, RestoreNothing, RestoreFails,
         RestoreBegin, disk, services, PlaceInv, Stopping
<1>2. \/ call'.at = "undo"
      \/ call.at = "prepare" /\ call'.at = "prepare"
      \/ /\ call.at \in {"undo", "restore"} /\ call'.at = call.at
         /\ call'.new = call.new /\ (~call'.bad => ~call.bad)
  <2>1. CASE \E c \in Components : PrepareRefused(c)
    BY <1>1, <2>1 DEF PrepareRefused, UndoPrepared, Calls
  <2>2. CASE \E c \in Components : ArchiveBegin(c)
    BY <1>1, <2>2 DEF ArchiveBegin, UndoPrepared, Calls, At
  <2>3. CASE ArchiveDirectory
    BY <1>1, <2>3 DEF ArchiveDirectory, UndoPrepared, Calls, At
  <2>4. CASE ArchiveFile
    BY <1>1, <2>4 DEF ArchiveFile, UndoPrepared, Calls, At
  <2>5. CASE ArchiveFilesDone
    BY <1>1, <2>5 DEF ArchiveFilesDone, UndoPrepared, Calls, At
  <2>6. CASE \E c \in Components : RestoreNothing(c) \/ RestoreFails(c) \/ RestoreBegin(c)
    BY <1>1, <2>6 DEF RestoreNothing, RestoreFails, RestoreBegin, Restoring, Calls, At
  <2>7. CASE RestoreFile
    BY <1>1, <2>7 DEF RestoreFile, Restoring, Calls, At
  <2>8. CASE RestoreMoved
    BY <1>1, <2>8 DEF RestoreMoved, Restoring, Calls, At
  <2> QED  BY <2>1, <2>2, <2>3, <2>4, <2>5, <2>6, <2>7, <2>8 DEF MoveSteps
<1>3. LabelsRun'
  BY <1>1, <1>2 DEF LabelsRun, Only, ServicesInv
<1> QED  BY <1>1, <1>3, RunsSame DEF ServicesInv

LEMMA RunsRestart ==
  ASSUME PlaceInv, TypesInv, ServicesInv, RestartBody \/ RestartServices PROVE ServicesInv'
<1>1. CASE RestartBody
  <2>1. UNCHANGED <<record, txn>> /\ Stopping
    BY <1>1 DEF RestartBody, disk, Stop, StopFails, StopSome, Stopping
  <2>2. call'.at \in {"idle", "restart"}
    BY <1>1, ReturnAt DEF RestartBody, Goto, PlaceInv, Calls
  <2> QED  BY <2>1, <2>2, RunsQuiet
<1>2. CASE RestartServices
  <2>1. /\ txn = None /\ UNCHANGED txn /\ current = Active /\ record # None /\ Sound(record)
    BY <1>2 DEF RestartServices, At, PlaceInv, CallInv, Outside, DiskInv, Agrees, Active
  <2>2. UNCHANGED record
    BY <1>2, <2>1 DEF RestartServices, Sound
  <2>3. \A c \in Components \ Of(current) : running'[c] = running[c]
    BY <1>2, RunsStarted DEF RestartServices
  <2>4. ReleasesRun'
    BY <2>1, <2>2, <2>3 DEF ServicesInv, ReleasesRun, Only, Active
  <2> QED  BY <1>2, <2>4, ReturnAt, RunsElsewhere DEF ServicesInv, RestartServices
<1> QED  BY <1>1, <1>2

LEMMA RunsOthers ==
  ASSUME PlaceInv, PlaceInv', ServicesInv,
         \/ Commands \/ Crash \/ RecoverNothing \/ RecoverInterrupted \/ Stage
         \/ BaselineRefused \/ ActiveAlready \/ UndoDone \/ Purge
  PROVE  ServicesInv'
<1>1. UNCHANGED <<record, txn, running>> /\ Stopping /\ call \in Calls
  BY CommandsAt DEF Crash, RecoverNothing, RecoverInterrupted, Stage, BaselineRefused,
     ActiveAlready, UndoDone, Purge, disk, services, Stopping, PlaceInv
<1>2. call'.at \in {"recover", "idle", "body", "baseline", "restore stop", "purge"}
  <2>1. CASE Commands \/ Crash \/ BaselineRefused \/ ActiveAlready
    BY <2>1, CommandsAt, ReturnAt DEF Crash, BaselineRefused, ActiveAlready
  <2>2. CASE RecoverNothing \/ Stage
    BY <1>1, <2>2, ReturnAt DEF RecoverNothing, Stage, Goto, Calls
  <2>3. CASE RecoverInterrupted \/ UndoDone
    BY <2>3, RestoreForAt, FailActivationAt DEF RecoverInterrupted, UndoDone
  <2>4. CASE Purge
    BY <2>4, ReturnAt DEF Purge, At
  <2> QED  BY <2>1, <2>2, <2>3, <2>4
<1> QED  BY <1>1, <1>2, RunsQuiet

\* A record that asks for recovery commits nothing.
LEMMA RunsRecoveryRecord ==
  ASSUME PlaceInv, ServicesInv, WriteRecoveryRecord PROVE ServicesInv'
<1>1. Pending /\ Pending' /\ UNCHANGED <<txn, running>> /\ call'.at = "idle"
  BY RecoveryPending DEF WriteRecoveryRecord, services, Idle
<1>2. ReleasesRun'
  BY <1>1 DEF ServicesInv, ReleasesRun, Only, Pending
<1> QED  BY <1>1, <1>2, RunsElsewhere DEF ServicesInv

LEMMA RunsInit == ASSUME Init PROVE ServicesInv
<1>1. call.at = "idle"
  BY DEF Init, NoCall, Idle
<1>2. LabelsRun
  BY <1>1 DEF LabelsRun
<1>3. ReleasesRun
  BY DEF Init, ReleasesRun, Only
<1> QED  BY <1>2, <1>3 DEF ServicesInv

LEMMA RunsNext ==
  ASSUME PlaceInv, PlaceInv', TypesInv, ServicesInv, [Next]_vars PROVE ServicesInv'
<1>1. CASE UNCHANGED vars
  BY <1>1 DEF vars, disk, services, ServicesInv, ReleasesRun, LabelsRun, Runs, Only, Active
<1>2. CASE QuietSteps
  BY <1>2, RunsOthers, RunsEndings, RunsCommitActivation, RunsActivate, RunsCommitRecord,
     RunsRestore, RunsRestoreRecord, RunsRecoveryRecord, RunsBodies, RunsRestart
     DEF QuietSteps
<1> QED  BY <1>1, <1>2, NextSplit, RunsMoves, RunsActivate, RunsRestore, RunsRestart
         DEF StartSteps

\* No other step writes the record.
LEMMA OtherRecords ==
  ASSUME [Next]_vars, ~WriteRecoveryRecord, ~FirstTakenDown, ~Forget, ~RestartServices,
         ~CommitRecord, ~RestoreActivationRecord, ~RolledBack
  PROVE  record' = record
<1>1. CASE UNCHANGED vars
  BY <1>1 DEF vars, disk
<1>2. CASE QuietSteps
  BY <1>2, CommandsAt
     DEF QuietSteps, Crash, RecoverNothing, RecoverCommitted, RecoverInterrupted, Stage,
         BaselineRefused, ActiveAlready, CommitActivation, SwitchCurrent, ClearTransaction,
         UndoDone, RestoreSwitch, RollbackBody, RollbackCandidateBody, DeactivateBody,
         RemoveBody, Purge, RestartBody, disk
<1>3. CASE MoveSteps \/ StartSteps \/ StopOld \/ RestoreStop
  BY <1>3
     DEF MoveSteps, StartSteps, PrepareRefused, ArchiveBegin, ArchiveDirectory, ArchiveFile,
         ArchiveFilesDone, RestoreFile, RestoreMoved, RestoreNothing, RestoreFails,
         RestoreBegin, StartCandidate, RestoreServices, StopOld, RestoreStop, disk
<1> QED  BY <1>1, <1>2, <1>3, NextSplit

THEOREM ServicesInvariance == Spec => []ServicesInv
BY PlaceInvariance, TypesInvariance, RunsInit, RunsNext, PTL DEF Spec

\* The record makes a release the active one only when startAndVerify found
\* all its services on its executables, they are enabled for the next boot,
\* and no service of the release it replaced is left: in Activate, in every
\* rollback and removal, and in the recovery of any of them.
THEOREM CommitsAreVerified == Spec => CommitIsVerified
<1> DEFINE Becomes == record' \in Records /\ ~record'.recovery
                      /\ (record = None \/ record.recovery \/ record.active # record'.active)
           Good == /\ Of(record'.active) \subseteq enabled'
                   /\ \A c \in Components : running'[c] =
                        IF c \in Of(record'.active) THEN record'.active ELSE None
<1>1. ASSUME PlaceInv, PlaceInv', ServicesInv', [Next]_vars PROVE Becomes => Good
  <2> SUFFICES ASSUME Becomes PROVE Good
    OBVIOUS
  <2>0. record' # record /\ record' # None
    BY <1>1, NoneAssumption DEF PlaceInv, DiskTyped, Maybe
  <2>1. CASE call'.at = "clear"
    <3>1. Runs(Active)' /\ Of(Active)' \subseteq enabled'
      BY <1>1, <2>1 DEF ServicesInv, LabelsRun
    <3>2. Active' = record'.active
      BY <2>0 DEF Active
    <3> QED  BY <3>1, <3>2 DEF Runs
  <2>2. CASE call'.at # "clear"
    <3>1. call \in Calls
      BY <1>1 DEF PlaceInv
    <3>2. Goto("clear") => call'.at = "clear"
      BY <3>1 DEF Goto, Calls
    <3>3. ~(WriteRecoveryRecord \/ FirstTakenDown)
      <4> DEFINE r == [active |-> IF current = None THEN txn.candidate ELSE current,
                       previous |-> txn.previous, recovery |-> TRUE]
      <4>1. r.recovery = TRUE
        OBVIOUS
      <4>2. WriteRecoveryRecord => record' = r
        BY <2>0 DEF WriteRecoveryRecord
      <4> HIDE DEF r
      <4>3. ~WriteRecoveryRecord
        BY <4>1, <4>2
      <4> QED  BY <2>0, <4>3 DEF FirstTakenDown
    <3>4. ~Forget
      <4>1. Forget => Sound(record) /\ record \in Records /\ record # None
        BY <1>1, <2>0 DEF Forget, At, PlaceInv, CallInv, Outside, DiskInv, Agrees, DiskTyped, Maybe
      <4>2. Forget => record' = [record EXCEPT !.previous = None]
        BY <2>0 DEF Forget
      <4> QED  BY <4>1, <4>2 DEF Sound, Records
    <3>5. ~RestartServices
      <4>1. RestartServices => Sound(record) /\ record # None
        BY <1>1 DEF RestartServices, At, PlaceInv, CallInv, Outside, DiskInv, Agrees
      <4> QED  BY <2>0, <4>1 DEF RestartServices, Sound
    <3>6. ~(CommitRecord \/ RestoreActivationRecord \/ RolledBack)
      BY <2>0, <2>2, <3>2 DEF CommitRecord, RestoreActivationRecord, RolledBack
    <3> QED  BY <1>1, <2>0, <3>3, <3>4, <3>5, <3>6, OtherRecords
  <2> QED  BY <2>1, <2>2
<1> QED  BY <1>1, PlaceInvariance, ServicesInvariance, PTL DEF Spec, CommitIsVerified

-----------------------------------------------------------------------------
(* The fourth layer: where the state of before an activation is.           *)

Names(s)    == {s[i] : i \in 1 .. Len(s)}
Distinct(s) == \A i, j \in 1 .. Len(s) : s[i] = s[j] => i = j

Activation == Pending /\ ghost.op = "activate"

Backup(c)   == backup[c][txn.candidate]
Kept(c)     == KeptIn(c, live[c])
Archived(c) == KeptIn(c, Backup(c))
Restored(c) == c \in Changed(txn.previous, txn.candidate) \cap Replace[txn.candidate]

\* A state that no move of files has taken apart is in the backup, if there
\* is one, and otherwise live.
Whole(c) == IF Backup(c) = None THEN Kept(c) ELSE Archived(c)

\* The files that are still to be moved are where they were, the others where
\* they go.
Apart(c, from, to) == \A f \in Files :
  ghost.live[c] # None /\ ghost.live[c][f] # None =>
    IF f \in Names(call.files) THEN from[f] = ghost.live[c][f] ELSE to[f] = ghost.live[c][f]

Split(c) == IF call.at = "prepare" THEN Apart(c, live[c], Backup(c))
            ELSE Apart(c, Backup(c), live[c])

\* A restore that has not failed leaves no backup behind.
Emptied(c) == call.at = "restore" /\ ~call.bad /\ Restored(c) /\ c \notin call.todo
                => Backup(c) = None

\* And so ends with the old state live.
AtHome  == \/ call.at \in {"restore services", "restored"} /\ ~call.bad
           \/ call.at = "clear"
Home(c) == AtHome => Kept(c)

Safe(c) ==
  /\ IF c = call.moving /\ c \in ByFile THEN Split(c) ELSE Whole(c)
  /\ Backup(c) # None => Restored(c)
  /\ c = call.moving /\ call.at = "prepare" => Restored(c) /\ (c \notin ByFile => Archived(c))
  /\ Emptied(c) /\ Home(c)

FilesInv == /\ Distinct(call.files)
            /\ call.moving \notin ByFile => call.files = <<>>

\* The restore of a rollback or a removal is no part of an activation.
ThenInv == call.then \in {"rolled back", "removed"} /\ call.at \in Restores \cup {"clear"}
             => ghost.op # "activate"

SafeInv == Activation => \A c \in Components : Covered(c) => Safe(c)

KeptInv == FilesInv /\ ThenInv /\ SafeInv

LEMMA NamesTail ==
  ASSUME NEW s \in Seq(Files), s # <<>>, Distinct(s)
  PROVE  /\ Distinct(Tail(s)) /\ Names(Tail(s)) = Names(s) \ {Head(s)}
         /\ Head(s) \in Names(s)
<1>1. /\ Len(s) \in Nat /\ Len(s) > 0 /\ Len(Tail(s)) = Len(s) - 1 /\ Head(s) = s[1]
      /\ \A i \in 1 .. Len(s) - 1 : Tail(s)[i] = s[i + 1]
  OBVIOUS
<1>2. Distinct(Tail(s))
  BY <1>1 DEF Distinct
<1>3. Head(s) \in Names(s)
  BY <1>1 DEF Names
<1>4. ASSUME NEW x \in Names(Tail(s)) PROVE x \in Names(s) \ {Head(s)}
  <2>1. PICK i \in 1 .. Len(s) - 1 : x = s[i + 1]
    BY <1>1 DEF Names
  <2>2. i + 1 \in 1 .. Len(s) /\ 1 \in 1 .. Len(s) /\ i + 1 # 1
    BY <1>1
  <2>3. s[i + 1] # s[1]
    BY <2>2 DEF Distinct
  <2> QED  BY <1>1, <2>1, <2>2, <2>3 DEF Names
<1>5. ASSUME NEW x \in Names(s), x # Head(s) PROVE x \in Names(Tail(s))
  <2>1. PICK i \in 1 .. Len(s) : x = s[i]
    BY DEF Names
  <2>2. i # 1
    BY <1>1, <1>5, <2>1
  <2>3. i - 1 \in 1 .. Len(s) - 1 /\ s[(i - 1) + 1] = s[i]
    BY <1>1, <2>2
  <2>4. Tail(s)[i - 1] = x
    BY <1>1, <2>1, <2>3
  <2> QED  BY <1>1, <2>3, <2>4 DEF Names
<1> QED  BY <1>2, <1>3, <1>4, <1>5

LEMMA StateFilesNames == Distinct(StateFiles) /\ Names(StateFiles) = Files
BY FilesAssumption DEF Distinct, Names, Files

LEMMA NamesEmpty == Distinct(<<>>) /\ Names(<<>>) = {}
BY DEF Distinct, Names

\* What the history says of a transaction is not rewritten before the next one.
Recalled == /\ ghost'.op = ghost.op /\ ghost'.live = ghost.live
            /\ ghost'.left = ghost.left /\ ghost.broken \subseteq ghost'.broken

LEMMA RecalledSteps ==
  ASSUME PlaceInv, TypesInv, Next
  PROVE  Recalled \/ \E a, b : BeginTransaction(a, b)
<1>1. GhostTyped
  BY DEF TypesInv
<1>2. CASE ghost' = ghost
  BY <1>2 DEF Recalled
<1>3. CASE GhostKept
  BY <1>1, <1>3 DEF GhostKept, GhostTyped, Recalled
<1> QED  BY <1>2, <1>3, GhostSteps

\* What a quiet step makes of the command's locals: nothing is being moved
\* afterwards; the last part of a restore, or the clearing, is entered by four
\* steps only; and the restores of a rollback begin with its transaction.
QuietCall ==
  /\ call'.files = <<>> \/ (call'.files = call.files /\ call'.moving = call.moving)
  /\ call'.at \in {"restore services", "restored", "clear"} =>
       RestoreSwitch \/ RestoreActivationRecord \/ RolledBack \/ CommitRecord
  /\ call'.then \in {"rolled back", "removed"} /\ call'.at \in Restores \cup {"clear"} =>
       \/ ghost'.op # "activate"
       \/ /\ call.then = call'.then /\ call.at \in Restores \cup {"clear"}
          /\ ghost'.op = ghost.op

LEMMA QuietReturns == ASSUME Return PROVE QuietCall
BY ReturnAt DEF QuietCall

LEMMA QuietGoto ==
  ASSUME PlaceInv, NEW l, Goto(l)
  PROVE  /\ call'.at = l /\ call'.files = call.files /\ call'.moving = call.moving
         /\ call'.then = call.then
BY DEF Goto, PlaceInv, Calls

\* To a place outside any restore.
LEMMA QuietOutside ==
  ASSUME PlaceInv, NEW l \in Outside \cup Activating, Goto(l) PROVE QuietCall
<1>1. /\ call'.at = l /\ call'.files = call.files /\ call'.moving = call.moving
  BY QuietGoto
<1> QED  BY <1>1 DEF QuietCall, Outside, Activating, Restores

\* To a restore that undoes a transaction or takes down a first release.
LEMMA QuietRestore ==
  ASSUME PlaceInv, NEW t \in {"failed", "recovered", "first"}, NEW old, NEW new,
         RestoreFor(t, old, new)
  PROVE  QuietCall
<1>1. /\ call'.at = "restore stop" /\ call'.files = call.files /\ call'.moving = call.moving
      /\ call'.then = t
  BY RestoreForAt
<1> QED  BY <1>1 DEF QuietCall

LEMMA QuietFails == ASSUME PlaceInv, FailActivation PROVE QuietCall
BY QuietRestore DEF FailActivation

LEMMA QuietBegin ==
  ASSUME PlaceInv, NEW t, NEW old, NEW new, NEW a, NEW b, RestoreFor(t, old, new),
         BeginTransaction(a, b), call.op # "activate"
  PROVE  QuietCall
<1>1. /\ call'.at = "restore stop" /\ call'.files = call.files /\ call'.moving = call.moving
  BY RestoreForAt
<1>2. ghost'.op = call.op
  BY DEF BeginTransaction
<1> QED  BY <1>1, <1>2 DEF QuietCall

LEMMA QuietBodies ==
  ASSUME PlaceInv, RollbackBody \/ RollbackCandidateBody \/ DeactivateBody \/ RemoveBody
  PROVE  QuietCall
<1>1. call.op # "activate"
  BY DEF RollbackBody, RollbackCandidateBody, DeactivateBody, RemoveBody
<1>2. CASE Refused
  BY <1>2, QuietReturns DEF Refused
<1>3. CASE CommitRollback
  BY <1>1, <1>3, QuietReturns, QuietBegin DEF CommitRollback
<1>4. CASE RollbackFirst
  BY <1>4, QuietRestore DEF RollbackFirst
<1>5. CASE RollbackCandidateLocked
  BY <1>2, <1>3, <1>4, <1>5 DEF RollbackCandidateLocked
<1>6. CASE Goto("forget") \/ Goto("purge")
  BY <1>6, QuietOutside DEF Outside
<1>7. CASE RemoveBody
  BY <1>1, <1>2, <1>6, <1>7, QuietReturns, QuietBegin, QuietRestore DEF RemoveBody
<1> QED  BY <1>2, <1>3, <1>5, <1>6, <1>7
            DEF RollbackBody, RollbackCandidateBody, DeactivateBody

LEMMA QuietCalls == ASSUME PlaceInv, QuietSteps PROVE QuietCall
<1>1. CASE Commands
  BY <1>1, CommandsAt DEF QuietCall, Restores
<1>2. CASE Crash \/ BaselineRefused \/ ActiveAlready \/ WriteRecoveryRecord
  BY <1>2, QuietReturns DEF Crash, BaselineRefused, ActiveAlready, WriteRecoveryRecord
<1>3. CASE RecoverNothing \/ RecoverCommitted \/ Stage \/ RestartBody
  <2>1. Return \/ Goto("body") \/ Goto("baseline") \/ Goto("restart")
    BY <1>3 DEF RecoverNothing, RecoverCommitted, Stage, RestartBody
  <2> QED  BY <2>1, QuietReturns, QuietOutside DEF Outside
<1>4. CASE RecoverInterrupted
  BY <1>4, QuietRestore DEF RecoverInterrupted
<1>5. CASE CommitActivation
  <2>1. CASE Return
    BY <2>1, QuietReturns
  <2>2. CASE call' = [call EXCEPT !.at = "stop", !.old = current, !.new = call.bundle]
    <3>1. /\ call'.at = "stop" /\ call'.files = call.files /\ call'.moving = call.moving
      BY <2>2 DEF PlaceInv, Calls
    <3> QED  BY <3>1 DEF QuietCall, Restores
  <2> QED  BY <1>5, <2>1, <2>2 DEF CommitActivation
<1>6. CASE SwitchCurrent
  BY <1>6, QuietOutside, QuietFails DEF SwitchCurrent, Activating
<1>7. CASE CommitRecord
  <2>1. CASE Goto("clear")
    <3>1. /\ call'.at = "clear" /\ call'.files = call.files /\ call'.moving = call.moving
          /\ call'.then = call.then
      BY <2>1, QuietGoto
    <3>2. call.then = "none"
      BY <1>7 DEF CommitRecord, At, PlaceInv, CallInv, Activating
    <3> QED  BY <1>7, <3>1, <3>2 DEF QuietCall
  <2> QED  BY <1>7, <2>1, QuietFails DEF CommitRecord
<1>8. CASE ClearTransaction
  <2>1. CASE call' = [call EXCEPT !.at = "body", !.then = "none"]
    <3>1. /\ call'.at = "body" /\ call'.files = call.files /\ call'.moving = call.moving
      BY <2>1 DEF PlaceInv, Calls
    <3> QED  BY <3>1 DEF QuietCall, Restores
  <2>2. CASE Goto("purge") \/ Goto("forget")
    BY <2>2, QuietOutside DEF Outside
  <2> QED  BY <1>8, <2>1, <2>2, QuietReturns DEF ClearTransaction
<1>9. CASE UndoDone
  BY <1>9, QuietFails DEF UndoDone
<1>10. CASE RestoreSwitch
  <2>1. /\ call'.files = call.files /\ call'.moving = call.moving /\ call'.then = call.then
    BY <1>10, QuietGoto DEF RestoreSwitch, PlaceInv, Calls
  <2>2. call.at \in Restores /\ ghost' = ghost
    BY <1>10 DEF RestoreSwitch, At, Restores
  <2> QED  BY <1>10, <2>1, <2>2 DEF QuietCall
<1>11. CASE RestoreActivationRecord
  <2>1. /\ call'.files = call.files /\ call'.moving = call.moving /\ call'.then = call.then
    BY <1>11, QuietGoto DEF RestoreActivationRecord
  <2>2. call.at \in Restores /\ ghost' = ghost
    BY <1>11 DEF RestoreActivationRecord, At, Restores
  <2> QED  BY <1>11, <2>1, <2>2 DEF QuietCall
<1>12. CASE RolledBack
  <2>1. CASE Goto("clear")
    <3>1. /\ call'.files = call.files /\ call'.moving = call.moving /\ call'.then = call.then
      BY <2>1, QuietGoto
    <3>2. call.at \in Restores /\ ghost' = ghost
      BY <1>12 DEF RolledBack, At, Restores
    <3> QED  BY <1>12, <3>1, <3>2 DEF QuietCall
  <2> QED  BY <1>12, <2>1, QuietFails, QuietReturns DEF RolledBack
<1>13. CASE FirstTakenDown
  <2>1. Return \/ Goto("forget") \/ Goto("purge")
    BY <1>13 DEF FirstTakenDown
  <2> QED  BY <2>1, QuietReturns, QuietOutside DEF Outside
<1>14. CASE Forget
  BY <1>14, QuietReturns, QuietOutside DEF Forget, Outside
<1>15. CASE Purge
  <2>1. CASE UNCHANGED call
    BY <1>15, <2>1 DEF QuietCall, Purge, At, Restores
  <2> QED  BY <1>15, <2>1, QuietReturns DEF Purge
<1> QED  BY <1>1, <1>2, <1>3, <1>4, <1>5, <1>6, <1>7, <1>8, <1>9, <1>10, <1>11,
            <1>12, <1>13, <1>14, <1>15, QuietBodies
     DEF QuietSteps

\* Only a crash takes a command away from a component it is moving.
LEMMA QuietMoving ==
  ASSUME PlaceInv, QuietSteps, call.moving # None PROVE Crash
<1>1. call.at \in {"prepare", "undo", "restore"}
  BY DEF PlaceInv, CallInv
<1>2. ~Commands
  BY <1>1, CommandsAt
<1> QED  BY <1>1, <1>2
   DEF QuietSteps, RecoverNothing, RecoverCommitted, RecoverInterrupted, Stage,
       BaselineRefused, ActiveAlready, CommitActivation, SwitchCurrent, CommitRecord,
       ClearTransaction, UndoDone, RestoreSwitch, RestoreActivationRecord,
       WriteRecoveryRecord, RollbackBody, RollbackCandidateBody, RolledBack,
       FirstTakenDown, DeactivateBody, Forget, RemoveBody, Purge, RestartBody, At

LEMMA TransactionSteps ==
  ASSUME Next
  PROVE  txn' = txn \/ txn' = None \/ \E a, b : BeginTransaction(a, b)
<1>1. CASE QuietSteps
  <2>1. CASE Commands
    BY <2>1, CommandsAt DEF disk
  <2>2. CASE CommitActivation \/ RollbackBody \/ RemoveBody
    BY <2>2 DEF CommitActivation, RollbackBody, RemoveBody, CommitRollback, Refused
  <2>3. CASE RollbackCandidateBody \/ DeactivateBody
    BY <2>3 DEF RollbackCandidateBody, DeactivateBody, RollbackCandidateLocked,
                RollbackFirst, CommitRollback, Refused
  <2> QED  BY <1>1, <2>1, <2>2, <2>3
     DEF QuietSteps, RecoverNothing, RecoverCommitted, RecoverInterrupted, Stage,
         BaselineRefused, ActiveAlready, SwitchCurrent, CommitRecord, ClearTransaction,
         UndoDone, RestoreSwitch, RestoreActivationRecord, WriteRecoveryRecord, RolledBack,
         FirstTakenDown, Forget, Purge, RestartBody, Crash, disk
<1>2. CASE MoveSteps \/ StartSteps \/ StopOld \/ RestoreStop
  BY <1>2
     DEF MoveSteps, StartSteps, PrepareRefused, ArchiveBegin, ArchiveDirectory, ArchiveFile,
         ArchiveFilesDone, RestoreFile, RestoreMoved, RestoreNothing, RestoreFails,
         RestoreBegin, StartCandidate, RestoreServices, RestartServices, StopOld,
         RestoreStop, disk
<1> QED  BY <1>1, <1>2, NextSplit

\* An unfinished transaction was unfinished before, or has just begun.
LEMMA PendingSteps ==
  ASSUME PlaceInv, Next, Pending'
  PROVE  (Pending /\ txn' = txn) \/ \E a, b : BeginTransaction(a, b)
<1>1. CASE txn' = txn
  <2>1. txn # None
    BY <1>1 DEF Pending
  <2>2. CASE WriteRecoveryRecord
    BY <1>1, <2>2, RecoveryPending
  <2>3. CASE RestoreActivationRecord \/ RolledBack
    BY <1>1, <2>3
       DEF RestoreActivationRecord, RolledBack, At, PlaceInv, CallInv, Restores, RestoreInv
  <2>4. CASE CommitRecord
    BY <1>1, <2>4 DEF CommitRecord, At, PlaceInv, CallInv, Activating
  <2>5. ~FirstTakenDown
    BY <2>1 DEF FirstTakenDown, At, PlaceInv, CallInv, Restores, RestoreInv
  <2>6. ~Forget /\ ~RestartServices
    BY <2>1 DEF Forget, RestartServices, At, PlaceInv, CallInv, Outside
  <2>7. CASE record' = record
    BY <1>1, <2>7 DEF Pending
  <2> QED  BY <2>2, <2>3, <2>4, <2>5, <2>6, <2>7, OtherRecords
<1>2. txn' # None
  BY DEF Pending
<1> QED  BY <1>1, <1>2, TransactionSteps

LEMMA FilesQuiet ==
  ASSUME PlaceInv, PlaceInv', FilesInv, QuietSteps PROVE FilesInv'
<1>1. CASE call'.files = <<>>
  BY <1>1, NamesEmpty DEF FilesInv
<1>2. CASE call'.files = call.files /\ call'.moving = call.moving
  BY <1>2 DEF FilesInv
<1> QED  BY <1>1, <1>2, QuietCalls DEF QuietCall

LEMMA ThenQuiet ==
  ASSUME PlaceInv, ThenInv, QuietSteps PROVE ThenInv'
BY QuietCalls DEF QuietCall, ThenInv

\* At the end of a restore without failures nothing is left in a backup.
LEMMA HomeSwitch ==
  ASSUME PlaceInv, RestoreSwitch, NEW c \in Components, Safe(c), ~call.bad
  PROVE  Kept(c)
<1>1. call.at = "restore" /\ call.todo = {} /\ call.moving = None /\ c # None
  BY BundleAssumption DEF RestoreSwitch, At
<1>2. Backup(c) = None
  BY <1>1 DEF Safe, Emptied
<1> QED  BY <1>1, <1>2 DEF Safe, Whole

LEMMA HomeQuiet ==
  ASSUME PlaceInv, ThenInv, QuietSteps, Activation, Activation', txn' = txn,
         NEW c \in Components, Safe(c), AtHome'
  PROVE  Kept(c)
<1>1. call'.at \in {"restore services", "restored", "clear"}
  BY DEF AtHome
<1>2. CASE RestoreSwitch
  <2>1. call'.at = "restore services" /\ ~call'.bad
    BY <1>2 DEF RestoreSwitch, AtHome, Goto, PlaceInv, Calls
  <2>2. ~call.bad
    BY <1>2, <2>1 DEF RestoreSwitch, Goto, PlaceInv, Calls
  <2> QED  BY <1>2, <2>2, HomeSwitch
<1>3. CASE RestoreActivationRecord
  BY <1>3 DEF RestoreActivationRecord, At, Safe, Home, AtHome
<1>4. CASE RolledBack
  BY <1>4 DEF RolledBack, At, ThenInv, Activation, Restores
<1>5. CASE CommitRecord
  <2>1. record' # txn.final
    BY DEF Activation, Pending
  <2>2. FailActivation
    BY <1>5, <2>1 DEF CommitRecord
  <2> QED  BY <1>1, <2>2, FailActivationAt
<1> QED  BY <1>1, <1>2, <1>3, <1>4, <1>5, QuietCalls DEF QuietCall

LEMMA SafeQuiet ==
  ASSUME PlaceInv, PlaceInv', TypesInv, KeptInv, QuietSteps, Activation',
         NEW c \in Components, Covered(c)'
  PROVE  Safe(c)'
<1>1. /\ UNCHANGED <<live, backup>> /\ call'.at \notin {"prepare", "undo", "restore"}
  BY QuietLeaves
<1>2. c # call'.moving
  BY <1>1, BundleAssumption DEF PlaceInv, CallInv
<1>3. Next
  BY NextSplit
<1>4. CASE \E a, b : BeginTransaction(a, b)
  <2>1. PICK a, b : BeginTransaction(a, b)
    BY <1>4
  <2>2. txn'.candidate = a /\ ghost'.live = live /\ backup[c][a] = None
    BY <2>1 DEF BeginTransaction, Covered
  <2>3. Backup(c)' = None /\ Kept(c)'
    BY <1>1, <2>2 DEF Backup, Kept, KeptIn
  <2> QED  BY <1>1, <1>2, <2>3 DEF Safe, Whole, Emptied, Home
<1>5. CASE Recalled /\ Pending /\ txn' = txn
  <2>1. Activation /\ Covered(c)
    BY <1>5 DEF Recalled, Activation, Covered
  <2>2. Safe(c)
    BY <2>1 DEF KeptInv, SafeInv
  <2>3. ~(c = call.moving /\ c \in ByFile)
    <3>1. SUFFICES ASSUME c = call.moving, c \in ByFile PROVE FALSE
      OBVIOUS
    <3>2. Crash
      BY <3>1, QuietMoving, BundleAssumption
    <3>3. c \in ghost'.broken
      BY <3>1, <3>2 DEF Crash, TypesInv, GhostTyped
    <3> QED  BY <3>3 DEF Covered
  <2>4. Whole(c) /\ (Backup(c) # None => Restored(c))
    BY <2>2, <2>3 DEF Safe
  <2>5. Backup(c)' = Backup(c) /\ live'[c] = live[c] /\ ghost'.live = ghost.live
    BY <1>1, <1>5 DEF Backup, Recalled
  <2>6. Kept(c)' = Kept(c) /\ Archived(c)' = Archived(c)
    BY <2>5 DEF Kept, Archived, KeptIn
  <2>7. Whole(c)' /\ (Backup(c)' # None => Restored(c)')
    BY <1>5, <2>4, <2>5, <2>6 DEF Whole, Restored
  <2>8. Home(c)'
    BY <1>5, <2>1, <2>2, <2>6, HomeQuiet DEF Home, KeptInv
  <2> QED  BY <1>1, <1>2, <2>7, <2>8 DEF Safe, Emptied
<1> QED  BY <1>3, <1>4, <1>5, PendingSteps, RecalledSteps DEF Activation

LEMMA FilesSame ==
  ASSUME FilesInv, call'.files = call.files, call'.moving = call.moving PROVE FilesInv'
BY DEF FilesInv

\* A component whose state stays where it is, when no move of it is going on.
LEMMA SafeSame ==
  ASSUME NEW c \in Components, Safe(c), c # call.moving \/ c \notin ByFile, c # call'.moving,
         txn' = txn, live'[c] = live[c], backup'[c] = backup[c], ghost'.live = ghost.live,
         Emptied(c)', Home(c)'
  PROVE  Safe(c)'
<1>1. Whole(c) /\ (Backup(c) # None => Restored(c))
  BY DEF Safe
<1>2. Backup(c)' = Backup(c)
  BY DEF Backup
<1>3. Kept(c)' = Kept(c) /\ Archived(c)' = Archived(c)
  BY <1>2 DEF Kept, Archived, KeptIn
<1> QED  BY <1>1, <1>2, <1>3 DEF Safe, Whole, Restored

\* Stopping services.
LEMMA KeptStop ==
  ASSUME PlaceInv, PlaceInv', TypesInv, KeptInv, StopOld \/ RestoreStop PROVE KeptInv'
<1>1. /\ call \in Calls /\ UNCHANGED <<live, backup, record, txn, ghost>>
  BY DEF PlaceInv, StopOld, RestoreStop, disk, state
<1>2. /\ call'.files = call.files /\ call'.moving = call.moving /\ call.moving = None
      /\ call'.at \in {"prepare", "restore stop", "restore"}
  <2>1. CASE StopOld
    <3>1. call.moving = None
      BY <2>1 DEF StopOld, At, PlaceInv, CallInv
    <3>2. CASE FailActivation
      BY <3>1, <3>2, FailActivationAt
    <3>3. CASE call' = [call EXCEPT !.at = "prepare", !.done = {},
                                    !.todo = Changed(call.old, call.new)]
      BY <1>1, <3>1, <3>3 DEF Calls
    <3> QED  BY <2>1, <3>2, <3>3 DEF StopOld
  <2>2. CASE RestoreStop
    BY <1>1, <2>2 DEF RestoreStop, At, PlaceInv, CallInv, Calls
  <2> QED  BY <2>1, <2>2
<1>3. FilesInv'
  BY <1>2, FilesSame DEF KeptInv
<1>4. ThenInv'
  <2>1. CASE StopOld
    <3>1. call.then = "none"
      BY <2>1 DEF StopOld, At, PlaceInv, CallInv, Activating
    <3>2. CASE FailActivation
      BY <3>2, FailActivationAt DEF ThenInv
    <3>3. CASE call' = [call EXCEPT !.at = "prepare", !.done = {},
                                    !.todo = Changed(call.old, call.new)]
      BY <1>1, <3>1, <3>3 DEF Calls, ThenInv
    <3> QED  BY <2>1, <3>2, <3>3 DEF StopOld
  <2>2. CASE RestoreStop
    <3>1. call'.then = call.then /\ call.at \in Restores
      BY <1>1, <2>2 DEF RestoreStop, At, Calls, Restores
    <3> QED  BY <1>1, <3>1 DEF KeptInv, ThenInv
  <2> QED  BY <2>1, <2>2
<1>5. ASSUME Activation', NEW c \in Components, Covered(c)' PROVE Safe(c)'
  <2>1. Activation /\ Covered(c)
    BY <1>1, <1>5 DEF Activation, Pending, Covered
  <2>2. Safe(c) /\ c # None
    BY <2>1, BundleAssumption DEF KeptInv, SafeInv
  <2>3. Home(c)'
    BY <1>2 DEF Home, AtHome
  <2>4. Emptied(c)'
    <3>1. SUFFICES ASSUME call'.at = "restore", Restored(c)' PROVE c \in call'.todo
      BY DEF Emptied
    <3>2. RestoreStop
      <4>1. StopOld => call'.at # "restore"
        BY <1>1, FailActivationAt DEF StopOld, Calls
      <4> QED  BY <3>1, <4>1
    <3>3. RestoreInv
      BY <3>2 DEF RestoreStop, At, PlaceInv, CallInv, Restores
    <3>4. call.then \notin {"rolled back", "removed"}
      BY <2>1, <3>2 DEF KeptInv, ThenInv, Activation, RestoreStop, At, Restores
    <3>5. call.then # "first" /\ call.then # "none"
      BY <2>1, <3>3 DEF RestoreInv, Activation, Pending
    <3>6. Undoing
      BY <1>1, <3>4, <3>5 DEF Calls, Thens, Undoing
    <3>7. call.old = txn.previous /\ call.new = txn.candidate
      BY <3>3, <3>6 DEF RestoreInv
    <3>8. call'.todo = Changed(call.old, call.new) \cap Replace[call.new]
      BY <1>1, <3>2 DEF RestoreStop, Calls
    <3> QED  BY <1>1, <3>1, <3>7, <3>8 DEF Restored
  <2> QED  BY <1>1, <1>2, <2>2, <2>3, <2>4, SafeSame
<1> QED  BY <1>3, <1>4, <1>5 DEF KeptInv, SafeInv

\* A service that starts creates the files it does not find and touches no
\* other.
LEMMA StartedLive ==
  ASSUME PlaceInv, TypesInv, NEW S, StartSome(S), NEW c \in Components
  PROVE  live'[c] = live[c] \/ (live'[c] = Created(c) /\ live'[c] # None)
<1>1. CASE c \in S /\ Starts(c)
  <2>1. live'[c] = Created(c)
    BY <1>1 DEF StartSome
  <2>2. Created(c) \in States
    BY <1>1, CreatedTyped DEF Starts
  <2> QED  BY <2>1, <2>2, NoneAssumption
<1>2. CASE ~(c \in S /\ Starts(c))
  BY <1>2 DEF StartSome
<1> QED  BY <1>1, <1>2

LEMMA KeptStarted ==
  ASSUME NEW c \in Components, ghost'.live = ghost.live, Kept(c),
         live'[c] = live[c] \/ (live'[c] = Created(c) /\ live'[c] # None)
  PROVE  Kept(c)'
<1>1. CASE live'[c] = live[c]
  BY <1>1 DEF Kept, KeptIn
<1>2. CASE live'[c] = Created(c) /\ live'[c] # None
  <2>1. \A f \in Files : live[c] # None /\ live[c][f] # None => live'[c][f] = live[c][f]
    BY <1>2 DEF Created
  <2> QED  BY <1>2, <2>1 DEF Kept, KeptIn
<1> QED  BY <1>1, <1>2

\* Starting services.
LEMMA KeptStart ==
  ASSUME PlaceInv, PlaceInv', TypesInv, KeptInv, StartCandidate \/ RestoreServices
  PROVE  KeptInv'
<1>1. /\ call \in Calls /\ UNCHANGED <<backup, record, txn, ghost>>
  BY DEF PlaceInv, StartCandidate, RestoreServices, disk
<1>2. live' = live \/ \E S : StartSome(S)
  BY DEF StartCandidate, RestoreServices, StartAndVerify, StartFails
<1>3. /\ call'.files = call.files /\ call'.moving = call.moving /\ call.moving = None
      /\ call'.at \in {"commit", "restore stop", "restored"}
  <2>1. CASE StartCandidate
    <3>1. call.moving = None
      BY <2>1 DEF StartCandidate, At, PlaceInv, CallInv
    <3> QED  BY <2>1, <3>1, FailActivationAt, QuietGoto DEF StartCandidate
  <2>2. CASE RestoreServices
    <3>1. call.moving = None
      BY <2>2 DEF RestoreServices, At, PlaceInv, CallInv
    <3>2. CASE call' = [call EXCEPT !.at = "restored", !.bad = TRUE]
      BY <1>1, <3>1, <3>2 DEF Calls
    <3> QED  BY <2>2, <3>1, <3>2, QuietGoto DEF RestoreServices
  <2> QED  BY <2>1, <2>2
<1>4. FilesInv'
  BY <1>3, FilesSame DEF KeptInv
<1>5. ThenInv'
  <2>1. CASE StartCandidate
    <3>1. call.then = "none"
      BY <2>1 DEF StartCandidate, At, PlaceInv, CallInv, Activating
    <3>2. call'.then \in {"none", "failed"}
      BY <2>1, <3>1, FailActivationAt, QuietGoto DEF StartCandidate
    <3> QED  BY <3>2 DEF ThenInv
  <2>2. CASE RestoreServices
    <3>1. call.at \in Restores
      BY <2>2 DEF RestoreServices, At, Restores
    <3>2. CASE call' = [call EXCEPT !.at = "restored", !.bad = TRUE]
      BY <1>1, <3>1, <3>2 DEF Calls, KeptInv, ThenInv
    <3>3. CASE Goto("restored")
      BY <1>1, <3>1, <3>3, QuietGoto DEF KeptInv, ThenInv
    <3> QED  BY <2>2, <3>2, <3>3 DEF RestoreServices
  <2> QED  BY <2>1, <2>2
<1>6. ASSUME Activation', NEW c \in Components, Covered(c)' PROVE Safe(c)'
  <2>1. Activation /\ Covered(c)
    BY <1>1, <1>6 DEF Activation, Pending, Covered
  <2>2. Safe(c) /\ c # None /\ c # call.moving /\ c # call'.moving
    BY <1>3, <2>1, BundleAssumption DEF KeptInv, SafeInv
  <2>3. Kept(c) => Kept(c)'
    BY <1>1, <1>2, StartedLive, KeptStarted
  <2>4. Backup(c)' = Backup(c)
    BY <1>1 DEF Backup
  <2>5. Archived(c)' = Archived(c)
    BY <1>1, <2>4 DEF Archived, KeptIn
  <2>6. Whole(c)' /\ (Backup(c)' # None => Restored(c)')
    BY <1>1, <2>2, <2>3, <2>4, <2>5 DEF Safe, Whole, Restored
  <2>7. AtHome' => AtHome
    <3>1. SUFFICES ASSUME call'.at = "restored", ~call'.bad PROVE AtHome
      BY <1>3 DEF AtHome
    <3>2. ~StartCandidate
      BY <3>1, FailActivationAt, QuietGoto DEF StartCandidate
    <3>3. call' # [call EXCEPT !.at = "restored", !.bad = TRUE]
      BY <1>1, <3>1 DEF Calls
    <3>4. Goto("restored") /\ call.at = "restore services"
      BY <3>2, <3>3 DEF RestoreServices, At
    <3>5. call'.bad = call.bad
      BY <1>1, <3>4 DEF Goto, Calls
    <3> QED  BY <3>1, <3>4, <3>5 DEF AtHome
  <2>8. Home(c)'
    BY <2>2, <2>3, <2>7 DEF Safe, Home
  <2> QED  BY <1>3, <2>2, <2>6, <2>8 DEF Safe, Emptied
<1> QED  BY <1>4, <1>5, <1>6 DEF KeptInv, SafeInv

LEMMA KeptRestart ==
  ASSUME PlaceInv, KeptInv, RestartServices PROVE KeptInv'
<1>1. txn' = None
  BY DEF RestartServices, At, PlaceInv, CallInv, Outside
<1>2. call'.then = "none" /\ call'.files = <<>>
  BY ReturnAt DEF RestartServices
<1> QED  BY <1>1, <1>2, NamesEmpty
            DEF KeptInv, FilesInv, ThenInv, SafeInv, Activation, Pending

-----------------------------------------------------------------------------
(* The moves of state and KeptInv.                                         *)

Moving == {"prepare", "undo", "restore"}

\* What every move leaves alone.
MoveFrame ==
  /\ call.at \in Moving /\ call'.at \in Moving /\ (call'.at = "restore" => call.at = "restore")
  /\ call'.then = call.then /\ (call.bad => call'.bad) /\ call'.new = call.new
  /\ UNCHANGED <<record, txn>> /\ Recalled

\* The components a move is not about.
MoveOthers(c) == \A d \in Components \ {c} :
  /\ d # call.moving /\ d # call'.moving
  /\ live'[d] = live[d] /\ backup'[d] = backup[d]
  /\ call'.at = "restore" /\ d \in call.todo => d \in call'.todo

LEMMA KeptMove ==
  ASSUME PlaceInv, KeptInv, MoveFrame, NEW c \in Components, MoveOthers(c), FilesInv',
         Activation /\ Covered(c)' /\ Safe(c) => Safe(c)'
  PROVE  KeptInv'
<1>1. ThenInv'
  BY DEF KeptInv, ThenInv, MoveFrame, Moving, Recalled, Restores
<1>2. ASSUME Activation', NEW d \in Components, Covered(d)' PROVE Safe(d)'
  <2>1. Activation /\ Covered(d)
    BY <1>2 DEF Activation, Pending, Covered, MoveFrame, Recalled
  <2>2. Safe(d)
    BY <2>1 DEF KeptInv, SafeInv
  <2>3. CASE d = c
    BY <1>2, <2>1, <2>2, <2>3
  <2>4. CASE d # c
    <3>1. /\ d # call.moving /\ d # call'.moving
          /\ live'[d] = live[d] /\ backup'[d] = backup[d]
          /\ (call'.at = "restore" /\ d \in call.todo => d \in call'.todo)
      BY <2>4 DEF MoveOthers
    <3>2. txn' = txn /\ ghost'.live = ghost.live
      BY DEF MoveFrame, Recalled
    <3>3. Backup(d)' = Backup(d)
      BY <3>1, <3>2 DEF Backup
    <3>4. Emptied(d)'
      BY <2>2, <3>1, <3>2, <3>3 DEF Safe, Emptied, Restored, MoveFrame
    <3>5. Home(d)'
      BY DEF Home, AtHome, MoveFrame, Moving
    <3> QED  BY <2>2, <3>1, <3>2, <3>4, <3>5, SafeSame
  <2> QED  BY <2>3, <2>4
<1> QED  BY <1>1, <1>2 DEF KeptInv, SafeInv

\* The release whose backups an activation moves.
LEMMA MovingCandidate ==
  ASSUME PlaceInv, KeptInv, Activation, call.at \in Moving
  PROVE  /\ call.new = txn.candidate /\ call.old = txn.previous
         /\ \A c \in Components : Backup(c) = backup[c][call.new]
<1>1. call.new = txn.candidate /\ call.old = txn.previous
  <2>1. CASE call.at = "restore"
    <3>1. RestoreInv
      BY <2>1 DEF PlaceInv, CallInv, Restores
    <3>2. call.then \notin {"rolled back", "removed", "first", "none"}
      BY <2>1, <3>1 DEF KeptInv, ThenInv, Activation, Restores, RestoreInv, Pending
    <3>3. Undoing
      BY <3>2 DEF PlaceInv, Calls, Thens, Undoing
    <3> QED  BY <3>1, <3>3 DEF RestoreInv
  <2>2. CASE call.at # "restore"
    BY <2>2 DEF Moving, PlaceInv, CallInv, Activating
  <2> QED  BY <2>1, <2>2
<1> QED  BY <1>1 DEF Backup

\* A move that leaves all state alone.
LEMMA SafeUnmoved ==
  ASSUME MoveFrame, UNCHANGED <<live, backup>>, NEW c \in Components, Safe(c),
         c # call.moving \/ c \notin ByFile, c # call'.moving, Emptied(c)'
  PROVE  Safe(c)'
<1>1. Home(c)'
  BY DEF Home, AtHome, MoveFrame, Moving
<1> QED  BY <1>1, SafeSame DEF MoveFrame, Recalled

LEMMA UndoAt ==
  ASSUME PlaceInv, call.at = "prepare", NEW S, UndoPrepared(S)
  PROVE  /\ call'.at = "undo" /\ call'.moving = None /\ call'.files = <<>>
         /\ call'.then = call.then /\ call'.bad = call.bad /\ call'.new = call.new
BY DEF PlaceInv, Calls, UndoPrepared

\* The preparation is given up between two components.
LEMMA KeptUndo ==
  ASSUME PlaceInv, KeptInv, call.at = "prepare", call.moving = None, NEW S, UndoPrepared(S),
         UNCHANGED <<record, txn, live, backup, ghost>>, NEW c \in Components
  PROVE  KeptInv'
<1>1. /\ call'.at = "undo" /\ call'.moving = None /\ call'.files = <<>>
      /\ call'.then = call.then /\ call'.bad = call.bad /\ call'.new = call.new
  BY UndoAt
<1>2. MoveFrame /\ MoveOthers(c)
  BY <1>1, BundleAssumption DEF MoveFrame, MoveOthers, Moving, Recalled
<1>3. FilesInv'
  BY <1>1, NamesEmpty DEF FilesInv
<1>4. Emptied(c)' /\ c # None
  BY <1>1, BundleAssumption DEF Emptied
<1>5. Safe(c) => Safe(c)'
  BY <1>1, <1>2, <1>4, SafeUnmoved
<1> QED  BY <1>2, <1>3, <1>5, KeptMove

LEMMA KeptPrepareRefused ==
  ASSUME PlaceInv, KeptInv, NEW c \in Components, PrepareRefused(c) PROVE KeptInv'
BY KeptUndo DEF PrepareRefused, At, disk, state

LEMMA KeptNothing ==
  ASSUME PlaceInv, KeptInv, NEW c \in Components, RestoreNothing(c) \/ RestoreFails(c)
  PROVE  KeptInv'
<1>1. /\ call \in Calls /\ call.at \in {"undo", "restore"} /\ call.moving = None /\ c # None
      /\ UNCHANGED <<record, txn, live, backup, ghost>>
  BY BundleAssumption
     DEF PlaceInv, RestoreNothing, RestoreFails, Restoring, At, disk, state
<1>2. /\ call'.at = call.at /\ call'.moving = None /\ call'.files = call.files
      /\ call'.then = call.then /\ (call.bad => call'.bad) /\ call'.new = call.new
      /\ call'.todo = call.todo \ {c}
  BY <1>1 DEF RestoreNothing, RestoreFails, Calls
<1>3. MoveFrame /\ MoveOthers(c)
  BY <1>1, <1>2, BundleAssumption DEF MoveFrame, MoveOthers, Moving, Recalled
<1>4. FilesInv'
  BY <1>1, <1>2, FilesSame DEF KeptInv
<1>5. ASSUME Activation, Safe(c) PROVE Safe(c)'
  <2>1. Emptied(c)'
    <3>1. CASE RestoreFails(c)
      BY <1>1, <3>1 DEF RestoreFails, Calls, Emptied
    <3>2. CASE RestoreNothing(c)
      <4>1. Backup(c) = None
        BY <1>1, <1>5, <3>2, MovingCandidate DEF RestoreNothing, Moving
      <4> QED  BY <1>1, <4>1 DEF Backup, Emptied
    <3> QED  BY <3>1, <3>2
  <2> QED  BY <1>1, <1>2, <1>3, <1>5, <2>1, SafeUnmoved
<1> QED  BY <1>3, <1>4, <1>5, KeptMove

LEMMA KeptArchiveBegin ==
  ASSUME PlaceInv, TypesInv, KeptInv, NEW c \in Components, ArchiveBegin(c) PROVE KeptInv'
<1>1. /\ call \in Calls /\ call.at = "prepare" /\ call.moving = None /\ c \in call.todo
      /\ c \in Replace[call.new] /\ backup[c][call.new] = None /\ c # None
      /\ UNCHANGED <<record, txn, ghost>> /\ call.new \in Bundles
  BY MovingNew, BundleAssumption DEF PlaceInv, ArchiveBegin, At, disk
<1>2. /\ live \in [Components -> Maybe(States)]
      /\ backup \in [Components -> [Bundles -> Maybe(States)]]
      /\ call.todo \subseteq Changed(call.old, call.new)
  BY <1>1 DEF TypesInv, StateTyped, MoveInv
<1>3. ASSUME Activation, Safe(c)
      PROVE  Kept(c) /\ Restored(c) /\ txn.candidate = call.new
  <2>1. Backup(c) = None /\ call.new = txn.candidate /\ call.old = txn.previous
    BY <1>1, <1>3, MovingCandidate DEF Moving
  <2> QED  BY <1>1, <1>2, <1>3, <2>1 DEF Safe, Whole, Restored
<1>4. CASE /\ c \notin ByFile
           /\ backup' = [backup EXCEPT ![c][call.new] = live[c]]
           /\ live' = [live EXCEPT ![c] = None]
           /\ call' = [call EXCEPT !.moving = c]
  <2>1. /\ call'.at = "prepare" /\ call'.moving = c /\ call'.files = call.files
        /\ call'.then = call.then /\ call'.bad = call.bad /\ call'.new = call.new
    BY <1>1, <1>4 DEF Calls
  <2>2. /\ live'[c] = None /\ backup'[c][call.new] = live[c]
        /\ \A d \in Components \ {c} : live'[d] = live[d] /\ backup'[d] = backup[d]
    BY <1>1, <1>2, <1>4
  <2>3. MoveFrame /\ MoveOthers(c)
    BY <1>1, <2>1, <2>2, BundleAssumption DEF MoveFrame, MoveOthers, Moving, Recalled
  <2>4. FilesInv'
    BY <1>1, <1>4, <2>1, BundleAssumption DEF KeptInv, FilesInv
  <2>5. ASSUME Activation, Safe(c) PROVE Safe(c)'
    <3>1. Kept(c) /\ Restored(c) /\ txn'.candidate = call.new /\ ghost'.live = ghost.live
      BY <1>1, <1>3, <2>5
    <3>2. Backup(c)' = live[c]
      BY <2>2, <3>1 DEF Backup
    <3>3. Archived(c)'
      BY <3>1, <3>2 DEF Archived, Kept, KeptIn
    <3>4. Whole(c)'
      BY <2>2, <3>1, <3>2, <3>3 DEF Whole, Kept, KeptIn
    <3>5. Restored(c)'
      BY <1>1, <3>1 DEF Restored
    <3> QED  BY <1>4, <2>1, <3>3, <3>4, <3>5 DEF Safe, Emptied, Home, AtHome
  <2> QED  BY <2>3, <2>4, <2>5, KeptMove
<1>5. CASE /\ c \in ByFile /\ UNCHANGED live
           /\ backup' = [backup EXCEPT ![c][call.new] = Empty]
           /\ call' = [call EXCEPT !.moving = c, !.files = StateFiles]
  <2>1. /\ call'.at = "prepare" /\ call'.moving = c /\ call'.files = StateFiles
        /\ call'.then = call.then /\ call'.bad = call.bad /\ call'.new = call.new
    BY <1>1, <1>5 DEF Calls
  <2>2. \A d \in Components \ {c} : live'[d] = live[d] /\ backup'[d] = backup[d]
    BY <1>1, <1>2, <1>5
  <2>3. MoveFrame /\ MoveOthers(c)
    BY <1>1, <2>1, <2>2, BundleAssumption DEF MoveFrame, MoveOthers, Moving, Recalled
  <2>4. FilesInv'
    BY <1>5, <2>1, StateFilesNames DEF FilesInv
  <2>5. ASSUME Activation, Safe(c) PROVE Safe(c)'
    <3>1. Kept(c) /\ Restored(c) /\ ghost'.live = ghost.live
      BY <1>1, <1>3, <2>5
    <3>2. Names(call'.files) = Files
      BY <2>1, StateFilesNames
    <3>3. Names(call.files)' = Files
      BY <3>2 DEF Names
    <3>4. Apart(c, live[c], Backup(c))'
      BY <1>5, <3>1, <3>3 DEF Apart, Kept, KeptIn
    <3>5. Restored(c)'
      BY <1>1, <3>1 DEF Restored
    <3> QED  BY <1>5, <2>1, <3>4, <3>5 DEF Safe, Split, Emptied, Home, AtHome
  <2> QED  BY <2>3, <2>4, <2>5, KeptMove
<1>6. CASE UndoPrepared(call.done) /\ UNCHANGED state
  BY <1>1, <1>6, KeptUndo DEF state
<1> QED  BY <1>4, <1>5, <1>6 DEF ArchiveBegin

LEMMA KeptArchiveDirectory ==
  ASSUME PlaceInv, TypesInv, KeptInv, ArchiveDirectory PROVE KeptInv'
<1>0. PICK c \in Components \ ByFile : c = call.moving
  BY DEF PlaceInv, ArchiveDirectory, Calls, Maybe
<1>1. /\ call \in Calls /\ call.at = "prepare" /\ c \in Components \ ByFile /\ c # None
      /\ UNCHANGED <<record, txn, ghost>> /\ call.new \in Bundles
  BY <1>0, MovingNew, BundleAssumption DEF PlaceInv, ArchiveDirectory, At, disk
<1>2. /\ live \in [Components -> Maybe(States)]
      /\ backup \in [Components -> [Bundles -> Maybe(States)]]
  BY DEF TypesInv, StateTyped
<1>3. \/ live' = [live EXCEPT ![c] = Empty] /\ backup' = backup
      \/ /\ live' = [live EXCEPT ![c] = backup[c][call.new]]
         /\ backup' = [backup EXCEPT ![c][call.new] = None]
  BY <1>0 DEF ArchiveDirectory
<1>4. \/ call' = [call EXCEPT !.todo = @ \ {c}, !.done = @ \cup {c}, !.moving = None]
      \/ UndoPrepared(call.done)
  BY <1>0 DEF ArchiveDirectory
<1>5. call.files = <<>>
  BY <1>0 DEF KeptInv, FilesInv
<1>6. /\ call'.at \in {"prepare", "undo"} /\ call'.moving = None /\ call'.files = <<>>
      /\ call'.then = call.then /\ call'.bad = call.bad /\ call'.new = call.new
  <2>1. CASE UndoPrepared(call.done)
    BY <1>1, <2>1, UndoAt
  <2>2. CASE call' = [call EXCEPT !.todo = @ \ {c}, !.done = @ \cup {c}, !.moving = None]
    BY <1>1, <1>5, <2>2 DEF Calls
  <2> QED  BY <1>4, <2>1, <2>2
<1>7. \A d \in Components \ {c} : live'[d] = live[d] /\ backup'[d] = backup[d]
  BY <1>1, <1>2, <1>3
<1>8. MoveFrame /\ MoveOthers(c)
  BY <1>0, <1>1, <1>6, <1>7, BundleAssumption DEF MoveFrame, MoveOthers, Moving, Recalled
<1>9. FilesInv'
  BY <1>6, NamesEmpty DEF FilesInv
<1>10. ASSUME Activation, Safe(c) PROVE Safe(c)'
  <2>1. /\ Whole(c) /\ Restored(c) /\ Archived(c)
    BY <1>0, <1>1, <1>10 DEF Safe
  <2>2. txn' = txn /\ ghost'.live = ghost.live /\ Backup(c) = backup[c][call.new]
        /\ txn.candidate = call.new
    BY <1>1, <1>10, MovingCandidate DEF Moving
  <2>3. Whole(c)'
    <3>1. CASE live' = [live EXCEPT ![c] = Empty] /\ backup' = backup
      <4>1. live'[c] = Empty /\ Backup(c)' = Backup(c) /\ Empty # None
        BY <1>1, <1>2, <2>2, <3>1, EmptyTyped, NoneAssumption DEF Backup
      <4>2. Archived(c)'
        BY <2>1, <2>2, <4>1 DEF Archived, KeptIn
      <4>3. Backup(c)' = None => Kept(c)'
        BY <2>1, <2>2, <4>1 DEF Archived, Kept, KeptIn
      <4> QED  BY <4>2, <4>3 DEF Whole
    <3>2. CASE /\ live' = [live EXCEPT ![c] = backup[c][call.new]]
               /\ backup' = [backup EXCEPT ![c][call.new] = None]
      <4>1. live'[c] = Backup(c) /\ Backup(c)' = None
        BY <1>1, <1>2, <2>2, <3>2 DEF Backup
      <4>2. Kept(c)'
        BY <2>1, <2>2, <4>1 DEF Archived, Kept, KeptIn
      <4> QED  BY <4>1, <4>2 DEF Whole
    <3> QED  BY <1>3, <3>1, <3>2
  <2>4. Restored(c)'
    BY <2>1, <2>2 DEF Restored
  <2> QED  BY <1>1, <1>6, <2>3, <2>4 DEF Safe, Emptied, Home, AtHome
<1> QED  BY <1>1, <1>8, <1>9, <1>10, KeptMove

\* The next file is taken.
LEMMA TailMoves ==
  ASSUME PlaceInv, FilesInv, call.files # <<>>, call'.files = Tail(call.files)
  PROVE  /\ Names(call.files)' = Names(call.files) \ {Head(call.files)}
         /\ Head(call.files) \in Names(call.files) /\ Distinct(call.files)'
<1>1. call.files \in Seq(Files) /\ Distinct(call.files)
  BY DEF PlaceInv, Calls, FilesInv
<1>2. PICK s \in Seq(Files) : s = call.files /\ Distinct(s)
  BY <1>1
<1>3. /\ Distinct(Tail(s)) /\ Names(Tail(s)) = Names(s) \ {Head(s)} /\ Head(s) \in Names(s)
  BY <1>2, NamesTail
<1>4. Names(call.files)' = Names(Tail(s)) /\ (Distinct(call.files)' <=> Distinct(Tail(s)))
  BY <1>2 DEF Names, Distinct
<1> QED  BY <1>2, <1>3, <1>4

LEMMA KeptArchiveFile ==
  ASSUME PlaceInv, TypesInv, KeptInv, ArchiveFile PROVE KeptInv'
<1>0. PICK c \in ByFile, f \in Files : c = call.moving /\ f = Head(call.files)
  BY MovingFile DEF ArchiveFile
<1>1. /\ call \in Calls /\ call.at = "prepare" /\ c \in Components /\ call.files # <<>>
      /\ UNCHANGED <<record, txn>> /\ call.new \in Bundles /\ backup[c][call.new] # None
      /\ live[c][f] \in Maybe(Data) /\ None \in Maybe(Data) /\ c # None
  BY <1>0, MovingFile, BundleAssumption DEF PlaceInv, ArchiveFile, At, disk, Maybe
<1>2. CASE /\ live' = [live EXCEPT ![c][f] = None]
           /\ backup' = [backup EXCEPT ![c][call.new][f] = live[c][f]]
           /\ call' = [call EXCEPT !.files = Tail(@)] /\ UNCHANGED ghost
  <2>1. /\ call'.at = "prepare" /\ call'.moving = c /\ call'.files = Tail(call.files)
        /\ call'.then = call.then /\ call'.bad = call.bad /\ call'.new = call.new
    BY <1>0, <1>1, <1>2 DEF Calls
  <2>2. /\ live[c] \in States /\ backup[c][call.new] \in States
        /\ \A d \in Components \ {c} : live'[d] = live[d] /\ backup'[d] = backup[d]
        /\ live'[c] = [live[c] EXCEPT ![f] = None]
        /\ backup'[c][call.new] = [backup[c][call.new] EXCEPT ![f] = live[c][f]]
    <3>1. PICK b \in Bundles, x \in Maybe(Data), y \in Maybe(Data) :
            b = call.new /\ x = None /\ y = live[c][f]
      BY <1>1
    <3>2. /\ backup[c][b] # None /\ live' = [live EXCEPT ![c][f] = x]
          /\ backup' = [backup EXCEPT ![c][b][f] = y]
      BY <1>1, <1>2, <3>1
    <3>3. /\ live[c] \in States /\ backup[c][b] \in States
          /\ \A d \in Components \ {c} : live'[d] = live[d] /\ backup'[d] = backup[d]
          /\ live'[c] = [live[c] EXCEPT ![f] = x]
          /\ backup'[c][b] = [backup[c][b] EXCEPT ![f] = y]
      <4>1. /\ live \in [Components -> Maybe(States)]
            /\ backup \in [Components -> [Bundles -> Maybe(States)]] /\ live[c] # None
        BY <3>2 DEF TypesInv, StateTyped, LiveInv
      <4>2. live[c] \in States /\ backup[c][b] \in States
        BY <1>1, <3>2, <4>1 DEF Maybe
      <4>3. /\ live'[c] = [live[c] EXCEPT ![f] = x]
            /\ backup'[c][b] = [backup[c][b] EXCEPT ![f] = y]
        BY <1>1, <3>2, <4>1
      <4>4. \A d \in Components \ {c} : live'[d] = live[d] /\ backup'[d] = backup[d]
        BY <1>1, <3>2, <4>1
      <4> QED  BY <4>2, <4>3, <4>4
    <3> QED  BY <3>1, <3>3
  <2>3. MoveFrame /\ MoveOthers(c)
    BY <1>0, <1>1, <1>2, <2>1, <2>2 DEF MoveFrame, MoveOthers, Moving, Recalled
  <2>4. /\ Names(call.files)' = Names(call.files) \ {f} /\ f \in Names(call.files)
        /\ Distinct(call.files)'
    BY <1>0, <1>1, <2>1, TailMoves DEF KeptInv
  <2>5. FilesInv'
    BY <2>1, <2>4 DEF FilesInv
  <2>6. ASSUME Activation, Safe(c) PROVE Safe(c)'
    <3>1. txn' = txn /\ ghost'.live = ghost.live /\ Backup(c) = backup[c][call.new]
          /\ txn.candidate = call.new
      BY <1>1, <1>2, <2>6, MovingCandidate DEF Moving
    <3>2. Apart(c, live[c], Backup(c)) /\ Restored(c)
      BY <1>0, <1>1, <2>6 DEF Safe, Split
    <3>3. Backup(c)' = [Backup(c) EXCEPT ![f] = live[c][f]] /\ Backup(c) \in States
      BY <2>2, <3>1 DEF Backup
    <3>4. ASSUME NEW g \in Files, ghost.live[c] # None, ghost.live[c][g] # None
          PROVE  IF g \in Names(call.files)' THEN live'[c][g] = ghost.live[c][g]
                 ELSE Backup(c)'[g] = ghost.live[c][g]
      <4>1. CASE g = f
        BY <2>4, <3>2, <3>3, <3>4, <4>1 DEF Apart, States
      <4>2. CASE g # f
        BY <2>2, <2>4, <3>2, <3>3, <3>4, <4>2 DEF Apart, States
      <4> QED  BY <4>1, <4>2
    <3>5. Apart(c, live[c], Backup(c))'
      BY <3>1, <3>4 DEF Apart
    <3>6. Restored(c)'
      BY <3>1, <3>2 DEF Restored
    <3> QED  BY <2>1, <3>5, <3>6 DEF Safe, Split, Emptied, Home, AtHome
  <2> QED  BY <1>1, <2>3, <2>5, <2>6, KeptMove
<1>3. CASE /\ UndoPrepared(call.done \cup {c}) /\ UNCHANGED state
           /\ ghost' = [ghost EXCEPT !.broken = @ \cup {c}]
  <2>1. /\ call'.at = "undo" /\ call'.moving = None /\ call'.files = <<>>
        /\ call'.then = call.then /\ call'.bad = call.bad /\ call'.new = call.new
    BY <1>1, <1>3, UndoAt
  <2>2. Recalled /\ c \in ghost'.broken
    BY <1>3 DEF TypesInv, GhostTyped, Recalled
  <2>3. MoveFrame /\ MoveOthers(c)
    BY <1>0, <1>1, <1>3, <2>1, <2>2, BundleAssumption
       DEF MoveFrame, MoveOthers, Moving, state
  <2>4. FilesInv' /\ ~Covered(c)'
    BY <2>1, <2>2, NamesEmpty DEF FilesInv, Covered
  <2> QED  BY <1>1, <2>3, <2>4, KeptMove
<1> QED  BY <1>0, <1>2, <1>3 DEF ArchiveFile

LEMMA KeptArchiveFilesDone ==
  ASSUME PlaceInv, TypesInv, KeptInv, ArchiveFilesDone PROVE KeptInv'
<1>0. PICK c \in ByFile : c = call.moving
  BY DEF ArchiveFilesDone
<1>1. /\ call \in Calls /\ call.at = "prepare" /\ c \in Components /\ call.files = <<>>
      /\ UNCHANGED <<record, txn, live, backup, ghost>> /\ c # None
      /\ backup[c][call.new] # None
  BY <1>0, BundleAssumption
     DEF PlaceInv, ArchiveFilesDone, At, disk, state, TypesInv, MoveInv
<1>2. /\ call'.at \in {"prepare", "undo"} /\ call'.moving = None /\ call'.files = <<>>
      /\ call'.then = call.then /\ call'.bad = call.bad /\ call'.new = call.new
  <2>1. CASE UndoPrepared(call.done)
    BY <1>1, <2>1, UndoAt
  <2>2. CASE call' = [call EXCEPT !.todo = @ \ {c}, !.done = @ \cup {c}, !.moving = None]
    BY <1>1, <2>2 DEF Calls
  <2> QED  BY <1>0, <2>1, <2>2 DEF ArchiveFilesDone
<1>3. MoveFrame /\ MoveOthers(c)
  BY <1>0, <1>1, <1>2, BundleAssumption DEF MoveFrame, MoveOthers, Moving, Recalled
<1>4. FilesInv'
  BY <1>2, NamesEmpty DEF FilesInv
<1>5. ASSUME Activation, Safe(c) PROVE Safe(c)'
  <2>1. Apart(c, live[c], Backup(c)) /\ Restored(c) /\ Names(call.files) = {}
    BY <1>0, <1>1, <1>5, NamesEmpty DEF Safe, Split
  <2>2. Backup(c) # None
    BY <1>1, <1>5, MovingCandidate DEF Moving
  <2>3. Archived(c)
    BY <2>1, <2>2 DEF Apart, Archived, KeptIn
  <2>4. Backup(c)' = Backup(c)
    BY <1>1 DEF Backup
  <2>5. Archived(c)' /\ Restored(c)'
    BY <1>1, <2>1, <2>3, <2>4 DEF Archived, KeptIn, Restored
  <2> QED  BY <1>1, <1>2, <2>2, <2>4, <2>5 DEF Safe, Whole, Emptied, Home, AtHome
<1> QED  BY <1>1, <1>3, <1>4, <1>5, KeptMove

LEMMA KeptRestoreBegin ==
  ASSUME PlaceInv, TypesInv, KeptInv, NEW c \in Components, RestoreBegin(c) PROVE KeptInv'
<1>1. /\ call \in Calls /\ call.at \in {"undo", "restore"} /\ call.moving = None /\ c # None
      /\ c \in call.todo /\ backup[c][call.new] # None
      /\ UNCHANGED <<record, txn, backup, ghost>>
  BY BundleAssumption DEF PlaceInv, RestoreBegin, Restoring, At, disk
<1>2. /\ call'.at = call.at /\ call'.moving = c /\ call'.todo = call.todo
      /\ call'.files = (IF c \in ByFile THEN StateFiles ELSE <<>>)
      /\ call'.then = call.then /\ call'.bad = call.bad /\ call'.new = call.new
  BY <1>1 DEF RestoreBegin, Calls
<1>3. /\ \A d \in Components \ {c} : live'[d] = live[d]
      /\ c \notin ByFile => live'[c] = None
      /\ c \in ByFile => live' = live
  BY DEF RestoreBegin, TypesInv, StateTyped
<1>4. MoveFrame /\ MoveOthers(c)
  BY <1>1, <1>2, <1>3, BundleAssumption DEF MoveFrame, MoveOthers, Moving, Recalled
<1>5. FilesInv'
  <2>1. CASE c \in ByFile
    BY <1>2, <2>1, StateFilesNames DEF FilesInv
  <2>2. CASE c \notin ByFile
    BY <1>2, <2>2, NamesEmpty DEF FilesInv
  <2> QED  BY <2>1, <2>2
<1>6. ASSUME Activation, Safe(c) PROVE Safe(c)'
  <2>1. Backup(c) # None
    BY <1>1, <1>6, MovingCandidate DEF Moving
  <2>2. Archived(c) /\ Restored(c)
    BY <1>1, <1>6, <2>1 DEF Safe, Whole
  <2>3. Backup(c)' = Backup(c)
    BY <1>1 DEF Backup
  <2>4. Archived(c)' /\ Restored(c)'
    BY <1>1, <2>2, <2>3 DEF Archived, KeptIn, Restored
  <2>5. Emptied(c)' /\ Home(c)' /\ call'.at # "prepare"
    BY <1>1, <1>2 DEF Emptied, Home, AtHome
  <2>6. CASE c \in ByFile
    <3>1. Names(call.files)' = Files
      <4>1. call'.files = StateFiles
        BY <1>2, <2>6
      <4> QED  BY <4>1, StateFilesNames DEF Names
    <3>2. Apart(c, Backup(c), live[c])'
      BY <2>4, <3>1 DEF Apart, Archived, KeptIn
    <3> QED  BY <1>2, <2>4, <2>5, <2>6, <3>2 DEF Safe, Split
  <2>7. CASE c \notin ByFile
    BY <2>1, <2>3, <2>4, <2>5, <2>7 DEF Safe, Whole
  <2> QED  BY <2>6, <2>7
<1> QED  BY <1>4, <1>5, <1>6, KeptMove

\* A component that is being restored is still on the list.
LEMMA MovingEmptied ==
  ASSUME PlaceInv, TypesInv, KeptInv, Activation, NEW c \in Components, c = call.moving,
         call.at \in {"undo", "restore"}, Safe(c)
  PROVE  /\ Backup(c) # None /\ Restored(c)
         /\ call.at = "restore" /\ ~call.bad => c \in call.todo
<1>1. Backup(c) # None
  BY MovingCandidate, BundleAssumption DEF Moving, TypesInv, MoveInv
<1> QED  BY <1>1 DEF Safe, Emptied

LEMMA KeptRestoreFile ==
  ASSUME PlaceInv, TypesInv, KeptInv, RestoreFile PROVE KeptInv'
<1>0. PICK c \in ByFile, f \in Files : c = call.moving /\ f = Head(call.files)
  BY MovingFile DEF RestoreFile
<1>1. /\ call \in Calls /\ call.at \in {"undo", "restore"} /\ c \in Components
      /\ call.files # <<>> /\ UNCHANGED <<record, txn>> /\ call.new \in Bundles
      /\ backup[c][call.new] # None /\ c # None
      /\ backup[c][call.new][f] \in Maybe(Data) /\ None \in Maybe(Data)
  BY <1>0, MovingFile, BundleAssumption
     DEF PlaceInv, RestoreFile, Restoring, At, disk, Maybe
<1>2. CASE /\ live' = [live EXCEPT ![c][f] = backup[c][call.new][f]]
           /\ backup' = [backup EXCEPT ![c][call.new][f] = None]
           /\ call' = [call EXCEPT !.files = Tail(@)] /\ UNCHANGED ghost
  <2>1. /\ call'.at = call.at /\ call'.moving = c /\ call'.files = Tail(call.files)
        /\ call'.then = call.then /\ call'.bad = call.bad /\ call'.new = call.new
        /\ call'.todo = call.todo
    BY <1>0, <1>1, <1>2 DEF Calls
  <2>2. /\ live[c] \in States /\ backup[c][call.new] \in States
        /\ \A d \in Components \ {c} : live'[d] = live[d] /\ backup'[d] = backup[d]
        /\ live'[c] = [live[c] EXCEPT ![f] = backup[c][call.new][f]]
        /\ backup'[c][call.new] = [backup[c][call.new] EXCEPT ![f] = None]
    <3>1. PICK b \in Bundles, x \in Maybe(Data), y \in Maybe(Data) :
            b = call.new /\ x = backup[c][call.new][f] /\ y = None
      BY <1>1
    <3>2. /\ backup[c][b] # None /\ live' = [live EXCEPT ![c][f] = x]
          /\ backup' = [backup EXCEPT ![c][b][f] = y]
      BY <1>1, <1>2, <3>1
    <3>3. /\ live[c] \in States /\ backup[c][b] \in States
          /\ \A d \in Components \ {c} : live'[d] = live[d] /\ backup'[d] = backup[d]
          /\ live'[c] = [live[c] EXCEPT ![f] = x]
          /\ backup'[c][b] = [backup[c][b] EXCEPT ![f] = y]
      <4>1. /\ live \in [Components -> Maybe(States)]
            /\ backup \in [Components -> [Bundles -> Maybe(States)]] /\ live[c] # None
        BY <3>2 DEF TypesInv, StateTyped, LiveInv
      <4>2. live[c] \in States /\ backup[c][b] \in States
        BY <1>1, <3>2, <4>1 DEF Maybe
      <4>3. /\ live'[c] = [live[c] EXCEPT ![f] = x]
            /\ backup'[c][b] = [backup[c][b] EXCEPT ![f] = y]
        BY <1>1, <3>2, <4>1
      <4>4. \A d \in Components \ {c} : live'[d] = live[d] /\ backup'[d] = backup[d]
        BY <1>1, <3>2, <4>1
      <4> QED  BY <4>2, <4>3, <4>4
    <3> QED  BY <3>1, <3>3
  <2>3. MoveFrame /\ MoveOthers(c)
    BY <1>0, <1>1, <1>2, <2>1, <2>2 DEF MoveFrame, MoveOthers, Moving, Recalled
  <2>4. /\ Names(call.files)' = Names(call.files) \ {f} /\ f \in Names(call.files)
        /\ Distinct(call.files)'
    BY <1>0, <1>1, <2>1, TailMoves DEF KeptInv
  <2>5. FilesInv'
    BY <2>1, <2>4 DEF FilesInv
  <2>6. ASSUME Activation, Safe(c) PROVE Safe(c)'
    <3>1. txn' = txn /\ ghost'.live = ghost.live /\ Backup(c) = backup[c][call.new]
          /\ txn.candidate = call.new
      BY <1>1, <1>2, <2>6, MovingCandidate DEF Moving
    <3>2. Apart(c, Backup(c), live[c])
      BY <1>0, <1>1, <2>6 DEF Safe, Split
    <3>3. Backup(c)' = [Backup(c) EXCEPT ![f] = None] /\ Backup(c) \in States
          /\ live'[c] = [live[c] EXCEPT ![f] = Backup(c)[f]]
      BY <2>2, <3>1 DEF Backup
    <3>4. ASSUME NEW g \in Files, ghost.live[c] # None, ghost.live[c][g] # None
          PROVE  IF g \in Names(call.files)' THEN Backup(c)'[g] = ghost.live[c][g]
                 ELSE live'[c][g] = ghost.live[c][g]
      <4>1. CASE g = f
        BY <2>2, <2>4, <3>2, <3>3, <3>4, <4>1 DEF Apart, States
      <4>2. CASE g # f
        BY <2>2, <2>4, <3>2, <3>3, <3>4, <4>2 DEF Apart, States
      <4> QED  BY <4>1, <4>2
    <3>5. Apart(c, Backup(c), live[c])'
      BY <3>1, <3>4 DEF Apart
    <3>6. Restored(c) /\ (call.at = "restore" /\ ~call.bad => c \in call.todo)
      BY <1>0, <1>1, <2>6, MovingEmptied
    <3>7. Restored(c)' /\ Emptied(c)' /\ Home(c)'
      BY <1>1, <2>1, <3>1, <3>6 DEF Restored, Emptied, Home, AtHome
    <3> QED  BY <1>1, <2>1, <3>5, <3>7 DEF Safe, Split
  <2> QED  BY <1>1, <2>3, <2>5, <2>6, KeptMove
<1>3. CASE /\ UNCHANGED state
           /\ call' = [call EXCEPT !.todo = @ \ {c}, !.bad = TRUE, !.moving = None,
                                   !.files = <<>>]
           /\ ghost' = [ghost EXCEPT !.broken = @ \cup {c}]
  <2>1. /\ call'.at = call.at /\ call'.moving = None /\ call'.files = <<>>
        /\ call'.then = call.then /\ call'.bad = TRUE /\ call'.new = call.new
        /\ call'.todo = call.todo \ {c}
    BY <1>1, <1>3 DEF Calls
  <2>2. Recalled /\ c \in ghost'.broken
    BY <1>3 DEF TypesInv, GhostTyped, Recalled
  <2>3. MoveFrame
    BY <1>1, <2>1, <2>2 DEF MoveFrame, Moving
  <2>4. MoveOthers(c)
    BY <1>0, <1>1, <1>3, <2>1, BundleAssumption DEF MoveOthers, state
  <2>5. FilesInv' /\ ~Covered(c)'
    BY <2>1, <2>2, NamesEmpty DEF FilesInv, Covered
  <2> QED  BY <1>1, <2>3, <2>4, <2>5, KeptMove
<1> QED  BY <1>0, <1>2, <1>3 DEF RestoreFile

LEMMA KeptRestoreMoved ==
  ASSUME PlaceInv, TypesInv, KeptInv, RestoreMoved PROVE KeptInv'
<1>0. PICK c \in Components : c = call.moving
  BY DEF RestoreMoved, PlaceInv, Calls, Maybe
<1>1. /\ call \in Calls /\ call.at \in {"undo", "restore"} /\ c # None
      /\ call.files = <<>> /\ UNCHANGED <<record, txn>> /\ call.new \in Bundles
  BY <1>0, MovingNew DEF PlaceInv, RestoreMoved, Restoring, At, disk
<1>2. /\ live \in [Components -> Maybe(States)] /\ GhostTyped
      /\ backup \in [Components -> [Bundles -> Maybe(States)]]
  BY DEF TypesInv, StateTyped
<1>3. /\ call'.at = call.at /\ call'.moving = None /\ call'.files = <<>>
      /\ call'.then = call.then /\ (call.bad => call'.bad) /\ call'.new = call.new
      /\ call'.todo = call.todo \ {c}
  BY <1>0, <1>1, ZenonT(60) DEF RestoreMoved, Calls
<1>4. /\ \A d \in Components \ {c} : live'[d] = live[d] /\ backup'[d] = backup[d]
      /\ c \in ByFile => live' = live
      /\ c \notin ByFile => live'[c] = backup[c][call.new]
  BY <1>0, <1>1, <1>2 DEF RestoreMoved
<1>5. \/ ghost' = ghost /\ backup'[c][call.new] = None
      \/ c \in ByFile /\ ghost' = [ghost EXCEPT !.broken = @ \cup ({c} \cap ByFile)]
      \/ /\ c \notin ByFile /\ ghost' = [ghost EXCEPT !.broken = @ \cup ({c} \cap ByFile)]
         /\ backup'[c][call.new] = None
  BY <1>0, <1>1, <1>2 DEF RestoreMoved
<1>6. Recalled
  BY <1>2, <1>5 DEF GhostTyped, Recalled
<1>7. MoveFrame
  BY <1>1, <1>3, <1>6 DEF MoveFrame, Moving
<1>8. MoveOthers(c)
  BY <1>0, <1>1, <1>3, <1>4, BundleAssumption DEF MoveOthers
<1>9. FilesInv'
  BY <1>3, NamesEmpty DEF FilesInv
<1>10. ASSUME Activation, Covered(c)', Safe(c) PROVE Safe(c)'
  <2>1. backup'[c][call.new] = None
    <3>1. CASE c \in ByFile /\ ghost' = [ghost EXCEPT !.broken = @ \cup ({c} \cap ByFile)]
      BY <1>2, <1>10, <3>1 DEF GhostTyped, Covered
    <3> QED  BY <1>5, <3>1
  <2>2. txn' = txn /\ ghost'.live = ghost.live /\ Backup(c) = backup[c][call.new]
        /\ txn.candidate = call.new
    BY <1>1, <1>6, <1>10, MovingCandidate DEF Moving, Recalled
  <2>3. Backup(c)' = None
    BY <2>1, <2>2 DEF Backup
  <2>4. Backup(c) # None
    BY <1>0, <1>1, <1>10, MovingEmptied
  <2>5. Kept(c)'
    <3>1. CASE c \in ByFile
      <4>1. Apart(c, Backup(c), live[c]) /\ Names(call.files) = {}
        BY <1>0, <1>1, <1>10, <3>1, NamesEmpty DEF Safe, Split
      <4>2. live[c] # None /\ live'[c] = live[c]
        BY <1>1, <1>4, <2>2, <2>4, <3>1 DEF TypesInv, LiveInv
      <4> QED  BY <2>2, <4>1, <4>2 DEF Apart, Kept, KeptIn
    <3>2. CASE c \notin ByFile
      <4>1. Archived(c) /\ live'[c] = Backup(c)
        BY <1>4, <1>10, <2>2, <2>4, <3>2 DEF Safe, Whole
      <4> QED  BY <2>2, <4>1 DEF Archived, Kept, KeptIn
    <3> QED  BY <3>1, <3>2
  <2> QED  BY <1>1, <1>3, <2>3, <2>5 DEF Safe, Whole, Emptied, Home, AtHome
<1> QED  BY <1>7, <1>8, <1>9, <1>10, KeptMove

LEMMA KeptMoves ==
  ASSUME PlaceInv, TypesInv, KeptInv, MoveSteps PROVE KeptInv'
BY KeptPrepareRefused, KeptNothing, KeptArchiveBegin, KeptArchiveDirectory, KeptArchiveFile,
   KeptArchiveFilesDone, KeptRestoreBegin, KeptRestoreFile, KeptRestoreMoved DEF MoveSteps

LEMMA KeptQuiet ==
  ASSUME PlaceInv, PlaceInv', TypesInv, KeptInv, QuietSteps PROVE KeptInv'
<1>1. SafeInv'
  BY SafeQuiet DEF SafeInv
<1> QED  BY <1>1, FilesQuiet, ThenQuiet DEF KeptInv

LEMMA KeptInit == ASSUME Init PROVE KeptInv
<1>1. txn = None /\ call.files = <<>> /\ call.then = "none"
  BY DEF Init, NoCall
<1> QED  BY <1>1, NamesEmpty DEF KeptInv, FilesInv, ThenInv, SafeInv, Activation, Pending

LEMMA KeptNext ==
  ASSUME PlaceInv, PlaceInv', TypesInv, KeptInv, [Next]_vars PROVE KeptInv'
<1>1. CASE UNCHANGED vars
  <2>1. UNCHANGED <<live, backup, record, txn, call, ghost>>
    BY <1>1 DEF vars, disk, state
  <2>2. FilesInv' /\ ThenInv'
    BY <2>1 DEF KeptInv, FilesInv, ThenInv, Distinct
  <2>3. ASSUME NEW c \in Components, Safe(c) PROVE Safe(c)'
    <3>1. Backup(c)' = Backup(c) /\ Restored(c)' = Restored(c)
      BY <2>1 DEF Backup, Restored
    <3>2. Kept(c)' = Kept(c) /\ Archived(c)' = Archived(c)
      BY <2>1, <3>1 DEF Kept, Archived, KeptIn
    <3>3. Names(call.files)' = Names(call.files)
      BY <2>1 DEF Names
    <3>4. Split(c)' = Split(c)
      BY <2>1, <3>1, <3>3 DEF Split, Apart
    <3>5. Emptied(c)' = Emptied(c) /\ Home(c)' = Home(c)
      BY <2>1, <3>1, <3>2 DEF Emptied, Home, AtHome
    <3> QED  BY <2>1, <2>3, <3>1, <3>2, <3>4, <3>5 DEF Safe, Whole
  <2>4. SafeInv'
    BY <2>1, <2>3 DEF KeptInv, SafeInv, Activation, Pending, Covered
  <2> QED  BY <2>2, <2>4 DEF KeptInv
<1>2. CASE Next
  BY <1>2, NextSplit, KeptQuiet, KeptMoves, KeptStart, KeptRestart, KeptStop DEF StartSteps
<1> QED  BY <1>1, <1>2

THEOREM KeptInvariance == Spec => []KeptInv
<1>1. Init => KeptInv
  BY KeptInit
<1>2. PlaceInv /\ PlaceInv' /\ TypesInv /\ KeptInv /\ [Next]_vars => KeptInv'
  BY KeptNext
<1> QED  BY <1>1, <1>2, PlaceInvariance, TypesInvariance, PTL DEF Spec

\* At every moment of an activation that has not committed, the state of before
\* is live or in the backup that restore moves back, for every component that
\* no earlier backup and no interrupted move of files excludes.
THEOREM StateIsReachable == Spec => []StateReachable
<1>1. ASSUME KeptInv, txn # None, ghost.op = "activate", record # txn.final,
             NEW c \in Components, Covered(c), c \notin {call.moving} \cap ByFile
      PROVE  Kept(c) \/ (Restored(c) /\ Backup(c) # None /\ Archived(c))
  <2>1. Safe(c)
    BY <1>1 DEF KeptInv, SafeInv, Activation, Pending
  <2> QED  BY <1>1, <2>1 DEF Safe, Whole
<1>2. KeptInv => StateReachable
  BY <1>1 DEF StateReachable, Kept, Restored, Backup, Archived
<1> QED  BY <1>2, KeptInvariance, PTL

\* A transaction ends when it is cleared, or when recovery finds it committed.
LEMMA TransactionEnds ==
  ASSUME PlaceInv, Next, txn # None, txn' = None
  PROVE  ClearTransaction \/ RecoverCommitted
<1>1. call.at \notin Outside
  BY DEF PlaceInv, CallInv
<1>2. CASE QuietSteps
  <2>1. ~Commands
    BY CommandsAt DEF disk
  <2>2. ~(CommitActivation \/ RollbackBody \/ RemoveBody \/ RollbackCandidateBody
          \/ DeactivateBody)
    BY <1>1 DEF CommitActivation, RollbackBody, RemoveBody, RollbackCandidateBody,
                DeactivateBody, At, Outside
  <2> QED  BY <1>2, <2>1, <2>2
     DEF QuietSteps, RecoverNothing, RecoverInterrupted, Stage, BaselineRefused,
         ActiveAlready, SwitchCurrent, CommitRecord, UndoDone, RestoreSwitch,
         RestoreActivationRecord, WriteRecoveryRecord, RolledBack, FirstTakenDown, Forget,
         Purge, RestartBody, Crash, disk
<1>3. ~(MoveSteps \/ StartSteps \/ StopOld \/ RestoreStop)
  BY DEF MoveSteps, StartSteps, PrepareRefused, ArchiveBegin, ArchiveDirectory, ArchiveFile,
         ArchiveFilesDone, RestoreFile, RestoreMoved, RestoreNothing, RestoreFails,
         RestoreBegin, StartCandidate, RestoreServices, RestartServices, StopOld,
         RestoreStop, disk
<1> QED  BY <1>2, <1>3, NextSplit

\* An activation that ends without having committed leaves every component
\* that was not excluded the state it had before it began, however often the
\* installer crashed and recovered in between.
THEOREM StateIsKept == Spec => StateKept
<1>1. ASSUME PlaceInv, KeptInv, [Next]_vars, txn # None, txn' = None, record # txn.final,
             ghost.op = "activate", NEW c \in Components, Covered(c)
      PROVE  KeptIn(c, live'[c])
  <2>1. Next
    BY <1>1 DEF vars, disk
  <2>2. CASE RecoverCommitted
    BY <1>1, <2>2 DEF RecoverCommitted, Committed
  <2>3. CASE ClearTransaction
    <3>1. AtHome /\ live' = live
      BY <2>3 DEF ClearTransaction, At, AtHome, state
    <3>2. Safe(c)
      BY <1>1 DEF KeptInv, SafeInv, Activation, Pending
    <3>3. Kept(c)
      BY <3>1, <3>2 DEF Safe, Home
    <3> QED  BY <3>1, <3>3 DEF Kept
  <2> QED  BY <1>1, <2>1, <2>2, <2>3, TransactionEnds
<1>2. PlaceInv /\ KeptInv /\ [Next]_vars =>
        (txn # None /\ txn' = None /\ record # txn.final /\ ghost.op = "activate"
         => \A c \in Components : Covered(c) => KeptIn(c, live'[c]))
  BY <1>1
<1> QED  BY <1>2, PlaceInvariance, KeptInvariance, PTL DEF Spec, StateKept
===============================================================================
