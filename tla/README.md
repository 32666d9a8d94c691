# Verification of unYOLO

unYOLO puts brokers between coding agents and the services they use. A broker
holds the credential; an agent submits a durable *operation*, a policy or an
operator grants *authority* for it, and the broker executes it once. This
directory holds TLA+ modules translated from the Go source, the TLC
configurations that check them on small instances, and TLAPS proofs.

## Inventory

| Part | State it keeps | Operations | Hard behaviour | What makes it correct |
|---|---|---|---|---|
| grant store (`authorization/grants`) | grants, uses, lifecycle events, event sequence, decision records, in one snapshot | request, operator decision, client cancel and revoke, reserve / commit / release / retain a use, record execution, expiry sweep | many callers of one budget; expiry and stale reservations are applied by whichever operation comes next; the wall clock; idempotent retries; the next load revalidates everything | the budget holds; closed authority stays closed; open reservations can always settle; a decision is taken once; every saved state loads; the event log is current |
| event waits (`lifecycle.go`) | a signal channel per store | WaitForEvents, WaitForDecision, EventsAfter | wake-ups and reads in separate critical sections; retained window against old cursors | no decision is missed; a waiter does not spin |
| decision service, coordinator (`authorization/decision`, `coordinator.go`) | none of their own | Decide, Authorize, RequestApproval | the activation check runs between two critical sections | the outcome recorded is the outcome of the check |
| admission (`authorization/admission`) | rate windows, slots | Admit, Permit.Commit, Permit.Release | a charge before a refusal; release by defer | slots are not leaked, caps hold |
| policy (`authorization/policy`) | rules | Decide | overlapping rules and effects | deny dominates; no match is no authority |
| operation store (`agent/runtime/store.go`) | operations with state, revision, plan digest, approval id | Submit, BindPlan, Transition, Succeed, Fail, Cancel, Wait | compare-and-set on the revision | legal transitions only; one operation per idempotency key |
| operation runtime (`operation/runtime`) | the two stores above | Submit, Cancel, Advance, Execute, Recover | two stores updated one after the other; crashes between; cancel against the worker; an execution whose result is unknown | executed at most once; executed only with authority; charge and result agree |
| Telegram owner (`approval/notifier/telegram`) | durable cards, event cursor, callback inbox | follow events, send and edit cards; persist, dispatch and answer clicks | two loops over one file and one chat; redelivery, lost responses, edits that race, crashes between send and record, trimmed logs | every request gets a card; a decision comes from its card; every click is answered; a settled request's card loses its buttons |
| stream store (`internal/storage/stream`) | three files per stream | Put, Open, Consume, Delete, Retire, sweep | several files per operation, and a crash between them; retried uploads; open files that outlive the lock | a reference opens until it expires; one stream per request; bytes go away |
| sealed payloads (`internal/storage/sealed`, `operation/payload`) | one encrypted file per payload, later a marker | put, consume, delete, sweep | retries against markers that expire on their own schedule | a secret is revealed once |
| state database (`internal/storage/state`) | SQLite rows | replace a snapshot, compare and set | transaction boundaries | atomic snapshots |
| host deployment transaction (`deployment/transaction`, `internal/host/deployment/engine.go`) | the journal file, receipts, the host | apply, roll back, recover, finalise | a crash or a failed write between any two steps | all or nothing once the journal is gone |
| host bundle activation (`internal/host/bundle`) | releases, `current` link, activation record, transaction file, backups of component state | Activate, Rollback, RollbackCandidate, RestartActive, DeactivateCandidate, DeactivateInstallation | a crash between any two of them, and again while recovering; several components archived one after the other; services that keep running | link and record agree; recovery finds what it needs; the old state survives a failed activation; what is recorded as active runs |
| pairing, credentials (`internal/pairing`, `credential`) | short-lived pairing records, versioned slots | claim, rotate | expiry against claim | a code is used once |
| brokers, APIs, MCP, Git, setup, telemetry | mostly none | protocol and provider I/O | upstream failures | out of a model's reach beyond the runtime's outcomes |

Bundle activation is a step of a host deployment; a release that changes a
broker's state format replaces its database, which the Telegram owner, in a
process and a file of its own, learns of only through the event stream. Sealed
payloads and streams are uploaded before the operation that names them and
retired by its cleanup.

Calls go downwards: APIs and brokers call the operation runtime; the runtime
drives the operation store and the grant store; the operator API and the
Telegram owner call the grant store's decisions and read its event log. The two
stores share a database but not a transaction.

`PROJECT.json` lists every part under `components`, and what is hard to test in
the code, at its line, under `hazards`.

## The grant store: `GrantStore`, `MCGrantStore`, `GrantWaits`, `GrantStoreProofs`, `GrantRefinementProofs`

Every public method of `Store` holds its mutex from the load to the save, and a
save is one atomic replacement, so one method is one action. A crash or a failed
save leaves the snapshot as it was: a stuttering step.

* **State.** `grants`, `uses`, `events`, `nextEvent`, `decisions` are the fields
  of `fileData`; `now` is the clock. A grant's position stands for its random
  id, a use id for the caller's request id. Requests carry what the store
  compares (client, key, operation, bounds); reasons, metadata and plans are
  left out; so are the settlement time of a use and the recorded failure of a
  grant, whose checks at load (`validUseSettlementTime`, `validGrantFailure`) no
  operation can fail.
* **The frame.** `Update` is `Store.update`: load and validate (`Loadable`),
  expire and retain (`PreparedGrants`, `PreparedUses`), the mutator, then
  reconcile against the snapshot (`Bumped`, `Batch`) and save. A mutator that
  fails still saves the prepared state, so every refused call is `Sweep`.
* **Actions.** `Request`, `ReserveUse`, `CommitUse`, `ReleaseUse`, `RetainUse`,
  `CancelForClient`, `RevokeForClient`, `Revoke`, `RecordExecution`,
  `ApplyOperatorDecision` (with the outcomes of the activation check), `Sweep`,
  `SweepExpiry` (reads), `ReconcileDue` (the waiters' reconciliation), `Tick`
  (forwards, and backwards with `ClockMayStepBack`).

| Run | Question | Bounds and why they are enough |
|---|---|---|
| `grant_uses` | contention for uses under expiry, narrowing, revocation and retention: `TypeOK`, `StateLoads`, `BudgetRespected`, `NoStrandedReservation`, `AuthorityIsFinal`, `RevisionCoversChange`, `ImplementsAuthority` | one grant (grants do not share uses), budget 2, narrowed 1 or none, two uses, four instants: request, approval, staleness and expiry fall on different ones; a use is reacquired up to revision 3; `RecordExecution` comes before the third event |
| `grant_waits` (module `MCGrantWaits`) | retries, racing operators, the bounded event log and a waiter, under a clock that may step back: `OneGrantPerKey`, `OneVerdict`, `LogCurrent`, `WaitEnds` | two grants of two clients, of which one has an idempotency key; two retained events, so the other grant's events push the waiter's cursor out of the window, or its grant out of the log; two instants of a clock that may go back, so what expired sees an earlier time again; no uses, which the waiter does not look at and `grant_uses` has |

### A broker that waits for a decision: `GrantWaits`

`GrantWaits` puts one caller of `WaitForDecision` (the Git brokers hold a push in
it) next to every action of `GrantStore`. `pc` names the call it is about to make:
the cursor of the newest event of its grant (`LatestEvent`, or `ConfirmGrant`
without one), the status (`PendingGrant`), the signal channel
(`EventWaitChannel`), one event after the cursor (`EventsAfter`, which also
handles an expired cursor), the next deadline (`NextLifecycleDelay`), the sleep
(`Wake`) and the reconciliation after a timer (`ReconcileDeadline`). Each is a
critical section of its own, and everything else may happen in between. A channel
is one bit, whether the one the waiter holds was closed; saves and the signal after
them are one step, because the lock is held over both and a channel fetched between
them is one that is closed next. The wait may fail at any point (`WaitFails`) and
be repeated.

`WaitEnds`: the wait does not go on for ever on a request that was decided or whose
deadline has passed. Fairness is assumed of the waiter alone (`WF` of `WaitStep`:
its goroutine runs, Go's mutex does not starve it, its timer fires), none of
operators or of the clock; a request that is again and again not yet due may be
waited for without end. Fetching the channel only before the sleep, instead of
before the page, loses a denial between the two: the mutant of this property.

### What the store promises: `GrantAuthority`, `GrantRefinement`

`GrantAuthority` is the store as its users see it: a grant is asked for, granted
once within what was asked for, and closed for ever; a use is held, then spent or
free again; held and spent uses fit the limit; only a granted grant gives out
uses. It knows no clock, revision, counter or record. `GrantRefinement` maps the
store to it (a status to an authority; the limit counts from the approval, which
sets `expiresAt`; reserved and retained uses are held) and `grant_uses` checks
`ImplementsAuthority`. Because expiry and retention ride on every call of the
store, each abstract step may let any set of grants lapse together with its own
effect. `OperationRuntime` uses the grant store in this reduced form.

Deadlock checking is off: a store all of whose grants have closed at the last
instant of the bounded clock is a legitimate end. No fairness is assumed; the
store has no thread of its own; the waiter's fairness is stated with it.

### Proved

`GrantStoreProofs` proves, for every value of the constants that satisfies the
assumptions of `GrantStore` and with or without clock steps back:
`TypeCorrectness`, `Budget`, `NoStranding`, `LogIsCurrent`, `LogIsTrue`,
`KeysAreUnique`, `VerdictIsUnique` (invariants) and `AuthorityFinality`, `SettlementFinality`,
`RevisionCoverage` (action properties). The inductive invariant `IInv` has three
parts besides the clock: `Typed` (records are well formed, an absent grant has no
uses), `Consistent` (the counters a grant carries are the cardinalities of its use
records, limits never exceed the requested ones, charged uses fit the limit, open
reservations belong to a settleable grant) and `EventsOK` (the log's numbers are
below the next one). `Budget` is not inductive alone: `Allows` reads the counters,
so the counters must be known to equal the use records; and a commit may exhaust
the grant only if no other reservation is open, which is what the limit with the
counters gives.

The argument follows the frame. Expiry and retention preserve `Consistent`
(`PreparedState`), reconciliation changes only revisions (`BumpedPreserves`),
every mutator changes one grant and its uses (`OneGrantOK`). Each action is shown
once to satisfy `StepOK`: the invariant again, one of five kinds of change to
grants and uses (`Moves`: nothing but lapses, a request, an approval, a use
acquired, a use settled), `RevisionStep`, that a current log stays current, and
`LogStep`: the sequence number grows whenever an event is added or a status
changes, the newest event stays in the log, and what is added is true of the
grants saved with it.
The action properties, uniqueness of keys and the refinement then follow from
`Moves` alone, without a look at the actions. For the log, `NoKinds` says that a
grant of which no event kind is found changed in nothing a reader sees, and
`Reported` that the last event of a batch about a grant carries the grant as it is
saved. `VerdictIsUnique` needs that a recorded decision has left its mark on the
grant (`DecisionsOK`), since the check for an earlier decision reads the grant's
status and not the list of decisions.

`SavedStateLoads` proves `StateLoads` for a clock that is not set back. The next
load recomputes each grant's counters, its retained flag and the sum of its uses'
revisions, so the invariant says where they come from: `Ledger` (the retained flag
is that of the open uses, the use revision counts the commits, the reservation
revision is the sum over the use records, a use is for its grant's operation) on
top of `IInv`. The sum is stated as the number of revisions the uses have gone
through, `Cardinality(Revisions(us, g))`, which finite-set theorems reach without
induction: a use that moves from one revision to the next adds one
(`TotalAdvances`), and a sweep that retains several at once adds one for each
(`RetainStaleGrants`). `Ledger` holds with any clock; what a load checks beyond it
is that a use was not updated before it was created, which needs `Timely` and so a
clock that never goes back. `OnlyTimesAreRefused` states the rest under any clock:
such a pair of times is the only thing for which a saved state is refused.

`GrantRefinementProofs` proves `StoreImplementsAuthority`: initial states map to
initial states, and every step of the store to a step or a stutter of
`GrantAuthority`. The mapping needs one more invariant, `Dated`: a window is set
by the approval and not before, so that the mapped limit appears with it.

It also proves three things of `GrantWaits`. `WaitsImplementStore`: the
composition implements `GrantStore`, so each theorem above holds next to a waiter.
`NoLostWakeup`, the safety core of `WaitEnds`: a waiter asleep on a channel that
was not closed has a timer, and its request is still pending. The invariant,
`WaitInv`, follows the cursor: while the waiter watches, the request is pending or
the cursor is at least two short of the next sequence number, so an event is left
to read; an empty page therefore means a pending request (`NothingUnread`, which
needs that trimming never drops the newest event), and from then on every change
of status closes the channel fetched before the page. `WaitReturnsDecision`: what
`WaitForDecision` returns without an error is no longer pending, because no event
reports a decision that the store does not hold (`LogIsTrue`).

### Only model-checked

`SettlementFinality` has no run of its own: `ImplementsAuthority` has what it says of
spent and held uses. The invariants of `GrantWaits` above have none either: the
run checks `WaitEnds`, which they support. That property itself, liveness under
fairness, stays with TLC.

## The operation runtime: `OperationRuntime`, `MCOperationRuntime`, `OperationRuntimeProofs`

The runtime drives one row of the operation store and one grant, in two stores
that share no transaction. `Submit`, `Cancel` and `Advance` of an operation
exclude each other by its authorization lock, so an operation has one thread
(`threads`), and an action makes one durable change; a crash may fall between any
two. Two things run without the lock, as in the code: a submitter that finds no
operator channel (`unlocked`, `failUnnotified`), and `Recover`, which touches only
operations that were executing when the broker stopped (`interrupted`).

* **State.** `ops` is the row (state and approval id); `grants` and `uses` are the
  grant store reduced to what `GrantStore` promises: a status, a limit, one use
  per operation. The grant an operation asks for bears its name, as
  `ClientRequestID` does. `dispatched` and `effects` are history: calls of
  `adapter.Execute`, and mutations that happened at the provider.
* **Actions.** Submission: `SubmitDirectGrant`, `SubmitActiveGrant`,
  `SubmitPending`, then `RequestApproval` or `RequestRefused`, `BindPlan`,
  `AbandonApproval`, `AbandonUnnotified`, `FailUnnotified`. Cancellation:
  `CancelApproval`, `Cancel`. The worker: `RecoverApproval`, `SyncApproval`,
  `Claim`, `Reserve`, `BindReservation`, `Dispatch`, `ReconcileExecution`,
  `Settle`, `End`. Restart: `Crash`, `ReconcileInterrupted`, `SettleRecovered`,
  `RetainRecovered`, `RecoverFails`. The others: `Decide`, `Expire`, `Revoke`,
  `RetainStale`.
* **Failures.** A call that fails and changes nothing where the next `Advance`
  simply tries again is a stuttering step. Where the code goes on differently
  (`abandonApproval`, `settleApproval`, `Succeed`, `fail`, a store that saves and
  cannot read back) the failure is a disjunct and counts against `MaxFaults`.
* **The provider** is external: a proven result took effect; a failure for which
  the adapter asks to give the use back did not; anything else may have. What a
  later `Reconcile` proves is left open. The policy's verdict is open too.

| Run | Question | Bounds and why they are enough |
|---|---|---|
| `operation_runtime` | `TypeOK`, `ExecutedAtMostOnce`, `RefusedNeverRan`, `EffectIsCharged`, `EffectsWithinLimit`, `SuccessIsPaid`, `NoOrphanRequest`, `TerminalIsFinal`, `OperationEnds` | two operations of which one asks for a window grant with one use that both may take: the smallest instance with contention; one failed call and one crash at any point; the theorems cover every number of each |

Fairness: goroutines that hold an operation go on, the ticker of `Start` brings
`AdvanceAll` round again (`WF` of `Step`), and time passes for a grant nobody acts on
(`WF` of `Expire`). Nobody is obliged to submit, decide, cancel or crash.
`OperationEnds` exempts the two ways the code has of leaving an operation behind:
`Stranded` (the terminal write and the record of its failure both fail; only a
restart looks at executing operations) and `Starved` (its window grant was used up
by others: `approvalFailures` has no entry for a consumed grant).
Deadlock checking is off: finished operations have nothing to do.

### Proved

`OperationRuntimeProofs` proves, for any finite set of operations and any
limits, faults and crashes: `TypeCorrectness`, `AtMostOnce`, `Refusal`,
`Accounting` (`EffectIsCharged`), `SuccessPaid` (`SuccessIsPaid`), `WithinLimit`,
`RequestsClosed` and `TerminalFinality`. None of them is inductive. `IInv` adds
what the holder of an operation may assume at each point (`ControlOK`), that the
provider is called only from a claimed operation that was not yet dispatched
(`DispatchOK`), that a use exists from the reservation on and is released only
when nothing happened (`UseOK`), that charged uses fit the grant's limit
(`LimitInv`) and, while no call failed, where a request may be open
(`RequestOK`). A step of one operation leaves the others alone (`Others`, `Local`);
only `Reserve` charges a grant, and there `LimitInv` rests on the cardinality of
a finite set that grows by one. Liveness is model-checked only.

## Host deployment: `HostDeployment`, `MCHostDeployment`, `HostDeploymentProofs`

A deployment is a list of steps under a journal: `Coordinator.Run` marks a step
running, applies it, marks it complete, and commits; a failure rolls back in
reverse; the next command first finishes whatever journal it finds
(`finishInterruptedSetup`). A command holds the host lock, so there is one at a
time, and the adversary is the crash and the failed write.

* **State.** `disk` is the journal file, `host` the effect of each step, `backup` the
  files its undo needs, `receipt` the ownership receipts, `stale` whether services
  run with configuration that was changed under them; `pc`, `mem` and `run` are the
  command and are lost in a crash. A crash inside a step or an undo leaves that
  step `mixed`, or `left`: something is still there that a repeated undo does not
  see.
* **Kinds of steps.** Three kinds undo themselves in a way of their own. A
  component (`Components`) is undone from its backup, which is gone afterwards. A
  managed account (`Accounts`) loses its user before its home, and an undo that
  finds no user has nothing to do (`deleteManagedAccount`). A stale client
  (`Clients`) is moved back before its metadata is removed; between the two every
  undo fails, and without the metadata it has nothing to do
  (`quarantineStaleClient`, `restoreStaleClient`). `useradd` and `userdel` are
  external; the user is recorded before the home is made and goes before it.
* **Actions.** One durable change each: finishing (`FinishInterrupted`,
  `CommitPendingReceipt`, `DiscardPendingReceipt`, `FinalizeStep`, `FinalizeWrite`,
  `FinalizeClear`, `Restart`), recovery and rollback (`Recover`, `RecoverUncertain`,
  `RollbackBegin`, `UndoStep`, `UndoFails`, `UndoWrite`, `UndoAgain`, `RollbackFails`,
  `RollbackClear`), the transaction (`Noop`, `StagePendingReceipt`, `StepsRefused`,
  `RunBegin`, `MarkRunning`, `Apply`, `ApplyFailed`, `MarkComplete`, `Commit`,
  `RunFailed`, `RestartAfterRun`, `SaveOwnershipReceipt`), and `Crash`,
  `CrashInApply`, `CrashInUndo`.

| Run | Question | Bounds and why they are enough |
|---|---|---|
| `host_transaction` | `TypeOK`, `AllOrNothing`, `BackupKept`, `CommitIsFinal`, `RecoveryEnds` | four steps, one of each kind: an account, a component, a recoverable service step, a stale client; five faults, enough for a failed apply, a failed undo, a failed record of it, a crash in the recovery and another fault after that |
| `host_recovery_stuck` (violation) | `RecoveryCompletes`: does recovery always complete? | two steps, two faults |

Fairness: a command that was started goes on (`WF` of `Command`) and the operator
repeats it (`WF` of `Start`); faults are bounded and never forced. Deadlock is
checked: a command can always be started.

`AllOrNothing` exempts what is `LeftBehind` (the first of the other behaviours
below), and `RecoveryEnds` the `Uncertain` steps that `Recover` leaves
to the operator and the undos that have used up what they need (`Consumed`: the
finding of `host_recovery_stuck`, and a stale client between its rename and the
removal of its metadata).

### Proved

For any number of steps, whichever are recoverable, components, services, accounts
or clients, and any number of faults: `TypeCorrectness`, `Atomicity` (`AllOrNothing`),
`BackupsOutliveRollback` (`BackupKept`) and `CommitFinality` (`CommitIsFinal`).
`AllOrNothing` speaks of a host without a journal and is useless as an induction
hypothesis while there is one. `IInv` says what the journal may be relied on for:
a step it does not name as started is not in effect, and a finished one has its
backup (`Sound`, of the file and of the copy in memory), the markers up to the
loop's index are on disk (`ApplyingOK`), everything not yet undone is in the lists
of the rollback (`RollbackOK`), and a commit has every step (`DiskOK`,
`FinalizeOK`). `RecoveryEnds` is model-checked only.

## Bundle activation: `BundleActivation`, `MCBundleActivation`, `BundleActivationProofs`

The installer switches a host between complete releases. A command holds the
activation lock, begins by recovering an interrupted transaction, and then makes
its durable changes in order; the module makes one of them per action, so a crash
or a failed write may fall between any two, in recovery as well. Stopping and
starting the services of a release are single actions with a partial outcome.

* **State.** `releases`, `current`, `record` (`activation.json`), `txn`
  (`transaction.json`), `live` and `backup` (the state of each component: the
  format of each file and the command that created it), `running`, `enabled`,
  and `call`, the command with its locals, which a crash loses. `ghost` remembers
  what an activation found.
* **Actions.** The commands (`Activate`, `Rollback`, `RollbackCandidate`,
  `RestartActive`, `DeactivateCandidate`, `DeactivateInstallation`); recovery
  (`RecoverNothing`, `RecoverCommitted`, `RecoverInterrupted`); activation (`Stage`,
  `BaselineRefused`, `ActiveAlready`, `CommitActivation`, `StopOld`,
  `PrepareRefused`, `ArchiveBegin`, `ArchiveDirectory`, `ArchiveFile`,
  `ArchiveFilesDone`, `SwitchCurrent`, `StartCandidate`, `CommitRecord`,
  `ClearTransaction`); restore (`RestoreStop` to `RestoreServices`,
  `RestoreActivationRecord`, `WriteRecoveryRecord`); the bodies of the other
  commands; `Crash`.
* **External.** A service creates the state files it does not find and stays down
  when those it finds have another format; the manifests say that no binary reads
  an older format.

| Run | Question | Bounds and why they are enough |
|---|---|---|
| `bundle_activation` | `TypeOK`, `RecordNamesCurrent`, `RecoveryCanRead`, `StateReachable`, `StateKept`, `CommitIsVerified` | three releases: two that replace each other's state and one without a component that refuses to replace state; a component that moves its directory and one that moves files; four commands (activate, activate, roll back or remove, activate again) and two faults, so recovery itself is cut off |
| `bundle_state_lost` (violation) | `RestoresPrevious` | the same releases |

`StateKept` and `StateReachable` exempt two cases by name: files cut off in the
middle of a move (`ghost.broken`, the finding below) and a backup left by an
earlier activation of the same candidate (`ghost.left`), which the installer does
not remove after a commit. Deadlock checking is off because commands are bounded;
no fairness is assumed. Left out are the failure of a directory's sync, which
`activate.go:1037` reports after the rename took effect, and the verification of a
committed release during recovery (`transaction.go:84`).

### Proved

All six properties of the run, for any releases, components and manifests, any
number of commands and any number of crashes and failed calls:
`BundleTypeCorrectness` (`TypeOK`), `RecordsAgree` (`RecordNamesCurrent`),
`RecoveryReads` (`RecoveryCanRead`), `CommitsAreVerified` (`CommitIsVerified`),
`StateIsReachable` (`StateReachable`) and `StateIsKept` (`StateKept`). The
assumptions on the constants are those the code makes: the lists of a manifest
speak of its components, no state file is listed twice (`FilesAssumption`), and
the value that stands for an absent file is no file (`NoneAssumption`).

The inductive invariant has four layers, each proved with the ones before it:

1. `PlaceInv`: what transaction, record and link are at each step of a command
   (`DiskInv`, `CallInv`), and whose restore a restore is (`RestoreInv`). Without a
   transaction link and record agree; with one, everything it names is on disk.
2. `TypesInv`: services and state are typed, a component of the running release
   has its state once the release was started (`LiveInv`), and a move in progress
   has its backup (`MoveInv`).
3. `ServicesInv`: what runs is of a release that is on disk (`ReleasesRun`), and
   which components run at each step (`LabelsRun`). `CommitIsVerified` is its last
   line: the record is written only where everything runs and is enabled.
4. `KeptInv`: in an activation that has not committed, the state of every covered
   component is whole in the backup, or whole live, or, during a move, each file is
   on the side that the list of files still to move says (`Safe`, `Split`). A
   restore that has not failed leaves no backup (`Emptied`) and so ends with the
   old state live (`Home`), which is `StateKept`; `Safe` without the step is
   `StateReachable`.

## Approval cards: `ApprovalCards`, `MCApprovalCards`, `ApprovalCardsProofs`

The Telegram owner stands between a broker's event log and a chat. Two loops of
one process share one SQLite file: `Owner` follows the log from a stored cursor
and makes each request's card match it; `Poller` takes clicks into a durable
inbox, decides them and edits the clicked message.

* **State.** The broker (`status`, `events`, `nextEvent`), the chat (`messages`,
  `clicks`), the file (`card`, `stored`, `inbox`, `offset`) and the locals of both
  loops, which a crash loses. `epoch` counts replacements of the broker's database,
  `by` remembers how a request was decided in the chat.
* **Actions.** One per call to the broker, to Telegram or to the file. A call that
  fails may have taken effect, and a lost response of `Decide` is a disjunct of
  its own. `ReplaceState` is the upgrade of `BundleActivation` seen from here: no
  old request exists and numbers begin again.
* **External.** Telegram delivers an update again until a later offset confirms
  it, and a message loses its buttons with its first edit.

| Run | Question | Bounds and why they are enough |
|---|---|---|
| `approval_cards` | `TypeOK`, `DecidedAsClicked`, `CardArrives`, `CardSettles`, `ClickAnswered` | one retained event, and either one request with two clicks, on both buttons or on two messages, or two requests without clicks, each of which pushes the other's event out of the log, so that the cursor expires while a request without a card is pending (`Bounded` in `MCApprovalCards`; the two together exceed the time for liveness); one crash, lost call or replacement anywhere |
| `approval_cards_lost` (violation) | `CardAfterReplacement` | two requests, one before and one after the replacement |
| `approval_cards_stale` (violation) | `CardShowsRequest` | one request, one click, no fault |

Fairness: `runRoute` and `PollDurable` retry until the process ends and the service
manager restarts it, so each loop as a whole goes on (`WF` of `Owner` and of
`Poller`). Nobody is obliged to request, decide or click. `CardArrives` and
`CardSettles` exempt an owner that goes on from the list of a database that is gone
(`Foreign`), which is the finding: it lasts until the next list, also when the new
log has passed the cursor, and the cards of the old database keep their buttons. Deadlock checking is off: when nobody clicks, both loops wait.

A failing call is one of finitely many faults. An error that stays (a request that
cannot be rendered, `owner.go:258`; the edit of a message somebody deleted,
`telegram.go:285`) stops the route for as long as it lasts, so the liveness
properties say nothing of it. `VerifyCard` leaves out the comparison of the chat and
of the button's label, which can only refuse more clicks.

### Proved

For any requests, and any number of clicks, crashes, lost calls and replaced
databases: `CardsTypeCorrectness` (`TypeOK`) and `DecisionsAreClicks`
(`DecidedAsClicked`). Owner and poller act on what they read some steps before,
and `IInv` says how much of it still holds. A request goes from absent to pending
to settled and never back, so what the owner saw settled is settled (`OwnerInv`).
What it saw pending may have been decided meanwhile; but then it was decided by a
click on its card, and a request with a card gets no second one (`Answered`, for
the request being applied and for the rest of the list). Between `verifyCard` and
the decision the card of a request that is still pending stays the clicked message
(`PollInv`): the owner writes the card only of a request without an open card or of
a settled one, and only cards of settled requests are closed or pruned
(`CardInv`). Every callback in the inbox was clicked (`InboxInv`), which gives the
click of the decision.

`CardArrives`, `CardSettles` and `ClickAnswered` are liveness and model-checked
only.

## Streams and sealed payloads: `StreamStore`, `SealedStore`, `PayloadStores`, `SealedStoreProofs`, `PayloadStoresProofs`

Every operation of either store holds its mutex. A stream has three files, and an
operation of `StreamStore` is a job with the files it has still to touch; a crash
leaves the files as they are and forgets the job. A sealed payload is one file
that is replaced atomically, so an operation of `SealedStore` is one action, and
only the creation of a file can be torn. The stores share nothing, so
`PayloadStores` lets a behaviour be about one of them.

* **StreamStore.** `bin`, `meta`, `replay`, `job`, `readers` (open files, which
  outlive the mutex), the clock; `handed`, `closed`, `kept` and `unread` are history. Actions:
  `Put` with `PutKnown`, `PutRefused`, `Create`, `UploadBreaks`; `Open`,
  `Delivered`, `Interrupted`, `Consume`; `Delete`, `Retire`, `RetireAgain`; `Sweep`;
  `FileStep`, `FileFails`; `Crash`.
* **SealedStore.** `envelope`, `clock`; `issued`, `revealed` and `misread` are history. Actions:
  `PutPayload`, `PutPayloadAgain`, `PutPayloadRefused`, `ConsumePayload`,
  `DeletePayload`, `SweepPayloads`.
* **Reads that fail.** Both sweeps take a file they cannot read for one to remove
  (`stream/store.go:341`, `:346`; `sealed/store.go:410`), and both lookups pass over
  it (`stream/store.go:362`, `sealed/store.go:455`). A sweep therefore has as its
  parameter what it removes, and a lookup may miss what is there. One such read
  removes a live stream, forgets a request, or removes the marker of a used secret;
  `unread` and `misread` remember whose, and the properties exempt exactly those
  files.

| Run | Question | Bounds and why they are enough |
|---|---|---|
| `payload_stores` | `StoresTypeOK`, `OpenableUntilExpiry`, `OneStreamPerRequest`, `SecretRevealedOnce` | one request of each of two owners, with caps of two and one: two streams, of both owners or of one request that is repeated; two contents, one fault, three instants; owners, contents and secrets are interchangeable (symmetry); two payload files of three uploads against caps of two and one, and time for an expiry and a retention |
| `stream_kept` (violation) | `StreamsShortLived` | one stream, one fault; without a fault the property holds |

Fairness (`stream_kept`): an operation that holds the mutex ends (`WF` of `Working`),
the sweeper comes round every minute and Go's mutex does not starve it (`SF` of
`Sweep`), and time passes (`WF` of `Tick`).

### Proved

For any requests, contents, caps, lifetimes and retention, and any number of
uploads, crashes and failed file operations, failed reads included as far as the
properties exempt the very files they concern: `RevealedOnce` (`SecretRevealedOnce`),
`ReferencesOpen` (`OpenableUntilExpiry`), `RequestsAreIdempotent`
(`OneStreamPerRequest`), and `StoresTypeCorrectness` of both stores together.

`SealedInv` of the sealed store: ids are given out in order and name one reference
each (`Fresh`), no two readable files belong to one upload (`OneFilePerUpload`),
and a payload once revealed is a marker until its retention is over (`Marked`).
Without the second an upload repeated after a sweep could reveal its secret from
another file.

`StreamInv` has a part for the files between operations and one for the operation
that holds the mutex. `FilesInv`: a reference given out has its files until it
expires or is closed, and no key has two references. `JobInv` says, for each
operation, what the files it has still to touch are: a crash may fall anywhere, so
every suffix of the list must leave `FilesInv` true when it is forgotten. `Tidy`
says that without a fault only the stream at hand may have bytes without a
reference, which the type invariant says of a store nobody is working on.

## Findings

Each is a run whose property states what a document or a comment says, and which
TLC violates; `PROJECT.json` quotes the lines.

1. `host_recovery_stuck`: a component's backup is consumed before its rollback is
   recorded; a crash between makes recovery fail for ever.
2. `bundle_state_lost`: a crash between the creation of a backup directory and the
   move of the files makes recovery remove the live state files.
3. `approval_cards_lost`: after the broker's database was replaced, the owner's
   cursor is ahead of the new log, is not refused, and new requests get no card.
4. `approval_cards_stale`: a click between the sending of a card and its record
   leaves a pending request whose card has no buttons.
5. `stream_kept`: a crash in an upload leaves bytes that are never removed and that
   make every later upload of a new stream fail.

Other behaviours of the modules that a reader of the code should know, without a
run of their own:

* `engine.go:1052`: the undo of a managed account that stopped between the removal
  of the user and that of the home (`userdel`, or `os.RemoveAll` at `:1067`) finds no
  user when it is repeated, by the same rollback or by the next command, and reports
  success. The journal is cleared with the home left and nothing reported, although
  `docs/GUIDED_INSTALLATION.md:644` promises to "report every remaining change", and
  the next apply is refused because of that home (`:1018`). One failed removal after
  one failed write or step is enough (`LeftBehind` of `HostDeployment`).
* `reconfigure_cleanup_linux.go:63`: a stale client's configuration that was moved
  away without its metadata is left there in the same way.
* `operator_decisions.go:42`: a decision logs the expiry of every *other* grant
  that lapsed a second time, because the second reconciliation uses the snapshot
  from before the preparation (`ApplyOperatorDecision` of `GrantStore`).
* `lifecycle_helpers.go:106`: a repeated request is compared with the narrowed
  bounds of its grant, so after a narrowing approval the very request that created
  the grant is an idempotency conflict (`SameRequest`).
* `uses.go:191`: when the wall clock stepped back since a reservation, its
  settlement stamps `UpdatedAt` before `CreatedAt`, and `validLoadedUseLifecycle`
  (`uses.go:343`) refuses the whole state from then on (`StateLoads` with
  `ClockMayStepBack`); by `OnlyTimesAreRefused` nothing else makes it unloadable.
* `reconfigure_cleanup_linux.go:101`: a stale client's configuration is moved back
  before its metadata is removed; after a fault between the two every undo fails
  (`Consumed` of `HostDeployment`).
* `engine.go:231`: the journal that remembers the duty to restart services is
  cleared before the restart (`stale` of `HostDeployment`).
* `runtime.go:599`: an operation whose window grant was used up by others stays
  pending (`Starved`).
* `lifecycle.go:454`: the second stale use of a retained grant is reconciled
  without a save, so a waiter's delay stays zero.
* `engine.go:476` and `:485`: an ownership receipt is saved after the journal is
  gone, and evidence is discarded when a rollback was incomplete.
* `coordinator.go:171`: a stored request that cannot be read back is never
  withdrawn.
* `activate.go:819`: backups stay after a commit and make a second activation of
  the same candidate fail, or a rollback restore an older state.
* `activate.go:430`: the removal of the last release has no transaction; a crash
  leaves a record whose link is gone, which every later activation refuses.
* `stream/store.go:250`: a retirement cut off after its marker is reported as done
  when repeated, and its bytes stay until they expire.
* `sealed/store.go:486`: markers of used payloads count against the caps for
  thirty days.

## What is not modelled

* Power loss: `AtomicWrite` syncs the file and not its directory. The modules
  know crashes of the process, after which a completed rename is visible.
* Two brokers on one database; the store's mutex is taken for the only writer.
* Retention of terminal operations, the store's capacity, listing and waiting.
* Admission control, whose refusals are choices of a submission; the policy
  engine, whose verdict is one; the pairing and credential stores.
* Providers, HTTP, MCP, Git and setup dialogues, beyond the outcomes the runtime
  tells apart. They are most of the repository's lines (provider catalogs,
  generated wire code, request decoding) and have no state the properties need.
* What `PROJECT.json` lists as `not_modelled`, with its reason.

Liveness (`WaitEnds`, `OperationEnds`, `RecoveryEnds`, `CardArrives`, `CardSettles`,
`ClickAnswered`) is outside the prover and stays with TLC. Every invariant and
action property of the passing runs is a theorem.

## Plan

Open: the hazards of `internal/host/deployment/engine.go` without a property
(receipts and restarts whose reason, the journal, is cleared before them), and a
run of `GrantWaits` with uses, for the reconciliation that finds nothing to save.
