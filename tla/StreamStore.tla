----------------------------- MODULE StreamStore -----------------------------
(***************************************************************************)
(* Stored byte streams (internal/storage/stream): the uploads and results  *)
(* a broker keeps in files between two requests, with the handlers and the *)
(* sweeper that use them (httpapi/streams.go of the brokers).              *)
(*                                                                         *)
(* A stream has up to three files: .bin with its bytes, .json with its     *)
(* reference and, once retired, .replay, which remembers the upload for    *)
(* its idempotency window.  Every operation holds the store's mutex, so    *)
(* operations do not interleave; but each touches several files, and the   *)
(* process may die between two of them.  A job is the operation that holds *)
(* the mutex, with the files it has still to touch.                        *)
(*                                                                         *)
(* Bytes, size, digest and media type of a stream are one content.  The    *)
(* byte caps have the form of the file caps and are left out.  The files   *)
(* survive a crash of the process as they were written.                    *)
(***************************************************************************)
EXTENDS Integers, Sequences, FiniteSets

CONSTANTS
  Keys,             \* <<owner, purpose and request key>>
  Contents,         \* contents of streams
  MaxFiles,         \* maxFiles
  MaxOwnerFiles,    \* maxOwnerFiles
  Lifetimes,        \* how long a stream or a replay marker may be kept
  MaxStreams,       \* bound: streams begun
  MaxTime,          \* bound: the clock
  MaxFaults         \* bound: crashes and failed file operations

ASSUME StreamAssumption ==
  /\ MaxFiles \in Nat /\ MaxOwnerFiles \in Nat /\ MaxStreams \in Nat
  /\ MaxTime \in Nat /\ MaxFaults \in Nat /\ Lifetimes \subseteq Nat \ {0}

VARIABLES
  bin,      \* bin[i]: the data file of stream i
  meta,     \* meta[i]: the set with the reference in its .json file, or {}
  replay,   \* replay[i]: the set with the marker in its .replay file, or {}
  job,      \* the operation that holds the mutex
  readers,  \* open files: downloads being delivered, streams being consumed
  now,      \* the clock, in seconds
  nextId,   \* the next stream id
  handed,   \* history: references returned by Put
  closed,   \* history: ids given to Delete, Retire or Consume
  kept,     \* history: kept[i], how long the request of a closed stream is kept
  unread,   \* history: <<i, "sweep">> and <<i, "find">>, when a sweep or a lookup
            \* failed to read a file of stream i
  faults    \* faults so far

files == <<bin, meta, replay>>
vars  == <<files, job, readers, now, nextId, handed, closed, kept, unread, faults>>

Ids    == 1 .. MaxStreams
Owner(key) == key[1]
References == [id : Ids, key : Keys, content : Contents, expires : Nat]
Markers    == [reference : References, until : Nat]

\* op: what holds the mutex.  ref: the reference it is about; a Put knows the
\* id only when it creates.  entries: expired entries found and not yet
\* removed.  todo: files still to touch.
Idle == [op |-> "idle", ref |-> {}, entries |-> {}, todo |-> <<>>, until |-> 0]

Fault == faults < MaxFaults /\ faults' = faults + 1
Fine  == UNCHANGED faults

(***************************************************************************)
(* Files.                                                                  *)
(***************************************************************************)
\* Metadata files are replaced atomically (securefile.AtomicWrite).
Touch(file, i) ==
  /\ bin' = CASE file = "createBin" -> [bin EXCEPT ![i] = "partial"]
              [] file = "fillBin"   -> [bin EXCEPT ![i] = "whole"]
              [] file = "rmBin"     -> [bin EXCEPT ![i] = "none"]
              [] OTHER              -> bin
  /\ meta' = CASE file = "writeMeta" -> [meta EXCEPT ![i] = job.ref]
               [] file = "rmMeta"    -> [meta EXCEPT ![i] = {}]
               [] OTHER              -> meta
  /\ replay' = CASE file = "writeReplay" ->
                      [replay EXCEPT ![i] = {[reference |-> r, until |-> job.until]
                                             : r \in job.ref}]
                 [] file = "rmReplay"    -> [replay EXCEPT ![i] = {}]
                 [] OTHER                -> replay

Entries == {<<i, "json">>   : i \in {i \in Ids : meta[i] # {}}}
           \cup {<<i, "replay">> : i \in {i \in Ids : replay[i] # {}}}

ExpiredEntries ==
  {<<i, "json">>   : i \in {i \in Ids : \E r \in meta[i] : now >= r.expires}}
  \cup
  {<<i, "replay">> : i \in {i \in Ids : \E m \in replay[i] : now >= m.until}}

\* The entries sweepEntryLocked removes at the time of the sweep: the expired
\* ones, and those it cannot read, which entryExpiryLocked takes for expired.
Sweeps(entries) ==
  LET bad == entries \ ExpiredEntries
  IN  /\ ExpiredEntries \subseteq entries
      /\ unread' = unread \cup {<<entry[1], "sweep">> : entry \in bad}
      /\ IF bad = {} THEN Fine ELSE Fault

\* removeExpiredEntry: the metadata first, then the bytes.
Removal(entry) ==
  IF entry[2] = "json"
  THEN << <<"rmMeta", entry[1]>>, <<"rmBin", entry[1]>> >>
  ELSE << <<"rmReplay", entry[1]>> >>

\* The file a failed or missing removal does not stop: Delete, Retire and the
\* sweep go on past a file that is not there, Consume does not.
Missing(file, i) == \/ file = "rmMeta" /\ meta[i] = {}
                    \/ file = "rmBin" /\ bin[i] = "none"

Outside == UNCHANGED <<readers, now, nextId, unread>>

\* The operation ends with an error.
Fails == job' = Idle /\ UNCHANGED <<handed, closed, kept>>

(***************************************************************************)
(* One file operation of the job.                                          *)
(***************************************************************************)
FileStep ==
  /\ job.todo # <<>>
  /\ ~(job.op = "consume" /\ Missing(Head(job.todo)[1], Head(job.todo)[2]))
  /\ Touch(Head(job.todo)[1], Head(job.todo)[2])
  /\ job' = [job EXCEPT !.todo = Tail(@)]
  /\ Fine /\ Outside /\ UNCHANGED <<handed, closed, kept>>

\* A second consumer finds the files gone.
ConsumeMissing ==
  /\ job.todo # <<>> /\ job.op = "consume"
  /\ Missing(Head(job.todo)[1], Head(job.todo)[2])
  /\ Fails /\ Fine /\ Outside /\ UNCHANGED files

\* A file operation fails.  A sweep goes on with the next file, as does the
\* sweep that begins a Put; a Put that cannot write the reference removes the
\* bytes; the others give up.
FileFails ==
  /\ job.todo # <<>> /\ Fault
  /\ CASE job.op \in {"sweep", "put", "undo"} ->
            job' = [job EXCEPT !.todo = Tail(@)] /\ UNCHANGED <<handed, closed, kept>>
       [] job.op = "create" /\ Head(job.todo)[1] # "createBin" ->
            /\ job' = [job EXCEPT !.op = "undo",
                                  !.todo = << <<"rmBin", Head(job.todo)[2]>> >>]
            /\ UNCHANGED <<handed, closed, kept>>
       [] OTHER -> Fails
  /\ Outside /\ UNCHANGED files

\* writeStream: the upload breaks off, is empty or exceeds its limit, and what
\* came of it is removed.
\* Mutant: it is left behind.
UploadBreaksKeeps ==
  /\ job.op = "create" /\ job.todo # <<>> /\ Head(job.todo)[1] = "fillBin"
  /\ job' = Idle
  /\ Fine /\ Outside /\ UNCHANGED <<files, handed, closed, kept>>

UploadBreaks ==
  /\ job.op = "create" /\ job.todo # <<>> /\ Head(job.todo)[1] = "fillBin"
  /\ job' = [job EXCEPT !.op = "undo", !.todo = << <<"rmBin", Head(job.todo)[2]>> >>]
  /\ Fine /\ Outside /\ UNCHANGED <<files, handed, closed, kept>>

\* The next expired entry, in any order.
SweepEntry(entry) ==
  /\ job.todo = <<>> /\ entry \in job.entries
  /\ job' = [job EXCEPT !.entries = @ \ {entry}, !.todo = Removal(entry)]
  /\ Fine /\ Outside /\ UNCHANGED <<files, handed, closed, kept>>

(***************************************************************************)
(* Operations.                                                             *)
(***************************************************************************)
Free == job = Idle
Ready(op) == job.op = op /\ job.todo = <<>> /\ job.entries = {}

\* SweepExpired, from the sweeper that runs every minute.
Sweep(entries) ==
  /\ Free /\ entries # {} /\ Sweeps(entries)
  /\ job' = [Idle EXCEPT !.op = "sweep", !.entries = entries]
  /\ UNCHANGED <<files, readers, now, nextId, handed, closed, kept>>

SweepDone == Ready("sweep") /\ Fails /\ Fine /\ Outside /\ UNCHANGED files

\* putLocked sweeps first.
Put(key, content, lifetime, entries) ==
  /\ Free /\ nextId <= MaxStreams /\ now + lifetime <= MaxTime /\ Sweeps(entries)
  /\ job' = [Idle EXCEPT !.op = "put", !.entries = entries,
               !.ref = {[id |-> nextId, key |-> key, content |-> content,
                         expires |-> now + lifetime]}]
  /\ UNCHANGED <<files, readers, now, nextId, handed, closed, kept>>

\* findRequestLocked looks into .json and .replay files.
Found(key) == {r \in UNION {meta[i] \cup {m.reference : m \in replay[i]} : i \in Ids} :
                 r.key = key}

\* It passes over what it cannot read, so a request is not found when there is
\* no file of it, or none that it can read.
NotFound(key) ==
  \/ Found(key) = {} /\ Fine /\ UNCHANGED unread
  \/ /\ Found(key) # {} /\ Fault
     /\ unread' = unread \cup {<<r.id, "find">> : r \in Found(key)}

Stored == {i \in Ids : bin[i] # "none"}

\* checkQuotaLocked: data without a reference is an error, not free room.
QuotaOK(owner) ==
  /\ \A i \in Stored : meta[i] # {}
  /\ Cardinality(Stored) < MaxFiles
  /\ Cardinality({i \in Stored : \E r \in meta[i] : Owner(r.key) = owner})
       < MaxOwnerFiles

Return(r) ==
  /\ job' = Idle /\ handed' = handed \cup {r} /\ UNCHANGED <<closed, kept>>

\* A known request gets its reference back when the content is the same.
PutKnown ==
  /\ Ready("put")
  /\ \E wanted \in job.ref :
       /\ Found(wanted.key) # {}
       /\ \E r \in Found(wanted.key) :
            IF r.content = wanted.content THEN Return(r) ELSE Fails
  /\ Fine /\ Outside /\ UNCHANGED files

\* The quota is used up, or a directory or a file cannot be read.
PutRefused ==
  /\ Ready("put")
  /\ \/ \E wanted \in job.ref :
          Found(wanted.key) = {} /\ ~QuotaOK(Owner(wanted.key)) /\ Fine
     \/ Fault
  /\ Fails /\ Outside /\ UNCHANGED files

\* createLocked: the bytes, then the reference.
\* Mutant: the reference first.
CreateReferenceFirst ==
  /\ Ready("put")
  /\ \E wanted \in job.ref :
       /\ NotFound(wanted.key) /\ QuotaOK(Owner(wanted.key))
       /\ job' = [job EXCEPT !.op = "create",
                    !.todo = << <<"writeMeta", wanted.id>>,
                                <<"createBin", wanted.id>>, <<"fillBin", wanted.id>> >>]
  /\ nextId' = nextId + 1
  /\ UNCHANGED <<files, readers, now, handed, closed, kept>>

Create ==
  /\ Ready("put")
  /\ \E wanted \in job.ref :
       /\ NotFound(wanted.key) /\ QuotaOK(Owner(wanted.key))
       /\ job' = [job EXCEPT !.op = "create",
                    !.todo = << <<"createBin", wanted.id>>, <<"fillBin", wanted.id>>,
                                <<"writeMeta", wanted.id>> >>]
  /\ nextId' = nextId + 1
  /\ UNCHANGED <<files, readers, now, handed, closed, kept>>

Created ==
  /\ Ready("create") /\ \E r \in job.ref : Return(r)
  /\ Fine /\ Outside /\ UNCHANGED files

Undone == Ready("undo") /\ Fails /\ Fine /\ Outside /\ UNCHANGED files

\* validateLocked and openVerified.
Openable(r) == meta[r.id] = {r} /\ now < r.expires /\ bin[r.id] = "whole"

Close(r) == closed' = closed \cup {r.id}
Sooner(a, b) == IF a < b THEN a ELSE b

\* Delete of a resolved or delivered stream.
Delete(r) ==
  /\ Free /\ r \in handed /\ Close(r)
  /\ job' = [Idle EXCEPT !.op = "delete",
               !.todo = << <<"rmMeta", r.id>>, <<"rmBin", r.id>>, <<"rmReplay", r.id>> >>]
  /\ kept' = [kept EXCEPT ![r.id] = 0]
  /\ Fine /\ Outside /\ UNCHANGED <<files, handed>>

\* Retire, after an operation used the stream.  A stream with a marker is
\* retired already; otherwise the marker is written before the files go.
RetireAgain(r) ==
  /\ Free /\ r \in handed
  /\ \E m \in replay[r.id] :
       m.reference = r /\ kept' = [kept EXCEPT ![r.id] = m.until]
  /\ Close(r)
  /\ Fine /\ Outside /\ UNCHANGED <<files, job, handed>>

\* Mutant: the marker last.
RetireMarkerLast(r, lifetime) ==
  /\ Free /\ r \in handed /\ replay[r.id] = {} /\ meta[r.id] = {r}
  /\ Close(r)
  /\ job' = [op |-> "retire", ref |-> {r}, entries |-> {}, until |-> now + lifetime,
             todo |-> << <<"rmMeta", r.id>>, <<"rmBin", r.id>>, <<"writeReplay", r.id>> >>]
  /\ kept' = [kept EXCEPT ![r.id] = Sooner(r.expires, now + lifetime)]
  /\ Fine /\ Outside /\ UNCHANGED <<files, handed>>

Retire(r, lifetime) ==
  /\ Free /\ r \in handed /\ replay[r.id] = {} /\ meta[r.id] = {r}
  /\ Close(r)
  /\ job' = [op |-> "retire", ref |-> {r}, entries |-> {}, until |-> now + lifetime,
             todo |-> << <<"writeReplay", r.id>>, <<"rmMeta", r.id>>, <<"rmBin", r.id>> >>]
  /\ kept' = [kept EXCEPT ![r.id] = Sooner(r.expires, now + lifetime)]
  /\ Fine /\ Outside /\ UNCHANGED <<files, handed>>

Ended ==
  /\ job.op \in {"delete", "retire", "consume"} /\ Ready(job.op)
  /\ job' = Idle
  /\ kept' = [i \in Ids |-> IF job.op = "retire" /\ \E r \in job.ref : r.id = i
                             THEN job.until ELSE kept[i]]
  /\ Fine /\ Outside /\ UNCHANGED <<files, handed, closed>>

\* OpenOwned: a download or a Consume holds the open file without the mutex.
Open(r, use) ==
  /\ Free /\ r \in handed /\ Openable(r) /\ <<r, use>> \notin readers
  /\ readers' = readers \cup {<<r, use>>}
  /\ Fine /\ UNCHANGED <<files, job, now, nextId, handed, closed, kept, unread>>

\* The complete response was delivered, and the stream is deleted.
Delivered(r) ==
  /\ <<r, "download">> \in readers /\ Free
  /\ readers' = readers \ {<<r, "download">>} /\ Close(r)
  /\ job' = [Idle EXCEPT !.op = "delete",
               !.todo = << <<"rmMeta", r.id>>, <<"rmBin", r.id>>, <<"rmReplay", r.id>> >>]
  /\ kept' = [kept EXCEPT ![r.id] = 0]
  /\ Fine /\ UNCHANGED <<files, now, nextId, handed, unread>>

\* The response was interrupted.
Interrupted(r) ==
  /\ <<r, "download">> \in readers /\ readers' = readers \ {<<r, "download">>}
  /\ Fine /\ UNCHANGED <<files, job, now, nextId, handed, closed, kept, unread>>

\* Consume takes the mutex again to remove what it opened.
Consume(r) ==
  /\ <<r, "consume">> \in readers /\ Free
  /\ readers' = readers \ {<<r, "consume">>} /\ Close(r)
  /\ job' = [Idle EXCEPT !.op = "consume",
               !.todo = << <<"rmMeta", r.id>>, <<"rmBin", r.id>> >>]
  /\ kept' = [kept EXCEPT ![r.id] = 0]
  /\ Fine /\ UNCHANGED <<files, now, nextId, handed, unread>>

Crash ==
  /\ Fault /\ job' = Idle /\ readers' = {}
  /\ UNCHANGED <<files, now, nextId, handed, closed, kept, unread>>

Tick == /\ now < MaxTime /\ now' = now + 1
        /\ UNCHANGED <<files, job, readers, nextId, handed, closed, kept, unread, faults>>

Init ==
  /\ bin = [i \in Ids |-> "none"] /\ meta = [i \in Ids |-> {}]
  /\ replay = [i \in Ids |-> {}] /\ job = Idle /\ readers = {} /\ now = 0
  /\ nextId = 1 /\ handed = {} /\ closed = {} /\ kept = [i \in Ids |-> 0]
  /\ unread = {} /\ faults = 0

Working ==
  \/ FileStep \/ ConsumeMissing \/ FileFails \/ UploadBreaks \/ SweepDone
  \/ PutKnown \/ PutRefused \/ Create \/ Created \/ Undone \/ Ended
  \/ \E entry \in job.entries : SweepEntry(entry)

Next ==
  \/ Working \/ Crash \/ Tick
  \/ \E entries \in SUBSET Entries :
       \/ Sweep(entries)
       \/ \E key \in Keys, content \in Contents, lifetime \in Lifetimes :
            Put(key, content, lifetime, entries)
  \/ \E r \in handed :
       \/ Delete(r) \/ RetireAgain(r) \/ Delivered(r) \/ Interrupted(r) \/ Consume(r)
       \/ \E lifetime \in Lifetimes : Retire(r, lifetime)
       \/ \E use \in {"download", "consume"} : Open(r, use)

Spec == Init /\ [][Next]_vars

\* Operations end, the sweeper runs every minute and time goes on.
FairSpec == Spec /\ WF_vars(Working) /\ SF_vars(Sweep(ExpiredEntries)) /\ WF_vars(Tick)

(***************************************************************************)
(* Properties.                                                             *)
(***************************************************************************)
\* Files, markers and the job have their types; a reference is kept under its
\* own id, which loadLocked and loadReplayLocked insist on; and as long as
\* nothing failed, every data file is complete and has its reference, which
\* checkQuotaLocked insists on.
TypeOK ==
  /\ bin \in [Ids -> {"none", "partial", "whole"}]
  /\ \A i \in Ids :
       /\ meta[i] \subseteq References /\ replay[i] \subseteq Markers
       /\ \A r \in meta[i] : meta[i] = {r} /\ r.id = i
       /\ \A m \in replay[i] : replay[i] = {m} /\ m.reference.id = i
  /\ job.op \in {"idle", "put", "create", "undo", "sweep", "delete", "retire", "consume"}
  /\ job.ref \subseteq References /\ job.entries \subseteq Ids \X {"json", "replay"}
  /\ handed \subseteq References /\ closed \subseteq Ids
  /\ unread \subseteq Ids \X {"sweep", "find"}
  /\ faults = 0 /\ Free => \A i \in Stored : bin[i] = "whole" /\ meta[i] # {}
  /\ now \in 0 .. MaxTime /\ nextId \in 1 .. MaxStreams + 1

\* A reference returned by Put opens until it expires, unless it was itself
\* deleted, retired or consumed, or a sweep failed to read its .json file:
\* neither a crash inside any operation nor the sweep of other streams takes
\* its bytes, and a retried upload is never answered with a reference whose
\* bytes did not arrive.
OpenableUntilExpiry ==
  \A r \in handed :
    (now < r.expires /\ r.id \notin closed /\ <<r.id, "sweep">> \notin unread) =>
      Openable(r)

\* The request of r is still remembered: the stream was not deleted or
\* consumed, neither it nor its replay marker has expired, and every sweep and
\* lookup could read its files.
Remembered(r) ==
  /\ IF r.id \in closed THEN now < kept[r.id] ELSE now < r.expires
  /\ <<r.id, "sweep">> \notin unread /\ <<r.id, "find">> \notin unread

\* A repeated upload within the idempotency window is the same stream, also
\* when a retirement was interrupted: no two references of one request.
OneStreamPerRequest ==
  \A r, s \in handed :
    r.key = s.key /\ Remembered(r) /\ Remembered(s) => r = s

\* store.go: "persists bounded, short-lived provider byte streams".  The bytes
\* of every stream are removed in the end.
StreamsShortLived == \A i \in Ids : bin[i] # "none" ~> bin[i] = "none"
===============================================================================
