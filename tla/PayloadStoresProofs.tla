------------------------- MODULE PayloadStoresProofs -------------------------
(***************************************************************************)
(* Proofs about StreamStore and about the two payload stores together, for *)
(* any requests, contents, caps and lifetimes, and any number of streams,  *)
(* crashes and failed file operations, failed reads included.              *)
(***************************************************************************)
EXTENDS PayloadStores, SealedStoreProofs, SequenceTheorems

(***************************************************************************)
(* The inductive invariant: the files and the histories                    *)
(***************************************************************************)
\* The references the files of stream i remember.
RefsOf(i) == meta[i] \cup {m.reference : m \in replay[i]}

FilesTyped ==
  /\ bin \in [Ids -> {"none", "partial", "whole"}]
  /\ meta \in [Ids -> SUBSET References] /\ replay \in [Ids -> SUBSET Markers]
  /\ handed \subseteq References /\ closed \subseteq Ids /\ kept \in [Ids -> Nat]
  /\ unread \subseteq Ids \X {"sweep", "find"}
  /\ faults \in Nat /\ now \in 0 .. MaxTime /\ nextId \in 1 .. MaxStreams + 1
  /\ \A i \in Ids :
       /\ \A r \in meta[i] : meta[i] = {r} /\ r.id = i
       /\ \A m \in replay[i] : replay[i] = {m} /\ m.reference.id = i

\* Ids are given out in order, and only streams that were handed out close.
FreshIds ==
  /\ \A i \in Ids : i >= nextId =>
       bin[i] = "none" /\ meta[i] = {} /\ replay[i] = {} /\ i \notin closed
  /\ \A r \in handed : r.id < nextId
  /\ \A i \in closed : \E r \in handed : r.id = i

\* One id is one reference, and one request has the files of one id unless a
\* lookup could not read them.
OneReference ==
  /\ \A r, s \in handed : r.id = s.id => r = s
  /\ \A r \in handed : \A s \in RefsOf(r.id) : s = r
  /\ \A i \in Ids : \A r, s \in RefsOf(i) : r = s
  /\ \A i, j \in Ids : \A r \in RefsOf(i), s \in RefsOf(j) :
       r.key = s.key => i = j \/ <<i, "find">> \in unread \/ <<j, "find">> \in unread

\* A reference that has not expired has its bytes, unless a sweep could not
\* read it, and only a closed stream has a marker.
FilesWhole ==
  /\ \A i \in Ids : \A r \in meta[i] :
       now < r.expires /\ <<i, "sweep">> \notin unread => bin[i] = "whole"
  /\ \A i \in Ids : replay[i] # {} => i \in closed

\* How long the request of r is remembered, and by which file if no sweep
\* failed to read it.
Until(r) == IF r.id \in closed THEN kept[r.id] ELSE r.expires

Recalled(r) ==
  now < Until(r) /\ <<r.id, "sweep">> \notin unread =>
    \/ meta[r.id] = {r} /\ Until(r) <= r.expires
    \/ \E m \in replay[r.id] : m.reference = r /\ Until(r) <= m.until

FilesInv ==
  FilesTyped /\ FreshIds /\ OneReference /\ FilesWhole /\ \A r \in handed : Recalled(r)

(***************************************************************************)
(* The inductive invariant: the operation that holds the mutex             *)
(***************************************************************************)
FileOps == {"createBin", "fillBin", "writeMeta", "writeReplay", "rmMeta", "rmBin",
            "rmReplay"}

Jobs == [op : {"idle", "put", "create", "undo", "sweep", "delete", "retire",
               "consume"},
         ref : SUBSET References, entries : SUBSET (Ids \X {"json", "replay"}),
         todo : Seq(FileOps \X Ids), until : Nat]

JobTyped == job \in Jobs

\* What a sweep removes has expired, or could not be read.
Lapsed(i) ==
  \/ <<i, "sweep">> \in unread
  \/ /\ \A r \in meta[i] : now >= r.expires
     /\ \A r \in handed : r.id = i => now >= r.expires
MarkerLapsed(i) ==
  <<i, "sweep">> \in unread \/ \A m \in replay[i] : now >= m.until

SweepJob ==
  /\ \A i \in Ids : /\ <<i, "json">> \in job.entries => Lapsed(i)
                    /\ <<i, "replay">> \in job.entries => MarkerLapsed(i)
  /\ \/ job.todo = <<>>
     \/ \E i \in Ids :
          \/ job.todo = << <<"rmMeta", i>>, <<"rmBin", i>> >> /\ Lapsed(i)
          \/ job.todo = << <<"rmBin", i>> >> /\ Lapsed(i)
          \/ job.todo = << <<"rmReplay", i>> >> /\ MarkerLapsed(i)

PutJob == \E w \in job.ref : job.ref = {w} /\ w.id = nextId

\* Nobody knows the stream that is being created.
Unknown(i) == /\ \A r \in handed : r.id # i
              /\ i \notin closed /\ replay[i] = {} /\ i < nextId

NewKey(key) ==
  \A i \in Ids : \A r \in RefsOf(i) : r.key = key => <<i, "find">> \in unread

CreateJob ==
  \E w \in job.ref :
    /\ job.ref = {w} /\ Unknown(w.id)
    /\ \/ /\ meta[w.id] = {} /\ NewKey(w.key)
          /\ \/ /\ job.todo = << <<"createBin", w.id>>, <<"fillBin", w.id>>,
                                 <<"writeMeta", w.id>> >>
                /\ bin[w.id] = "none"
             \/ job.todo = << <<"fillBin", w.id>>, <<"writeMeta", w.id>> >>
             \/ job.todo = << <<"writeMeta", w.id>> >> /\ bin[w.id] = "whole"
       \/ job.todo = <<>> /\ meta[w.id] = {w}

UndoJob == \/ job.todo = <<>>
           \/ \E i \in Ids : /\ job.todo = << <<"rmBin", i>> >>
                             /\ Unknown(i) /\ meta[i] = {}

DeleteJob ==
  \/ job.todo = <<>>
  \/ \E i \in closed :
       /\ kept[i] = 0
       /\ \/ job.todo = << <<"rmMeta", i>>, <<"rmBin", i>>, <<"rmReplay", i>> >>
          \/ /\ job.todo = << <<"rmBin", i>>, <<"rmReplay", i>> >>
             /\ meta[i] = {}
          \/ job.todo = << <<"rmReplay", i>> >>

ConsumeJob ==
  \/ job.todo = <<>>
  \/ \E i \in closed :
       /\ kept[i] = 0
       /\ \/ job.todo = << <<"rmMeta", i>>, <<"rmBin", i>> >>
          \/ job.todo = << <<"rmBin", i>> >> /\ meta[i] = {}

RetireJob ==
  \E r \in handed :
    /\ job.ref = {r} /\ r.id \in closed /\ kept[r.id] <= job.until
    /\ \/ /\ job.todo = << <<"writeReplay", r.id>>, <<"rmMeta", r.id>>,
                           <<"rmBin", r.id>> >>
          /\ meta[r.id] = {r}
       \/ /\ replay[r.id] = {[reference |-> r, until |-> job.until]}
          /\ \/ job.todo = << <<"rmMeta", r.id>>, <<"rmBin", r.id>> >>
             \/ job.todo = << <<"rmBin", r.id>> >> /\ meta[r.id] = {}
             \/ job.todo = <<>>

JobInv ==
  /\ JobTyped
  /\ job.op \notin {"put", "sweep"} => job.entries = {}
  /\ job.op = "idle" => job = Idle
  /\ job.op \in {"put", "sweep"} => SweepJob
  /\ job.op = "put" => PutJob
  /\ job.op = "create" => CreateJob
  /\ job.op = "undo" => UndoJob
  /\ job.op = "delete" => DeleteJob
  /\ job.op = "consume" => ConsumeJob
  /\ job.op = "retire" => RetireJob

\* As long as nothing failed, only the stream that is being created or
\* removed may have bytes without a reference.
Tidy ==
  faults = 0 =>
    \A i \in Stored :
      \/ bin[i] = "whole" /\ meta[i] # {}
      \/ /\ job.todo # <<>>
         /\ Head(job.todo) \in {<<"fillBin", i>>, <<"writeMeta", i>>, <<"rmBin", i>>}

StreamInv == FilesInv /\ JobInv /\ Tidy

(***************************************************************************)
(* Lemmas about the files                                                  *)
(***************************************************************************)
LEMMA ReferenceFields ==
  ASSUME NEW r \in References
  PROVE  r.id \in Ids /\ r.id \in Nat /\ r.expires \in Nat
  BY StreamAssumption DEF References, Ids

LEMMA MarkerFields ==
  ASSUME NEW m \in Markers
  PROVE  m.reference \in References /\ m.until \in Nat
  BY DEF Markers

\* Nothing that the files' invariant speaks of changes, unless a read fails.
LEMMA FilesKept ==
  ASSUME FilesInv, UNCHANGED <<files, handed, closed, kept, now, nextId>>,
         unread \subseteq unread', unread' \subseteq Ids \X {"sweep", "find"},
         faults' \in Nat
  PROVE  FilesInv'
  <1>1. FilesTyped' /\ FreshIds'
    BY DEF FilesInv, files, FilesTyped, FreshIds
  <1>2. OneReference'
    <2>1. \A j : RefsOf(j)' = RefsOf(j)
      BY DEF RefsOf, files
    <2> QED
      BY <2>1 DEF FilesInv, OneReference
  <1>3. FilesWhole'
    BY DEF FilesInv, FilesWhole, files
  <1>4. \A r \in handed' : Recalled(r)'
    BY DEF FilesInv, Recalled, Until, files
  <1> QED
    BY <1>1, <1>2, <1>3, <1>4 DEF FilesInv

\* The bytes of stream i change.  They may go only when no reference is left
\* that has not expired.
LEMMA BinChanges ==
  ASSUME FilesInv, NEW i \in Ids, NEW b \in {"none", "partial", "whole"},
         bin' = [bin EXCEPT ![i] = b],
         UNCHANGED <<meta, replay, handed, closed, kept, now, nextId, unread, faults>>,
         i < nextId \/ b = "none",
         \/ b = "whole" \/ <<i, "sweep">> \in unread
         \/ \A r \in meta[i] : now >= r.expires
  PROVE  FilesInv'
  <1>1. FilesTyped'
    BY DEF FilesInv, FilesTyped
  <1>2. FreshIds'
    <2>1. i >= nextId => b = "none"
      BY StreamAssumption DEF FilesInv, FilesTyped, Ids
    <2> QED
      BY <2>1 DEF FilesInv, FilesTyped, FreshIds
  <1>3. OneReference'
    BY DEF FilesInv, OneReference, RefsOf
  <1>4. FilesWhole'
    <2>1. ASSUME NEW j \in Ids, NEW r \in meta[j], now < r.expires,
                 <<j, "sweep">> \notin unread
          PROVE  bin'[j] = "whole"
      <3>1. r.expires \in Nat /\ now \in Nat
        BY ReferenceFields, StreamAssumption DEF FilesInv, FilesTyped
      <3>2. CASE j = i
        BY <2>1, <3>1, <3>2 DEF FilesInv, FilesTyped
      <3>3. CASE j # i
        BY <2>1, <3>3 DEF FilesInv, FilesTyped, FilesWhole
      <3> QED
        BY <3>2, <3>3
    <2> QED
      BY <2>1 DEF FilesInv, FilesWhole
  <1>5. \A r \in handed : Recalled(r)'
    BY DEF FilesInv, Recalled, Until
  <1> QED
    BY <1>1, <1>2, <1>3, <1>4, <1>5 DEF FilesInv

\* The reference goes when it has expired or a marker remembers the request.
LEMMA MetaGoes ==
  ASSUME FilesInv, NEW i \in Ids, meta' = [meta EXCEPT ![i] = {}],
         UNCHANGED <<bin, replay, handed, closed, kept, now, nextId, unread, faults>>,
         \A r \in handed :
           r.id = i /\ now < Until(r) /\ <<i, "sweep">> \notin unread =>
             \E m \in replay[i] : m.reference = r /\ Until(r) <= m.until
  PROVE  FilesInv'
  <1>1. FilesTyped'
    BY DEF FilesInv, FilesTyped
  <1>2. FreshIds'
    BY DEF FilesInv, FilesTyped, FreshIds
  <1>3. OneReference'
    <2>1. \A j \in Ids : RefsOf(j)' \subseteq RefsOf(j)
      BY DEF FilesInv, FilesTyped, RefsOf
    <2>2. \A r \in handed : r.id \in Ids
      BY ReferenceFields DEF FilesInv, FilesTyped
    <2> QED
      BY <2>1, <2>2 DEF FilesInv, OneReference
  <1>4. FilesWhole'
    BY DEF FilesInv, FilesTyped, FilesWhole
  <1>5. ASSUME NEW r \in handed
        PROVE  Recalled(r)'
    <2>1. r.id \in Ids
      BY ReferenceFields DEF FilesInv, FilesTyped
    <2>2. Recalled(r)
      BY DEF FilesInv
    <2>3. CASE r.id = i
      BY <2>1, <2>3 DEF Recalled, Until
    <2>4. CASE r.id # i
      BY <2>1, <2>2, <2>4 DEF Recalled, Until, FilesInv, FilesTyped
    <2> QED
      BY <2>3, <2>4
  <1> QED
    BY <1>1, <1>2, <1>3, <1>4, <1>5 DEF FilesInv

\* The marker goes when it has lapsed or the reference is still there.
LEMMA ReplayGoes ==
  ASSUME FilesInv, NEW i \in Ids, replay' = [replay EXCEPT ![i] = {}],
         UNCHANGED <<bin, meta, handed, closed, kept, now, nextId, unread, faults>>,
         \A r \in handed :
           r.id = i /\ now < Until(r) /\ <<i, "sweep">> \notin unread =>
             meta[i] = {r} /\ Until(r) <= r.expires
  PROVE  FilesInv'
  <1>1. FilesTyped'
    BY DEF FilesInv, FilesTyped
  <1>2. FreshIds'
    BY DEF FilesInv, FilesTyped, FreshIds
  <1>3. OneReference'
    <2>1. \A j \in Ids : RefsOf(j)' \subseteq RefsOf(j)
      BY DEF FilesInv, FilesTyped, RefsOf
    <2>2. \A r \in handed : r.id \in Ids
      BY ReferenceFields DEF FilesInv, FilesTyped
    <2> QED
      BY <2>1, <2>2 DEF FilesInv, OneReference
  <1>4. FilesWhole'
    BY DEF FilesInv, FilesTyped, FilesWhole
  <1>5. ASSUME NEW r \in handed
        PROVE  Recalled(r)'
    <2>1. r.id \in Ids
      BY ReferenceFields DEF FilesInv, FilesTyped
    <2>2. Recalled(r)
      BY DEF FilesInv
    <2>3. CASE r.id = i
      BY <2>1, <2>3 DEF Recalled, Until
    <2>4. CASE r.id # i
      BY <2>1, <2>2, <2>4 DEF Recalled, Until, FilesInv, FilesTyped
    <2> QED
      BY <2>3, <2>4
  <1> QED
    BY <1>1, <1>2, <1>3, <1>4, <1>5 DEF FilesInv

\* The reference of a new stream is written when its bytes are there.
LEMMA MetaComes ==
  ASSUME FilesInv, NEW w \in References, meta' = [meta EXCEPT ![w.id] = {w}],
         UNCHANGED <<bin, replay, handed, closed, kept, now, nextId, unread, faults>>,
         Unknown(w.id), NewKey(w.key), bin[w.id] = "whole"
  PROVE  FilesInv'
  <1>0. w.id \in Ids
    BY ReferenceFields
  <1>1. FilesTyped'
    BY <1>0 DEF FilesInv, FilesTyped
  <1>2. FreshIds'
    <2>1. ~(w.id >= nextId)
      BY <1>0 DEF Unknown, FilesInv, FilesTyped, Ids
    <2> QED
      BY <1>0, <2>1 DEF FilesInv, FilesTyped, FreshIds
  <1>3. OneReference'
    <2>1. RefsOf(w.id)' = {w}
      BY <1>0 DEF FilesInv, FilesTyped, RefsOf, Unknown
    <2>2. \A j \in Ids \ {w.id} : RefsOf(j)' = RefsOf(j)
      BY <1>0 DEF FilesInv, FilesTyped, RefsOf
    <2>3. \A r \in handed : r.id \in Ids \ {w.id}
      BY ReferenceFields DEF FilesInv, FilesTyped, Unknown
    <2>4. /\ \A r, s \in handed : r.id = s.id => r = s
          /\ \A r \in handed : \A s \in RefsOf(r.id)' : s = r
      BY <2>2, <2>3 DEF FilesInv, OneReference
    <2>5. \A j \in Ids : \A r, s \in RefsOf(j)' : r = s
      BY <2>1, <2>2 DEF FilesInv, OneReference
    <2>6. ASSUME NEW j \in Ids, NEW k \in Ids, NEW r \in RefsOf(j)',
                 NEW s \in RefsOf(k)', r.key = s.key
          PROVE  j = k \/ <<j, "find">> \in unread \/ <<k, "find">> \in unread
      BY <2>1, <2>2, <2>6 DEF FilesInv, OneReference, NewKey
    <2> QED
      BY <2>4, <2>5, <2>6 DEF OneReference
  <1>4. FilesWhole'
    BY <1>0 DEF FilesInv, FilesTyped, FilesWhole
  <1>5. ASSUME NEW r \in handed
        PROVE  Recalled(r)'
    <2>1. r.id \in Ids \ {w.id}
      BY ReferenceFields DEF FilesInv, FilesTyped, Unknown
    <2>2. Recalled(r)
      BY DEF FilesInv
    <2> QED
      BY <2>1, <2>2 DEF Recalled, Until, FilesInv, FilesTyped
  <1> QED
    BY <1>1, <1>2, <1>3, <1>4, <1>5 DEF FilesInv

\* The marker of a closed stream remembers what its reference says.
LEMMA ReplayComes ==
  ASSUME FilesInv, NEW r \in handed, NEW u \in Nat,
         replay' = [replay EXCEPT ![r.id] = {[reference |-> r, until |-> u]}],
         UNCHANGED <<bin, meta, handed, closed, kept, now, nextId, unread, faults>>,
         r.id \in closed, meta[r.id] = {r}, kept[r.id] <= u
  PROVE  FilesInv'
  <1>0. r \in References /\ r.id \in Ids
    BY ReferenceFields DEF FilesInv, FilesTyped
  <1> DEFINE m == [reference |-> r, until |-> u]
  <1>m. m \in Markers /\ m.reference = r /\ m.until = u
    BY <1>0 DEF Markers
  <1> HIDE DEF m
  <1>r. replay' = [replay EXCEPT ![r.id] = {m}]
    BY DEF m
  <1>1. FilesTyped'
    BY <1>0, <1>m, <1>r DEF FilesInv, FilesTyped
  <1>2. FreshIds'
    BY <1>0, <1>r DEF FilesInv, FilesTyped, FreshIds
  <1>3. OneReference'
    <2>1. \A j \in Ids : RefsOf(j)' \subseteq RefsOf(j)
      <3>1. r \in RefsOf(r.id)
        BY DEF RefsOf
      <3>2. RefsOf(r.id)' = {r}
        BY <1>0, <1>m, <1>r DEF FilesInv, FilesTyped, RefsOf
      <3>3. \A j \in Ids \ {r.id} : RefsOf(j)' = RefsOf(j)
        BY <1>0, <1>r DEF FilesInv, FilesTyped, RefsOf
      <3> QED
        BY <3>1, <3>2, <3>3
    <2>2. \A s \in handed : s.id \in Ids
      BY ReferenceFields DEF FilesInv, FilesTyped
    <2> QED
      BY <2>1, <2>2 DEF FilesInv, OneReference
  <1>4. FilesWhole'
    BY <1>0, <1>r DEF FilesInv, FilesTyped, FilesWhole
  <1>5. ASSUME NEW s \in handed
        PROVE  Recalled(s)'
    <2>1. s.id \in Ids /\ (s.id = r.id => s = r)
      BY ReferenceFields DEF FilesInv, FilesTyped, OneReference
    <2>2. Recalled(s)
      BY DEF FilesInv
    <2>3. CASE s.id = r.id
      BY <1>0, <1>m, <1>r, <2>1, <2>3 DEF Recalled, Until, FilesInv, FilesTyped
    <2>4. CASE s.id # r.id
      BY <1>0, <1>r, <2>1, <2>2, <2>4 DEF Recalled, Until, FilesInv, FilesTyped
    <2> QED
      BY <2>3, <2>4
  <1> QED
    BY <1>1, <1>2, <1>3, <1>4, <1>5 DEF FilesInv

(***************************************************************************)
(* Lemmas about the job                                                    *)
(***************************************************************************)
LEMMA Tails ==
  ASSUME NEW a, NEW b, NEW c
  PROVE  /\ <<a>> # <<>> /\ Head(<<a>>) = a /\ Tail(<<a>>) = <<>>
         /\ <<a, b>> # <<>> /\ Head(<<a, b>>) = a /\ Tail(<<a, b>>) = <<b>>
         /\ <<a, b, c>> # <<>> /\ Head(<<a, b, c>>) = a
         /\ Tail(<<a, b, c>>) = <<b, c>>
  OBVIOUS

LEMMA IdleFields ==
  /\ Idle.op = "idle" /\ Idle.ref = {} /\ Idle.entries = {} /\ Idle.todo = <<>>
  /\ Idle.until = 0 /\ Idle \in Jobs
  BY DEF Idle, Jobs

\* Once the operation has ended, the job says nothing.
LEMMA IdleOK == job' = Idle => JobInv'
  <1> SUFFICES ASSUME job' = Idle
               PROVE  JobInv'
    OBVIOUS
  <1>1. JobTyped'
    BY DEF JobTyped, Jobs, Idle
  <1> QED
    BY <1>1, IdleFields DEF JobInv

\* The job goes on with the next file.
LEMMA Advances ==
  ASSUME JobTyped, job.todo # <<>>, job' = [job EXCEPT !.todo = Tail(@)]
  PROVE  /\ JobTyped' /\ job'.op = job.op /\ job'.ref = job.ref
         /\ job'.entries = job.entries /\ job'.until = job.until
         /\ job'.todo = Tail(job.todo)
  <1>1. Tail(job.todo) \in Seq(FileOps \X Ids)
    BY HeadTailProperties DEF JobTyped, Jobs
  <1> QED
    BY <1>1 DEF JobTyped, Jobs

\* What each file operation does.
LEMMA Touches ==
  ASSUME NEW i
  PROVE  /\ Touch("createBin", i) =>
              bin' = [bin EXCEPT ![i] = "partial"] /\ UNCHANGED <<meta, replay>>
         /\ Touch("fillBin", i) =>
              bin' = [bin EXCEPT ![i] = "whole"] /\ UNCHANGED <<meta, replay>>
         /\ Touch("rmBin", i) =>
              bin' = [bin EXCEPT ![i] = "none"] /\ UNCHANGED <<meta, replay>>
         /\ Touch("writeMeta", i) =>
              meta' = [meta EXCEPT ![i] = job.ref] /\ UNCHANGED <<bin, replay>>
         /\ Touch("rmMeta", i) =>
              meta' = [meta EXCEPT ![i] = {}] /\ UNCHANGED <<bin, replay>>
         /\ Touch("writeReplay", i) =>
              /\ replay' = [replay EXCEPT ![i] =
                              {[reference |-> r, until |-> job.until] : r \in job.ref}]
              /\ UNCHANGED <<bin, meta>>
         /\ Touch("rmReplay", i) =>
              replay' = [replay EXCEPT ![i] = {}] /\ UNCHANGED <<bin, meta>>
  BY DEF Touch

\* A step on the files of stream i leaves the others tidy.
LEMMA TidyElsewhere ==
  ASSUME Tidy, NEW file, NEW i, job.todo # <<>>, Head(job.todo) = <<file, i>>,
         \A j \in Ids \ {i} : bin'[j] = bin[j] /\ meta'[j] = meta[j],
         faults' = faults,
         faults = 0 /\ i \in Stored' =>
           \/ bin'[i] = "whole" /\ meta'[i] # {}
           \/ /\ job'.todo # <<>>
              /\ Head(job'.todo) \in {<<"fillBin", i>>, <<"writeMeta", i>>,
                                      <<"rmBin", i>>}
  PROVE  Tidy'
  <1> SUFFICES ASSUME faults = 0, NEW j \in Stored'
               PROVE  \/ bin'[j] = "whole" /\ meta'[j] # {}
                      \/ /\ job'.todo # <<>>
                         /\ Head(job'.todo) \in {<<"fillBin", j>>, <<"writeMeta", j>>,
                                                 <<"rmBin", j>>}
    BY DEF Tidy
  <1>1. CASE j = i
    BY <1>1
  <1>2. CASE j # i
    <2>1. j \in Stored /\ bin'[j] = bin[j] /\ meta'[j] = meta[j]
      BY <1>2 DEF Stored
    <2>2. Head(job.todo) \notin {<<"fillBin", j>>, <<"writeMeta", j>>, <<"rmBin", j>>}
      BY <1>2
    <2> QED
      BY <2>1, <2>2 DEF Tidy
  <1> QED
    BY <1>1, <1>2

\* Between two file sequences everything is tidy, and stays so.
LEMMA TidyBetween ==
  ASSUME Tidy, job.todo = <<>>, UNCHANGED <<bin, meta>>, faults' = 0 => faults = 0
  PROVE  Tidy'
  BY DEF Tidy, Stored

(***************************************************************************)
(* One file operation                                                      *)
(***************************************************************************)
\* What every file step keeps.
LEMMA FileStepFrame ==
  ASSUME StreamInv, FileStep
  PROVE  /\ job.todo # <<>> /\ Touch(Head(job.todo)[1], Head(job.todo)[2])
         /\ UNCHANGED <<handed, closed, kept, now, nextId, unread, faults>>
         /\ JobTyped' /\ job'.op = job.op /\ job'.ref = job.ref
         /\ job'.entries = job.entries /\ job'.until = job.until
         /\ job'.todo = Tail(job.todo)
  <1>1. JobTyped
    BY DEF StreamInv, JobInv
  <1>2. /\ job.todo # <<>> /\ Touch(Head(job.todo)[1], Head(job.todo)[2])
        /\ UNCHANGED <<handed, closed, kept, now, nextId, unread, faults>>
        /\ job' = [job EXCEPT !.todo = Tail(@)]
    BY DEF FileStep, Fine, Outside
  <1> QED
    BY <1>1, <1>2, Advances

\* A sweep removes what has expired.
LEMMA SweepFileOK ==
  ASSUME StreamInv, FileStep, job.op \in {"put", "sweep"}
  PROVE  StreamInv'
  <1>1. /\ job.todo # <<>> /\ Touch(Head(job.todo)[1], Head(job.todo)[2])
        /\ UNCHANGED <<handed, closed, kept, now, nextId, unread, faults>>
        /\ JobTyped' /\ job'.op = job.op /\ job'.ref = job.ref
        /\ job'.entries = job.entries /\ job'.until = job.until
        /\ job'.todo = Tail(job.todo)
    BY FileStepFrame
  <1>2. FilesInv /\ Tidy /\ FilesTyped
    BY DEF StreamInv, FilesInv
  <1>3. SweepJob /\ (job.op = "put" => PutJob)
    BY DEF StreamInv, JobInv
  <1>4. PICK i \in Ids :
          \/ job.todo = << <<"rmMeta", i>>, <<"rmBin", i>> >> /\ Lapsed(i)
          \/ job.todo = << <<"rmBin", i>> >> /\ Lapsed(i)
          \/ job.todo = << <<"rmReplay", i>> >> /\ MarkerLapsed(i)
    BY <1>1, <1>3 DEF SweepJob
  <1>5. ASSUME \A j \in Ids : Lapsed(j) => Lapsed(j)',
               \A j \in Ids : MarkerLapsed(j) => MarkerLapsed(j)',
               \/ job'.todo = <<>>
               \/ job'.todo = << <<"rmBin", i>> >> /\ Lapsed(i)'
        PROVE  JobInv'
    <2>1. SweepJob'
      BY <1>1, <1>3, <1>5 DEF SweepJob
    <2>2. job.op = "put" => PutJob'
      BY <1>1, <1>3 DEF PutJob
    <2> QED
      BY <1>1, <2>1, <2>2 DEF JobInv
  <1>6. now \in Nat /\ \A r \in handed : r.expires \in Nat /\ r.id \in Ids
    BY <1>2, ReferenceFields, StreamAssumption DEF FilesTyped
  <1>7. CASE job.todo = << <<"rmMeta", i>>, <<"rmBin", i>> >> /\ Lapsed(i)
    <2>1. /\ Head(job.todo) = <<"rmMeta", i>> /\ job'.todo = << <<"rmBin", i>> >>
          /\ job'.todo # <<>> /\ Head(job'.todo) = <<"rmBin", i>>
      BY <1>1, <1>7, Tails
    <2>2. meta' = [meta EXCEPT ![i] = {}] /\ UNCHANGED <<bin, replay>>
      BY <1>1, <2>1, Touches
    <2>3. \A r \in handed :
            r.id = i /\ now < Until(r) /\ <<i, "sweep">> \notin unread =>
              \E m \in replay[i] : m.reference = r /\ Until(r) <= m.until
      <3> SUFFICES ASSUME NEW r \in handed, r.id = i, now < Until(r),
                          <<i, "sweep">> \notin unread
                   PROVE  \E m \in replay[i] : m.reference = r /\ Until(r) <= m.until
        OBVIOUS
      <3>1. Recalled(r) /\ now >= r.expires
        BY <1>2, <1>7 DEF FilesInv, Lapsed
      <3>2. Until(r) \in Nat
        BY <1>2, <1>6 DEF Until, FilesTyped
      <3> QED
        BY <1>6, <3>1, <3>2 DEF Recalled
    <2>4. FilesInv'
      BY <1>1, <1>2, <2>2, <2>3, MetaGoes
    <2>5. JobInv'
      BY <1>1, <1>2, <1>5, <1>7, <2>1, <2>2 DEF Lapsed, MarkerLapsed, FilesTyped
    <2>6. Tidy'
      <3>1. \A j \in Ids \ {i} : bin'[j] = bin[j] /\ meta'[j] = meta[j]
        BY <1>2, <2>2 DEF FilesTyped
      <3> QED
        BY <1>1, <1>2, <2>1, <3>1, TidyElsewhere
    <2> QED
      BY <2>4, <2>5, <2>6 DEF StreamInv
  <1>8. CASE job.todo = << <<"rmBin", i>> >> /\ Lapsed(i)
    <2>1. Head(job.todo) = <<"rmBin", i>> /\ job'.todo = <<>>
      BY <1>1, <1>8, Tails
    <2>2. bin' = [bin EXCEPT ![i] = "none"] /\ UNCHANGED <<meta, replay>>
      BY <1>1, <2>1, Touches
    <2>3. FilesInv'
      BY <1>1, <1>2, <1>8, <2>2, BinChanges DEF Lapsed
    <2>4. JobInv'
      BY <1>1, <1>5, <2>1, <2>2 DEF Lapsed, MarkerLapsed
    <2>5. Tidy'
      <3>1. i \notin Stored'
        BY <1>2, <2>2 DEF Stored, FilesTyped
      <3> QED
        BY <1>1, <1>2, <2>1, <2>2, <3>1, TidyElsewhere DEF FilesTyped
    <2> QED
      BY <2>3, <2>4, <2>5 DEF StreamInv
  <1>9. CASE job.todo = << <<"rmReplay", i>> >> /\ MarkerLapsed(i)
    <2>1. Head(job.todo) = <<"rmReplay", i>> /\ job'.todo = <<>>
      BY <1>1, <1>9, Tails
    <2>2. replay' = [replay EXCEPT ![i] = {}] /\ UNCHANGED <<bin, meta>>
      BY <1>1, <2>1, Touches
    <2>3. \A r \in handed :
            r.id = i /\ now < Until(r) /\ <<i, "sweep">> \notin unread =>
              meta[i] = {r} /\ Until(r) <= r.expires
      <3> SUFFICES ASSUME NEW r \in handed, r.id = i, now < Until(r),
                          <<i, "sweep">> \notin unread
                   PROVE  meta[i] = {r} /\ Until(r) <= r.expires
        OBVIOUS
      <3>1. Recalled(r) /\ \A m \in replay[i] : now >= m.until /\ m.until \in Nat
        BY <1>2, <1>9, MarkerFields DEF FilesInv, FilesTyped, MarkerLapsed
      <3>2. Until(r) \in Nat
        BY <1>2, <1>6 DEF Until, FilesTyped
      <3> QED
        BY <1>6, <3>1, <3>2 DEF Recalled
    <2>4. FilesInv'
      BY <1>1, <1>2, <2>2, <2>3, ReplayGoes
    <2>5. JobInv'
      BY <1>1, <1>2, <1>5, <2>1, <2>2 DEF Lapsed, MarkerLapsed, FilesTyped
    <2>6. Tidy'
      <3>1. i \in Stored' => i \in Stored /\ bin'[i] = bin[i] /\ meta'[i] = meta[i]
        BY <2>2 DEF Stored
      <3>2. faults = 0 /\ i \in Stored => bin[i] = "whole" /\ meta[i] # {}
        BY <1>2, <2>1 DEF Tidy
      <3> QED
        BY <1>1, <1>2, <2>1, <2>2, <3>1, <3>2, TidyElsewhere
    <2> QED
      BY <2>4, <2>5, <2>6 DEF StreamInv
  <1> QED
    BY <1>4, <1>7, <1>8, <1>9

\* A new stream: the bytes, then the reference.
LEMMA CreateFileOK ==
  ASSUME StreamInv, FileStep, job.op = "create"
  PROVE  StreamInv'
  <1>1. /\ job.todo # <<>> /\ Touch(Head(job.todo)[1], Head(job.todo)[2])
        /\ UNCHANGED <<handed, closed, kept, now, nextId, unread, faults>>
        /\ JobTyped' /\ job'.op = job.op /\ job'.ref = job.ref
        /\ job'.entries = job.entries /\ job'.until = job.until
        /\ job'.todo = Tail(job.todo)
    BY FileStepFrame
  <1>2. FilesInv /\ Tidy /\ FilesTyped
    BY DEF StreamInv, FilesInv
  <1>3. PICK w \in job.ref :
          /\ job.ref = {w} /\ Unknown(w.id) /\ meta[w.id] = {} /\ NewKey(w.key)
          /\ \/ /\ job.todo = << <<"createBin", w.id>>, <<"fillBin", w.id>>,
                                 <<"writeMeta", w.id>> >>
                /\ bin[w.id] = "none"
             \/ job.todo = << <<"fillBin", w.id>>, <<"writeMeta", w.id>> >>
             \/ job.todo = << <<"writeMeta", w.id>> >> /\ bin[w.id] = "whole"
    BY <1>1 DEF StreamInv, JobInv, CreateJob
  <1>4. w \in References /\ w.id \in Ids
    BY <1>3, ReferenceFields DEF StreamInv, JobInv, JobTyped, Jobs
  <1>5. job.entries = {}
    BY DEF StreamInv, JobInv
  <1>6. ASSUME CreateJob'
        PROVE  JobInv'
    BY <1>1, <1>5, <1>6 DEF JobInv
  <1>7. ASSUME NEW b \in {"partial", "whole"},
               bin' = [bin EXCEPT ![w.id] = b], UNCHANGED <<meta, replay>>,
               NEW file, Head(job.todo) = <<file, w.id>>, job'.todo # <<>>,
               Head(job'.todo) \in {<<"fillBin", w.id>>, <<"writeMeta", w.id>>},
               \/ job'.todo = << <<"fillBin", w.id>>, <<"writeMeta", w.id>> >>
               \/ job'.todo = << <<"writeMeta", w.id>> >> /\ b = "whole"
        PROVE  StreamInv'
    <2>1. FilesInv'
      <3>1. w.id < nextId /\ \A r \in meta[w.id] : now >= r.expires
        BY <1>3 DEF Unknown
      <3> QED
        BY <1>1, <1>2, <1>4, <1>7, <3>1, BinChanges
    <2>2. Unknown(w.id)' /\ NewKey(w.key)' /\ meta'[w.id] = {} /\ bin'[w.id] = b
      BY <1>1, <1>2, <1>3, <1>4, <1>7 DEF Unknown, NewKey, RefsOf, FilesTyped
    <2>3. JobInv'
      BY <1>1, <1>3, <1>6, <1>7, <2>2 DEF CreateJob
    <2>4. Tidy'
      <3>1. \A j \in Ids \ {w.id} : bin'[j] = bin[j] /\ meta'[j] = meta[j]
        BY <1>2, <1>7 DEF FilesTyped
      <3> QED
        BY <1>1, <1>2, <1>7, <3>1, TidyElsewhere
    <2> QED
      BY <2>1, <2>3, <2>4 DEF StreamInv
  <1>8. CASE job.todo = << <<"createBin", w.id>>, <<"fillBin", w.id>>,
                           <<"writeMeta", w.id>> >>
    <2>1. /\ Head(job.todo) = <<"createBin", w.id>>
          /\ job'.todo = << <<"fillBin", w.id>>, <<"writeMeta", w.id>> >>
          /\ job'.todo # <<>> /\ Head(job'.todo) = <<"fillBin", w.id>>
      BY <1>1, <1>8, Tails
    <2>2. bin' = [bin EXCEPT ![w.id] = "partial"] /\ UNCHANGED <<meta, replay>>
      BY <1>1, <2>1, Touches
    <2> QED
      BY <1>7, <2>1, <2>2
  <1>9. CASE job.todo = << <<"fillBin", w.id>>, <<"writeMeta", w.id>> >>
    <2>1. /\ Head(job.todo) = <<"fillBin", w.id>>
          /\ job'.todo = << <<"writeMeta", w.id>> >>
          /\ job'.todo # <<>> /\ Head(job'.todo) = <<"writeMeta", w.id>>
      BY <1>1, <1>9, Tails
    <2>2. bin' = [bin EXCEPT ![w.id] = "whole"] /\ UNCHANGED <<meta, replay>>
      BY <1>1, <2>1, Touches
    <2> QED
      BY <1>7, <2>1, <2>2
  <1>10. CASE job.todo = << <<"writeMeta", w.id>> >> /\ bin[w.id] = "whole"
    <2>1. Head(job.todo) = <<"writeMeta", w.id>> /\ job'.todo = <<>>
      BY <1>1, <1>10, Tails
    <2>2. meta' = [meta EXCEPT ![w.id] = {w}] /\ UNCHANGED <<bin, replay>>
      BY <1>1, <1>3, <2>1, Touches
    <2>3. FilesInv'
      BY <1>1, <1>2, <1>3, <1>4, <1>10, <2>2, MetaComes
    <2>4. meta'[w.id] = {w} /\ bin'[w.id] = "whole" /\ Unknown(w.id)'
      BY <1>1, <1>2, <1>3, <1>4, <1>10, <2>2 DEF FilesTyped, Unknown
    <2>5. JobInv'
      BY <1>1, <1>3, <1>6, <2>1, <2>4 DEF CreateJob
    <2>6. Tidy'
      <3>1. \A j \in Ids \ {w.id} : bin'[j] = bin[j] /\ meta'[j] = meta[j]
        BY <1>2, <2>2 DEF FilesTyped
      <3>2. bin'[w.id] = "whole" /\ meta'[w.id] # {}
        BY <2>4
      <3>3. faults' = faults /\ job.todo # <<>> /\ Tidy
        BY <1>1, <1>2
      <3> QED
        BY <2>1, <3>1, <3>2, <3>3, TidyElsewhere
    <2> QED
      BY <2>3, <2>5, <2>6 DEF StreamInv
  <1> QED
    BY <1>3, <1>8, <1>9, <1>10

\* The bytes of an upload that broke off are removed.
LEMMA UndoFileOK ==
  ASSUME StreamInv, FileStep, job.op = "undo"
  PROVE  StreamInv'
  <1>1. /\ job.todo # <<>> /\ Touch(Head(job.todo)[1], Head(job.todo)[2])
        /\ UNCHANGED <<handed, closed, kept, now, nextId, unread, faults>>
        /\ JobTyped' /\ job'.op = job.op /\ job'.entries = job.entries
        /\ job'.todo = Tail(job.todo)
    BY FileStepFrame
  <1>2. FilesInv /\ Tidy /\ FilesTyped /\ job.entries = {}
    BY DEF StreamInv, FilesInv, JobInv
  <1>3. PICK i \in Ids : job.todo = << <<"rmBin", i>> >> /\ meta[i] = {}
    BY <1>1 DEF StreamInv, JobInv, UndoJob
  <1>4. Head(job.todo) = <<"rmBin", i>> /\ job'.todo = <<>>
    BY <1>1, <1>3, Tails
  <1>5. bin' = [bin EXCEPT ![i] = "none"] /\ UNCHANGED <<meta, replay>>
    BY <1>1, <1>4, Touches
  <1>6. FilesInv'
    BY <1>1, <1>2, <1>3, <1>5, BinChanges
  <1>7. JobInv'
    BY <1>1, <1>2, <1>4 DEF JobInv, UndoJob
  <1>8. Tidy'
    <2>1. i \notin Stored' /\ \A j \in Ids \ {i} : bin'[j] = bin[j] /\ meta'[j] = meta[j]
      BY <1>2, <1>5 DEF Stored, FilesTyped
    <2> QED
      BY <1>1, <1>2, <1>4, <2>1, TidyElsewhere
  <1> QED
    BY <1>6, <1>7, <1>8 DEF StreamInv

\* The request of a deleted or consumed stream is not remembered.
LEMMA Forgotten ==
  ASSUME FilesInv, NEW i \in closed, kept[i] = 0
  PROVE  \A r \in handed : r.id = i => ~(now < Until(r))
  BY StreamAssumption DEF FilesInv, FilesTyped, Until

\* Delete and Consume remove the reference, then the bytes, then the marker.
LEMMA DeleteFileOK ==
  ASSUME StreamInv, FileStep, job.op \in {"delete", "consume"}
  PROVE  StreamInv'
  <1>1. /\ job.todo # <<>> /\ Touch(Head(job.todo)[1], Head(job.todo)[2])
        /\ UNCHANGED <<handed, closed, kept, now, nextId, unread, faults>>
        /\ JobTyped' /\ job'.op = job.op /\ job'.entries = job.entries
        /\ job'.todo = Tail(job.todo)
    BY FileStepFrame
  <1>2. FilesInv /\ Tidy /\ FilesTyped /\ job.entries = {}
    BY DEF StreamInv, FilesInv, JobInv
  <1>3. PICK i \in closed :
          /\ kept[i] = 0
          /\ \/ /\ job.op = "delete"
                /\ job.todo = << <<"rmMeta", i>>, <<"rmBin", i>>, <<"rmReplay", i>> >>
             \/ /\ job.op = "delete" /\ meta[i] = {}
                /\ job.todo = << <<"rmBin", i>>, <<"rmReplay", i>> >>
             \/ job.op = "delete" /\ job.todo = << <<"rmReplay", i>> >>
             \/ job.op = "consume" /\ job.todo = << <<"rmMeta", i>>, <<"rmBin", i>> >>
             \/ /\ job.op = "consume" /\ meta[i] = {}
                /\ job.todo = << <<"rmBin", i>> >>
    BY <1>1 DEF StreamInv, JobInv, DeleteJob, ConsumeJob
  <1>4. i \in Ids /\ \A r \in handed : r.id = i => ~(now < Until(r))
    BY <1>2, <1>3, Forgotten DEF FilesTyped
  <1>5. ASSUME \/ job'.todo = <<>>
               \/ job.op = "delete" /\ job'.todo = << <<"rmReplay", i>> >>
               \/ /\ meta'[i] = {}
                  /\ \/ /\ job.op = "delete"
                        /\ job'.todo = << <<"rmBin", i>>, <<"rmReplay", i>> >>
                     \/ job.op = "consume" /\ job'.todo = << <<"rmBin", i>> >>
        PROVE  JobInv'
    <2>1. job.op = "delete" => DeleteJob'
      BY <1>1, <1>3, <1>5 DEF DeleteJob
    <2>2. job.op = "consume" => ConsumeJob'
      BY <1>1, <1>3, <1>5 DEF ConsumeJob
    <2> QED
      BY <1>1, <1>2, <2>1, <2>2 DEF JobInv
  <1>6. CASE \/ /\ job.op = "delete"
                /\ job.todo = << <<"rmMeta", i>>, <<"rmBin", i>>, <<"rmReplay", i>> >>
             \/ job.op = "consume" /\ job.todo = << <<"rmMeta", i>>, <<"rmBin", i>> >>
    <2>1. /\ Head(job.todo) = <<"rmMeta", i>>
          /\ \/ /\ job.op = "delete"
                /\ job'.todo = << <<"rmBin", i>>, <<"rmReplay", i>> >>
             \/ job.op = "consume" /\ job'.todo = << <<"rmBin", i>> >>
          /\ job'.todo # <<>> /\ Head(job'.todo) = <<"rmBin", i>>
      <3>1. CASE job.op = "delete"
        <4>1. job.todo = << <<"rmMeta", i>>, <<"rmBin", i>>, <<"rmReplay", i>> >>
          BY <1>6, <3>1
        <4> QED
          BY <1>1, <3>1, <4>1, Tails
      <3>2. CASE job.op = "consume"
        <4>1. job.todo = << <<"rmMeta", i>>, <<"rmBin", i>> >>
          BY <1>6, <3>2
        <4> QED
          BY <1>1, <3>2, <4>1, Tails
      <3> QED
        BY <3>1, <3>2
    <2>2. meta' = [meta EXCEPT ![i] = {}] /\ UNCHANGED <<bin, replay>>
      BY <1>1, <2>1, Touches
    <2>3. FilesInv'
      BY <1>1, <1>2, <1>4, <2>2, MetaGoes
    <2>4. meta'[i] = {} /\ \A j \in Ids \ {i} : bin'[j] = bin[j] /\ meta'[j] = meta[j]
      BY <1>2, <1>4, <2>2 DEF FilesTyped
    <2>5. JobInv'
      BY <1>5, <2>1, <2>4
    <2>6. Tidy'
      BY <1>1, <1>2, <2>1, <2>4, TidyElsewhere
    <2> QED
      BY <2>3, <2>5, <2>6 DEF StreamInv
  <1>7. CASE /\ meta[i] = {}
             /\ \/ /\ job.op = "delete"
                   /\ job.todo = << <<"rmBin", i>>, <<"rmReplay", i>> >>
                \/ job.op = "consume" /\ job.todo = << <<"rmBin", i>> >>
    <2>1. /\ Head(job.todo) = <<"rmBin", i>>
          /\ \/ job'.todo = <<>>
             \/ job.op = "delete" /\ job'.todo = << <<"rmReplay", i>> >>
      <3>1. CASE job.op = "delete"
        <4>1. job.todo = << <<"rmBin", i>>, <<"rmReplay", i>> >>
          BY <1>7, <3>1
        <4> QED
          BY <1>1, <3>1, <4>1, Tails
      <3>2. CASE job.op = "consume"
        <4>1. job.todo = << <<"rmBin", i>> >>
          BY <1>7, <3>2
        <4> QED
          BY <1>1, <3>2, <4>1, Tails
      <3> QED
        BY <3>1, <3>2
    <2>2. bin' = [bin EXCEPT ![i] = "none"] /\ UNCHANGED <<meta, replay>>
      BY <1>1, <2>1, Touches
    <2>3. FilesInv'
      BY <1>1, <1>2, <1>4, <1>7, <2>2, BinChanges
    <2>4. JobInv'
      BY <1>5, <2>1
    <2>5. Tidy'
      <3>1. i \notin Stored'
            /\ \A j \in Ids \ {i} : bin'[j] = bin[j] /\ meta'[j] = meta[j]
        BY <1>2, <2>2 DEF Stored, FilesTyped
      <3> QED
        BY <1>1, <1>2, <2>1, <3>1, TidyElsewhere
    <2> QED
      BY <2>3, <2>4, <2>5 DEF StreamInv
  <1>8. CASE job.op = "delete" /\ job.todo = << <<"rmReplay", i>> >>
    <2>1. Head(job.todo) = <<"rmReplay", i>> /\ job'.todo = <<>>
      BY <1>1, <1>8, Tails
    <2>2. replay' = [replay EXCEPT ![i] = {}] /\ UNCHANGED <<bin, meta>>
      BY <1>1, <2>1, Touches
    <2>3. FilesInv'
      BY <1>1, <1>2, <1>4, <2>2, ReplayGoes
    <2>4. JobInv'
      BY <1>5, <2>1
    <2>5. Tidy'
      <3>1. i \in Stored' => i \in Stored /\ bin'[i] = bin[i] /\ meta'[i] = meta[i]
        BY <2>2 DEF Stored
      <3>2. faults = 0 /\ i \in Stored => bin[i] = "whole" /\ meta[i] # {}
        BY <1>2, <2>1 DEF Tidy
      <3> QED
        BY <1>1, <1>2, <2>1, <2>2, <3>1, <3>2, TidyElsewhere
    <2> QED
      BY <2>3, <2>4, <2>5 DEF StreamInv
  <1> QED
    BY <1>3, <1>6, <1>7, <1>8

\* Retire writes the marker before it removes the reference and the bytes.
LEMMA RetireFileOK ==
  ASSUME StreamInv, FileStep, job.op = "retire"
  PROVE  StreamInv'
  <1>1. /\ job.todo # <<>> /\ Touch(Head(job.todo)[1], Head(job.todo)[2])
        /\ UNCHANGED <<handed, closed, kept, now, nextId, unread, faults>>
        /\ JobTyped' /\ job'.op = job.op /\ job'.ref = job.ref
        /\ job'.entries = job.entries /\ job'.until = job.until
        /\ job'.todo = Tail(job.todo)
    BY FileStepFrame
  <1>2. FilesInv /\ Tidy /\ FilesTyped /\ job.entries = {} /\ job.until \in Nat
    BY DEF StreamInv, FilesInv, JobInv, JobTyped, Jobs
  <1>3. PICK r \in handed :
          /\ job.ref = {r} /\ r.id \in closed /\ kept[r.id] <= job.until
          /\ \/ /\ job.todo = << <<"writeReplay", r.id>>, <<"rmMeta", r.id>>,
                                 <<"rmBin", r.id>> >>
                /\ meta[r.id] = {r}
             \/ /\ replay[r.id] = {[reference |-> r, until |-> job.until]}
                /\ \/ job.todo = << <<"rmMeta", r.id>>, <<"rmBin", r.id>> >>
                   \/ job.todo = << <<"rmBin", r.id>> >> /\ meta[r.id] = {}
    BY <1>1 DEF StreamInv, JobInv, RetireJob
  <1> DEFINE i == r.id
             m == [reference |-> r, until |-> job.until]
  <1>4. r \in References /\ i \in Ids
    BY <1>2, ReferenceFields DEF FilesTyped
  <1>5. ASSUME replay'[i] = {m},
               \/ job'.todo = <<>>
               \/ job'.todo = << <<"rmMeta", i>>, <<"rmBin", i>> >>
               \/ job'.todo = << <<"rmBin", i>> >> /\ meta'[i] = {}
        PROVE  JobInv'
    <2>1. RetireJob'
      BY <1>1, <1>3, <1>5 DEF RetireJob
    <2> QED
      BY <1>1, <1>2, <2>1 DEF JobInv
  <1>6. CASE /\ job.todo = << <<"writeReplay", i>>, <<"rmMeta", i>>, <<"rmBin", i>> >>
             /\ meta[i] = {r}
    <2>1. /\ Head(job.todo) = <<"writeReplay", i>>
          /\ job'.todo = << <<"rmMeta", i>>, <<"rmBin", i>> >>
      BY <1>1, <1>6, Tails
    <2>2. replay' = [replay EXCEPT ![i] = {m}] /\ UNCHANGED <<bin, meta>>
      BY <1>1, <1>3, <2>1, Touches
    <2>3. FilesInv'
      BY <1>1, <1>2, <1>3, <1>6, <2>2, ReplayComes
    <2>4. JobInv'
      BY <1>2, <1>4, <1>5, <2>1, <2>2 DEF FilesTyped
    <2>5. Tidy'
      <3>1. i \in Stored' => i \in Stored /\ bin'[i] = bin[i] /\ meta'[i] = meta[i]
        BY <2>2 DEF Stored
      <3>2. faults = 0 /\ i \in Stored => bin[i] = "whole" /\ meta[i] # {}
        BY <1>2, <2>1 DEF Tidy
      <3> QED
        BY <1>1, <1>2, <2>1, <2>2, <3>1, <3>2, TidyElsewhere
    <2> QED
      BY <2>3, <2>4, <2>5 DEF StreamInv
  <1>7. CASE /\ replay[i] = {m}
             /\ job.todo = << <<"rmMeta", i>>, <<"rmBin", i>> >>
    <2>1. /\ Head(job.todo) = <<"rmMeta", i>> /\ job'.todo = << <<"rmBin", i>> >>
          /\ job'.todo # <<>> /\ Head(job'.todo) = <<"rmBin", i>>
      BY <1>1, <1>7, Tails
    <2>2. meta' = [meta EXCEPT ![i] = {}] /\ UNCHANGED <<bin, replay>>
      BY <1>1, <2>1, Touches
    <2>3. \A s \in handed : s.id = i /\ now < Until(s) =>
            \E n \in replay[i] : n.reference = s /\ Until(s) <= n.until
      <3>1. m \in replay[i] /\ m.reference = r /\ m.until = job.until
        BY <1>7
      <3>2. \A s \in handed : s.id = i => s = r /\ Until(s) = kept[i]
        BY <1>2, <1>3 DEF FilesInv, OneReference, Until
      <3> QED
        BY <1>3, <3>1, <3>2
    <2>4. FilesInv'
      BY <1>1, <1>2, <1>4, <2>2, <2>3, MetaGoes
    <2>5. meta'[i] = {} /\ \A j \in Ids \ {i} : bin'[j] = bin[j] /\ meta'[j] = meta[j]
      BY <1>2, <1>4, <2>2 DEF FilesTyped
    <2>6. JobInv'
      BY <1>5, <1>7, <2>1, <2>2, <2>5
    <2>7. Tidy'
      BY <1>1, <1>2, <2>1, <2>5, TidyElsewhere
    <2> QED
      BY <2>4, <2>6, <2>7 DEF StreamInv
  <1>8. CASE /\ replay[i] = {m} /\ meta[i] = {}
             /\ job.todo = << <<"rmBin", i>> >>
    <2>1. Head(job.todo) = <<"rmBin", i>> /\ job'.todo = <<>>
      BY <1>1, <1>8, Tails
    <2>2. bin' = [bin EXCEPT ![i] = "none"] /\ UNCHANGED <<meta, replay>>
      BY <1>1, <2>1, Touches
    <2>3. FilesInv'
      BY <1>1, <1>2, <1>4, <1>8, <2>2, BinChanges
    <2>4. JobInv'
      BY <1>5, <1>8, <2>1, <2>2
    <2>5. Tidy'
      <3>1. i \notin Stored'
            /\ \A j \in Ids \ {i} : bin'[j] = bin[j] /\ meta'[j] = meta[j]
        BY <1>2, <2>2 DEF Stored, FilesTyped
      <3> QED
        BY <1>1, <1>2, <2>1, <3>1, TidyElsewhere
    <2> QED
      BY <2>3, <2>4, <2>5 DEF StreamInv
  <1> QED
    BY <1>3, <1>6, <1>7, <1>8

LEMMA FileStepOK == StreamInv /\ FileStep => StreamInv'
  <1> SUFFICES ASSUME StreamInv, FileStep
               PROVE  StreamInv'
    OBVIOUS
  <1>1. job.op # "idle"
    BY IdleFields DEF StreamInv, JobInv, FileStep
  <1>2. job.op \in {"put", "sweep", "create", "undo", "delete", "consume", "retire"}
    BY <1>1 DEF StreamInv, JobInv, JobTyped, Jobs
  <1> QED
    BY <1>2, SweepFileOK, CreateFileOK, UndoFileOK, DeleteFileOK, RetireFileOK

(***************************************************************************)
(* Steps that touch no file                                                *)
(***************************************************************************)
\* A reference that some file remembers may be handed out.
LEMMA HandsOut ==
  ASSUME FilesInv, NEW i \in Ids, NEW r \in RefsOf(i), handed' = handed \cup {r},
         UNCHANGED <<files, closed, kept, now, nextId, unread, faults>>
  PROVE  FilesInv'
  <1>1. r \in References /\ r.id = i
    BY MarkerFields DEF FilesInv, FilesTyped, RefsOf
  <1>2. FilesTyped'
    BY <1>1 DEF FilesInv, FilesTyped, files
  <1>3. FreshIds'
    <2>1. i < nextId
      <3>1. meta[i] # {} \/ replay[i] # {}
        BY DEF RefsOf
      <3> QED
        BY <3>1, StreamAssumption DEF FilesInv, FilesTyped, FreshIds, Ids
    <2> QED
      BY <1>1, <2>1 DEF FilesInv, FreshIds, files
  <1>4. OneReference'
    <2>1. \A s \in handed : s.id = i => s = r
      BY DEF FilesInv, OneReference
    <2>2. \A j \in Ids : RefsOf(j)' = RefsOf(j)
      BY DEF RefsOf, files
    <2>3. \A s \in handed' : s.id \in Ids
      BY <1>1, ReferenceFields DEF FilesInv, FilesTyped
    <2>4. \A s, t \in handed' : s.id = t.id => s = t
      BY <1>1, <2>1 DEF FilesInv, OneReference
    <2>5. \A s \in handed' : \A t \in RefsOf(s.id) : t = s
      BY <1>1 DEF FilesInv, OneReference
    <2> QED
      BY <2>2, <2>3, <2>4, <2>5 DEF FilesInv, OneReference
  <1>5. FilesWhole'
    BY DEF FilesInv, FilesWhole, files
  <1>6. ASSUME NEW s \in handed'
        PROVE  Recalled(s)'
    <2>1. CASE s \in handed
      BY <2>1 DEF FilesInv, Recalled, Until, files
    <2>2. CASE s = r /\ s \notin handed
      <3>1. r.id \notin closed
        BY <1>1, <2>2 DEF FilesInv, FreshIds, OneReference
      <3>2. replay[i] = {}
        BY <1>1, <3>1 DEF FilesInv, FilesWhole
      <3>3. meta[i] = {r}
        BY <3>2 DEF FilesInv, FilesTyped, RefsOf
      <3>4. r.expires \in Nat
        BY <1>1, ReferenceFields
      <3> QED
        BY <1>1, <2>2, <3>1, <3>3, <3>4 DEF Recalled, Until, files
    <2> QED
      BY <2>1, <2>2
  <1> QED
    BY <1>2, <1>3, <1>4, <1>5, <1>6 DEF FilesInv

\* A stream is closed, and its request kept for as long as a file remembers it.
LEMMA Closes ==
  ASSUME FilesInv, NEW r \in handed, NEW k \in Nat, closed' = closed \cup {r.id},
         kept' = [kept EXCEPT ![r.id] = k],
         UNCHANGED <<files, handed, now, nextId, unread, faults>>,
         \/ ~(now < k)
         \/ meta[r.id] = {r} /\ k <= r.expires
         \/ \E m \in replay[r.id] : m.reference = r /\ k <= m.until
  PROVE  FilesInv'
  <1>1. r.id \in Ids
    BY ReferenceFields DEF FilesInv, FilesTyped
  <1>2. FilesTyped'
    BY <1>1 DEF FilesInv, FilesTyped, files
  <1>3. FreshIds'
    <2>1. ~(r.id >= nextId)
      BY <1>1, StreamAssumption DEF FilesInv, FilesTyped, FreshIds, Ids
    <2> QED
      BY <2>1 DEF FilesInv, FreshIds, files
  <1>4. OneReference'
    <2>1. \A j : RefsOf(j)' = RefsOf(j)
      BY DEF RefsOf, files
    <2> QED
      BY <2>1 DEF FilesInv, OneReference
  <1>5. FilesWhole'
    BY DEF FilesInv, FilesWhole, files
  <1>6. ASSUME NEW s \in handed
        PROVE  Recalled(s)'
    <2>1. s.id \in Ids /\ Recalled(s)
      BY ReferenceFields DEF FilesInv, FilesTyped
    <2>2. CASE s.id = r.id
      <3>1. s = r
        BY <2>2 DEF FilesInv, OneReference
      <3>2. Until(s)' = k
        BY <1>1, <3>1 DEF Until, FilesInv, FilesTyped
      <3> QED
        BY <3>1, <3>2 DEF Recalled, files
    <2>3. CASE s.id # r.id
      <3>1. Until(s)' = Until(s)
        BY <1>1, <2>1, <2>3 DEF Until, FilesInv, FilesTyped
      <3> QED
        BY <2>1, <3>1 DEF Recalled, files
    <2> QED
      BY <2>2, <2>3
  <1> QED
    BY <1>2, <1>3, <1>4, <1>5, <1>6 DEF FilesInv

\* The operation that holds the mutex has no file left to touch; what the
\* next one assumes is up to it.
LEMMA TurnsTo ==
  ASSUME StreamInv, job.todo = <<>>, FilesInv', JobInv',
         UNCHANGED <<bin, meta>>, faults' = 0 => faults = 0
  PROVE  StreamInv'
  BY TidyBetween DEF StreamInv

\* What the invariant says after a failure.
LEMMA AfterFault ==
  ASSUME StreamInv, Fault, UNCHANGED <<files, handed, closed, kept, now, nextId, unread>>,
         JobInv'
  PROVE  StreamInv'
  <1>1. faults' \in Nat /\ faults' # 0
    BY DEF StreamInv, FilesInv, FilesTyped, Fault
  <1>2. FilesInv'
    BY <1>1, FilesKept DEF StreamInv, FilesInv, FilesTyped
  <1> QED
    BY <1>1, <1>2 DEF StreamInv, Tidy

\* A free store has no file to touch.
LEMMA FreeTodo == StreamInv /\ Free => job.todo = <<>>
  BY IdleFields DEF Free

LEMMA ConsumeMissingOK == StreamInv /\ ConsumeMissing => StreamInv'
  <1> SUFFICES ASSUME StreamInv, ConsumeMissing
               PROVE  StreamInv'
    OBVIOUS
  <1>1. /\ job.todo # <<>> /\ job.op = "consume" /\ job' = Idle
        /\ Missing(Head(job.todo)[1], Head(job.todo)[2])
        /\ UNCHANGED <<files, handed, closed, kept, now, nextId, unread, faults>>
    BY DEF ConsumeMissing, Fails, Fine, Outside
  <1>2. FilesInv /\ Tidy /\ faults \in Nat
    BY DEF StreamInv, FilesInv, FilesTyped
  <1>3. FilesInv' /\ JobInv'
    BY <1>1, <1>2, FilesKept, IdleOK DEF FilesInv, FilesTyped
  <1>4. PICK i \in Ids :
          \/ job.todo = << <<"rmMeta", i>>, <<"rmBin", i>> >>
          \/ job.todo = << <<"rmBin", i>> >> /\ meta[i] = {}
    BY <1>1 DEF StreamInv, FilesInv, FilesTyped, JobInv, ConsumeJob
  <1>5. /\ Head(job.todo) \in {<<"rmMeta", i>>, <<"rmBin", i>>}
        /\ \/ bin[i] = "none"
           \/ meta[i] = {} /\ Head(job.todo) = <<"rmMeta", i>>
    <2>1. CASE job.todo = << <<"rmMeta", i>>, <<"rmBin", i>> >>
      <3>1. Head(job.todo) = <<"rmMeta", i>>
        BY <2>1, Tails
      <3>2. Missing("rmMeta", i)
        BY <1>1, <3>1
      <3> QED
        BY <3>1, <3>2 DEF Missing
    <2>2. CASE job.todo = << <<"rmBin", i>> >>
      <3>1. Head(job.todo) = <<"rmBin", i>>
        BY <2>2, Tails
      <3>2. Missing("rmBin", i)
        BY <1>1, <3>1
      <3>3. bin[i] = "none"
        BY <3>2 DEF Missing
      <3> QED
        BY <3>1, <3>3
    <2> QED
      BY <1>4, <2>1, <2>2
  <1>6. faults = 0 => i \notin Stored
    BY <1>2, <1>5 DEF Tidy, Stored
  <1>7. PICK file : Head(job.todo) = <<file, i>>
    BY <1>5
  <1>8. Tidy'
    <2>1. \A j \in Ids \ {i} : bin'[j] = bin[j] /\ meta'[j] = meta[j]
      BY <1>1 DEF files
    <2>2. i \in Stored' => i \in Stored
      BY <1>1 DEF Stored, files
    <2> QED
      BY <1>1, <1>2, <1>6, <1>7, <2>1, <2>2, TidyElsewhere
  <1> QED
    BY <1>3, <1>8 DEF StreamInv

\* A sweep and the sweep of a Put go on with the next file.
LEMMA SweepGoesOn ==
  ASSUME StreamInv, job.op \in {"put", "sweep"}, job.todo # <<>>,
         job' = [job EXCEPT !.todo = Tail(@)],
         UNCHANGED <<files, handed, closed, kept, now, nextId, unread>>
  PROVE  JobInv'
  <1>1. /\ JobTyped' /\ job'.op = job.op /\ job'.ref = job.ref
        /\ job'.entries = job.entries /\ job'.todo = Tail(job.todo)
    BY Advances DEF StreamInv, JobInv
  <1>2. SweepJob /\ (job.op = "put" => PutJob)
    BY DEF StreamInv, JobInv
  <1>3. \A j \in Ids : Lapsed(j)' = Lapsed(j) /\ MarkerLapsed(j)' = MarkerLapsed(j)
    BY DEF Lapsed, MarkerLapsed, files
  <1>4. PICK i \in Ids :
          \/ job.todo = << <<"rmMeta", i>>, <<"rmBin", i>> >> /\ Lapsed(i)
          \/ job.todo = << <<"rmBin", i>> >> /\ Lapsed(i)
          \/ job.todo = << <<"rmReplay", i>> >> /\ MarkerLapsed(i)
    BY <1>2 DEF SweepJob
  <1>5. \/ job'.todo = <<>>
        \/ job'.todo = << <<"rmBin", i>> >> /\ Lapsed(i)
    <2>1. CASE job.todo = << <<"rmMeta", i>>, <<"rmBin", i>> >> /\ Lapsed(i)
      BY <1>1, <2>1, Tails
    <2>2. CASE job.todo = << <<"rmBin", i>> >>
      BY <1>1, <2>2, Tails
    <2>3. CASE job.todo = << <<"rmReplay", i>> >>
      BY <1>1, <2>3, Tails
    <2> QED
      BY <1>4, <2>1, <2>2, <2>3
  <1>6. SweepJob'
    BY <1>1, <1>2, <1>3, <1>5 DEF SweepJob
  <1>7. job.op = "put" => PutJob'
    BY <1>1, <1>2 DEF PutJob
  <1> QED
    BY <1>1, <1>6, <1>7 DEF JobInv

\* What came of a stream that is not created is removed.
LEMMA Undoes ==
  ASSUME StreamInv, job.op = "create", job.todo # <<>>,
         Head(job.todo)[1] # "createBin",
         job' = [job EXCEPT !.op = "undo",
                            !.todo = << <<"rmBin", Head(job.todo)[2]>> >>],
         UNCHANGED <<files, handed, closed, kept, now, nextId, unread>>
  PROVE  /\ JobInv'
         /\ \E i \in Ids : /\ Head(job.todo) \in {<<"fillBin", i>>, <<"writeMeta", i>>}
                           /\ job'.todo # <<>> /\ Head(job'.todo) = <<"rmBin", i>>
  <1>1. JobTyped /\ CreateJob /\ job.entries = {}
    BY DEF StreamInv, JobInv
  <1>2. PICK w \in job.ref :
          /\ Unknown(w.id) /\ meta[w.id] = {}
          /\ \/ job.todo = << <<"createBin", w.id>>, <<"fillBin", w.id>>,
                              <<"writeMeta", w.id>> >>
             \/ job.todo = << <<"fillBin", w.id>>, <<"writeMeta", w.id>> >>
             \/ job.todo = << <<"writeMeta", w.id>> >>
    BY <1>1 DEF CreateJob
  <1>3. w.id \in Ids
    BY <1>1, ReferenceFields DEF JobTyped, Jobs
  <1>4. Head(job.todo) \in {<<"fillBin", w.id>>, <<"writeMeta", w.id>>}
    <2>1. job.todo # << <<"createBin", w.id>>, <<"fillBin", w.id>>, <<"writeMeta", w.id>> >>
      BY Tails
    <2> QED
      BY <1>2, <2>1, Tails
  <1>5. job' = [job EXCEPT !.op = "undo", !.todo = << <<"rmBin", w.id>> >>]
    <2>1. Head(job.todo)[2] = w.id
      BY <1>4
    <2> QED
      BY <2>1
  <1>6. << <<"rmBin", w.id>> >> \in Seq(FileOps \X Ids)
    BY <1>3 DEF FileOps
  <1>7. /\ JobTyped' /\ job'.op = "undo" /\ job'.entries = {}
        /\ job'.todo = << <<"rmBin", w.id>> >>
    BY <1>1, <1>5, <1>6 DEF JobTyped, Jobs
  <1>8. Unknown(w.id)' /\ meta'[w.id] = {}
    BY <1>2 DEF Unknown, files
  <1>9. UndoJob'
    BY <1>3, <1>7, <1>8 DEF UndoJob
  <1>10. JobInv'
    BY <1>7, <1>9 DEF JobInv
  <1>11. job'.todo # <<>> /\ Head(job'.todo) = <<"rmBin", w.id>>
    BY <1>7, Tails
  <1> QED
    BY <1>3, <1>4, <1>10, <1>11

LEMMA FileFailsOK == StreamInv /\ FileFails => StreamInv'
  <1> SUFFICES ASSUME StreamInv, FileFails
               PROVE  StreamInv'
    OBVIOUS
  <1>1. /\ job.todo # <<>> /\ Fault
        /\ UNCHANGED <<files, handed, closed, kept, now, nextId, unread>>
        /\ \/ /\ job.op \in {"sweep", "put", "undo"}
              /\ job' = [job EXCEPT !.todo = Tail(@)]
           \/ /\ job.op = "create" /\ Head(job.todo)[1] # "createBin"
              /\ job' = [job EXCEPT !.op = "undo",
                                    !.todo = << <<"rmBin", Head(job.todo)[2]>> >>]
           \/ job' = Idle
    BY DEF FileFails, Fails, Outside
  <1>2. CASE job.op \in {"sweep", "put"} /\ job' = [job EXCEPT !.todo = Tail(@)]
    BY <1>1, <1>2, SweepGoesOn, AfterFault
  <1>3. CASE job.op = "undo" /\ job' = [job EXCEPT !.todo = Tail(@)]
    <2>1. /\ JobTyped' /\ job'.op = job.op /\ job'.entries = job.entries
          /\ job'.todo = Tail(job.todo)
      BY <1>1, <1>3, Advances DEF StreamInv, JobInv
    <2>2. UndoJob /\ job.entries = {}
      BY <1>3 DEF StreamInv, JobInv
    <2>3. job'.todo = <<>>
      <3>1. PICK i \in Ids : job.todo = << <<"rmBin", i>> >>
        BY <1>1, <2>2 DEF UndoJob
      <3>2. Tail(<< <<"rmBin", i>> >>) = <<>>
        BY Tails
      <3> QED
        BY <2>1, <3>1, <3>2
    <2>4. JobInv'
      BY <1>3, <2>1, <2>2, <2>3 DEF JobInv, UndoJob
    <2> QED
      BY <1>1, <2>4, AfterFault
  <1>4. CASE /\ job.op = "create" /\ Head(job.todo)[1] # "createBin"
             /\ job' = [job EXCEPT !.op = "undo",
                                   !.todo = << <<"rmBin", Head(job.todo)[2]>> >>]
    BY <1>1, <1>4, Undoes, AfterFault
  <1>5. CASE job' = Idle
    BY <1>1, <1>5, IdleOK, AfterFault
  <1> QED
    BY <1>1, <1>2, <1>3, <1>4, <1>5

LEMMA UploadBreaksOK == StreamInv /\ UploadBreaks => StreamInv'
  <1> SUFFICES ASSUME StreamInv, UploadBreaks
               PROVE  StreamInv'
    OBVIOUS
  <1>1. /\ job.todo # <<>> /\ job.op = "create" /\ Head(job.todo)[1] = "fillBin"
        /\ job' = [job EXCEPT !.op = "undo",
                              !.todo = << <<"rmBin", Head(job.todo)[2]>> >>]
        /\ UNCHANGED <<files, handed, closed, kept, now, nextId, unread, faults>>
    BY DEF UploadBreaks, Fine, Outside
  <1>2. JobInv' /\ \E i \in Ids : /\ Head(job.todo) \in {<<"fillBin", i>>, <<"writeMeta", i>>}
                                  /\ job'.todo # <<>> /\ Head(job'.todo) = <<"rmBin", i>>
    BY <1>1, Undoes
  <1>3. PICK i \in Ids : /\ Head(job.todo) \in {<<"fillBin", i>>, <<"writeMeta", i>>}
                         /\ job'.todo # <<>> /\ Head(job'.todo) = <<"rmBin", i>>
    BY <1>2
  <1>4. PICK file : Head(job.todo) = <<file, i>>
    BY <1>3
  <1>5. FilesInv'
    BY <1>1, FilesKept DEF StreamInv, FilesInv, FilesTyped
  <1>6. Tidy'
    <2>1. \A j \in Ids \ {i} : bin'[j] = bin[j] /\ meta'[j] = meta[j]
      BY <1>1 DEF files
    <2> QED
      BY <1>1, <1>3, <1>4, <2>1, TidyElsewhere DEF StreamInv
  <1> QED
    BY <1>2, <1>5, <1>6 DEF StreamInv

\* What a sweep finds has expired, for those who hold the reference too.
LEMMA FoundExpired ==
  ASSUME StreamInv
  PROVE  /\ ExpiredEntries \in SUBSET (Ids \X {"json", "replay"})
         /\ \A i \in Ids : /\ <<i, "json">> \in ExpiredEntries => Lapsed(i)
                           /\ <<i, "replay">> \in ExpiredEntries => MarkerLapsed(i)
  <1>1. ExpiredEntries \in SUBSET (Ids \X {"json", "replay"})
    BY DEF ExpiredEntries
  <1>2. ASSUME NEW i \in Ids, <<i, "json">> \in ExpiredEntries
        PROVE  Lapsed(i)
    <2>1. PICK r \in meta[i] : now >= r.expires
      BY <1>2 DEF ExpiredEntries
    <2>2. meta[i] = {r} /\ r \in RefsOf(i)
      BY DEF StreamInv, FilesInv, FilesTyped, RefsOf
    <2>3. \A s \in handed : s.id = i => s = r
      BY <2>2 DEF StreamInv, FilesInv, OneReference
    <2> QED
      BY <2>1, <2>2, <2>3 DEF Lapsed
  <1>3. ASSUME NEW i \in Ids, <<i, "replay">> \in ExpiredEntries
        PROVE  MarkerLapsed(i)
    <2>1. PICK m \in replay[i] : now >= m.until
      BY <1>3 DEF ExpiredEntries
    <2>2. replay[i] = {m}
      BY DEF StreamInv, FilesInv, FilesTyped
    <2> QED
      BY <2>1, <2>2 DEF MarkerLapsed
  <1> QED
    BY <1>1, <1>2, <1>3

LEMMA SweepEntryOK ==
  ASSUME StreamInv, NEW entry \in job.entries, SweepEntry(entry)
  PROVE  StreamInv'
  <1>1. /\ job.todo = <<>>
        /\ job' = [job EXCEPT !.entries = @ \ {entry}, !.todo = Removal(entry)]
        /\ UNCHANGED <<files, handed, closed, kept, now, nextId, unread, faults>>
    BY DEF SweepEntry, Fine, Outside
  <1>2. JobTyped /\ job.op \in {"put", "sweep"} /\ SweepJob
        /\ (job.op = "put" => PutJob)
    BY DEF StreamInv, JobInv
  <1>3. PICK i \in Ids, kind \in {"json", "replay"} : entry = <<i, kind>>
    BY <1>2 DEF JobTyped, Jobs
  <1>4. \/ /\ Removal(entry) = << <<"rmMeta", i>>, <<"rmBin", i>> >>
           /\ Lapsed(i)
        \/ Removal(entry) = << <<"rmReplay", i>> >> /\ MarkerLapsed(i)
    <2>1. CASE kind = "json"
      <3>1. Lapsed(i)
        BY <1>2, <1>3, <2>1 DEF SweepJob
      <3>2. entry[1] = i /\ entry[2] = "json"
        BY <1>3, <2>1
      <3> QED
        BY <3>1, <3>2 DEF Removal
    <2>2. CASE kind = "replay"
      <3>1. MarkerLapsed(i)
        BY <1>2, <1>3, <2>2 DEF SweepJob
      <3>2. entry[1] = i /\ entry[2] = "replay"
        BY <1>3, <2>2
      <3> QED
        BY <3>1, <3>2 DEF Removal
    <2> QED
      BY <2>1, <2>2
  <1>5. Removal(entry) \in Seq(FileOps \X Ids)
    <2>1. /\ << <<"rmMeta", i>>, <<"rmBin", i>> >> \in Seq(FileOps \X Ids)
          /\ << <<"rmReplay", i>> >> \in Seq(FileOps \X Ids)
      BY DEF FileOps
    <2> QED
      BY <1>4, <2>1
  <1>6. /\ JobTyped' /\ job'.op = job.op /\ job'.ref = job.ref
        /\ job'.entries = job.entries \ {entry} /\ job'.todo = Removal(entry)
    BY <1>1, <1>2, <1>5 DEF JobTyped, Jobs
  <1>7. \A j \in Ids : Lapsed(j)' = Lapsed(j) /\ MarkerLapsed(j)' = MarkerLapsed(j)
    BY <1>1 DEF Lapsed, MarkerLapsed, files
  <1>8. SweepJob'
    BY <1>2, <1>4, <1>6, <1>7 DEF SweepJob
  <1>9. job.op = "put" => PutJob'
    BY <1>1, <1>2, <1>6 DEF PutJob
  <1>10. JobInv'
    BY <1>2, <1>6, <1>8, <1>9 DEF JobInv
  <1>11. FilesInv'
    BY <1>1, FilesKept DEF StreamInv, FilesInv, FilesTyped
  <1> QED
    BY <1>1, <1>10, <1>11, TurnsTo DEF files

\* What a sweep removes has expired or could not be read.
LEMMA SweepsOK ==
  ASSUME StreamInv, NEW entries \in SUBSET Entries, Sweeps(entries),
         UNCHANGED <<files, handed, now>>
  PROVE  /\ unread \subseteq unread' /\ unread' \subseteq Ids \X {"sweep", "find"}
         /\ faults' \in Nat /\ (faults' = 0 => faults = 0)
         /\ entries \in SUBSET (Ids \X {"json", "replay"})
         /\ \A i \in Ids : /\ <<i, "json">> \in entries => Lapsed(i)'
                           /\ <<i, "replay">> \in entries => MarkerLapsed(i)'
  <1> DEFINE bad == entries \ ExpiredEntries
  <1>1. /\ unread' = unread \cup {<<entry[1], "sweep">> : entry \in bad}
        /\ Fine \/ Fault
    BY DEF Sweeps
  <1>2. entries \in SUBSET (Ids \X {"json", "replay"})
    BY DEF Entries
  <1>3. unread' \subseteq Ids \X {"sweep", "find"}
    BY <1>1, <1>2 DEF StreamInv, FilesInv, FilesTyped
  <1>4. faults' \in Nat /\ (faults' = 0 => faults = 0)
    BY <1>1 DEF StreamInv, FilesInv, FilesTyped, Fine, Fault
  <1>5. ASSUME NEW i \in Ids, NEW kind, <<i, kind>> \in bad
        PROVE  <<i, "sweep">> \in unread'
    <2>1. <<i, kind>>[1] = i
      OBVIOUS
    <2> QED
      BY <1>1, <1>5, <2>1
  <1>6. \A i \in Ids : /\ <<i, "json">> \in ExpiredEntries => Lapsed(i)'
                       /\ <<i, "replay">> \in ExpiredEntries => MarkerLapsed(i)'
    BY <1>1, FoundExpired DEF Lapsed, MarkerLapsed, files
  <1>7. ASSUME NEW i \in Ids
        PROVE  /\ <<i, "json">> \in entries => Lapsed(i)'
               /\ <<i, "replay">> \in entries => MarkerLapsed(i)'
    <2>1. CASE <<i, "sweep">> \in unread'
      BY <2>1 DEF Lapsed, MarkerLapsed
    <2>2. CASE <<i, "sweep">> \notin unread'
      BY <1>5, <1>6, <2>2
    <2> QED
      BY <2>1, <2>2
  <1> QED
    BY <1>1, <1>2, <1>3, <1>4, <1>7

\* A sweep begins, by itself or as the first part of a Put.
LEMMA BeginsSweep ==
  ASSUME StreamInv, Free, NEW op \in {"put", "sweep"}, NEW ref \in SUBSET References,
         NEW entries \in SUBSET Entries, Sweeps(entries),
         op = "put" => \E w \in ref : ref = {w} /\ w.id = nextId,
         job' \in Jobs, job'.op = op, job'.ref = ref, job'.entries = entries,
         job'.todo = <<>>,
         UNCHANGED <<files, handed, closed, kept, now, nextId>>
  PROVE  StreamInv'
  <1>1. /\ unread \subseteq unread' /\ unread' \subseteq Ids \X {"sweep", "find"}
        /\ faults' \in Nat /\ (faults' = 0 => faults = 0)
        /\ \A i \in Ids : /\ <<i, "json">> \in entries => Lapsed(i)'
                          /\ <<i, "replay">> \in entries => MarkerLapsed(i)'
    BY SweepsOK
  <1>2. JobTyped' /\ SweepJob'
    BY <1>1 DEF JobTyped, SweepJob
  <1>3. op = "put" => PutJob'
    BY DEF PutJob
  <1>4. JobInv'
    BY <1>2, <1>3 DEF JobInv
  <1>5. FilesInv'
    BY <1>1, FilesKept DEF StreamInv
  <1> QED
    BY <1>1, <1>4, <1>5, FreeTodo, TurnsTo DEF files

LEMMA SweepBeginsOK ==
  ASSUME StreamInv, NEW entries \in SUBSET Entries, Sweep(entries)
  PROVE  StreamInv'
  <1>1. /\ Free /\ job' = [Idle EXCEPT !.op = "sweep", !.entries = entries]
        /\ Sweeps(entries) /\ UNCHANGED <<files, handed, closed, kept, now, nextId>>
    BY DEF Sweep
  <1>2. entries \in SUBSET (Ids \X {"json", "replay"})
    BY <1>1, SweepsOK
  <1>3. /\ job' \in Jobs /\ job'.op = "sweep" /\ job'.ref = {}
        /\ job'.entries = entries /\ job'.todo = <<>>
    BY <1>1, <1>2, IdleFields DEF Jobs
  <1> QED
    BY <1>1, <1>3, BeginsSweep

LEMMA PutOK ==
  ASSUME StreamInv, NEW entries \in SUBSET Entries, NEW key \in Keys,
         NEW content \in Contents, NEW lifetime \in Lifetimes,
         Put(key, content, lifetime, entries)
  PROVE  StreamInv'
  <1> DEFINE w == [id |-> nextId, key |-> key, content |-> content,
                   expires |-> now + lifetime]
  <1>1. /\ Free /\ nextId <= MaxStreams /\ Sweeps(entries)
        /\ job' = [Idle EXCEPT !.op = "put", !.entries = entries, !.ref = {w}]
        /\ UNCHANGED <<files, handed, closed, kept, now, nextId>>
    BY DEF Put
  <1>2. w \in References /\ w.id = nextId
    BY <1>1, StreamAssumption DEF References, Ids, StreamInv, FilesInv, FilesTyped
  <1> HIDE DEF w
  <1>3. entries \in SUBSET (Ids \X {"json", "replay"})
    BY <1>1, SweepsOK
  <1>4. /\ job' \in Jobs /\ job'.op = "put" /\ job'.ref = {w}
        /\ job'.entries = entries /\ job'.todo = <<>>
    BY <1>1, <1>2, <1>3, IdleFields DEF Jobs
  <1> QED
    BY <1>1, <1>2, <1>4, BeginsSweep

\* The operation ends and leaves the files as they are.
LEMMA EndsIdle ==
  ASSUME StreamInv, job.todo = <<>>, job' = Idle,
         UNCHANGED <<files, handed, closed, kept, now, nextId, unread, faults>>
  PROVE  StreamInv'
  <1>1. FilesInv'
    BY FilesKept DEF StreamInv, FilesInv, FilesTyped
  <1> QED
    BY <1>1, IdleOK, TurnsTo DEF files

LEMMA SweepDoneOK == StreamInv /\ SweepDone => StreamInv'
  BY EndsIdle DEF SweepDone, Ready, Fails, Fine, Outside

LEMMA PutRefusedOK == StreamInv /\ PutRefused => StreamInv'
  <1> SUFFICES ASSUME StreamInv, PutRefused
               PROVE  StreamInv'
    OBVIOUS
  <1>1. /\ job.todo = <<>> /\ job' = Idle /\ (Fine \/ Fault)
        /\ UNCHANGED <<files, handed, closed, kept, now, nextId, unread>>
    BY DEF PutRefused, Ready, Fails, Outside
  <1>2. CASE Fine
    BY <1>1, <1>2, EndsIdle DEF Fine
  <1>3. CASE Fault
    BY <1>1, <1>3, IdleOK, AfterFault
  <1> QED
    BY <1>1, <1>2, <1>3

LEMMA UndoneOK == StreamInv /\ Undone => StreamInv'
  BY EndsIdle DEF Undone, Ready, Fails, Fine, Outside

\* The operation ends and hands out a reference that a file remembers.
LEMMA Returns ==
  ASSUME StreamInv, job.todo = <<>>, NEW i \in Ids, NEW r \in RefsOf(i), Return(r),
         UNCHANGED <<files, now, nextId, unread, faults>>
  PROVE  StreamInv'
  <1>1. FilesInv'
    BY HandsOut DEF StreamInv, Return
  <1>2. JobInv'
    BY IdleOK DEF Return
  <1> QED
    BY <1>1, <1>2, TurnsTo DEF files

LEMMA PutKnownOK == StreamInv /\ PutKnown => StreamInv'
  <1> SUFFICES ASSUME StreamInv, PutKnown
               PROVE  StreamInv'
    OBVIOUS
  <1>1. job.todo = <<>> /\ UNCHANGED <<files, now, nextId, unread, faults>>
    BY DEF PutKnown, Ready, Fine, Outside
  <1>2. PICK wanted \in job.ref : \E r \in Found(wanted.key) :
          IF r.content = wanted.content THEN Return(r) ELSE Fails
    BY DEF PutKnown
  <1>3. PICK r \in Found(wanted.key) : Return(r) \/ Fails
    BY <1>2
  <1>4. PICK i \in Ids : r \in RefsOf(i)
    BY DEF Found, RefsOf
  <1>5. CASE Return(r)
    BY <1>1, <1>4, <1>5, Returns
  <1>6. CASE Fails
    BY <1>1, <1>6, EndsIdle DEF Fails
  <1> QED
    BY <1>3, <1>5, <1>6

LEMMA CreatedOK == StreamInv /\ Created => StreamInv'
  <1> SUFFICES ASSUME StreamInv, Created
               PROVE  StreamInv'
    OBVIOUS
  <1>1. job.op = "create" /\ job.todo = <<>> /\ UNCHANGED <<files, now, nextId, unread, faults>>
    BY DEF Created, Ready, Fine, Outside
  <1>2. PICK r \in job.ref : Return(r)
    BY DEF Created
  <1>3. PICK w \in job.ref : job.ref = {w} /\ meta[w.id] = {w}
    BY <1>1, Tails DEF StreamInv, JobInv, CreateJob
  <1>4. w.id \in Ids /\ r = w /\ w \in RefsOf(w.id)
    BY <1>2, <1>3, ReferenceFields DEF StreamInv, JobInv, JobTyped, Jobs, RefsOf
  <1> QED
    BY <1>1, <1>2, <1>4, Returns

\* The stream gets its id: nobody knows it, and its request is new.
LEMMA CreateOK == StreamInv /\ Create => StreamInv'
  <1> SUFFICES ASSUME StreamInv, Create
               PROVE  StreamInv'
    OBVIOUS
  <1>1. /\ job.op = "put" /\ job.todo = <<>> /\ job.entries = {}
        /\ nextId' = nextId + 1
        /\ UNCHANGED <<files, handed, closed, kept, now>>
    BY DEF Create, Ready
  <1>2. PICK w \in job.ref :
          /\ NotFound(w.key)
          /\ job' = [job EXCEPT !.op = "create",
                       !.todo = << <<"createBin", w.id>>, <<"fillBin", w.id>>,
                                   <<"writeMeta", w.id>> >>]
    BY DEF Create
  <1>3. job \in Jobs /\ job.ref = {w} /\ w.id = nextId
    BY <1>1, <1>2 DEF StreamInv, JobInv, JobTyped, PutJob
  <1>4. w \in References /\ w.id \in Ids /\ w.id \in Nat
    BY <1>3, ReferenceFields DEF Jobs
  <1>n. /\ unread \subseteq unread' /\ unread' \subseteq Ids \X {"sweep", "find"}
        /\ faults' \in Nat /\ (faults' = 0 => faults = 0)
        /\ \A r \in Found(w.key) : <<r.id, "find">> \in unread'
    <2>1. faults \in Nat /\ unread \subseteq Ids \X {"sweep", "find"}
      BY DEF StreamInv, FilesInv, FilesTyped
    <2>2. CASE Found(w.key) = {} /\ Fine /\ UNCHANGED unread
      BY <2>1, <2>2 DEF Fine
    <2>3. CASE Fault /\ unread' = unread \cup {<<r.id, "find">> : r \in Found(w.key)}
      <3>1. \A r \in Found(w.key) : r.id \in Ids
        BY MarkerFields, ReferenceFields DEF Found, StreamInv, FilesInv, FilesTyped
      <3> QED
        BY <2>1, <2>3, <3>1 DEF Fault
    <2> QED
      BY <1>2, <2>2, <2>3 DEF NotFound
  <1>5. FilesInv'
    <2>1. FilesTyped'
      BY <1>1, <1>3, <1>4, <1>n, StreamAssumption
        DEF StreamInv, FilesInv, FilesTyped, Ids, files
    <2>2. FreshIds'
      <3>1. \A i \in Ids : i >= nextId + 1 => i >= nextId
        BY <1>3, <1>4 DEF Ids
      <3>2. \A r \in handed : r.id < nextId + 1
        BY <1>3, <1>4, ReferenceFields DEF StreamInv, FilesInv, FilesTyped, FreshIds
      <3> QED
        BY <1>1, <3>1, <3>2 DEF StreamInv, FilesInv, FreshIds, files
    <2>3. OneReference'
      <3>1. \A j : RefsOf(j)' = RefsOf(j)
        BY <1>1 DEF RefsOf, files
      <3> QED
        BY <1>1, <1>n, <3>1 DEF StreamInv, FilesInv, OneReference
    <2>4. FilesWhole' /\ \A r \in handed' : Recalled(r)'
      BY <1>1, <1>n DEF StreamInv, FilesInv, FilesWhole, Recalled, Until, files
    <2> QED
      BY <2>1, <2>2, <2>3, <2>4 DEF FilesInv
  <1>6. << <<"createBin", w.id>>, <<"fillBin", w.id>>, <<"writeMeta", w.id>> >>
          \in Seq(FileOps \X Ids)
    BY <1>4 DEF FileOps
  <1>7. /\ job' \in Jobs /\ job'.op = "create" /\ job'.ref = {w} /\ job'.entries = {}
        /\ job'.todo = << <<"createBin", w.id>>, <<"fillBin", w.id>>,
                          <<"writeMeta", w.id>> >>
    BY <1>1, <1>2, <1>3, <1>6 DEF Jobs
  <1>8. /\ bin[w.id] = "none" /\ meta[w.id] = {} /\ replay[w.id] = {}
        /\ w.id \notin closed /\ w.id < nextId + 1
        /\ \A r \in handed : r.id # w.id
    <2>1. w.id >= nextId /\ w.id < nextId + 1
      BY <1>3, <1>4
    <2>2. \A r \in handed : r.id \in Nat /\ r.id < w.id
      BY <1>3, ReferenceFields DEF StreamInv, FilesInv, FilesTyped, FreshIds
    <2> QED
      BY <1>4, <2>1, <2>2 DEF StreamInv, FilesInv, FreshIds
  <1>9. Unknown(w.id)'
    BY <1>1, <1>8 DEF Unknown, files
  <1>10. NewKey(w.key)'
    <2> SUFFICES ASSUME NEW i \in Ids, NEW r \in RefsOf(i), r.key = w.key
                 PROVE  <<i, "find">> \in unread'
      BY <1>1 DEF NewKey, RefsOf, files
    <2>1. r \in Found(w.key) /\ r.id = i
      BY DEF Found, RefsOf, StreamInv, FilesInv, FilesTyped
    <2> QED
      BY <1>n, <2>1
  <1>11. CreateJob'
    BY <1>1, <1>7, <1>8, <1>9, <1>10 DEF CreateJob, files
  <1>12. JobInv'
    BY <1>7, <1>11 DEF JobInv, JobTyped
  <1> QED
    BY <1>1, <1>n, <1>5, <1>12, TurnsTo DEF files

\* Delete, or Consume or a delivered download, which delete what they opened.
LEMMA DeletesOK ==
  ASSUME StreamInv, NEW r \in handed, Free, Close(r),
         \/ job' = [Idle EXCEPT !.op = "delete",
                      !.todo = << <<"rmMeta", r.id>>, <<"rmBin", r.id>>,
                                  <<"rmReplay", r.id>> >>]
         \/ job' = [Idle EXCEPT !.op = "consume",
                      !.todo = << <<"rmMeta", r.id>>, <<"rmBin", r.id>> >>],
         kept' = [kept EXCEPT ![r.id] = 0],
         UNCHANGED <<files, handed, now, nextId, unread, faults>>
  PROVE  StreamInv'
  <1>1. r.id \in Ids /\ now \in Nat /\ kept \in [Ids -> Nat]
    BY ReferenceFields, StreamAssumption DEF StreamInv, FilesInv, FilesTyped
  <1>2. FilesInv'
    <2>1. FilesInv /\ closed' = closed \cup {r.id} /\ 0 \in Nat /\ ~(now < 0)
      BY <1>1 DEF StreamInv, Close
    <2> QED
      BY <2>1, Closes
  <1>3. r.id \in closed' /\ kept'[r.id] = 0
    BY <1>1 DEF Close
  <1>4. /\ << <<"rmMeta", r.id>>, <<"rmBin", r.id>>, <<"rmReplay", r.id>> >>
             \in Seq(FileOps \X Ids)
        /\ << <<"rmMeta", r.id>>, <<"rmBin", r.id>> >> \in Seq(FileOps \X Ids)
    BY <1>1 DEF FileOps
  <1>5. /\ job' \in Jobs /\ job'.entries = {}
        /\ \/ /\ job'.op = "delete"
              /\ job'.todo = << <<"rmMeta", r.id>>, <<"rmBin", r.id>>,
                                <<"rmReplay", r.id>> >>
           \/ /\ job'.op = "consume"
              /\ job'.todo = << <<"rmMeta", r.id>>, <<"rmBin", r.id>> >>
    BY <1>4, IdleFields DEF Jobs
  <1>6. CASE job'.op = "delete"
    <2>1. DeleteJob'
      BY <1>3, <1>5, <1>6 DEF DeleteJob
    <2> QED
      BY <1>2, <1>5, <1>6, <2>1, FreeTodo, TurnsTo DEF JobInv, JobTyped, files
  <1>7. CASE job'.op = "consume"
    <2>1. ConsumeJob'
      BY <1>3, <1>5, <1>7 DEF ConsumeJob
    <2> QED
      BY <1>2, <1>5, <1>7, <2>1, FreeTodo, TurnsTo DEF JobInv, JobTyped, files
  <1> QED
    BY <1>5, <1>6, <1>7

LEMMA DeleteOK == ASSUME StreamInv, NEW r \in handed, Delete(r) PROVE StreamInv'
  BY DeletesOK DEF Delete, Fine, Outside

LEMMA DeliveredOK ==
  ASSUME StreamInv, NEW r \in handed, Delivered(r) PROVE StreamInv'
  BY DeletesOK DEF Delivered, Fine

LEMMA ConsumeOK == ASSUME StreamInv, NEW r \in handed, Consume(r) PROVE StreamInv'
  BY DeletesOK DEF Consume, Fine

\* The marker that is there remembers the request.
LEMMA RetireAgainOK ==
  ASSUME StreamInv, NEW r \in handed, RetireAgain(r)
  PROVE  StreamInv'
  <1>1. /\ Free /\ closed' = closed \cup {r.id}
        /\ UNCHANGED <<files, job, handed, now, nextId, unread, faults>>
    BY DEF RetireAgain, Close, Fine, Outside
  <1>2. PICK m \in replay[r.id] :
          m.reference = r /\ kept' = [kept EXCEPT ![r.id] = m.until]
    BY DEF RetireAgain
  <1>3. r.id \in Ids /\ m.until \in Nat
    BY ReferenceFields, MarkerFields DEF StreamInv, FilesInv, FilesTyped
  <1>4. FilesInv'
    <2>1. m.until <= m.until
      BY <1>3
    <2> QED
      BY <1>1, <1>2, <1>3, <2>1, Closes DEF StreamInv
  <1>5. JobInv'
    BY <1>1, IdleOK DEF Free
  <1> QED
    BY <1>1, <1>4, <1>5, FreeTodo, TurnsTo DEF files

\* Until the marker is written, the reference remembers the request.
LEMMA RetireOK ==
  ASSUME StreamInv, NEW r \in handed, NEW lifetime \in Lifetimes, Retire(r, lifetime)
  PROVE  StreamInv'
  <1> DEFINE k == Sooner(r.expires, now + lifetime)
             todo == << <<"writeReplay", r.id>>, <<"rmMeta", r.id>>, <<"rmBin", r.id>> >>
  <1>1. /\ Free /\ closed' = closed \cup {r.id} /\ meta[r.id] = {r}
        /\ job' = [op |-> "retire", ref |-> {r}, entries |-> {},
                   until |-> now + lifetime, todo |-> todo]
        /\ kept' = [kept EXCEPT ![r.id] = k]
        /\ UNCHANGED <<files, handed, now, nextId, unread, faults>>
    BY DEF Retire, Close, Fine, Outside
  <1>2. /\ r \in References /\ r.id \in Ids /\ now + lifetime \in Nat
        /\ k \in Nat /\ k <= r.expires /\ k <= now + lifetime /\ kept \in [Ids -> Nat]
    BY ReferenceFields, StreamAssumption
      DEF StreamInv, FilesInv, FilesTyped, Sooner
  <1> HIDE DEF k
  <1>3. FilesInv'
    BY <1>1, <1>2, Closes DEF StreamInv
  <1>4. todo \in Seq(FileOps \X Ids)
    BY <1>2 DEF FileOps
  <1>5. /\ job' \in Jobs /\ job'.op = "retire" /\ job'.ref = {r} /\ job'.entries = {}
        /\ job'.until = now + lifetime /\ job'.todo = todo
    BY <1>1, <1>2, <1>4 DEF Jobs
  <1>6. kept'[r.id] <= job'.until /\ r.id \in closed' /\ meta'[r.id] = {r}
    BY <1>1, <1>2, <1>5 DEF files
  <1>7. RetireJob'
    BY <1>1, <1>5, <1>6 DEF RetireJob
  <1>8. JobInv'
    BY <1>5, <1>7 DEF JobInv, JobTyped
  <1> QED
    BY <1>1, <1>3, <1>8, FreeTodo, TurnsTo DEF files

\* Once it has retired a stream, the marker's time counts.
LEMMA EndedOK == StreamInv /\ Ended => StreamInv'
  <1> SUFFICES ASSUME StreamInv, Ended
               PROVE  StreamInv'
    OBVIOUS
  <1>1. /\ job.op \in {"delete", "retire", "consume"} /\ job.todo = <<>> /\ job' = Idle
        /\ kept' = [i \in Ids |-> IF job.op = "retire" /\ \E r \in job.ref : r.id = i
                                   THEN job.until ELSE kept[i]]
        /\ UNCHANGED <<files, handed, closed, now, nextId, unread, faults>>
    BY DEF Ended, Ready, Fine, Outside
  <1>2. kept \in [Ids -> Nat] /\ job.until \in Nat /\ faults \in Nat
    BY DEF StreamInv, FilesInv, FilesTyped, JobInv, JobTyped, Jobs
  <1>3. FilesInv'
    <2>1. CASE job.op # "retire"
      <3>1. kept' = kept
        BY <1>1, <1>2, <2>1
      <3> QED
        BY <1>1, <1>2, <3>1, FilesKept DEF StreamInv, FilesInv, FilesTyped
    <2>2. CASE job.op = "retire"
      <3>1. PICK r \in handed :
              /\ job.ref = {r} /\ r.id \in closed
              /\ replay[r.id] = {[reference |-> r, until |-> job.until]}
        BY <1>1, <2>2, Tails DEF StreamInv, JobInv, RetireJob
      <3>2. kept' = [kept EXCEPT ![r.id] = job.until] /\ closed' = closed \cup {r.id}
        BY <1>1, <1>2, <2>2, <3>1
      <3>3. \E m \in replay[r.id] : m.reference = r /\ job.until <= m.until
        BY <1>2, <3>1
      <3> QED
        BY <1>1, <1>2, <3>2, <3>3, Closes DEF StreamInv
    <2> QED
      BY <2>1, <2>2
  <1> QED
    BY <1>1, <1>3, IdleOK, TurnsTo DEF files

\* Time passes: what has expired stays so.
LEMMA TickOK == StreamInv /\ Tick => StreamInv'
  <1> SUFFICES ASSUME StreamInv, Tick
               PROVE  StreamInv'
    OBVIOUS
  <1>1. /\ now < MaxTime /\ now' = now + 1 /\ now \in Nat /\ MaxTime \in Nat
        /\ UNCHANGED <<files, job, handed, closed, kept, nextId, unread, faults>>
    BY StreamAssumption DEF Tick, StreamInv, FilesInv, FilesTyped
  <1>2. \A n \in Nat : (now' < n => now < n) /\ (now >= n => now' >= n)
    BY <1>1
  <1>3. /\ \A i \in Ids : /\ \A r \in meta[i] : r.expires \in Nat
                          /\ \A m \in replay[i] : m.until \in Nat
        /\ \A r \in handed : r.expires \in Nat /\ Until(r) \in Nat
    BY ReferenceFields, MarkerFields DEF StreamInv, FilesInv, FilesTyped, Until
  <1>4. FilesInv'
    <2>1. FilesTyped'
      <3>1. now' \in 0 .. MaxTime
        BY <1>1
      <3> QED
        BY <1>1, <3>1 DEF StreamInv, FilesInv, FilesTyped, files
    <2>2. FreshIds'
      BY <1>1 DEF StreamInv, FilesInv, FreshIds, files
    <2>3. OneReference'
      <3>1. \A j : RefsOf(j)' = RefsOf(j)
        BY <1>1 DEF RefsOf, files
      <3> QED
        BY <1>1, <3>1 DEF StreamInv, FilesInv, OneReference
    <2>4. FilesWhole'
      BY <1>1, <1>2, <1>3 DEF StreamInv, FilesInv, FilesWhole, files
    <2>5. \A r \in handed' : Recalled(r)'
      <3>1. \A r \in handed : Until(r)' = Until(r)
        BY <1>1 DEF Until
      <3> QED
        BY <1>1, <1>2, <1>3, <3>1 DEF StreamInv, FilesInv, Recalled, files
    <2> QED
      BY <2>1, <2>2, <2>3, <2>4, <2>5 DEF FilesInv
  <1>5. \A j \in Ids : /\ Lapsed(j) => Lapsed(j)'
                       /\ MarkerLapsed(j) => MarkerLapsed(j)'
    BY <1>1, <1>2, <1>3 DEF Lapsed, MarkerLapsed, files
  <1>6. SweepJob => SweepJob'
    BY <1>1, <1>5 DEF SweepJob
  <1>7. /\ PutJob' = PutJob /\ DeleteJob' = DeleteJob /\ ConsumeJob' = ConsumeJob
        /\ RetireJob' = RetireJob
    BY <1>1 DEF PutJob, DeleteJob, ConsumeJob, RetireJob, files
  <1>8. \A i : Unknown(i)' = Unknown(i) /\ NewKey(i)' = NewKey(i)
    BY <1>1 DEF Unknown, NewKey, RefsOf, files
  <1>9. (CreateJob => CreateJob') /\ (UndoJob => UndoJob')
    BY <1>1, <1>8 DEF CreateJob, UndoJob, files
  <1>10. JobInv'
    BY <1>1, <1>6, <1>7, <1>9 DEF StreamInv, JobInv, JobTyped
  <1>11. Tidy'
    BY <1>1 DEF StreamInv, Tidy, Stored, files
  <1> QED
    BY <1>4, <1>10, <1>11 DEF StreamInv

LEMMA CrashOK == StreamInv /\ Crash => StreamInv'
  BY IdleOK, AfterFault DEF Crash

\* Downloads that begin or break off change nothing here.
LEMMA Looks ==
  ASSUME StreamInv, UNCHANGED <<files, job, handed, closed, kept, now, nextId, unread, faults>>
  PROVE  StreamInv'
  <1>1. FilesInv'
    BY FilesKept DEF StreamInv, FilesInv, FilesTyped
  <1>2. \A j : /\ Lapsed(j)' = Lapsed(j) /\ MarkerLapsed(j)' = MarkerLapsed(j)
               /\ Unknown(j)' = Unknown(j) /\ NewKey(j)' = NewKey(j)
    BY DEF Lapsed, MarkerLapsed, Unknown, NewKey, RefsOf, files
  <1>3. /\ SweepJob' = SweepJob /\ PutJob' = PutJob /\ DeleteJob' = DeleteJob
        /\ ConsumeJob' = ConsumeJob /\ RetireJob' = RetireJob
        /\ CreateJob' = CreateJob /\ UndoJob' = UndoJob
    BY <1>2 DEF SweepJob, PutJob, DeleteJob, ConsumeJob, RetireJob, CreateJob, UndoJob,
                files
  <1>4. JobInv'
    BY <1>3 DEF StreamInv, JobInv, JobTyped
  <1>5. Tidy'
    BY DEF StreamInv, Tidy, Stored, files
  <1> QED
    BY <1>1, <1>4, <1>5 DEF StreamInv

(***************************************************************************)
(* The theorems about StreamStore                                          *)
(***************************************************************************)
LEMMA StreamInitOK == Init => StreamInv
  <1> SUFFICES ASSUME Init
               PROVE  StreamInv
    OBVIOUS
  <1>1. FilesTyped
    BY StreamAssumption DEF Init, FilesTyped
  <1>2. FreshIds /\ FilesWhole /\ \A r \in handed : Recalled(r)
    BY DEF Init, FreshIds, FilesWhole
  <1>3. OneReference
    <2>1. \A i \in Ids : RefsOf(i) = {}
      BY DEF Init, RefsOf
    <2> QED
      BY <2>1 DEF Init, OneReference
  <1>4. JobInv
    BY IdleFields DEF Init, JobInv, JobTyped
  <1>5. Tidy
    BY DEF Init, Tidy, Stored
  <1> QED
    BY <1>1, <1>2, <1>3, <1>4, <1>5 DEF StreamInv, FilesInv

LEMMA StreamNextOK == StreamInv /\ [Next]_vars => StreamInv'
  <1> SUFFICES ASSUME StreamInv, [Next]_vars
               PROVE  StreamInv'
    OBVIOUS
  <1>1. CASE Working
    BY <1>1, FileStepOK, ConsumeMissingOK, FileFailsOK, UploadBreaksOK, SweepDoneOK,
       PutKnownOK, PutRefusedOK, CreateOK, CreatedOK, UndoneOK, EndedOK, SweepEntryOK
      DEF Working
  <1>2. CASE Crash \/ Tick
    BY <1>2, CrashOK, TickOK
  <1>3. ASSUME NEW entries \in SUBSET Entries,
               \/ Sweep(entries)
               \/ \E key \in Keys, content \in Contents, lifetime \in Lifetimes :
                    Put(key, content, lifetime, entries)
        PROVE  StreamInv'
    BY <1>3, SweepBeginsOK, PutOK
  <1>4. ASSUME NEW r \in handed,
               \/ Delete(r) \/ RetireAgain(r) \/ Delivered(r) \/ Consume(r)
               \/ \E lifetime \in Lifetimes : Retire(r, lifetime)
        PROVE  StreamInv'
    BY <1>4, DeleteOK, RetireAgainOK, DeliveredOK, ConsumeOK, RetireOK
  <1>5. ASSUME NEW r \in handed,
               Interrupted(r) \/ \E use \in {"download", "consume"} : Open(r, use)
        PROVE  StreamInv'
    BY <1>5, Looks DEF Interrupted, Open, Fine
  <1>6. CASE UNCHANGED vars
    BY <1>6, Looks DEF vars
  <1> QED
    BY <1>1, <1>2, <1>3, <1>4, <1>5, <1>6 DEF Next

\* The inductive invariant holds in every reachable state.
THEOREM StreamInvariance == Spec => []StreamInv
  <1> QED
    BY StreamInitOK, StreamNextOK, PTL DEF Spec

LEMMA StreamImplies == StreamInv => TypeOK /\ OpenableUntilExpiry /\ OneStreamPerRequest
  <1> SUFFICES ASSUME StreamInv
               PROVE  TypeOK /\ OpenableUntilExpiry /\ OneStreamPerRequest
    OBVIOUS
  <1>1. TypeOK
    <2>1. faults = 0 /\ Free => \A i \in Stored : bin[i] = "whole" /\ meta[i] # {}
      BY FreeTodo DEF StreamInv, Tidy
    <2> QED
      BY <2>1 DEF StreamInv, FilesInv, FilesTyped, JobInv, JobTyped, Jobs, TypeOK
  <1>2. \A r \in handed : r.id \in Ids
    BY ReferenceFields DEF StreamInv, FilesInv, FilesTyped
  <1>3. OpenableUntilExpiry
    <2> SUFFICES ASSUME NEW r \in handed, now < r.expires, r.id \notin closed,
                        <<r.id, "sweep">> \notin unread
                 PROVE  Openable(r)
      BY DEF OpenableUntilExpiry
    <2>1. Recalled(r) /\ replay[r.id] = {}
      BY <1>2 DEF StreamInv, FilesInv, FilesWhole
    <2>2. meta[r.id] = {r}
      BY <2>1 DEF Recalled, Until
    <2>3. bin[r.id] = "whole"
      BY <1>2, <2>2 DEF StreamInv, FilesInv, FilesWhole
    <2> QED
      BY <2>2, <2>3 DEF Openable
  <1>4. OneStreamPerRequest
    <2>1. ASSUME NEW r \in handed, Remembered(r)
          PROVE  r \in RefsOf(r.id)
      BY <2>1 DEF StreamInv, FilesInv, Recalled, Until, Remembered, RefsOf
    <2>2. ASSUME NEW r \in handed, NEW s \in handed, r.key = s.key,
                 Remembered(r), Remembered(s)
          PROVE  r = s
      <3>1. r.id = s.id
        BY <1>2, <2>1, <2>2 DEF StreamInv, FilesInv, OneReference, Remembered
      <3> QED
        BY <3>1 DEF StreamInv, FilesInv, OneReference
    <2> QED
      BY <2>2 DEF OneStreamPerRequest
  <1> QED
    BY <1>1, <1>3, <1>4

\* Files, markers and the operation in progress have their types, a reference
\* is kept under its own id, and as long as nothing failed no bytes are left
\* without a reference.
THEOREM StreamTypeCorrectness == Spec => []TypeOK
  <1> QED
    BY StreamInvariance, StreamImplies, PTL

\* A reference returned by Put opens until it expires or is itself closed,
\* whatever crashes, fails or is swept, unless a sweep fails to read that
\* stream's own metadata, which it then removes.
THEOREM ReferencesOpen == Spec => []OpenableUntilExpiry
  <1> QED
    BY StreamInvariance, StreamImplies, PTL

\* No two references of one request while it is remembered, also across an
\* interrupted retirement, for streams whose files every sweep and lookup
\* could read.
THEOREM RequestsAreIdempotent == Spec => []OneStreamPerRequest
  <1> QED
    BY StreamInvariance, StreamImplies, PTL

(***************************************************************************)
(* The two stores together                                                 *)
(***************************************************************************)
\* Neither store's step disturbs the other: a broker with both keeps what
\* each of them promises.
THEOREM StoresInvariance == StoresSpec => [](StreamInv /\ SealedInv)
  <1>1. StoresInit => StreamInv /\ SealedInv
    BY StreamInitOK, SealedInitOK DEF StoresInit
  <1>2. StreamInv /\ SealedInv /\ [StoresNext]_storeVars => (StreamInv /\ SealedInv)'
    <2> SUFFICES ASSUME StreamInv, SealedInv, [StoresNext]_storeVars
                 PROVE  StreamInv' /\ SealedInv'
      OBVIOUS
    <2>1. [Next]_vars /\ [SealedNext]_sealedVars
      BY DEF StoresNext, storeVars
    <2> QED
      BY <2>1, StreamNextOK, SealedNextOK
  <1> QED
    BY <1>1, <1>2, PTL DEF StoresSpec

\* Both stores hold what their formats allow.
THEOREM StoresTypeCorrectness == StoresSpec => []StoresTypeOK
  <1>1. StreamInv /\ SealedInv => StoresTypeOK
    BY StreamImplies, EnvelopesCases DEF StoresTypeOK, SealedInv, Filed, SealedTypeOK
  <1> QED
    BY <1>1, StoresInvariance, PTL
===============================================================================
