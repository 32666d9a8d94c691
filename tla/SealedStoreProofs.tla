-------------------------- MODULE SealedStoreProofs --------------------------
(***************************************************************************)
(* Proofs about SealedStore, for any uploads, secrets, caps, lifetimes,    *)
(* retention and number of payloads.                                       *)
(***************************************************************************)
EXTENDS SealedStore, TLAPS

(***************************************************************************)
(* The inductive invariant                                                 *)
(***************************************************************************)
\* What the file of payload i may hold: nothing, an envelope cut short, or
\* the envelope or the marker of a reference to i.
Envelopes(i) ==
  {None, Torn} \cup {Sealed(r) : r \in {r \in PayloadRefs : r.id = i}}
               \cup {Consumed(r) : r \in {r \in PayloadRefs : r.id = i}}

Filed ==
  /\ clock \in 0 .. MaxClock /\ nextPayload \in 1 .. MaxPayloads + 1
  /\ DOMAIN envelope = Payloads
  /\ \A i \in Payloads : envelope[i] \in Envelopes(i)
  /\ issued \subseteq PayloadRefs
  /\ revealed \subseteq [ref : issued, at : 0 .. clock]
  /\ misread \subseteq Payloads

\* Ids are given out in order, so one id is one reference.
Fresh ==
  /\ \A i \in Payloads : i >= nextPayload => envelope[i] = None
  /\ \A r \in issued : r.id < nextPayload
  /\ \A r, s \in issued : r.id = s.id => r = s

\* Every valid file belongs to a reference that was given out, and no two of
\* them to one upload unless a lookup could not read one.
OneFilePerUpload ==
  /\ \A i \in Payloads : Valid(envelope[i]) => envelope[i].ref \in issued
  /\ \A i, j \in Payloads :
       /\ Valid(envelope[i]) /\ Valid(envelope[j])
       /\ envelope[i].ref.upload = envelope[j].ref.upload
       => i = j \/ i \in misread \/ j \in misread

\* A revealed payload is marked until its retention is over, unless a sweep
\* could not read the marker.
Marked ==
  \A use \in revealed :
    \/ envelope[use.ref.id] = Consumed(use.ref)
    \/ /\ envelope[use.ref.id] = None
       /\ \/ use.ref.id \in misread
          \/ clock >= use.ref.expires + MarkerRetention

SealedInv == Filed /\ Fresh /\ OneFilePerUpload /\ Marked /\ SecretRevealedOnce

(***************************************************************************)
(* Lemmas about the files                                                  *)
(***************************************************************************)
\* The cases of a file's contents.
LEMMA EnvelopesCases ==
  ASSUME NEW i, NEW e \in Envelopes(i)
  PROVE  \/ e = None /\ ~Valid(e)
         \/ e = Torn /\ ~Valid(e)
         \/ /\ Valid(e) /\ e.ref \in PayloadRefs /\ e.ref.id = i
            /\ \/ e = Sealed(e.ref) /\ e.state = "sealed"
               \/ e = Consumed(e.ref) /\ e.state = "consumed"
  BY DEF Envelopes, None, Torn, Sealed, Consumed, Valid

\* An expiry is a number.
LEMMA ExpiryType ==
  ASSUME NEW r \in PayloadRefs
  PROVE  r.id \in Payloads /\ r.expires \in Nat
  BY DEF PayloadRefs

\* A sweep keeps a file or removes it; it removes a marker only when its
\* retention is over or the marker could not be read.
LEMMA RemainingCases ==
  ASSUME Filed, NEW gone, NEW i \in Payloads
  PROVE  /\ DOMAIN Remaining(gone) = Payloads
         /\ Remaining(gone)[i] \in Envelopes(i)
         /\ i \notin gone => Remaining(gone)[i] = envelope[i]
         /\ i \in gone => Remaining(gone)[i] = None
         /\ \A r \in PayloadRefs :
              envelope[i] = Consumed(r) =>
                \/ Remaining(gone)[i] = Consumed(r)
                \/ /\ Remaining(gone)[i] = None
                   /\ i \in Unreadable(gone) \/ clock >= r.expires + MarkerRetention
  <1>1. DOMAIN Remaining(gone) = Payloads
    BY DEF Remaining
  <1>2. Remaining(gone)[i] = IF i \in gone THEN None ELSE envelope[i]
    BY DEF Remaining
  <1>3. None \in Envelopes(i) /\ envelope[i] \in Envelopes(i)
    BY DEF Filed, Envelopes
  <1>4. ASSUME NEW r \in PayloadRefs, envelope[i] = Consumed(r),
               Sweepable(envelope[i])
        PROVE  clock >= r.expires + MarkerRetention
    BY <1>4 DEF Sweepable, Consumed
  <1>5. i \in gone /\ ~Sweepable(envelope[i]) => i \in Unreadable(gone)
    BY DEF Unreadable
  <1> QED
    BY <1>1, <1>2, <1>3, <1>4, <1>5

\* A revealed payload stays marked, or its marker could not be read.
LEMMA RemainingMarked ==
  ASSUME SealedInv, NEW gone, NEW use \in revealed
  PROVE  \/ Remaining(gone)[use.ref.id] = Consumed(use.ref)
         \/ /\ Remaining(gone)[use.ref.id] = None
            /\ \/ use.ref.id \in misread \cup Unreadable(gone)
               \/ clock >= use.ref.expires + MarkerRetention
  <1>1. use.ref \in PayloadRefs /\ use.ref.id \in Payloads
    BY ExpiryType DEF SealedInv, Filed
  <1>2. CASE envelope[use.ref.id] = Consumed(use.ref)
    BY <1>1, <1>2, RemainingCases DEF SealedInv
  <1>3. CASE /\ envelope[use.ref.id] = None
             /\ \/ use.ref.id \in misread
                \/ clock >= use.ref.expires + MarkerRetention
    BY <1>1, <1>3, RemainingCases DEF SealedInv
  <1> QED
    BY <1>2, <1>3 DEF SealedInv, Marked

\* Sweeping preserves what the invariant says of the files.
LEMMA SweepOK ==
  ASSUME SealedInv, NEW gone \in SUBSET Files, envelope' = Remaining(gone),
         misread' = misread \cup Unreadable(gone), issued' = issued,
         UNCHANGED <<clock, nextPayload, revealed>>
  PROVE  SealedInv'
  <1>1. Filed'
    <2>1. /\ DOMAIN Remaining(gone) = Payloads
          /\ \A i \in Payloads : Remaining(gone)[i] \in Envelopes(i)
      BY RemainingCases DEF SealedInv, Remaining
    <2>2. misread' \subseteq Payloads
      BY DEF SealedInv, Filed, Unreadable, Files
    <2> QED
      BY <2>1, <2>2 DEF SealedInv, Filed
  <1>2. Fresh'
    BY RemainingCases DEF SealedInv, Filed, Fresh
  <1>3. \A i \in Payloads :
          Valid(envelope'[i]) => envelope'[i] = envelope[i] /\ Valid(envelope[i])
    BY RemainingCases DEF SealedInv, Valid, None
  <1>4. OneFilePerUpload'
    BY <1>3 DEF SealedInv, OneFilePerUpload, Valid
  <1>5. Marked'
    BY RemainingMarked DEF Marked, Consumed, None
  <1>6. SecretRevealedOnce'
    BY DEF SealedInv, SecretRevealedOnce
  <1> QED
    BY <1>1, <1>2, <1>4, <1>5, <1>6 DEF SealedInv

\* A reference that was given out and is readable is the one in its file.
LEMMA ReadableRef ==
  ASSUME SealedInv, NEW r \in issued, Readable(r)
  PROVE  /\ r \in PayloadRefs /\ r.id \in Payloads /\ r.expires \in Nat
         /\ envelope[r.id] = Sealed(r) /\ Valid(envelope[r.id])
         /\ envelope[r.id].ref = r /\ clock < r.expires
  BY ExpiryType DEF SealedInv, Filed, Readable, Sealed, Valid

\* The replacement of an envelope by its marker preserves the files' part.
LEMMA MarkerOK ==
  ASSUME SealedInv, NEW r \in issued, Readable(r),
         envelope' = [envelope EXCEPT ![r.id] = Consumed(r)],
         UNCHANGED <<clock, nextPayload, issued, misread>>
  PROVE  /\ Fresh' /\ OneFilePerUpload'
         /\ DOMAIN envelope' = Payloads
         /\ \A i \in Payloads : envelope'[i] \in Envelopes(i)
         /\ envelope'[r.id] = Consumed(r)
         /\ \A i \in Payloads : i # r.id => envelope'[i] = envelope[i]
         /\ \A use \in revealed : use.ref.id # r.id
  <1>1. /\ r \in PayloadRefs /\ r.id \in Payloads
        /\ envelope[r.id] = Sealed(r) /\ Valid(envelope[r.id])
        /\ envelope[r.id].ref = r
    BY ReadableRef
  <1>2. /\ DOMAIN envelope' = Payloads /\ envelope'[r.id] = Consumed(r)
        /\ \A i \in Payloads : i # r.id => envelope'[i] = envelope[i]
    BY <1>1 DEF SealedInv, Filed
  <1>3. Consumed(r) \in Envelopes(r.id)
    BY <1>1 DEF Envelopes
  <1>4. \A i \in Payloads : envelope'[i] \in Envelopes(i)
    BY <1>2, <1>3 DEF SealedInv, Filed
  <1>5. Fresh'
    <2>1. r.id < nextPayload /\ nextPayload \in Nat /\ r.id \in Nat
      BY <1>1, SealedAssumption DEF SealedInv, Fresh, Filed, Payloads
    <2> QED
      BY <1>2, <2>1 DEF SealedInv, Fresh, Payloads
  <1>6. Valid(Consumed(r)) /\ Consumed(r).ref = r
    BY DEF Valid, Consumed
  <1>7. \A i \in Payloads : /\ Valid(envelope'[i]) <=> Valid(envelope[i])
                            /\ Valid(envelope[i]) => envelope'[i].ref = envelope[i].ref
    BY <1>1, <1>2, <1>6
  <1>8. OneFilePerUpload'
    BY <1>7 DEF SealedInv, OneFilePerUpload, Valid
  <1>9. ASSUME NEW use \in revealed PROVE use.ref.id # r.id
    <2>1. \/ envelope[use.ref.id] = Consumed(use.ref)
          \/ envelope[use.ref.id] = None
      BY DEF SealedInv, Marked
    <2>2. Sealed(r) # None /\ Sealed(r) # Consumed(use.ref)
      BY DEF Sealed, None, Consumed
    <2> QED
      BY <1>1, <2>1, <2>2
  <1> QED
    BY <1>2, <1>4, <1>5, <1>8, <1>9

(***************************************************************************)
(* The operations                                                          *)
(***************************************************************************)
LEMMA PutPayloadAgainOK ==
  ASSUME SealedInv, NEW gone \in SUBSET Files, NEW upload, NEW secret,
         PutPayloadAgain(gone, upload, secret)
  PROVE  SealedInv'
  <1>1. issued' = issued
    <2>1. PICK i \in Earlier(gone, upload) :
            issued' = IF envelope[i].ref.secret = secret
                      THEN issued \cup {envelope[i].ref} ELSE issued
      BY DEF PutPayloadAgain
    <2>2. i \in Payloads /\ Valid(envelope[i])
      BY DEF Earlier, Files
    <2>3. envelope[i].ref \in issued
      BY <2>2 DEF SealedInv, OneFilePerUpload
    <2> QED
      BY <2>1, <2>3
  <1> QED
    BY <1>1, SweepOK DEF PutPayloadAgain

\* A new payload has a new id, and a file only when no other file that could
\* be read has its upload.
LEMMA PutPayloadOK ==
  ASSUME SealedInv, NEW gone \in SUBSET Files, NEW upload \in Uploads,
         NEW secret \in Secrets, NEW lifetime \in PayloadLifetimes,
         PutPayload(gone, upload, secret, lifetime)
  PROVE  SealedInv'
  <1> DEFINE r == [id |-> nextPayload, upload |-> upload, secret |-> secret,
                   expires |-> clock + lifetime]
             n == nextPayload
  <1>1. /\ n \in Payloads /\ n' = n + 1 /\ n \in Nat
        /\ clock \in Nat /\ lifetime \in Nat
        /\ UNCHANGED <<clock, revealed>>
        /\ misread' = misread \cup Unreadable(gone) \cup Earlier(gone, upload)
    BY SealedAssumption DEF SealedInv, Filed, PutPayload, Payloads
  <1>2. r \in PayloadRefs /\ r.id = n /\ r.upload = upload
    BY <1>1 DEF PayloadRefs
  <1>3. PICK e \in {Sealed(r), Torn} :
          /\ envelope' = [Remaining(gone) EXCEPT ![n] = e]
          /\ e = Sealed(r) => issued' = issued \cup {r}
          /\ e = Torn => issued' = issued
    <2>1. Sealed(r) # Torn
      BY DEF Sealed, Torn
    <2>2. \/ envelope' = [Remaining(gone) EXCEPT ![r.id] = Sealed(r)] /\ issued' = issued \cup {r}
          \/ envelope' = [Remaining(gone) EXCEPT ![r.id] = Torn] /\ issued' = issued
      BY DEF PutPayload
    <2> QED
      BY <1>2, <2>1, <2>2
  <1> HIDE DEF r
  <1>4. /\ e = Sealed(r) => Valid(e) /\ e.ref = r
        /\ e = Torn => ~Valid(e)
        /\ Sealed(r) # Torn /\ e \in Envelopes(n)
    BY <1>2 DEF Sealed, Torn, Valid, Envelopes
  <1>5. /\ DOMAIN envelope' = Payloads /\ envelope'[n] = e
        /\ \A i \in Payloads : i # n => envelope'[i] = Remaining(gone)[i]
    <2>1. DOMAIN Remaining(gone) = Payloads
      BY DEF Remaining
    <2> QED
      BY <1>1, <1>3, <2>1
  <1>6. \A i \in Payloads :
          /\ Remaining(gone)[i] \in Envelopes(i)
          /\ \/ Remaining(gone)[i] = envelope[i] /\ i \notin gone
             \/ Remaining(gone)[i] = None
    BY RemainingCases DEF SealedInv
  <1>7. \A s \in issued : s \in PayloadRefs /\ s.id \in Payloads /\ s.id < n
    BY ExpiryType DEF SealedInv, Filed, Fresh
  <1>8. issued \subseteq issued' /\ issued' \subseteq issued \cup {r}
    BY <1>3
  <1>9. Filed'
    <2>1. \A i \in Payloads : envelope'[i] \in Envelopes(i)
      BY <1>4, <1>5, <1>6
    <2>2. revealed \subseteq [ref : issued', at : 0 .. clock]
      BY <1>8 DEF SealedInv, Filed
    <2>3. n' \in 1 .. MaxPayloads + 1
      BY <1>1, SealedAssumption DEF Payloads
    <2>4. issued' \subseteq PayloadRefs /\ clock \in 0 .. MaxClock
      BY <1>2, <1>8 DEF SealedInv, Filed
    <2>5. misread' \subseteq Payloads
      BY <1>1 DEF SealedInv, Filed, Unreadable, Earlier, Files
    <2> QED
      BY <1>1, <1>5, <2>1, <2>2, <2>3, <2>4, <2>5 DEF Filed
  <1>10. Fresh'
    <2>1. ASSUME NEW i \in Payloads, i >= n' PROVE envelope'[i] = None
      <3>1. i # n /\ i >= n
        BY <1>1, <2>1 DEF Payloads
      <3> QED
        BY <1>5, <1>6, <3>1 DEF SealedInv, Fresh
    <2>2. \A s \in issued' : s.id < n'
      BY <1>1, <1>2, <1>7, <1>8 DEF Payloads
    <2>3. \A s, t \in issued' : s.id = t.id => s = t
      BY <1>1, <1>2, <1>7, <1>8 DEF SealedInv, Fresh, Payloads
    <2> QED
      BY <2>1, <2>2, <2>3 DEF Fresh, None
  <1>11. OneFilePerUpload'
    <2>1. ASSUME NEW i \in Payloads, i # n, Valid(envelope'[i])
          PROVE  /\ envelope'[i] = envelope[i] /\ Valid(envelope[i])
                 /\ envelope[i].ref \in issued
                 /\ envelope[i].ref.upload = upload => i \in misread'
      <3>1. Remaining(gone)[i] = envelope[i] /\ Valid(envelope[i]) /\ i \notin gone
        BY <1>5, <1>6, <2>1 DEF None, Valid
      <3>2. i \in Files \ gone
        BY <3>1 DEF Files, Valid
      <3>3. envelope[i].ref.upload = upload => i \in Earlier(gone, upload)
        BY <3>1, <3>2 DEF Earlier
      <3> QED
        BY <1>1, <1>5, <2>1, <3>1, <3>3 DEF SealedInv, OneFilePerUpload
    <2>2. Valid(envelope'[n]) => envelope'[n].ref = r /\ r \in issued'
      BY <1>3, <1>4, <1>5
    <2>3. \A i \in Payloads : Valid(envelope'[i]) => envelope'[i].ref \in issued'
      BY <1>8, <2>1, <2>2
    <2>4. ASSUME NEW i \in Payloads, NEW j \in Payloads,
                 Valid(envelope'[i]), Valid(envelope'[j]),
                 envelope'[i].ref.upload = envelope'[j].ref.upload
          PROVE  i = j \/ i \in misread' \/ j \in misread'
      BY <1>1, <1>2, <2>1, <2>2, <2>4 DEF SealedInv, OneFilePerUpload
    <2> QED
      BY <2>3, <2>4 DEF OneFilePerUpload, Valid
  <1>12. Marked'
    <2> SUFFICES ASSUME NEW use \in revealed
                 PROVE  \/ envelope'[use.ref.id] = Consumed(use.ref)
                        \/ /\ envelope'[use.ref.id] = None
                           /\ \/ use.ref.id \in misread'
                              \/ clock >= use.ref.expires + MarkerRetention
      BY <1>1 DEF Marked, Consumed, None
    <2>1. use.ref \in issued
      BY DEF SealedInv, Filed
    <2>2. use.ref.id \in Payloads /\ use.ref.id # n
      BY <1>1, <1>7, <2>1 DEF Payloads
    <2> QED
      BY <1>1, <1>5, <2>2, RemainingMarked
  <1>13. SecretRevealedOnce'
    BY <1>1 DEF SealedInv, SecretRevealedOnce
  <1> QED
    BY <1>9, <1>10, <1>11, <1>12, <1>13 DEF SealedInv

\* A secret is revealed only while its envelope is sealed; what was revealed
\* of the same upload before has no marker any more, so its retention is over.
LEMMA ConsumePayloadOK ==
  ASSUME SealedInv, NEW r \in issued, ConsumePayload(r)
  PROVE  SealedInv'
  <1> DEFINE new == [ref |-> r, at |-> clock]
  <1>1. /\ Readable(r) /\ envelope' = [envelope EXCEPT ![r.id] = Consumed(r)]
        /\ UNCHANGED <<clock, nextPayload, issued, misread>>
        /\ revealed' = revealed \/ revealed' = revealed \cup {new}
    BY DEF ConsumePayload
  <1>2. /\ r.id \in Payloads /\ r.expires \in Nat /\ clock < r.expires
        /\ Valid(envelope[r.id]) /\ envelope[r.id].ref = r
    BY <1>1, ReadableRef
  <1>3. /\ Fresh' /\ OneFilePerUpload' /\ DOMAIN envelope' = Payloads
        /\ \A i \in Payloads : envelope'[i] \in Envelopes(i)
        /\ envelope'[r.id] = Consumed(r)
        /\ \A i \in Payloads : i # r.id => envelope'[i] = envelope[i]
        /\ \A use \in revealed : use.ref.id # r.id
    BY <1>1, MarkerOK
  <1>4. clock \in Nat /\ new \in [ref : issued, at : 0 .. clock]
    BY SealedAssumption DEF SealedInv, Filed
  <1>5. Filed'
    BY <1>1, <1>3, <1>4 DEF SealedInv, Filed
  <1>6. ASSUME NEW use \in revealed
        PROVE  /\ use.ref \in PayloadRefs /\ use.ref.id \in Payloads
               /\ use.ref.expires \in Nat /\ use.at \in 0 .. clock
               /\ \/ envelope[use.ref.id] = Consumed(use.ref)
                  \/ /\ envelope[use.ref.id] = None
                     /\ \/ use.ref.id \in misread
                        \/ clock >= use.ref.expires + MarkerRetention
    BY ExpiryType DEF SealedInv, Filed, Marked
  <1>7. Marked'
    <2> SUFFICES ASSUME NEW use \in revealed'
                 PROVE  \/ envelope'[use.ref.id] = Consumed(use.ref)
                        \/ /\ envelope'[use.ref.id] = None
                           /\ \/ use.ref.id \in misread
                              \/ clock >= use.ref.expires + MarkerRetention
      BY <1>1 DEF Marked, Consumed, None
    <2>1. CASE use \in revealed
      BY <1>3, <1>6, <2>1
    <2>2. CASE use = new
      BY <1>3, <2>2
    <2> QED
      BY <1>1, <2>1, <2>2
  <1>8. ASSUME NEW use \in revealed, use.ref.upload = r.upload,
               use.ref.id \notin misread, r.id \notin misread
        PROVE  clock >= use.ref.expires + MarkerRetention
    <2>1. use.ref.id # r.id
      BY <1>3
    <2>2. Valid(Consumed(use.ref)) /\ Consumed(use.ref).ref = use.ref
      BY DEF Valid, Consumed
    <2>3. envelope[use.ref.id] # Consumed(use.ref)
      BY <1>2, <1>6, <1>8, <2>1, <2>2 DEF SealedInv, OneFilePerUpload
    <2> QED
      BY <1>6, <1>8, <2>3
  <1>9. SecretRevealedOnce'
    <2> SUFFICES ASSUME NEW a \in revealed', NEW b \in revealed',
                        a.ref.upload = b.ref.upload, a # b,
                        a.ref.id \notin misread, b.ref.id \notin misread
                 PROVE  \/ a.at >= b.ref.expires + MarkerRetention
                        \/ b.at >= a.ref.expires + MarkerRetention
      BY <1>1 DEF SecretRevealedOnce
    <2>1. new.ref = r /\ new.at = clock
      OBVIOUS
    <2> HIDE DEF new
    <2>2. CASE a \in revealed /\ b \in revealed
      BY <2>2 DEF SealedInv, SecretRevealedOnce
    <2>3. CASE a \in revealed /\ b = new
      BY <1>8, <2>1, <2>3
    <2>4. CASE a = new /\ b \in revealed
      BY <1>8, <2>1, <2>4
    <2> QED
      BY <1>1, <2>2, <2>3, <2>4
  <1> QED
    BY <1>3, <1>5, <1>7, <1>9 DEF SealedInv

LEMMA DeletePayloadOK ==
  ASSUME SealedInv, NEW r \in issued, DeletePayload(r)
  PROVE  SealedInv'
  <1>1. /\ Readable(r) /\ envelope' = [envelope EXCEPT ![r.id] = Consumed(r)]
        /\ UNCHANGED <<clock, nextPayload, issued, revealed, misread>>
    BY DEF DeletePayload, Elsewhere
  <1>2. /\ Fresh' /\ OneFilePerUpload' /\ DOMAIN envelope' = Payloads
        /\ \A i \in Payloads : envelope'[i] \in Envelopes(i)
        /\ \A i \in Payloads : i # r.id => envelope'[i] = envelope[i]
        /\ \A use \in revealed : use.ref.id # r.id
    BY <1>1, MarkerOK
  <1>3. Filed'
    BY <1>1, <1>2 DEF SealedInv, Filed
  <1>4. \A use \in revealed : use.ref.id \in Payloads
    BY ExpiryType DEF SealedInv, Filed
  <1>5. Marked'
    BY <1>1, <1>2, <1>4 DEF SealedInv, Marked, Consumed, None
  <1>6. SecretRevealedOnce'
    BY <1>1 DEF SealedInv, SecretRevealedOnce
  <1> QED
    BY <1>2, <1>3, <1>5, <1>6 DEF SealedInv

LEMMA PassesOK ==
  ASSUME SealedInv, Passes
  PROVE  SealedInv'
  <1>1. /\ clock \in Nat /\ clock' = clock + 1 /\ clock < MaxClock
        /\ UNCHANGED <<envelope, nextPayload, issued, revealed, misread>>
    BY SealedAssumption DEF Passes, SealedInv, Filed
  <1>2. Filed'
    <2>1. 0 .. clock \subseteq 0 .. clock'
      BY <1>1
    <2>2. revealed' \subseteq [ref : issued', at : 0 .. clock']
      BY <1>1, <2>1 DEF SealedInv, Filed
    <2>3. clock' \in 0 .. MaxClock
      BY <1>1, SealedAssumption
    <2> QED
      BY <1>1, <2>2, <2>3 DEF SealedInv, Filed
  <1>3. Fresh' /\ OneFilePerUpload' /\ SecretRevealedOnce'
    BY <1>1 DEF SealedInv, Fresh, OneFilePerUpload, SecretRevealedOnce, Valid, None
  <1>4. Marked'
    <2> SUFFICES ASSUME NEW use \in revealed
                 PROVE  \/ envelope[use.ref.id] = Consumed(use.ref)
                        \/ /\ envelope[use.ref.id] = None
                           /\ \/ use.ref.id \in misread
                              \/ clock' >= use.ref.expires + MarkerRetention
      BY <1>1 DEF Marked, Consumed, None
    <2>1. use.ref.expires \in Nat
      BY ExpiryType DEF SealedInv, Filed
    <2> QED
      BY <1>1, <2>1, SealedAssumption DEF SealedInv, Marked
  <1> QED
    BY <1>2, <1>3, <1>4 DEF SealedInv

(***************************************************************************)
(* The theorems                                                            *)
(***************************************************************************)
LEMMA SealedInitOK == SealedInit => SealedInv
  <1> SUFFICES ASSUME SealedInit PROVE SealedInv
    OBVIOUS
  <1>1. /\ envelope = [i \in Payloads |-> None] /\ clock = 0 /\ nextPayload = 1
        /\ issued = {} /\ revealed = {} /\ misread = {}
    BY DEF SealedInit
  <1>2. ~Valid(None) /\ \A i \in Payloads : None \in Envelopes(i)
    BY DEF Valid, None, Envelopes
  <1>3. Filed
    BY <1>1, <1>2, SealedAssumption DEF Filed
  <1> QED
    BY <1>1, <1>2, <1>3
      DEF SealedInv, Fresh, OneFilePerUpload, Marked, SecretRevealedOnce

\* Every step of the store, one case for each operation.
LEMMA SealedNextOK ==
  ASSUME SealedInv, [SealedNext]_sealedVars
  PROVE  SealedInv'
  <1>1. CASE \E gone \in SUBSET Files : SweepPayloads(gone)
    BY <1>1, SweepOK DEF SweepPayloads, Elsewhere
  <1>2. CASE Passes
    BY <1>2, PassesOK
  <1>3. CASE \E gone \in SUBSET Files : \E upload \in Uploads :
               PutPayloadRefused(gone, upload)
    BY <1>3, SweepOK DEF PutPayloadRefused, SweepPayloads, Elsewhere
  <1>4. CASE \E gone \in SUBSET Files : \E upload \in Uploads, secret \in Secrets :
               PutPayloadAgain(gone, upload, secret)
    BY <1>4, PutPayloadAgainOK
  <1>5. CASE \E gone \in SUBSET Files : \E upload \in Uploads, secret \in Secrets :
               \E lifetime \in PayloadLifetimes :
                 PutPayload(gone, upload, secret, lifetime)
    BY <1>5, PutPayloadOK
  <1>6. CASE \E r \in issued : ConsumePayload(r)
    BY <1>6, ConsumePayloadOK
  <1>7. CASE \E r \in issued : DeletePayload(r)
    BY <1>7, DeletePayloadOK
  <1>8. CASE UNCHANGED sealedVars
    BY <1>8 DEF sealedVars, SealedInv, Filed, Fresh, OneFilePerUpload, Marked,
                SecretRevealedOnce, Valid, Consumed, None
  <1> QED
    BY <1>1, <1>2, <1>3, <1>4, <1>5, <1>6, <1>7, <1>8 DEF SealedNext

\* The inductive invariant holds in every reachable state.
THEOREM SealedInvariance == SealedSpec => []SealedInv
  <1>1. SealedInit => SealedInv
    BY SealedInitOK
  <1>2. SealedInv /\ [SealedNext]_sealedVars => SealedInv'
    BY SealedNextOK
  <1> QED
    BY <1>1, <1>2, PTL DEF SealedSpec

\* A file holds nothing, an envelope cut short, or the envelope or marker of
\* its own payload.
THEOREM SealedTypeCorrectness == SealedSpec => []SealedTypeOK
  <1>1. SealedInv => SealedTypeOK
    BY EnvelopesCases DEF SealedInv, Filed, SealedTypeOK
  <1> QED
    BY <1>1, SealedInvariance, PTL

\* The secret of one upload is revealed at most once until the retention of
\* its marker is over, whatever is swept, left by a sweep, repeated, deleted or
\* cut short, for every payload whose file each sweep and lookup could read.
THEOREM RevealedOnce == SealedSpec => []SecretRevealedOnce
  <1>1. SealedInv => SecretRevealedOnce
    BY DEF SealedInv
  <1> QED
    BY <1>1, SealedInvariance, PTL
===============================================================================
