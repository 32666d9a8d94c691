----------------------------- MODULE SealedStore -----------------------------
(***************************************************************************)
(* Sealed payloads (internal/storage/sealed, operation/payload): secrets   *)
(* uploaded for one operation, encrypted in one file each, decrypted once. *)
(*                                                                         *)
(* Each operation holds the store's mutex and changes its file with one    *)
(* atomic replacement, so it is one step; only the creation of a file can  *)
(* be interrupted, and leaves an envelope that does not decode.  Any read  *)
(* or removal of a sweep may fail, and any read of a lookup.  After its    *)
(* use a payload leaves a marker in its place, which answers repeated      *)
(* uploads for markerRetention after the payload's expiry.                 *)
(*                                                                         *)
(* Encryption is abstracted to the envelope being readable for exactly its *)
(* own reference; plaintext, digest and size are one content.  The byte    *)
(* caps have the form of the file caps and are left out.                   *)
(***************************************************************************)
EXTENDS Integers, FiniteSets

CONSTANTS
  Uploads,           \* <<owner, purpose and request key>>
  Secrets,           \* contents of payloads
  SealedFiles,       \* maxFiles
  SealedOwnerFiles,  \* maxOwnerFiles
  PayloadLifetimes,  \* how long a payload may be kept
  MarkerRetention,   \* consumedMarkerRetention
  MaxPayloads,       \* bound: payload files created
  MaxClock           \* bound: the clock

ASSUME SealedAssumption ==
  /\ SealedFiles \in Nat /\ SealedOwnerFiles \in Nat /\ MarkerRetention \in Nat
  /\ MaxPayloads \in Nat /\ MaxClock \in Nat /\ PayloadLifetimes \subseteq Nat

VARIABLES
  envelope,   \* envelope[i]: the file of payload i
  clock,      \* time
  nextPayload,\* the next payload id
  issued,     \* history: references returned by PutForRequest
  revealed,   \* history: plaintexts returned by Consume: [ref, at]
  misread     \* history: good files that a sweep or a lookup could not read

sealedVars == <<envelope, clock, nextPayload, issued, revealed, misread>>

Payloads == 1 .. MaxPayloads
PayloadRefs == [id : Payloads, upload : Uploads, secret : Secrets, expires : Nat]

None      == [state |-> "none"]
Torn      == [state |-> "torn"]
Sealed(r)   == [state |-> "sealed", ref |-> r]
Consumed(r) == [state |-> "consumed", ref |-> r]

Valid(e) == e.state \in {"sealed", "consumed"}

\* sweepCandidate: what does not decode, expired payloads, and markers whose
\* retention is over.
\* Mutant: markers go with the expiry of their payload.
SweepableAtExpiry(e) == e.state = "torn" \/ (Valid(e) /\ clock >= e.ref.expires)

Sweepable(e) ==
  \/ e.state = "torn"
  \/ e.state = "sealed" /\ clock >= e.ref.expires
  \/ e.state = "consumed" /\ clock >= e.ref.expires + MarkerRetention

Files == {i \in Payloads : envelope[i].state # "none"}

\* sweepLocked: a removal that fails is passed over, and a file that cannot be
\* read is removed like one that does not decode.  gone: what was removed.
Remaining(gone)  == [i \in Payloads |-> IF i \in gone THEN None ELSE envelope[i]]
Unreadable(gone) == {i \in gone : ~Sweepable(envelope[i])}

Elsewhere == UNCHANGED <<clock, issued, revealed>>

\* SweepExpired, from Open and from the service's sweeper.
SweepPayloads(gone) ==
  /\ envelope' = Remaining(gone) /\ misread' = misread \cup Unreadable(gone)
  /\ UNCHANGED nextPayload /\ Elsewhere

\* The files findRequestLocked looks for, after the sweep of putLocked.
Earlier(gone, upload) ==
  {i \in Files \ gone : Valid(envelope[i]) /\ envelope[i].ref.upload = upload}

\* checkQuotaLocked counts markers like payloads, and does not go past a file
\* that does not decode.
RoomFor(gone, upload) ==
  /\ \A i \in Files \ gone : Valid(envelope[i])
  /\ Cardinality(Files \ gone) < SealedFiles
  /\ Cardinality({i \in Files \ gone : envelope[i].ref.upload[1] = upload[1]})
       < SealedOwnerFiles

\* PutForRequest of a known upload: its reference, when the secret is the
\* same.  It may be consumed already.
PutPayloadAgain(gone, upload, secret) ==
  /\ \E i \in Earlier(gone, upload) :
       issued' = IF envelope[i].ref.secret = secret
                 THEN issued \cup {envelope[i].ref} ELSE issued
  /\ envelope' = Remaining(gone) /\ misread' = misread \cup Unreadable(gone)
  /\ UNCHANGED <<clock, nextPayload, revealed>>

\* An upload that findRequestLocked does not find: there is no file of it, or
\* none that it can read.  The file is created exclusively, written and synced.
PutPayload(gone, upload, secret, lifetime) ==
  LET r == [id |-> nextPayload, upload |-> upload, secret |-> secret,
            expires |-> clock + lifetime]
  IN  /\ nextPayload <= MaxPayloads /\ RoomFor(gone, upload)
      /\ misread' = misread \cup Unreadable(gone) \cup Earlier(gone, upload)
      /\ nextPayload' = nextPayload + 1
      /\ \/ /\ envelope' = [Remaining(gone) EXCEPT ![r.id] = Sealed(r)]
            /\ issued' = issued \cup {r}
         \/ envelope' = [Remaining(gone) EXCEPT ![r.id] = Torn] /\ UNCHANGED issued
      /\ UNCHANGED <<clock, revealed>>

PutPayloadRefused(gone, upload) ==
  Earlier(gone, upload) = {} /\ ~RoomFor(gone, upload) /\ SweepPayloads(gone)

\* read: the reference has not expired and its own envelope is sealed.
Readable(r) == clock < r.expires /\ envelope[r.id] = Sealed(r)

\* Consume: decrypt, replace by a marker, and only then return the plaintext.
\* The replacement may fail before or after it took effect; the plaintext is
\* withheld then.
ConsumePayload(r) ==
  /\ r \in issued /\ Readable(r)
  /\ envelope' = [envelope EXCEPT ![r.id] = Consumed(r)]
  /\ revealed' \in {revealed, revealed \cup {[ref |-> r, at |-> clock]}}
  /\ UNCHANGED <<clock, nextPayload, issued, misread>>

\* Delete, from an operation's Cleanup: an unused payload leaves a marker too.
\* A missing or consumed one is deleted already, an expired one is refused.
DeletePayload(r) ==
  /\ r \in issued /\ Readable(r)
  /\ envelope' = [envelope EXCEPT ![r.id] = Consumed(r)]
  /\ UNCHANGED <<nextPayload, misread>> /\ Elsewhere

Passes == /\ clock < MaxClock /\ clock' = clock + 1
          /\ UNCHANGED <<envelope, nextPayload, issued, revealed, misread>>

SealedInit ==
  /\ envelope = [i \in Payloads |-> None] /\ clock = 0 /\ nextPayload = 1
  /\ issued = {} /\ revealed = {} /\ misread = {}

SealedNext ==
  \/ Passes
  \/ \E gone \in SUBSET Files :
       \/ SweepPayloads(gone)
       \/ \E upload \in Uploads :
            \/ PutPayloadRefused(gone, upload)
            \/ \E secret \in Secrets :
                 \/ PutPayloadAgain(gone, upload, secret)
                 \/ \E lifetime \in PayloadLifetimes :
                      PutPayload(gone, upload, secret, lifetime)
  \/ \E r \in issued : ConsumePayload(r) \/ DeletePayload(r)

SealedSpec == SealedInit /\ [][SealedNext]_sealedVars

(***************************************************************************)
(* Properties.                                                             *)
(***************************************************************************)
\* A file holds the envelope of its own payload.
SealedTypeOK ==
  /\ \A i \in Payloads :
       \/ envelope[i] \in {None, Torn}
       \/ /\ Valid(envelope[i])
          /\ envelope[i].ref \in PayloadRefs /\ envelope[i].ref.id = i
  /\ issued \subseteq PayloadRefs /\ clock \in 0 .. MaxClock
  /\ \A use \in revealed : use.ref \in issued /\ use.at \in 0 .. clock
  /\ nextPayload \in 1 .. MaxPayloads + 1 /\ misread \subseteq Payloads

\* The secret of one upload is revealed once: not to a second consumer, and
\* not again because the upload was repeated before its retention was over,
\* whatever expired, was swept, could not be removed or was cut short in
\* between, as long as every read of the file by a sweep or a lookup succeeded.
SecretRevealedOnce ==
  \A a, b \in revealed :
    a.ref.upload = b.ref.upload /\ a # b /\ {a.ref.id, b.ref.id} \cap misread = {} =>
      \/ a.at >= b.ref.expires + MarkerRetention
      \/ b.at >= a.ref.expires + MarkerRetention
===============================================================================
