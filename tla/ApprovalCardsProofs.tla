------------------------ MODULE ApprovalCardsProofs ------------------------
(***************************************************************************)
(* Proofs about the approval cards, for any set of requests, any number of *)
(* clicks, and any number of crashes, failed calls and replacements of the *)
(* broker's database.                                                      *)
(*                                                                         *)
(* The inductive invariant has a part for each party: what the broker's    *)
(* log names exists, what the chat shows was sent, what the file holds was *)
(* sent or clicked, and what owner and poller read some steps ago still    *)
(* bounds what is true now.                                                *)
(***************************************************************************)
EXTENDS ApprovalCards, WellFoundedInduction, TLAPS

Shown == Statuses \cup {"superseded", "closed"}

EventRecord   == [seq : Nat \ {0}, request : Requests]
MessageRecord == [request : Requests, token : Nat, shown : Shown, buttons : BOOLEAN]
ClickRecord   == [message : Nat, action : Actions]
CardRecord    == [state : {"none", "sending", "open", "closed"}, token : Nat, message : Nat]
Cursors       == [seq : Nat \cup {Unset}, of : Nat]
Keys          == Nat \X Actions

\* The request is in the broker's database, or was before it was replaced; it
\* has been decided or has ended.
Exists(r)  == status[r] # "absent"
Settled(r) == status[r] \notin {"absent", "pending"}

BrokerInv ==
  /\ status \in [Requests -> Statuses] /\ nextEvent \in Nat \ {0} /\ epoch \in Nat
  /\ events \in Seq(EventRecord)
  /\ by \in [Requests -> Actions \cup {"none"}]
  /\ \A i \in 1 .. Len(events) : Exists(events[i].request)
  /\ \A r \in Requests : by[r] # "none" => Settled(r)

ChatInv ==
  /\ messages \in Seq(MessageRecord) /\ tokens \in Nat /\ clicks \in Seq(ClickRecord)
  /\ \A m \in 1 .. Len(messages) :
       messages[m].token \in 1 .. tokens /\ Exists(messages[m].request)
  /\ \A u \in 1 .. Len(clicks) : clicks[u].message \in 1 .. Len(messages)

\* A card exists for a request that does; a closed one is of a settled request.
CardInv ==
  /\ card \in [Requests -> CardRecord] /\ stored \in Cursors
  /\ \A r \in Requests :
       /\ card[r].token \in 0 .. tokens /\ card[r].message \in 0 .. Len(messages)
       /\ card[r].state # "none" => Exists(r) /\ card[r].token # 0
       /\ card[r].state = "open" => card[r].message # 0
       /\ card[r].state = "closed" => Settled(r)

OwnerAt  == {"list", "pending", "unfinished", "watch", "apply", "send", "open", "close", "save"}
Applying == {"apply", "send", "open", "close"}

OwnerRecord ==
  [at : OwnerAt, back : {"watch", "pending", "unfinished", "save"}, todo : SUBSET Requests,
   request : Requests \cup {"none"}, seen : Statuses, cursor : Cursors, message : Nat]

\* A card that was answered in the chat is not drawn again.
Answered(r) == by[r] # "none" => card[r].state \in {"open", "closed"}

\* What the owner read may be old, but a request that it saw settled is, and
\* one it saw pending and that was decided since has its card.
OwnerInv ==
  /\ owner \in OwnerRecord /\ owner.message \in 0 .. Len(messages)
  /\ \A r \in owner.todo : Exists(r)
  /\ owner.at \in Applying =>
       /\ owner.request \in Requests /\ Exists(owner.request)
       /\ owner.seen # "pending" => Settled(owner.request)
       /\ owner.seen = "pending" => Answered(owner.request)
  /\ owner.at \in {"send", "open"} =>
       owner.seen = "pending" /\ card[owner.request].state = "sending"
  /\ owner.at = "open" => owner.message # 0
  /\ owner.at = "close" => owner.seen \in Final /\ card[owner.request].state = "open"
  /\ owner.at = "pending" \/ (owner.at \in Applying /\ owner.back = "pending") =>
       \A r \in owner.todo : Answered(r)

PollAt     == {"idle", "item", "decide", "finish", "terminal", "persist"}
PollRecord == [at : PollAt, todo : SUBSET Keys, key : Keys, result : Shown \cup {"none"},
               batch : SUBSET Nat]

Clicked(k) == \E u \in 1 .. Len(clicks) : Key(clicks[u]) = k

InboxInv ==
  /\ inbox \in [pending : SUBSET Keys, terminal : SUBSET Keys]
  /\ offset \in 1 .. Len(clicks) + 1
  /\ \A k \in Known : Clicked(k)

\* Between verifyCard and the decision the card of a request that is still
\* pending stays the clicked message.
PollInv ==
  /\ poll \in PollRecord /\ poll.todo \subseteq inbox.pending
  /\ poll.batch \subseteq 1 .. Len(clicks)
  /\ poll.at \in {"decide", "finish", "terminal"} =>
       poll.key \in inbox.pending \ poll.todo
  /\ poll.at = "finish" => poll.result \in Shown
  /\ poll.at = "decide" /\ status[RequestOf(poll.key)] = "pending" =>
       /\ card[RequestOf(poll.key)].state = "open"
       /\ card[RequestOf(poll.key)].message = poll.key[1]

FaultsInv == faults \in 0 .. MaxFaults

IInv == /\ BrokerInv /\ ChatInv /\ CardInv /\ OwnerInv /\ InboxInv /\ PollInv
        /\ FaultsInv /\ DecidedAsClicked

(***************************************************************************)
(* Facts about numbers and sequences.                                      *)
(***************************************************************************)
\* A nonempty set of numbers has a least one: the next event and the next
\* update are chosen as one.
LEMMA LeastExists ==
  ASSUME NEW S \in SUBSET Nat, S # {}
  PROVE  \E i \in S : \A j \in S : i <= j
<1>1. PICK i \in S : \A j \in S : ~(<<j, i>> \in OpToRel(<, Nat))
  <2> DEFINE R == OpToRel(<, Nat)
  <2>1. IsWellFoundedOn(R, Nat)
    BY NatLessThanWellFounded
  <2> HIDE DEF R
  <2>2. \E i \in S : \A j \in S : ~(<<j, i>> \in R)
    BY <2>1, WFMin
  <2> QED BY <2>2 DEF R
<1>2. \A j \in S : ~(j < i)
  BY <1>1 DEF OpToRel
<1> QED BY <1>2

\* A sequence whose members are of a smaller type is of that type.
LEMMA SeqNarrow ==
  ASSUME NEW T, NEW S, NEW s \in Seq(T), \A i \in 1 .. Len(s) : s[i] \in S
  PROVE  s \in Seq(S)
OBVIOUS

(***************************************************************************)
(* What the steps of one party leave to the others.                        *)
(***************************************************************************)
\* A request goes from absent to pending to settled, and never back.
StatusMoves ==
  \A r \in Requests : status[r] # "absent" =>
    status'[r] # "absent" /\ (status[r] # "pending" => status'[r] # "pending")

\* Messages are added and edited, never withdrawn.
MessagesGrow ==
  /\ Len(messages') \in Nat /\ Len(messages) <= Len(messages')
  /\ \A m \in 1 .. Len(messages) : /\ messages'[m].request = messages[m].request
                                   /\ messages'[m].token = messages[m].token

ClicksGrow ==
  /\ Len(clicks') \in Nat /\ Len(clicks) <= Len(clicks')
  /\ \A u \in 1 .. Len(clicks) : clicks'[u] = clicks[u]

\* The card of a request that stays pending is not taken from the click that
\* is about to be decided.
CardsStay ==
  \A r \in Requests :
    card[r].state = "open" /\ status[r] = "pending" /\ status'[r] = "pending" =>
      card'[r] = card[r]

LEMMA BrokerFrame ==
  BrokerInv /\ UNCHANGED broker => BrokerInv' /\ StatusMoves
BY DEF BrokerInv, broker, StatusMoves, Exists, Settled

LEMMA SettledStays ==
  ASSUME StatusMoves, NEW r \in Requests
  PROVE  (Exists(r) => Exists(r)') /\ (Settled(r) => Settled(r)')
BY DEF StatusMoves, Exists, Settled

LEMMA MessagesSame ==
  ChatInv /\ UNCHANGED messages => MessagesGrow
BY DEF ChatInv, MessagesGrow

LEMMA ClicksSame ==
  ChatInv /\ UNCHANGED clicks => ClicksGrow
BY DEF ChatInv, ClicksGrow

LEMMA ChatFrame ==
  ChatInv /\ StatusMoves /\ UNCHANGED <<messages, clicks, tokens>> => ChatInv'
<1> SUFFICES ASSUME ChatInv, StatusMoves, UNCHANGED <<messages, clicks, tokens>>
             PROVE  ChatInv'
  OBVIOUS
<1>1. \A m \in 1 .. Len(messages) : messages[m].request \in Requests
  <2>1. \A m \in 1 .. Len(messages) : messages[m] \in MessageRecord
    BY DEF ChatInv
  <2> QED BY <2>1 DEF MessageRecord
<1>2. \A m \in 1 .. Len(messages) : Exists(messages[m].request)'
  BY <1>1, SettledStays DEF ChatInv, Exists, StatusMoves
<1> QED BY <1>2 DEF ChatInv

LEMMA StoredIsCursor == CardInv => stored \in Cursors
BY DEF CardInv

LEMMA CardFrame ==
  ASSUME CardInv, ChatInv, StatusMoves, MessagesGrow, UNCHANGED <<card, tokens>>,
         stored' \in Cursors
  PROVE  CardInv'
<1>1. Len(messages) \in Nat
  BY DEF ChatInv
<1>2. ASSUME NEW r \in Requests
      PROVE  /\ card[r].token \in 0 .. tokens /\ card[r].message \in 0 .. Len(messages')
             /\ card[r].state # "none" => Exists(r)' /\ card[r].token # 0
             /\ card[r].state = "open" => card[r].message # 0
             /\ card[r].state = "closed" => Settled(r)'
  BY <1>1, SettledStays DEF CardInv, MessagesGrow
<1> QED BY <1>2 DEF CardInv

LEMMA OwnerFrame ==
  ASSUME OwnerInv, ChatInv, StatusMoves, MessagesGrow, UNCHANGED <<owner, card>>,
         \A r \in Requests : Answered(r) => Answered(r)'
  PROVE  OwnerInv'
<1>1. owner \in OwnerRecord /\ owner.message \in 0 .. Len(messages')
  BY DEF OwnerInv, ChatInv, MessagesGrow
<1>2. \A r \in owner.todo : Exists(r)'
  BY SettledStays DEF OwnerInv, OwnerRecord
<1>3. ASSUME owner.at \in Applying
      PROVE  /\ owner.request \in Requests /\ Exists(owner.request)'
             /\ owner.seen # "pending" => Settled(owner.request)'
             /\ owner.seen = "pending" => Answered(owner.request)'
  <2>1. owner.request \in Requests /\ Exists(owner.request)
    BY <1>3 DEF OwnerInv
  <2>2. PICK r \in Requests : r = owner.request
    BY <2>1
  <2>3. Exists(r)' /\ (Settled(r) => Settled(r)') /\ (Answered(r) => Answered(r)')
    BY <2>1, <2>2, SettledStays
  <2>4. r = owner'.request
    BY <2>2
  <2>5. (owner.seen # "pending" => Settled(r)) /\ (owner.seen = "pending" => Answered(r))
    BY <1>3, <2>2 DEF OwnerInv
  <2> QED BY <2>1, <2>2, <2>3, <2>4, <2>5
<1>4. ASSUME owner.at = "pending" \/ (owner.at \in Applying /\ owner.back = "pending")
      PROVE  \A r \in owner.todo : Answered(r)'
  BY <1>4 DEF OwnerInv, OwnerRecord
<1>5. owner' = owner /\ card' = card
  OBVIOUS
<1>6. /\ owner.at \in {"send", "open"} =>
           owner.seen = "pending" /\ card[owner.request].state = "sending"
      /\ owner.at = "open" => owner.message # 0
      /\ owner.at = "close" => owner.seen \in Final /\ card[owner.request].state = "open"
  BY DEF OwnerInv
<1> QED BY <1>1, <1>2, <1>3, <1>4, <1>5, <1>6 DEF OwnerInv

LEMMA InboxFrame ==
  InboxInv /\ ChatInv /\ ClicksGrow /\ UNCHANGED <<inbox, offset>> => InboxInv'
<1> SUFFICES ASSUME InboxInv, ChatInv, ClicksGrow, UNCHANGED <<inbox, offset>>
             PROVE  InboxInv'
  OBVIOUS
<1>1. ASSUME NEW k \in Known PROVE Clicked(k)'
  <2>1. PICK u \in 1 .. Len(clicks) : Key(clicks[u]) = k
    BY DEF InboxInv, Clicked
  <2>2. u \in 1 .. Len(clicks') /\ clicks'[u] = clicks[u] /\ Len(clicks) \in Nat
    BY DEF ClicksGrow, ChatInv
  <2> QED BY <2>1, <2>2 DEF Clicked, Key
<1>2. Known' = Known
  BY DEF Known
<1>3. offset \in 1 .. Len(clicks') + 1
  BY DEF InboxInv, ClicksGrow, ChatInv
<1> QED BY <1>1, <1>2, <1>3 DEF InboxInv

\* A callback is of a message that was sent.
LEMMA KeyIsMessage ==
  ASSUME InboxInv, ChatInv, NEW k \in Known
  PROVE  k[1] \in 1 .. Len(messages) /\ k[2] \in Actions
         /\ RequestOf(k) \in Requests /\ Exists(RequestOf(k)) /\ k = <<k[1], k[2]>>
<1>1. PICK u \in 1 .. Len(clicks) : Key(clicks[u]) = k
  BY DEF InboxInv, Clicked
<1>2. clicks[u] \in ClickRecord /\ clicks[u].message \in 1 .. Len(messages)
  BY DEF ChatInv
<1>3. k = <<clicks[u].message, clicks[u].action>> /\ clicks[u].action \in Actions
  BY <1>1, <1>2 DEF Key, ClickRecord
<1>4. k[1] \in 1 .. Len(messages) /\ k[2] \in Actions /\ k = <<k[1], k[2]>>
  BY <1>2, <1>3
<1>5. messages[k[1]] \in MessageRecord /\ Exists(messages[k[1]].request)
  BY <1>4 DEF ChatInv
<1> QED BY <1>4, <1>5 DEF RequestOf, MessageRecord

LEMMA PollFrame ==
  ASSUME PollInv, InboxInv, ChatInv, StatusMoves, MessagesGrow, ClicksGrow, CardsStay,
         UNCHANGED <<poll, inbox>>
  PROVE  PollInv'
<1>1. poll.batch \subseteq 1 .. Len(clicks')
  BY DEF PollInv, ClicksGrow, ChatInv
<1>2. ASSUME poll.at = "decide", status'[RequestOf(poll.key)'] = "pending"
      PROVE  /\ card'[RequestOf(poll.key)'].state = "open"
             /\ card'[RequestOf(poll.key)'].message = poll.key[1]
  <2>1. poll.key \in Known
    BY <1>2 DEF PollInv, Known
  <2>2. PICK r \in Requests : r = RequestOf(poll.key) /\ Exists(r)
    BY <2>1, KeyIsMessage
  <2>3. r = RequestOf(poll.key)'
    BY <2>1, <2>2, KeyIsMessage DEF RequestOf, MessagesGrow
  <2>4. status'[r] = "pending"
    BY <1>2, <2>3
  <2>5. status[r] = "pending"
    BY <2>2, <2>4 DEF StatusMoves, Exists
  <2>6. card[r].state = "open" /\ card[r].message = poll.key[1]
    BY <1>2, <2>2, <2>5 DEF PollInv
  <2>7. card'[r] = card[r]
    BY <2>4, <2>5, <2>6 DEF CardsStay
  <2> QED BY <2>3, <2>6, <2>7
<1>3. poll' = poll /\ inbox' = inbox
  OBVIOUS
<1> QED BY <1>1, <1>2, <1>3 DEF PollInv

LEMMA DecidedFrame ==
  DecidedAsClicked /\ ChatInv /\ ClicksGrow /\ UNCHANGED <<by, card>> => DecidedAsClicked'
<1> SUFFICES ASSUME DecidedAsClicked, ChatInv, ClicksGrow, UNCHANGED <<by, card>>,
                    NEW r \in Requests, by[r] # "none"
             PROVE  /\ card[r].state \in {"none", "open", "closed"}
                    /\ card[r].state # "none" =>
                         \E u \in 1 .. Len(clicks') :
                           clicks'[u] = [message |-> card[r].message, action |-> by[r]]
  BY DEF DecidedAsClicked
<1>1. Len(clicks) \in Nat
  BY DEF ChatInv
<1> QED BY <1>1 DEF DecidedAsClicked, ClicksGrow

(***************************************************************************)
(* The broker's steps.                                                     *)
(***************************************************************************)
LEMMA LogAppends ==
  ASSUME BrokerInv, NEW r \in Requests, Append1(r)
  PROVE  /\ events' \in Seq(EventRecord) /\ nextEvent' \in Nat \ {0}
         /\ \A i \in 1 .. Len(events') :
              events'[i].request = r \/ \E j \in 1 .. Len(events) : events'[i] = events[j]
<1> DEFINE new == [seq |-> nextEvent, request |-> r]
           log == Append(events, new)
<1>1. nextEvent \in Nat \ {0} /\ events \in Seq(EventRecord) /\ new \in EventRecord
  BY DEF BrokerInv, EventRecord
<1>2. nextEvent' \in Nat \ {0}
  BY <1>1 DEF Append1
<1>3. new.request = r
  OBVIOUS
<1> HIDE DEF new
<1>4. log \in Seq(EventRecord) /\ Len(log) = Len(events) + 1 /\ Len(events) \in Nat
  BY <1>1
<1>5. \A i \in 1 .. Len(log) : log[i] = new \/ \E j \in 1 .. Len(events) : log[i] = events[j]
  BY <1>1
<1>6. events' = Tail(log) \/ events' = log
  BY DEF Append1, new
<1> HIDE DEF log
<1>7. CASE events' = log
  BY <1>2, <1>3, <1>4, <1>5, <1>7
<1>8. CASE events' = Tail(log)
  <2>1. log # <<>>
    BY <1>4
  <2>2. Tail(log) \in Seq(EventRecord) /\ Len(Tail(log)) = Len(log) - 1
    BY <1>4, <2>1
  <2>3. \A i \in 1 .. Len(Tail(log)) : Tail(log)[i] = log[i + 1] /\ i + 1 \in 1 .. Len(log)
    BY <1>4, <2>1, <2>2
  <2>4. \A i \in 1 .. Len(events') :
          events'[i].request = r \/ \E j \in 1 .. Len(events) : events'[i] = events[j]
    BY <1>3, <1>5, <1>8, <2>3
  <2> QED BY <1>2, <1>8, <2>2, <2>4
<1> QED BY <1>6, <1>7, <1>8

\* A change of status is legal and its event names an existing request.
LEMMA BecomeKeeps ==
  ASSUME BrokerInv, NEW r \in Requests, NEW new \in Statuses \ {"absent"}, Become(r, new),
         status[r] = "absent" \/ new # "pending"
  PROVE  /\ status' \in [Requests -> Statuses] /\ nextEvent' \in Nat \ {0}
         /\ events' \in Seq(EventRecord)
         /\ \A i \in 1 .. Len(events') : Exists(events[i].request)'
         /\ StatusMoves /\ status'[r] = new
<1>1. status \in [Requests -> Statuses] /\ status' = [status EXCEPT ![r] = new]
  BY DEF BrokerInv, Become
<1>2. status' \in [Requests -> Statuses] /\ status'[r] = new
      /\ \A q \in Requests : q # r => status'[q] = status[q]
  BY <1>1
<1>3. StatusMoves
  BY <1>2 DEF StatusMoves
<1>4. Append1(r)
  BY DEF Become
<1>5. ASSUME NEW i \in 1 .. Len(events') PROVE status'[events'[i].request] # "absent"
  <2>1. CASE events'[i].request = r
    BY <1>2, <2>1
  <2>2. CASE \E j \in 1 .. Len(events) : events'[i] = events[j]
    <3>1. PICK j \in 1 .. Len(events) : events'[i] = events[j]
      BY <2>2
    <3>2. Exists(events[j].request)
      BY DEF BrokerInv
    <3>3. PICK q \in Requests : q = events[j].request
      <4>1. events \in Seq(EventRecord)
        BY DEF BrokerInv
      <4>2. events[j] \in EventRecord
        BY <4>1
      <4> QED BY <4>2 DEF EventRecord
    <3>4. status[q] # "absent"
      BY <3>2, <3>3 DEF Exists
    <3> QED BY <1>3, <3>1, <3>3, <3>4 DEF StatusMoves
  <2> QED BY <1>4, <2>1, <2>2, LogAppends
<1> QED BY <1>2, <1>3, <1>4, <1>5, LogAppends DEF Exists

LEMMA BrokerBecomes ==
  ASSUME BrokerInv, NEW r \in Requests, NEW new \in Statuses \ {"absent"}, Become(r, new),
         status[r] = "absent" \/ new # "pending", UNCHANGED <<epoch, by>>
  PROVE  BrokerInv' /\ StatusMoves
<1>1. \A q \in Requests : by[q] # "none" => Settled(q)'
  BY BecomeKeeps, SettledStays DEF BrokerInv
<1> QED BY <1>1, BecomeKeeps DEF BrokerInv

LEMMA ReplaceKeeps ==
  ASSUME BrokerInv, ReplaceState
  PROVE  BrokerInv' /\ StatusMoves
<1>1. /\ status' = [r \in Requests |-> IF status[r] = "absent" THEN "absent" ELSE "missing"]
      /\ events' = <<>> /\ nextEvent' = 1 /\ epoch' = epoch + 1 /\ by' = by
  BY DEF ReplaceState
<1>2. StatusMoves /\ status' \in [Requests -> Statuses]
  BY <1>1 DEF StatusMoves, Statuses
<1>3. \A q \in Requests : by[q] # "none" => Settled(q)'
  BY <1>2, SettledStays DEF BrokerInv
<1>4. events' \in Seq(EventRecord) /\ Len(events') = 0
  BY <1>1
<1> QED BY <1>1, <1>2, <1>3, <1>4 DEF BrokerInv

\* Whatever the broker does, the others find what they read still bounded by
\* what is true.
LEMMA BrokerSteps ==
  ASSUME IInv, Broker
  PROVE  IInv'
<1>1. BrokerInv' /\ StatusMoves /\ UNCHANGED <<by, telegram, file, owner, poll, tokens>>
  <2>1. ASSUME NEW r \in Requests, Request(r) \/ End(r) \/ DecideElsewhere(r)
        PROVE  BrokerInv' /\ StatusMoves
    <3>1. CASE Request(r)
      BY <3>1, BrokerBecomes DEF Request, Others, IInv, Statuses
    <3>2. CASE End(r)
      BY <3>2, BrokerBecomes DEF End, Others, IInv, Statuses
    <3>3. CASE DecideElsewhere(r)
      BY <3>3, BrokerBecomes DEF DecideElsewhere, Others, IInv, Statuses
    <3> QED BY <2>1, <3>1, <3>2, <3>3
  <2>2. UNCHANGED <<by, telegram, file, owner, poll, tokens>>
    BY DEF Broker, Request, End, DecideElsewhere, ReplaceState, Others
  <2> QED BY <2>1, <2>2, ReplaceKeeps DEF Broker, IInv
<1>2. faults' \in 0 .. MaxFaults
  <2>1. faults' = faults \/ Fault
    BY DEF Broker, Request, End, DecideElsewhere, ReplaceState, Others
  <2> QED BY <2>1, CardsAssumption DEF IInv, FaultsInv, Fault
<1>3. UNCHANGED <<messages, clicks, card, stored, inbox, offset>>
  BY <1>1 DEF telegram, file
<1>4. MessagesGrow /\ ClicksGrow
  BY <1>3, MessagesSame, ClicksSame DEF IInv
<1>5. ChatInv' /\ CardInv' /\ InboxInv' /\ DecidedAsClicked'
  <2>1. stored' \in Cursors
    BY <1>3, StoredIsCursor DEF IInv
  <2> QED BY <1>1, <1>3, <1>4, <2>1, ChatFrame, CardFrame, InboxFrame, DecidedFrame DEF IInv
<1>6. CardsStay /\ \A r \in Requests : Answered(r) => Answered(r)'
  BY <1>1, <1>3 DEF CardsStay, Answered
<1>7. OwnerInv' /\ PollInv'
  BY <1>1, <1>3, <1>4, <1>6, OwnerFrame, PollFrame DEF IInv
<1> QED BY <1>1, <1>2, <1>5, <1>7 DEF IInv, FaultsInv

(***************************************************************************)
(* A click, and a crash.                                                   *)
(***************************************************************************)
LEMMA ClickSteps ==
  ASSUME IInv, NEW m \in 1 .. Len(messages), NEW a \in Actions, Click(m, a)
  PROVE  IInv'
<1> DEFINE new == [message |-> m, action |-> a]
<1>1. clicks' = Append(clicks, new)
      /\ UNCHANGED <<broker, messages, file, owner, poll, tokens, faults>>
  BY DEF Click
<1>2. UNCHANGED <<by, card, stored, inbox, offset, status>>
  BY <1>1 DEF file, broker
<1>3. BrokerInv' /\ StatusMoves
  BY <1>1, BrokerFrame DEF IInv
<1>4. MessagesGrow
  BY <1>1, MessagesSame DEF IInv
<1>5. clicks \in Seq(ClickRecord) /\ Len(messages) \in Nat
  BY DEF IInv, ChatInv
<1>6. new \in ClickRecord /\ new.message = m
  BY <1>5 DEF ClickRecord
<1> HIDE DEF new
<1>7. /\ clicks' \in Seq(ClickRecord) /\ Len(clicks') = Len(clicks) + 1
      /\ \A u \in 1 .. Len(clicks) : clicks'[u] = clicks[u]
      /\ clicks'[Len(clicks) + 1] = new
  BY <1>1, <1>5, <1>6
<1>8. ClicksGrow
  BY <1>5, <1>7 DEF ClicksGrow
<1>9. ChatInv'
  <2>1. ASSUME NEW u \in 1 .. Len(clicks') PROVE clicks'[u].message \in 1 .. Len(messages)
    <3>1. Len(clicks) \in Nat
      BY <1>5
    <3>2. u \in 1 .. Len(clicks) \/ u = Len(clicks) + 1
      BY <1>7, <3>1
    <3>3. CASE u \in 1 .. Len(clicks)
      <4>1. clicks[u].message \in 1 .. Len(messages)
        BY <3>3 DEF IInv, ChatInv
      <4> QED BY <1>7, <3>3, <4>1
    <3>4. CASE u = Len(clicks) + 1
      <4>1. clicks'[u] = new
        BY <1>7, <3>4
      <4> QED BY <1>6, <4>1
    <3> QED BY <3>2, <3>3, <3>4
  <2> QED BY <1>1, <1>2, <1>7, <2>1 DEF IInv, ChatInv, Exists
<1>10. CardInv' /\ InboxInv' /\ DecidedAsClicked'
  <2>1. stored' \in Cursors
    BY <1>2, StoredIsCursor DEF IInv
  <2> QED BY <1>1, <1>2, <1>3, <1>4, <1>8, <2>1, CardFrame, InboxFrame, DecidedFrame DEF IInv
<1>11. CardsStay /\ \A r \in Requests : Answered(r) => Answered(r)'
  BY <1>2 DEF CardsStay, Answered
<1>12. OwnerInv' /\ PollInv'
  BY <1>1, <1>2, <1>3, <1>4, <1>8, <1>11, OwnerFrame, PollFrame DEF IInv
<1> QED BY <1>1, <1>3, <1>9, <1>10, <1>12 DEF IInv, FaultsInv

\* Before it applies anything, the owner has nothing to be wrong about.
LEMMA FollowKeeps ==
  ASSUME NEW cursor \in Cursors, ChatInv', owner' = Follow(cursor)
  PROVE  OwnerInv'
<1>1. owner' \in OwnerRecord
  BY DEF Follow, Watching, OwnerRecord, OwnerAt, Statuses, Cursors
<1>2. owner'.at \in {"list", "watch"} /\ owner'.todo = {} /\ owner'.message = 0
      /\ owner'.back = "watch"
  BY DEF Follow, Watching
<1>3. Len(messages') \in Nat
  BY DEF ChatInv
<1> QED BY <1>1, <1>2, <1>3 DEF OwnerInv, Applying

LEMMA PollingKeeps ==
  ASSUME poll' = Polling
  PROVE  PollInv'
<1>1. poll' \in PollRecord
  BY DEF Polling, PollRecord, PollAt, Keys, Actions
<1>2. poll'.at = "idle" /\ poll'.todo = {} /\ poll'.batch = {}
  BY DEF Polling
<1> QED BY <1>1, <1>2 DEF PollInv

LEMMA FaultKeeps ==
  FaultsInv /\ (Fault \/ Fine) => FaultsInv'
BY CardsAssumption DEF FaultsInv, Fault, Fine

LEMMA CrashSteps ==
  ASSUME IInv, Crash
  PROVE  IInv'
<1>1. Fault /\ owner' = Follow(stored) /\ poll' = Polling
      /\ UNCHANGED <<broker, telegram, file, tokens>>
  BY DEF Crash
<1>2. UNCHANGED <<messages, clicks, by, card, stored, inbox, offset>>
  BY <1>1 DEF file, broker, telegram
<1>3. BrokerInv' /\ StatusMoves
  BY <1>1, BrokerFrame DEF IInv
<1>4. MessagesGrow /\ ClicksGrow
  BY <1>2, MessagesSame, ClicksSame DEF IInv
<1>5. ChatInv' /\ CardInv' /\ InboxInv' /\ DecidedAsClicked'
  <2>1. stored' \in Cursors
    BY <1>2, StoredIsCursor DEF IInv
  <2> QED BY <1>1, <1>2, <1>3, <1>4, <2>1, ChatFrame, CardFrame, InboxFrame, DecidedFrame
          DEF IInv
<1>6. stored \in Cursors
  BY DEF IInv, CardInv
<1>7. OwnerInv' /\ PollInv' /\ FaultsInv'
  BY <1>1, <1>5, <1>6, FollowKeeps, PollingKeeps, FaultKeeps DEF IInv
<1> QED BY <1>3, <1>5, <1>7 DEF IInv

(***************************************************************************)
(* The owner's steps.                                                      *)
(***************************************************************************)
LEMMA OwnerLeaves ==
  ASSUME IInv, OwnerOnly
  PROVE  /\ BrokerInv' /\ StatusMoves /\ ClicksGrow
         /\ UNCHANGED <<status, events, by, clicks, inbox, offset, poll>>
<1>1. UNCHANGED broker /\ UNCHANGED <<status, events, by, clicks, inbox, offset, poll>>
  BY DEF OwnerOnly, broker
<1> QED BY <1>1, BrokerFrame, ClicksSame DEF IInv

\* What is left to show of a step of the owner.
LEMMA OwnerParts ==
  ASSUME IInv, OwnerOnly, Fault \/ Fine, ChatInv', CardInv', OwnerInv', DecidedAsClicked',
         MessagesGrow, CardsStay
  PROVE  IInv'
<1>1. BrokerInv' /\ InboxInv'
  BY OwnerLeaves, InboxFrame DEF IInv
<1>2. PollInv'
  BY OwnerLeaves, PollFrame DEF IInv
<1>3. FaultsInv'
  BY FaultKeeps DEF IInv
<1> QED BY <1>1, <1>2, <1>3 DEF IInv

\* The owner only reads, or stores a cursor.
LEMMA OwnerLooks ==
  ASSUME IInv, OwnerOnly, Fault \/ Fine, UNCHANGED <<messages, card, tokens>>,
         stored' \in Cursors, OwnerInv'
  PROVE  IInv'
<1>1. MessagesGrow /\ CardsStay
  BY MessagesSame DEF IInv, CardsStay
<1>2. ChatInv'
  BY OwnerLeaves, ChatFrame DEF IInv
<1>3. CardInv' /\ DecidedAsClicked'
  BY <1>1, OwnerLeaves, CardFrame, DecidedFrame DEF IInv
<1> QED BY <1>1, <1>2, <1>3, OwnerParts

\* A failed step leaves at most a message behind.
LEMMA OwnerRetries ==
  ASSUME IInv, OwnerOnly, Retry, UNCHANGED <<card, stored, tokens>>, ChatInv', MessagesGrow
  PROVE  IInv'
<1>1. stored \in Cursors /\ stored' \in Cursors
  BY StoredIsCursor DEF IInv
<1>2. CardInv' /\ DecidedAsClicked' /\ CardsStay
  BY <1>1, OwnerLeaves, CardFrame, DecidedFrame DEF IInv, CardsStay
<1>3. OwnerInv'
  BY <1>1, FollowKeeps DEF Retry
<1>4. Fault
  BY DEF Retry
<1> QED BY <1>2, <1>3, <1>4, OwnerParts

\* applyRequest returns: the owner goes on with its list or stores its cursor.
LEMMA AppliedKeeps ==
  ASSUME OwnerInv, owner.at \in Applying, Applied, StatusMoves, ChatInv, MessagesGrow,
         \A r \in Requests : Answered(r) => Answered(r)'
  PROVE  OwnerInv'
<1>1. owner \in OwnerRecord
  BY DEF OwnerInv
<1>2. /\ owner' \in OwnerRecord /\ owner'.at = owner.back /\ owner'.back = owner.back
      /\ owner'.todo = owner.todo /\ owner'.message = 0
  BY <1>1 DEF Applied, OwnerRecord, OwnerAt, Statuses
<1>3. owner.back \in {"watch", "pending", "unfinished", "save"} /\ owner.todo \subseteq Requests
  BY <1>1 DEF OwnerRecord
<1>4. owner'.at \notin {"apply", "send", "open", "close"} /\ owner'.at \notin Applying
  BY <1>2, <1>3 DEF Applying
<1>5. \A r \in owner.todo : Exists(r)'
  BY <1>3, SettledStays DEF OwnerInv
<1>6. owner.back = "pending" => \A r \in owner.todo : Answered(r)'
  BY <1>3 DEF OwnerInv
<1>7. Len(messages') \in Nat
  BY DEF MessagesGrow
<1> QED BY <1>2, <1>4, <1>5, <1>6, <1>7 DEF OwnerInv

LEMMA AnsweredSame ==
  UNCHANGED <<by, card>> => \A r \in Requests : Answered(r) => Answered(r)'
BY DEF Answered

\* A request that was not decided in the chat when it was read.
LEMMA UndecidedAnswered ==
  ASSUME BrokerInv, NEW r \in Requests, ~Settled(r)
  PROVE  Answered(r)
BY DEF BrokerInv, Answered

LEMMA ListSteps ==
  ASSUME IInv, List
  PROVE  IInv'
<1>1. /\ owner' = [owner EXCEPT !.at = "pending",
                      !.todo = {r \in Requests : status[r] = "pending"},
                      !.cursor = [seq |-> nextEvent - 1, of |-> epoch]]
      /\ OwnerOnly /\ Fine /\ UNCHANGED <<messages, card, stored, tokens>>
  BY DEF List
<1>2. owner \in OwnerRecord /\ owner.message \in 0 .. Len(messages)
  BY DEF IInv, OwnerInv
<1>3. [seq |-> nextEvent - 1, of |-> epoch] \in Cursors
  BY DEF IInv, BrokerInv, Cursors
<1>4. /\ owner' \in OwnerRecord /\ owner'.at = "pending" /\ owner'.message = owner.message
      /\ owner'.todo = {r \in Requests : status[r] = "pending"}
  BY <1>1, <1>2, <1>3 DEF OwnerRecord, OwnerAt
<1>5. \A r \in owner'.todo : r \in Requests /\ status[r] = "pending"
  BY <1>4
<1>6. \A r \in owner'.todo : Exists(r) /\ Answered(r)
  BY <1>5, UndecidedAnswered DEF IInv, Exists, Settled
<1>7. UNCHANGED <<status, by, card, messages>>
  BY <1>1 DEF OwnerOnly
<1>8. OwnerInv'
  BY <1>2, <1>4, <1>6, <1>7 DEF OwnerInv, Applying, Exists, Answered
<1>9. stored' \in Cursors
  BY <1>1, StoredIsCursor DEF IInv
<1> QED BY <1>1, <1>8, <1>9, OwnerLooks

\* The owner turns to a request whose status it has just read, or listed.
LEMMA AppliesNext ==
  ASSUME IInv, OwnerOnly, UNCHANGED <<messages, card>>,
         owner' \in OwnerRecord, owner'.at = "apply", owner'.message = owner.message,
         owner'.todo \subseteq owner.todo, owner'.request \in Requests,
         Exists(owner'.request), owner'.seen = "pending" => Answered(owner'.request),
         owner'.seen # "pending" => Settled(owner'.request),
         owner'.back = "pending" => owner.at = "pending"
  PROVE  OwnerInv'
<1>1. UNCHANGED <<status, by, card, messages>>
  BY DEF OwnerOnly
<1>2. PICK q \in Requests : q = owner'.request
  OBVIOUS
<1>3. /\ Exists(q)' /\ (owner'.seen = "pending" => Answered(q)')
      /\ owner'.seen # "pending" => Settled(q)'
  BY <1>1, <1>2 DEF Exists, Answered, Settled
<1>4. \A r \in owner'.todo : r \in owner.todo /\ r \in Requests
  BY DEF OwnerRecord
<1>5. \A r \in owner'.todo : Exists(r)'
  BY <1>1, <1>4 DEF IInv, OwnerInv, Exists
<1>6. owner'.back = "pending" => \A r \in owner'.todo : Answered(r)'
  BY <1>1, <1>4 DEF IInv, OwnerInv, Answered
<1>7. owner.message \in 0 .. Len(messages')
  BY <1>1 DEF IInv, OwnerInv
<1> QED BY <1>2, <1>3, <1>5, <1>6, <1>7 DEF OwnerInv, Applying

LEMMA ApplyListedSteps ==
  ASSUME IInv, NEW r \in Requests, ApplyListed(r)
  PROVE  IInv'
<1>1. /\ owner.at = "pending" /\ r \in owner.todo
      /\ owner' = [owner EXCEPT !.at = "apply", !.back = "pending",
                     !.todo = @ \ {r}, !.request = r, !.seen = "pending"]
      /\ OwnerOnly /\ Fine /\ UNCHANGED <<messages, card, stored, tokens>>
  BY DEF ApplyListed
<1>2. owner \in OwnerRecord
  BY DEF IInv, OwnerInv
<1>3. /\ owner' \in OwnerRecord /\ owner'.at = "apply" /\ owner'.message = owner.message
      /\ owner'.todo = owner.todo \ {r} /\ owner'.request = r /\ owner'.seen = "pending"
  BY <1>1, <1>2 DEF OwnerRecord, OwnerAt, Statuses
<1>4. Exists(r) /\ Answered(r)
  BY <1>1 DEF IInv, OwnerInv
<1>5. OwnerInv'
  BY <1>1, <1>3, <1>4, AppliesNext
<1>6. stored' \in Cursors
  BY <1>1, StoredIsCursor DEF IInv
<1> QED BY <1>1, <1>5, <1>6, OwnerLooks

LEMMA UnfinishedCardsSteps ==
  ASSUME IInv, UnfinishedCards
  PROVE  IInv'
<1>1. /\ owner' = [owner EXCEPT !.at = "unfinished",
                     !.todo = {r \in Requests : card[r].state \in {"sending", "open"}}]
      /\ OwnerOnly /\ Fine /\ UNCHANGED <<messages, card, stored, tokens>>
  BY DEF UnfinishedCards
<1>2. owner \in OwnerRecord /\ owner.message \in 0 .. Len(messages)
  BY DEF IInv, OwnerInv
<1>3. /\ owner' \in OwnerRecord /\ owner'.at = "unfinished" /\ owner'.message = owner.message
      /\ owner'.todo = {r \in Requests : card[r].state \in {"sending", "open"}}
  BY <1>1, <1>2 DEF OwnerRecord, OwnerAt
<1>4. \A r \in owner'.todo : Exists(r)
  BY <1>3 DEF IInv, CardInv
<1>5. UNCHANGED <<status, messages>>
  BY <1>1 DEF OwnerOnly
<1>6. OwnerInv'
  BY <1>2, <1>3, <1>4, <1>5 DEF OwnerInv, Applying, Exists
<1>7. stored' \in Cursors
  BY <1>1, StoredIsCursor DEF IInv
<1> QED BY <1>1, <1>6, <1>7, OwnerLooks

\* A status just read is pending only of a request that no click decided.
LEMMA ReadStatus ==
  ASSUME IInv, NEW r \in Requests, Exists(r)
  PROVE  /\ status[r] \in Statuses /\ (status[r] = "pending" => Answered(r))
         /\ (status[r] # "pending" => Settled(r))
<1>1. status[r] \in Statuses
  BY DEF IInv, BrokerInv
<1>2. status[r] = "pending" => Answered(r)
  BY UndecidedAnswered DEF IInv, Settled
<1> QED BY <1>1, <1>2 DEF Exists, Settled

LEMMA SettleUnfinishedSteps ==
  ASSUME IInv, NEW r \in Requests, SettleUnfinished(r)
  PROVE  IInv'
<1>1. /\ r \in owner.todo
      /\ owner' = [owner EXCEPT !.at = "apply", !.back = "unfinished",
                     !.todo = @ \ {r}, !.request = r, !.seen = status[r]]
      /\ OwnerOnly /\ Fine /\ UNCHANGED <<messages, card, stored, tokens>>
  BY DEF SettleUnfinished
<1>2. owner \in OwnerRecord /\ Exists(r)
  BY <1>1 DEF IInv, OwnerInv
<1>3. status[r] \in Statuses
  BY <1>2, ReadStatus
<1>4. /\ owner' \in OwnerRecord /\ owner'.at = "apply" /\ owner'.message = owner.message
      /\ owner'.todo = owner.todo \ {r} /\ owner'.request = r /\ owner'.seen = status[r]
      /\ owner'.back = "unfinished"
  BY <1>1, <1>2, <1>3 DEF OwnerRecord, OwnerAt
<1>5. OwnerInv'
  BY <1>1, <1>2, <1>4, ReadStatus, AppliesNext
<1>6. stored' \in Cursors
  BY <1>1, StoredIsCursor DEF IInv
<1> QED BY <1>1, <1>5, <1>6, OwnerLooks

LEMMA NextEventIs ==
  ASSUME IInv, EventsAfter(owner.cursor.seq) # {}
  PROVE  NextEvent \in EventRecord /\ Exists(NextEvent.request)
<1> DEFINE S == EventsAfter(owner.cursor.seq)
           n == CHOOSE i \in S : \A j \in S : i <= j
<1>1. events \in Seq(EventRecord)
  BY DEF IInv, BrokerInv
<1>2. S \in SUBSET Nat /\ S \subseteq 1 .. Len(events)
  BY <1>1 DEF EventsAfter
<1> HIDE DEF S
<1>3. \E i \in S : \A j \in S : i <= j
  BY <1>2, LeastExists DEF S
<1>4. n \in S
  BY <1>3
<1>5. NextEvent = events[n]
  BY DEF NextEvent, S
<1> HIDE DEF n
<1>6. n \in 1 .. Len(events)
  BY <1>2, <1>4
<1>7. events[n] \in EventRecord
  BY <1>1, <1>6
<1>8. Exists(events[n].request)
  BY <1>6 DEF IInv, BrokerInv
<1> QED BY <1>5, <1>7, <1>8

LEMMA ReceiveSteps ==
  ASSUME IInv, Receive
  PROVE  IInv'
<1>1. /\ owner.at = "watch" /\ EventsAfter(owner.cursor.seq) # {}
      /\ owner' = [owner EXCEPT !.at = "apply", !.back = "save",
                     !.request = NextEvent.request, !.seen = status[NextEvent.request],
                     !.cursor.seq = NextEvent.seq]
      /\ OwnerOnly /\ Fine /\ UNCHANGED <<messages, card, stored, tokens>>
  BY DEF Receive
<1>2. owner \in OwnerRecord
  BY DEF IInv, OwnerInv
<1>3. NextEvent \in EventRecord /\ Exists(NextEvent.request)
  BY <1>1, NextEventIs
<1>4. NextEvent.seq \in Nat /\ NextEvent.request \in Requests
  BY <1>3 DEF EventRecord
<1>5. PICK r \in Requests : r = NextEvent.request
  BY <1>4
<1>6. [owner.cursor EXCEPT !.seq = NextEvent.seq] \in Cursors /\ status[r] \in Statuses
  BY <1>2, <1>4, ReadStatus DEF IInv, BrokerInv, Cursors, OwnerRecord
<1>7. /\ owner' \in OwnerRecord /\ owner'.at = "apply" /\ owner'.message = owner.message
      /\ owner'.todo = owner.todo /\ owner'.request = r /\ owner'.seen = status[r]
      /\ owner'.back = "save"
  BY <1>1, <1>2, <1>5, <1>6 DEF OwnerRecord, OwnerAt
<1>8. Exists(r)
  BY <1>3, <1>5
<1>9. OwnerInv'
  BY <1>1, <1>7, <1>8, ReadStatus, AppliesNext
<1>10. stored' \in Cursors
  BY <1>1, StoredIsCursor DEF IInv
<1> QED BY <1>1, <1>9, <1>10, OwnerLooks

LEMMA WatchExpiredSteps ==
  ASSUME IInv, WatchExpired
  PROVE  IInv'
<1>1. /\ stored' = NoCursor /\ owner' = Follow(NoCursor)
      /\ OwnerOnly /\ Fine /\ UNCHANGED <<messages, card, tokens>>
  BY DEF WatchExpired
<1>2. NoCursor \in Cursors
  BY DEF NoCursor, Cursors
<1>3. ChatInv'
  BY <1>1, OwnerLeaves, ChatFrame DEF IInv
<1>4. OwnerInv'
  BY <1>1, <1>2, <1>3, FollowKeeps
<1> QED BY <1>1, <1>2, <1>4, OwnerLooks

LEMMA StreamEndsSteps ==
  ASSUME IInv, StreamEnds
  PROVE  IInv'
<1>1. Retry /\ OwnerOnly /\ UNCHANGED <<messages, card, stored, tokens>>
  BY DEF StreamEnds
<1>2. ChatInv' /\ MessagesGrow
  BY <1>1, OwnerLeaves, ChatFrame, MessagesSame DEF IInv
<1> QED BY <1>1, <1>2, OwnerRetries

LEMMA SaveCursorSteps ==
  ASSUME IInv, SaveCursor
  PROVE  IInv'
<1>1. OwnerOnly /\ UNCHANGED <<messages, card, tokens>>
  BY DEF SaveCursor
<1>2. ChatInv' /\ MessagesGrow
  BY <1>1, OwnerLeaves, ChatFrame, MessagesSame DEF IInv
<1>3. CASE Fine /\ stored' = owner.cursor /\ owner' = Watching(owner.cursor)
  <2>1. owner.cursor \in Cursors
    BY DEF IInv, OwnerInv, OwnerRecord
  <2>2. PICK c \in Cursors : c = owner.cursor
    BY <2>1
  <2>3. owner' = Watching(c)
    BY <1>3, <2>2
  <2>4. owner' \in OwnerRecord
    BY <2>3 DEF Watching, OwnerRecord, OwnerAt, Statuses, Cursors
  <2>5. owner'.at = "watch" /\ owner'.todo = {} /\ owner'.message = 0 /\ owner'.back = "watch"
    BY <2>3 DEF Watching
  <2>6. Len(messages') \in Nat
    BY <1>2 DEF MessagesGrow
  <2>7. OwnerInv'
    BY <2>4, <2>5, <2>6 DEF OwnerInv, Applying
  <2> QED BY <1>1, <1>3, <2>1, <2>7, OwnerLooks
<1>4. CASE Retry /\ UNCHANGED stored
  BY <1>1, <1>2, <1>4, OwnerRetries
<1> QED BY <1>3, <1>4 DEF SaveCursor

LEMMA ApplyNothingSteps ==
  ASSUME IInv, ApplyNothing
  PROVE  IInv'
<1>1. /\ owner.at = "apply" /\ Applied
      /\ OwnerOnly /\ Fine /\ UNCHANGED <<messages, card, stored, tokens>>
  BY DEF ApplyNothing
<1>2. MessagesGrow /\ StatusMoves /\ by' = by
  BY <1>1, OwnerLeaves, MessagesSame DEF IInv
<1>3. \A r \in Requests : Answered(r) => Answered(r)'
  BY <1>1, <1>2, AnsweredSame
<1>4. OwnerInv'
  BY <1>1, <1>2, <1>3, AppliedKeeps DEF IInv, Applying
<1>5. stored' \in Cursors
  BY <1>1, StoredIsCursor DEF IInv
<1> QED BY <1>1, <1>4, <1>5, OwnerLooks

\* Only closed cards are pruned, which no click can decide any more.
LEMMA ResyncDoneSteps ==
  ASSUME IInv, ResyncDone
  PROVE  IInv'
<1>1. /\ owner.at = "unfinished" /\ owner.todo = {} /\ Go("save")
      /\ OwnerOnly /\ Fine /\ UNCHANGED <<messages, stored, tokens>>
  BY DEF ResyncDone
<1>2. PICK old \in {{}, {r \in Requests : card[r].state = "closed"}} :
        card' = [r \in Requests |-> IF r \in old THEN NoCard ELSE card[r]]
  BY DEF ResyncDone
<1>3. card \in [Requests -> CardRecord]
  BY DEF IInv, CardInv
<1>4. \A r \in Requests : card'[r] = card[r] \/ (card'[r] = NoCard /\ card[r].state = "closed")
  BY <1>2
<1>5. NoCard \in CardRecord /\ NoCard.state = "none" /\ NoCard.token = 0 /\ NoCard.message = 0
  BY DEF NoCard, CardRecord
<1>6. card' \in [Requests -> CardRecord]
  BY <1>2, <1>3, <1>5
<1>7. StatusMoves /\ status' = status /\ by' = by /\ clicks' = clicks
  BY <1>1, OwnerLeaves
<1>8. ChatInv' /\ MessagesGrow
  BY <1>1, OwnerLeaves, ChatFrame, MessagesSame DEF IInv
<1>9. CardInv'
  <2>1. Len(messages) \in Nat /\ tokens \in Nat
    BY DEF IInv, ChatInv
  <2>2. ASSUME NEW r \in Requests
        PROVE  /\ card'[r].token \in 0 .. tokens /\ card'[r].message \in 0 .. Len(messages)
               /\ card'[r].state # "none" => Exists(r) /\ card'[r].token # 0
               /\ card'[r].state = "open" => card'[r].message # 0
               /\ card'[r].state = "closed" => Settled(r)
    <3>1. CASE card'[r] = card[r]
      BY <3>1 DEF IInv, CardInv
    <3>2. CASE card'[r] = NoCard
      BY <1>5, <2>1, <3>2
    <3> QED BY <1>4, <3>1, <3>2
  <2>3. stored' \in Cursors
    BY <1>1, StoredIsCursor DEF IInv
  <2> QED BY <1>1, <1>6, <1>7, <2>2, <2>3 DEF CardInv, Exists, Settled
<1>10. DecidedAsClicked'
  <2> SUFFICES ASSUME NEW r \in Requests, by[r] # "none"
               PROVE  /\ card'[r].state \in {"none", "open", "closed"}
                      /\ card'[r].state # "none" =>
                           \E u \in 1 .. Len(clicks) :
                             clicks[u] = [message |-> card'[r].message, action |-> by[r]]
    BY <1>7 DEF DecidedAsClicked
  <2>1. CASE card'[r] = card[r]
    BY <2>1 DEF IInv, DecidedAsClicked
  <2>2. CASE card'[r] = NoCard
    BY <1>5, <2>2
  <2> QED BY <1>4, <2>1, <2>2
<1>11. CardsStay
  BY <1>4 DEF CardsStay
<1>12. OwnerInv'
  <2>1. owner \in OwnerRecord /\ owner.message \in 0 .. Len(messages)
    BY DEF IInv, OwnerInv
  <2>2. /\ owner' \in OwnerRecord /\ owner'.at = "save" /\ owner'.todo = {}
        /\ owner'.message = owner.message
    BY <1>1, <2>1 DEF Go, OwnerRecord, OwnerAt
  <2> QED BY <1>1, <2>1, <2>2 DEF OwnerInv, Applying
<1> QED BY <1>1, <1>8, <1>9, <1>10, <1>11, <1>12, OwnerParts

\* One card is written, of a request that no click decided unless the card
\* stays its message.
LEMMA OneCard ==
  ASSUME IInv, OwnerOnly, Fine, NEW r \in Requests, NEW new \in CardRecord,
         card' = [card EXCEPT ![r] = new], ChatInv', MessagesGrow, stored' \in Cursors,
         tokens <= tokens', new.token \in 1 .. tokens', new.message \in 0 .. Len(messages'),
         Exists(r), new.state # "none", new.state = "open" => new.message # 0,
         new.state = "closed" => Settled(r),
         card[r].state = "open" => Settled(r),
         by[r] # "none" => new.state \in {"open", "closed"} /\ new.message = card[r].message
                           /\ card[r].state # "none",
         OwnerInv'
  PROVE  IInv'
<1>1. card \in [Requests -> CardRecord]
  BY DEF IInv, CardInv
<1>2. /\ card' \in [Requests -> CardRecord] /\ card'[r] = new
      /\ \A q \in Requests : q # r => card'[q] = card[q]
  BY <1>1
<1>3. status' = status /\ by' = by /\ clicks' = clicks
  BY OwnerLeaves
<1>4. Len(messages) \in Nat /\ tokens \in Nat /\ tokens' \in Nat /\ Len(messages') \in Nat
      /\ Len(messages) <= Len(messages')
  BY DEF IInv, ChatInv, MessagesGrow
<1>5. CardInv'
  <2>1. ASSUME NEW q \in Requests
        PROVE  /\ card'[q].token \in 0 .. tokens' /\ card'[q].message \in 0 .. Len(messages')
               /\ card'[q].state # "none" => Exists(q) /\ card'[q].token # 0
               /\ card'[q].state = "open" => card'[q].message # 0
               /\ card'[q].state = "closed" => Settled(q)
    <3>1. CASE q = r
      BY <1>2, <1>4, <3>1
    <3>2. CASE q # r
      <4>1. /\ card[q].token \in 0 .. tokens /\ card[q].message \in 0 .. Len(messages)
            /\ card[q].state # "none" => Exists(q) /\ card[q].token # 0
            /\ card[q].state = "open" => card[q].message # 0
            /\ card[q].state = "closed" => Settled(q)
        BY DEF IInv, CardInv
      <4>2. card[q].token \in 0 .. tokens' /\ card[q].message \in 0 .. Len(messages')
        BY <1>4, <4>1
      <4> QED BY <1>2, <3>2, <4>1, <4>2
    <3> QED BY <3>1, <3>2
  <2> QED BY <1>2, <1>3, <2>1 DEF CardInv, Exists, Settled
<1>6. DecidedAsClicked'
  <2> SUFFICES ASSUME NEW q \in Requests, by[q] # "none"
               PROVE  /\ card'[q].state \in {"none", "open", "closed"}
                      /\ card'[q].state # "none" =>
                           \E u \in 1 .. Len(clicks) :
                             clicks[u] = [message |-> card'[q].message, action |-> by[q]]
    BY <1>3 DEF DecidedAsClicked
  <2>1. card[q].state # "none" =>
          \E u \in 1 .. Len(clicks) :
            clicks[u] = [message |-> card[q].message, action |-> by[q]]
    BY DEF IInv, DecidedAsClicked
  <2>2. card[q].state \in {"none", "open", "closed"}
    BY DEF IInv, DecidedAsClicked
  <2>3. CASE q = r
    BY <1>2, <2>1, <2>3
  <2>4. CASE q # r
    BY <1>2, <2>1, <2>2, <2>4
  <2> QED BY <2>3, <2>4
<1>7. CardsStay
  BY <1>2 DEF CardsStay, Settled
<1> QED BY <1>5, <1>6, <1>7, OwnerParts

\* A record written to one card leaves the others answered as they were.
LEMMA OneAnswered ==
  ASSUME CardInv, NEW r \in Requests, NEW new, card' = [card EXCEPT ![r] = new], by' = by,
         by[r] # "none" => new.state \in {"open", "closed"}
  PROVE  \A q \in Requests : Answered(q) => Answered(q)'
<1>1. ASSUME NEW q \in Requests, Answered(q) PROVE Answered(q)'
  <2>1. card \in [Requests -> CardRecord]
    BY DEF CardInv
  <2>2. CASE q = r
    <3>1. card'[r] = new
      BY <2>1
    <3> QED BY <2>2, <3>1 DEF Answered
  <2>3. CASE q # r
    <3>1. card'[q] = card[q]
      BY <2>1, <2>3
    <3> QED BY <1>1, <3>1 DEF Answered
  <2> QED BY <2>2, <2>3
<1> QED BY <1>1

\* What the owner knows of the request it is applying.
LEMMA AppliedRequest ==
  ASSUME IInv, owner.at \in Applying
  PROVE  \E r \in Requests :
           /\ r = owner.request /\ Exists(r) /\ card[r] \in CardRecord
           /\ card[r].token \in 0 .. tokens /\ card[r].message \in 0 .. Len(messages)
           /\ card[r].state # "none" => card[r].token # 0
           /\ card[r].state = "open" => card[r].message # 0
           /\ owner.seen # "pending" => Settled(r)
           /\ owner.seen = "pending" /\ by[r] # "none" => card[r].state \in {"open", "closed"}
<1>1. owner.request \in Requests
  BY DEF IInv, OwnerInv
<1>2. PICK r \in Requests : r = owner.request
  BY <1>1
<1>3. /\ Exists(r) /\ (owner.seen # "pending" => Settled(r))
      /\ (owner.seen = "pending" => Answered(r))
  BY <1>2 DEF IInv, OwnerInv
<1>4. card[r] \in CardRecord
  BY DEF IInv, CardInv
<1>5. /\ card[r].token \in 0 .. tokens /\ card[r].message \in 0 .. Len(messages)
      /\ card[r].state # "none" => card[r].token # 0
      /\ card[r].state = "open" => card[r].message # 0
  BY DEF IInv, CardInv
<1> QED BY <1>2, <1>3, <1>4, <1>5 DEF Answered

\* A request decided by a click has its card, so none is drawn for it.
LEMMA ReserveCardSteps ==
  ASSUME IInv, ReserveCard
  PROVE  IInv'
<1>1. /\ owner.at = "apply" /\ owner.seen = "pending" /\ Card.state \in {"none", "sending"}
      /\ tokens' = tokens + 1
      /\ card' = [card EXCEPT ![owner.request] =
                    [state |-> "sending", token |-> tokens + 1, message |-> 0]]
      /\ Go("send") /\ OwnerOnly /\ Fine /\ UNCHANGED <<messages, stored>>
  BY DEF ReserveCard
<1>2. PICK r \in Requests :
        /\ r = owner.request /\ Exists(r)
        /\ by[r] # "none" => card[r].state \in {"open", "closed"}
  BY <1>1, AppliedRequest DEF Applying
<1>3. by[r] = "none" /\ card[r].state # "open"
  BY <1>1, <1>2 DEF Card
<1>4. tokens \in Nat /\ Len(messages) \in Nat
  BY DEF IInv, ChatInv
<1>5. PICK new \in CardRecord : new = [state |-> "sending", token |-> tokens + 1, message |-> 0]
  <2>1. [state |-> "sending", token |-> tokens + 1, message |-> 0] \in CardRecord
    BY <1>4 DEF CardRecord
  <2> QED BY <2>1
<1>6. new.state = "sending" /\ new.token = tokens' /\ new.message = 0
  BY <1>1, <1>5
<1>7. card' = [card EXCEPT ![r] = new]
  BY <1>1, <1>2, <1>5
<1>8. status' = status /\ by' = by /\ clicks' = clicks /\ StatusMoves /\ MessagesGrow
  BY <1>1, OwnerLeaves, MessagesSame DEF IInv
<1>9. ChatInv'
  <2>1. \A m \in 1 .. Len(messages) : messages[m].token \in 1 .. tokens'
    <3>1. \A m \in 1 .. Len(messages) : messages[m].token \in 1 .. tokens
      BY DEF IInv, ChatInv
    <3>2. 1 .. tokens \subseteq 1 .. tokens'
      BY <1>1, <1>4
    <3> QED BY <3>1, <3>2
  <2> QED BY <1>1, <1>4, <1>8, <2>1 DEF IInv, ChatInv, Exists
<1>10. stored' \in Cursors
  BY <1>1, StoredIsCursor DEF IInv
<1>11. \A q \in Requests : Answered(q) => Answered(q)'
  BY <1>3, <1>7, <1>8, OneAnswered DEF IInv
<1>12. OwnerInv'
  <2>1. owner \in OwnerRecord /\ owner.message \in 0 .. Len(messages)
    BY DEF IInv, OwnerInv
  <2>2. owner.todo \subseteq Requests
    BY <2>1 DEF OwnerRecord
  <2>3. /\ owner' \in OwnerRecord /\ owner'.at = "send" /\ owner'.back = owner.back
        /\ owner'.todo = owner.todo /\ owner'.request = r /\ owner'.seen = "pending"
        /\ owner'.message = owner.message
    BY <1>1, <1>2, <2>1 DEF Go, OwnerRecord, OwnerAt
  <2>4. \A q \in owner.todo : Exists(q)'
    BY <1>8 DEF IInv, OwnerInv, Exists
  <2>5. Exists(r)' /\ Answered(r)'
    BY <1>2, <1>3, <1>8 DEF Exists, Answered
  <2>6. card \in [Requests -> CardRecord]
    BY DEF IInv, CardInv
  <2>7. card'[r].state = "sending"
    BY <1>6, <1>7, <2>6
  <2>8. owner.back = "pending" => \A q \in owner.todo : Answered(q)'
    BY <1>1, <1>11, <2>2 DEF IInv, OwnerInv, Applying
  <2>9. owner'.message \in 0 .. Len(messages')
    BY <1>1, <2>1, <2>3
  <2>10. owner'.request \in Requests /\ Exists(owner.request)' /\ Answered(owner.request)'
         /\ card'[owner'.request].state = "sending"
    BY <2>3, <2>5, <2>7
  <2> QED BY <2>3, <2>4, <2>8, <2>9, <2>10 DEF OwnerInv, Applying
<1>13. tokens <= tokens' /\ new.token \in 1 .. tokens' /\ new.message \in 0 .. Len(messages')
  BY <1>1, <1>4, <1>6
<1> QED BY <1>1, <1>2, <1>3, <1>6, <1>7, <1>8, <1>9, <1>10, <1>12, <1>13, OneCard

\* A message sent carries the token of its card.
LEMMA SentKeeps ==
  ASSUME IInv, OwnerOnly, UNCHANGED tokens, owner.at = "send", messages' = Sent(owner.request)
  PROVE  ChatInv' /\ MessagesGrow /\ Len(messages') = Len(messages) + 1
<1>1. PICK r \in Requests :
        /\ r = owner.request /\ Exists(r) /\ card[r].token \in 0 .. tokens
        /\ card[r].state # "none" => card[r].token # 0
  BY AppliedRequest DEF Applying
<1>2. card[r].state = "sending" /\ tokens \in Nat
  BY <1>1 DEF IInv, OwnerInv, ChatInv
<1>3. card[r].token \in 1 .. tokens
  BY <1>1, <1>2
<1> DEFINE new == [request |-> r, token |-> card[r].token, shown |-> "pending", buttons |-> TRUE]
<1>4. messages \in Seq(MessageRecord) /\ new \in MessageRecord
  BY <1>3 DEF IInv, ChatInv, MessageRecord, Shown, Statuses
<1>5. new.token \in 1 .. tokens /\ new.request = r
  BY <1>3
<1>6. messages' = Append(messages, new)
  BY <1>1 DEF Sent
<1> HIDE DEF new
<1>7. /\ messages' \in Seq(MessageRecord) /\ Len(messages') = Len(messages) + 1
      /\ Len(messages) \in Nat
      /\ \A m \in 1 .. Len(messages) : messages'[m] = messages[m]
      /\ messages'[Len(messages) + 1] = new
  BY <1>4, <1>6
<1>8. MessagesGrow
  BY <1>7 DEF MessagesGrow
<1>9. status' = status /\ clicks' = clicks
  BY OwnerLeaves
<1>10. ASSUME NEW m \in 1 .. Len(messages')
       PROVE  messages'[m].token \in 1 .. tokens /\ Exists(messages[m].request)'
  <2>1. CASE m \in 1 .. Len(messages)
    <3>1. messages[m].token \in 1 .. tokens /\ Exists(messages[m].request)
      BY <2>1 DEF IInv, ChatInv
    <3> QED BY <1>7, <1>9, <2>1, <3>1 DEF Exists
  <2>2. CASE m = Len(messages) + 1
    <3>1. messages'[m] = new
      BY <1>7, <2>2
    <3>2. messages'[m].request = r
      BY <1>5, <3>1
    <3> QED BY <1>1, <1>5, <1>9, <3>1, <3>2 DEF Exists
  <2> QED BY <1>7, <2>1, <2>2
<1>11. \A u \in 1 .. Len(clicks) : clicks[u].message \in 1 .. Len(messages')
  <2>1. 1 .. Len(messages) \subseteq 1 .. Len(messages')
    BY <1>7
  <2> QED BY <2>1 DEF IInv, ChatInv
<1>12. ChatInv'
  BY <1>7, <1>9, <1>10, <1>11 DEF IInv, ChatInv
<1> QED BY <1>7, <1>8, <1>12

LEMMA SendCardSteps ==
  ASSUME IInv, SendCard
  PROVE  IInv'
<1>1. owner.at = "send" /\ OwnerOnly /\ UNCHANGED <<card, stored, tokens>>
  BY DEF SendCard
<1>2. CASE /\ Fine /\ messages' = Sent(owner.request)
           /\ owner' = [owner EXCEPT !.at = "open", !.message = Len(messages) + 1]
  <2>1. ChatInv' /\ MessagesGrow /\ Len(messages') = Len(messages) + 1
    BY <1>1, <1>2, SentKeeps
  <2>2. stored' \in Cursors
    BY <1>1, StoredIsCursor DEF IInv
  <2>3. status' = status /\ by' = by
    BY <1>1, OwnerLeaves
  <2>4. CardInv' /\ DecidedAsClicked' /\ CardsStay
    BY <1>1, <2>1, <2>2, OwnerLeaves, CardFrame, DecidedFrame DEF IInv, CardsStay
  <2>5. OwnerInv'
    <3>1. owner \in OwnerRecord /\ Len(messages) \in Nat
      BY DEF IInv, OwnerInv, ChatInv
    <3>2. owner.todo \subseteq Requests
      BY <3>1 DEF OwnerRecord
    <3>3. /\ owner' \in OwnerRecord /\ owner'.at = "open" /\ owner'.back = owner.back
          /\ owner'.todo = owner.todo /\ owner'.request = owner.request
          /\ owner'.seen = owner.seen /\ owner'.message = Len(messages) + 1
      <4>1. PICK n \in Nat : n = Len(messages) + 1
        BY <3>1
      <4>2. owner' = [owner EXCEPT !.at = "open", !.message = n]
        BY <1>2, <4>1
      <4> QED BY <3>1, <4>1, <4>2 DEF OwnerRecord, OwnerAt
    <3>4. /\ owner.request \in Requests /\ Exists(owner.request) /\ owner.seen = "pending"
          /\ Answered(owner.request) /\ card[owner.request].state = "sending"
      BY <1>1 DEF IInv, OwnerInv, Applying
    <3>5. /\ owner'.request \in Requests /\ Exists(owner.request)' /\ Answered(owner.request)'
          /\ owner'.seen = "pending" /\ card'[owner'.request].state = "sending"
      BY <1>1, <2>3, <3>3, <3>4 DEF Exists, Answered
    <3>6. \A q \in owner'.todo : Exists(q)'
      BY <2>3, <3>3 DEF IInv, OwnerInv, Exists
    <3>7. owner'.back = "pending" => \A q \in owner'.todo : Answered(q)'
      BY <1>1, <2>3, <3>3 DEF IInv, OwnerInv, Applying, Answered
    <3>8. owner'.message \in 0 .. Len(messages') /\ owner'.message # 0
      BY <2>1, <3>1, <3>3
    <3> QED BY <3>3, <3>5, <3>6, <3>7, <3>8 DEF OwnerInv, Applying
  <2> QED BY <1>1, <1>2, <2>1, <2>4, <2>5, OwnerParts
<1>3. CASE Retry /\ messages' = messages
  <2>1. ChatInv' /\ MessagesGrow
    BY <1>1, <1>3, OwnerLeaves, ChatFrame, MessagesSame DEF IInv
  <2> QED BY <1>1, <1>3, <2>1, OwnerRetries
<1>4. CASE Retry /\ messages' = Sent(owner.request)
  BY <1>1, <1>4, SentKeeps, OwnerRetries
<1> QED BY <1>2, <1>3, <1>4 DEF SendCard

\* The message a card was sent as becomes the card, under which no click was
\* accepted before.
LEMMA OpenCardSteps ==
  ASSUME IInv, OpenCard
  PROVE  IInv'
<1>1. owner.at = "open" /\ OwnerOnly /\ UNCHANGED <<messages, stored, tokens>>
  BY DEF OpenCard
<1>2. ChatInv' /\ MessagesGrow /\ StatusMoves /\ by' = by
  BY <1>1, OwnerLeaves, ChatFrame, MessagesSame DEF IInv
<1>3. CASE /\ Fine /\ Applied
           /\ card' = [card EXCEPT ![owner.request].state = "open",
                                   ![owner.request].message = owner.message]
  <2>1. PICK r \in Requests :
          /\ r = owner.request /\ Exists(r) /\ card[r] \in CardRecord
          /\ card[r].token \in 0 .. tokens
          /\ card[r].state # "none" => card[r].token # 0
          /\ owner.seen = "pending" /\ by[r] # "none" => card[r].state \in {"open", "closed"}
    BY <1>1, AppliedRequest DEF Applying
  <2>2. owner.seen = "pending" /\ card[r].state = "sending" /\ owner.message # 0
    BY <1>1, <2>1 DEF IInv, OwnerInv
  <2>3. by[r] = "none"
    BY <2>1, <2>2
  <2>4. tokens \in Nat /\ Len(messages) \in Nat /\ owner.message \in 0 .. Len(messages)
    BY DEF IInv, ChatInv, OwnerInv
  <2>5. PICK m \in Nat : m = owner.message
    BY <2>4
  <2>6. PICK new : new = [card[r] EXCEPT !.state = "open", !.message = m]
    OBVIOUS
  <2>7. new \in CardRecord /\ new.state = "open" /\ new.message = m /\ new.token = card[r].token
    BY <2>1, <2>6 DEF CardRecord
  <2>8. card' = [card EXCEPT ![r] = new]
    <3>1. card \in [Requests -> CardRecord]
      BY DEF IInv, CardInv
    <3>2. card' = [card EXCEPT ![r].state = "open", ![r].message = m]
      BY <1>3, <2>1, <2>5
    <3> QED BY <2>6, <3>1, <3>2
  <2>9. \A q \in Requests : Answered(q) => Answered(q)'
    BY <1>2, <2>3, <2>8, OneAnswered DEF IInv
  <2>10. OwnerInv'
    BY <1>1, <1>2, <1>3, <2>9, AppliedKeeps DEF IInv, Applying
  <2>11. new.token \in 1 .. tokens' /\ new.message \in 0 .. Len(messages') /\ new.message # 0
    BY <1>1, <2>1, <2>2, <2>4, <2>5, <2>7
  <2>12. stored' \in Cursors /\ tokens <= tokens'
    BY <1>1, <2>4, StoredIsCursor DEF IInv
  <2> QED BY <1>1, <1>2, <1>3, <2>1, <2>2, <2>3, <2>7, <2>8, <2>10, <2>11, <2>12, OneCard
<1>4. CASE Retry /\ UNCHANGED card
  BY <1>1, <1>2, <1>4, OwnerRetries
<1> QED BY <1>3, <1>4 DEF OpenCard

\* A card is closed only once its request is settled, and keeps its message.
LEMMA CloseCardSteps ==
  ASSUME IInv, CloseCard
  PROVE  IInv'
<1>1. /\ OwnerOnly /\ UNCHANGED <<messages, stored, tokens>>
      /\ \/ owner.at = "close"
         \/ owner.at = "apply" /\ owner.seen # "pending" /\ Card.state = "sending"
  BY DEF CloseCard
<1>2. ChatInv' /\ MessagesGrow /\ StatusMoves /\ by' = by
  BY <1>1, OwnerLeaves, ChatFrame, MessagesSame DEF IInv
<1>3. CASE Fine /\ Applied /\ card' = [card EXCEPT ![owner.request].state = "closed"]
  <2>1. PICK r \in Requests :
          /\ r = owner.request /\ Exists(r) /\ card[r] \in CardRecord
          /\ card[r].token \in 0 .. tokens /\ card[r].message \in 0 .. Len(messages)
          /\ card[r].state # "none" => card[r].token # 0
          /\ owner.seen # "pending" => Settled(r)
    BY <1>1, AppliedRequest DEF Applying
  <2>2. owner.seen # "pending" /\ card[r].state \in {"open", "sending"}
    BY <1>1, <2>1 DEF IInv, OwnerInv, Final, Card
  <2>3. Settled(r)
    BY <2>1, <2>2
  <2>4. tokens \in Nat /\ Len(messages) \in Nat
    BY DEF IInv, ChatInv
  <2>5. PICK new : new = [card[r] EXCEPT !.state = "closed"]
    OBVIOUS
  <2>6. /\ new \in CardRecord /\ new.state = "closed" /\ new.message = card[r].message
        /\ new.token = card[r].token
    BY <2>1, <2>5 DEF CardRecord
  <2>7. card' = [card EXCEPT ![r] = new]
    <3>1. card \in [Requests -> CardRecord]
      BY DEF IInv, CardInv
    <3>2. card' = [card EXCEPT ![r].state = "closed"]
      BY <1>3, <2>1
    <3> QED BY <2>5, <3>1, <3>2
  <2>8. \A q \in Requests : Answered(q) => Answered(q)'
    BY <1>2, <2>6, <2>7, OneAnswered DEF IInv
  <2>9. OwnerInv'
    BY <1>1, <1>2, <1>3, <2>8, AppliedKeeps DEF IInv, Applying
  <2>10. new.token \in 1 .. tokens' /\ new.message \in 0 .. Len(messages')
    BY <1>1, <2>1, <2>2, <2>4, <2>6
  <2>11. stored' \in Cursors /\ tokens <= tokens'
    BY <1>1, <2>4, StoredIsCursor DEF IInv
  <2>12. card[r].state # "none"
    BY <2>2
  <2> QED BY <1>1, <1>2, <1>3, <2>1, <2>3, <2>6, <2>7, <2>9, <2>10, <2>11, <2>12, OneCard
<1>4. CASE Retry /\ UNCHANGED card
  BY <1>1, <1>2, <1>4, OwnerRetries
<1> QED BY <1>3, <1>4 DEF CloseCard

\* An edit changes what a message shows and takes its buttons.
LEMMA EditKeeps ==
  ASSUME ChatInv, StatusMoves, UNCHANGED <<clicks, tokens>>,
         NEW m \in 1 .. Len(messages), NEW shown \in Shown, Edit(m, shown)
  PROVE  ChatInv' /\ MessagesGrow
<1>1. messages \in Seq(MessageRecord) /\ messages[m] \in MessageRecord
  BY DEF ChatInv
<1>2. PICK new : new = [messages[m] EXCEPT !.shown = shown, !.buttons = FALSE]
  OBVIOUS
<1>3. /\ new \in MessageRecord /\ new.request = messages[m].request
      /\ new.token = messages[m].token
  BY <1>1, <1>2 DEF MessageRecord
<1>4. messages' = [messages EXCEPT ![m] = new]
  BY <1>1, <1>2 DEF Edit
<1>5. messages' \in Seq(MessageRecord) /\ Len(messages') = Len(messages) /\ Len(messages) \in Nat
  BY <1>1, <1>3, <1>4
<1>6. \A i \in 1 .. Len(messages) : messages'[i] = IF i = m THEN new ELSE messages[i]
  BY <1>1, <1>4
<1>7. ASSUME NEW i \in 1 .. Len(messages)
      PROVE  /\ messages'[i].request = messages[i].request
             /\ messages'[i].token = messages[i].token
  BY <1>3, <1>6
<1>8. MessagesGrow
  BY <1>5, <1>7 DEF MessagesGrow
<1>9. ASSUME NEW i \in 1 .. Len(messages')
      PROVE  messages'[i].token \in 1 .. tokens /\ Exists(messages[i].request)'
  <2>1. messages[i] \in MessageRecord
    BY <1>1, <1>5
  <2>2. PICK r \in Requests : r = messages[i].request
    BY <2>1 DEF MessageRecord
  <2>3. messages[i].token \in 1 .. tokens /\ Exists(r)
    BY <1>5, <2>2 DEF ChatInv
  <2>4. status'[r] # "absent"
    BY <2>3 DEF StatusMoves, Exists
  <2> QED BY <1>5, <1>7, <2>2, <2>3, <2>4 DEF Exists
<1>10. ChatInv'
  BY <1>5, <1>9 DEF ChatInv
<1> QED BY <1>8, <1>10

LEMMA UpdateCardSteps ==
  ASSUME IInv, UpdateCard
  PROVE  IInv'
<1>1. /\ owner.at = "apply" /\ owner.seen # "pending" /\ Card.state = "open"
      /\ OwnerOnly /\ UNCHANGED <<card, stored, tokens>>
  BY DEF UpdateCard
<1>2. PICK r \in Requests :
        /\ r = owner.request /\ Exists(r) /\ card[r].message \in 0 .. Len(messages)
        /\ card[r].state = "open" => card[r].message # 0
        /\ owner.seen # "pending" => Settled(r)
  BY <1>1, AppliedRequest DEF Applying
<1>3. card[r].state = "open" /\ Len(messages) \in Nat /\ owner \in OwnerRecord
  BY <1>1, <1>2 DEF Card, IInv, ChatInv, OwnerInv
<1>4. PICK m \in 1 .. Len(messages) : m = Card.message
  BY <1>2, <1>3 DEF Card
<1>5. PICK shown \in Shown : shown = owner.seen
  BY <1>3 DEF OwnerRecord, Shown
<1>6. StatusMoves /\ status' = status /\ by' = by /\ clicks' = clicks
  BY <1>1, OwnerLeaves
<1>7. Edit(Card.message, owner.seen) => ChatInv' /\ MessagesGrow
  <2>1. Edit(Card.message, owner.seen) => Edit(m, shown)
    BY <1>4, <1>5
  <2> QED BY <1>1, <1>6, <2>1, EditKeeps DEF IInv
<1>8. messages' = messages => ChatInv' /\ MessagesGrow
  BY <1>1, <1>6, ChatFrame, MessagesSame DEF IInv
<1>9. CASE Retry /\ (UNCHANGED messages \/ Edit(Card.message, owner.seen))
  BY <1>1, <1>7, <1>8, <1>9, OwnerRetries
<1>10. CASE /\ Fine /\ Edit(Card.message, owner.seen)
            /\ IF owner.seen \in Final THEN Go("close") ELSE Applied
  <2>1. ChatInv' /\ MessagesGrow
    BY <1>7, <1>10
  <2>2. stored' \in Cursors
    BY <1>1, StoredIsCursor DEF IInv
  <2>3. CardInv' /\ DecidedAsClicked' /\ CardsStay
    BY <1>1, <2>1, <2>2, OwnerLeaves, CardFrame, DecidedFrame DEF IInv, CardsStay
  <2>4. CASE owner.seen \in Final
    <3>1. owner.todo \subseteq Requests /\ owner.message \in 0 .. Len(messages)
      BY <1>3 DEF OwnerRecord, IInv, OwnerInv
    <3>2. owner' = [owner EXCEPT !.at = "close"]
      BY <1>10, <2>4 DEF Go
    <3>3. /\ owner' \in OwnerRecord /\ owner'.at = "close" /\ owner'.back = owner.back
          /\ owner'.todo = owner.todo /\ owner'.request = r
          /\ owner'.seen = owner.seen /\ owner'.message = owner.message
      BY <1>2, <1>3, <3>2 DEF OwnerRecord, OwnerAt
    <3>4. status'[r] # "absent" /\ status'[r] # "pending" /\ card'[r].state = "open"
      BY <1>1, <1>2, <1>3, <1>6 DEF Exists, Settled
    <3>5. /\ owner'.request \in Requests /\ Exists(owner.request)' /\ Settled(owner.request)'
          /\ owner'.seen # "pending" /\ card'[owner'.request].state = "open"
      BY <1>1, <3>3, <3>4 DEF Exists, Settled
    <3>6. \A q \in owner'.todo : Exists(q)'
      BY <1>6, <3>3 DEF IInv, OwnerInv, Exists
    <3>7. owner'.back = "pending" => \A q \in owner'.todo : Answered(q)'
      BY <1>1, <1>6, <3>3 DEF IInv, OwnerInv, Applying, Answered
    <3>8. owner'.message \in 0 .. Len(messages')
      BY <1>3, <2>1, <3>1, <3>3 DEF MessagesGrow
    <3>9. OwnerInv'
      BY <2>4, <3>3, <3>5, <3>6, <3>7, <3>8 DEF OwnerInv, Applying
    <3> QED BY <1>1, <1>10, <2>1, <2>3, <3>9, OwnerParts
  <2>5. CASE owner.seen \notin Final
    <3>1. Applied
      BY <1>10, <2>5
    <3>2. \A q \in Requests : Answered(q) => Answered(q)'
      BY <1>1, <1>6, AnsweredSame
    <3>3. OwnerInv'
      BY <1>1, <1>6, <2>1, <3>1, <3>2, AppliedKeeps DEF IInv, Applying
    <3> QED BY <1>1, <1>10, <2>1, <2>3, <3>3, OwnerParts
  <2> QED BY <2>4, <2>5
<1> QED BY <1>9, <1>10 DEF UpdateCard

LEMMA OwnerSteps ==
  ASSUME IInv, Owner
  PROVE  IInv'
BY ListSteps, UnfinishedCardsSteps, ResyncDoneSteps, WatchExpiredSteps, ApplyListedSteps,
   SettleUnfinishedSteps, ReceiveSteps, StreamEndsSteps, SaveCursorSteps, ApplyNothingSteps,
   ReserveCardSteps, SendCardSteps, OpenCardSteps, UpdateCardSteps, CloseCardSteps
   DEF Owner

(***************************************************************************)
(* The poller's steps.                                                     *)
(***************************************************************************)
\* What is left to show of a step that does not decide.
LEMMA PollerParts ==
  ASSUME IInv, PollOnly, NotBroker, Fault \/ Fine, UNCHANGED clicks,
         ChatInv', MessagesGrow, InboxInv', PollInv'
  PROVE  IInv'
<1>1. UNCHANGED broker /\ UNCHANGED <<card, stored, owner, tokens, by>>
  BY DEF PollOnly, NotBroker, broker
<1>2. BrokerInv' /\ StatusMoves
  BY <1>1, BrokerFrame DEF IInv
<1>3. ClicksGrow
  BY ClicksSame DEF IInv
<1>4. stored' \in Cursors
  BY <1>1, StoredIsCursor DEF IInv
<1>5. CardInv' /\ DecidedAsClicked'
  BY <1>1, <1>2, <1>3, <1>4, CardFrame, DecidedFrame DEF IInv
<1>6. OwnerInv'
  BY <1>1, <1>2, AnsweredSame, OwnerFrame DEF IInv
<1>7. FaultsInv'
  BY FaultKeeps DEF IInv
<1> QED BY <1>2, <1>5, <1>6, <1>7 DEF IInv

LEMMA PollerLooks ==
  ASSUME IInv, PollOnly, NotBroker, Fault \/ Fine, UNCHANGED <<telegram, inbox, offset>>, PollInv'
  PROVE  IInv'
<1>1. UNCHANGED <<messages, clicks, tokens>> /\ UNCHANGED broker
  BY DEF telegram, PollOnly, NotBroker, broker
<1>2. StatusMoves
  BY <1>1, BrokerFrame DEF IInv
<1>3. ChatInv' /\ MessagesGrow /\ ClicksGrow
  BY <1>1, <1>2, ChatFrame, MessagesSame, ClicksSame DEF IInv
<1>4. InboxInv'
  BY <1>3, InboxFrame DEF IInv
<1> QED BY <1>1, <1>3, <1>4, PollerParts

\* A callback that is pending has a key.
LEMMA PendingKeys ==
  ASSUME InboxInv
  PROVE  inbox.pending \subseteq Keys /\ inbox.terminal \subseteq Keys /\ inbox.pending \subseteq Known
BY DEF InboxInv, Known

LEMMA FinishKeeps ==
  ASSUME PollInv, InboxInv, NEW key \in inbox.pending, NEW shown \in Shown, Finish(key, shown),
         UNCHANGED <<inbox, clicks>>
  PROVE  PollInv'
<1>1. poll \in PollRecord /\ key \in Keys
  BY PendingKeys DEF PollInv
<1>2. /\ poll' \in PollRecord /\ poll'.at = "finish" /\ poll'.key = key /\ poll'.result = shown
      /\ poll'.todo = poll.todo \ {key} /\ poll'.batch = poll.batch
  BY <1>1 DEF Finish, PollRecord, PollAt
<1>3. poll.todo \subseteq inbox.pending /\ poll.batch \subseteq 1 .. Len(clicks)
  BY DEF PollInv
<1> QED BY <1>2, <1>3 DEF PollInv

LEMMA PostponeKeeps ==
  ASSUME PollInv, Postpone, poll.todo \subseteq inbox'.pending, UNCHANGED clicks
  PROVE  PollInv'
<1>1. poll \in PollRecord
  BY DEF PollInv
<1>2. Polling.key \in Keys
  BY DEF Polling, Keys, Actions
<1>3. /\ poll' \in PollRecord /\ poll'.at = "item" /\ poll'.todo = poll.todo
      /\ poll'.batch = poll.batch
  BY <1>1, <1>2 DEF Postpone, PollRecord, PollAt
<1>4. poll.batch \subseteq 1 .. Len(clicks)
  BY DEF PollInv
<1> QED BY <1>3, <1>4 DEF PollInv

LEMMA LoadPendingSteps ==
  ASSUME IInv, LoadPending
  PROVE  IInv'
<1>1. Fine /\ UNCHANGED <<telegram, inbox, offset>> /\ NotBroker /\ PollOnly
  BY DEF LoadPending
<1>2. CASE poll' = Polling
  BY <1>1, <1>2, PollingKeeps, PollerLooks
<1>3. CASE poll' = [Polling EXCEPT !.at = "item", !.todo = inbox.pending]
  <2>1. inbox.pending \subseteq Keys
    BY PendingKeys DEF IInv
  <2>2. /\ poll' \in PollRecord /\ poll'.at = "item" /\ poll'.todo = inbox.pending
        /\ poll'.batch = {}
    BY <1>3, <2>1 DEF Polling, PollRecord, PollAt, Keys, Actions
  <2>3. PollInv'
    BY <1>1, <2>2 DEF PollInv
  <2> QED BY <1>1, <2>3, PollerLooks
<1> QED BY <1>2, <1>3 DEF LoadPending

\* verifyCard and a pending request mean an open card: a closed one is of a
\* settled request.
LEMMA HandleSteps ==
  ASSUME IInv, NEW key \in poll.todo, Handle(key)
  PROVE  IInv'
<1>1. Fine /\ UNCHANGED <<telegram, inbox, offset>> /\ NotBroker /\ PollOnly
  BY DEF Handle
<1>2. key \in inbox.pending /\ key \in Known /\ key \in Keys /\ poll \in PollRecord
  BY PendingKeys DEF IInv, PollInv
<1>3. PICK r \in Requests : r = RequestOf(key) /\ Exists(r)
  BY <1>2, KeyIsMessage DEF IInv
<1>4. UNCHANGED <<inbox, clicks, messages, status, card>>
  BY <1>1 DEF telegram, NotBroker, PollOnly
<1>5. CASE Finish(key, "superseded")
  <2>1. PollInv'
    BY <1>2, <1>4, <1>5, FinishKeeps DEF IInv, Shown
  <2> QED BY <1>1, <2>1, PollerLooks
<1>6. CASE Finish(key, status[RequestOf(key)])
  <2>1. PICK s \in Shown : s = status[r]
    BY DEF IInv, BrokerInv, Shown
  <2>2. Finish(key, s)
    BY <1>3, <1>6, <2>1
  <2>3. PollInv'
    BY <1>2, <1>4, <2>2, FinishKeeps DEF IInv
  <2> QED BY <1>1, <2>3, PollerLooks
<1>7. CASE /\ VerifyCard(key) /\ status[RequestOf(key)] = "pending"
           /\ poll' = [poll EXCEPT !.at = "decide", !.key = key, !.todo = @ \ {key}]
  <2>1. /\ poll' \in PollRecord /\ poll'.at = "decide" /\ poll'.key = key
        /\ poll'.todo = poll.todo \ {key} /\ poll'.batch = poll.batch
    BY <1>2, <1>7 DEF PollRecord, PollAt
  <2>2. card[r].state \in {"open", "closed"} /\ card[r].message = key[1]
    BY <1>3, <1>7 DEF VerifyCard
  <2>3. card[r].state # "closed"
    BY <1>3, <1>7 DEF IInv, CardInv, Settled
  <2>4. poll.todo \subseteq inbox.pending /\ poll.batch \subseteq 1 .. Len(clicks)
    BY DEF IInv, PollInv
  <2>5. RequestOf(poll.key)' = r
    BY <1>3, <1>4, <2>1 DEF RequestOf
  <2>6. card'[r].state = "open" /\ card'[r].message = poll'.key[1]
    BY <1>4, <2>1, <2>2, <2>3
  <2>7. PollInv'
    BY <1>2, <1>4, <2>1, <2>4, <2>5, <2>6 DEF PollInv
  <2> QED BY <1>1, <2>7, PollerLooks
<1> QED BY <1>5, <1>6, <1>7 DEF Handle

LEMMA HandleExpiredSteps ==
  ASSUME IInv, NEW key \in poll.todo, HandleExpired(key)
  PROVE  IInv'
<1>1. /\ Fault /\ UNCHANGED <<telegram, inbox, offset>> /\ NotBroker /\ PollOnly
      /\ Finish(key, "closed")
  BY DEF HandleExpired
<1>2. key \in inbox.pending
  BY DEF IInv, PollInv
<1>3. UNCHANGED <<inbox, clicks>>
  BY <1>1 DEF telegram
<1>4. PollInv'
  BY <1>1, <1>2, <1>3, FinishKeeps DEF IInv, Shown
<1> QED BY <1>1, <1>4, PollerLooks

LEMMA UnavailableSteps ==
  ASSUME IInv, NEW key \in poll.todo, Unavailable(key)
  PROVE  IInv'
<1>1. /\ Fault /\ UNCHANGED <<telegram, inbox, offset>> /\ NotBroker /\ PollOnly
      /\ poll.at = "item" /\ poll' = [poll EXCEPT !.todo = @ \ {key}]
  BY DEF Unavailable
<1>2. poll \in PollRecord /\ poll.todo \subseteq inbox.pending /\ poll.batch \subseteq 1 .. Len(clicks)
  BY DEF IInv, PollInv
<1>3. /\ poll' \in PollRecord /\ poll'.at = "item" /\ poll'.todo = poll.todo \ {key}
      /\ poll'.batch = poll.batch
  BY <1>1, <1>2 DEF PollRecord
<1>4. UNCHANGED <<inbox, clicks>>
  BY <1>1 DEF telegram
<1>5. PollInv'
  BY <1>2, <1>3, <1>4 DEF PollInv
<1> QED BY <1>1, <1>5, PollerLooks

LEMMA EditClickedSteps ==
  ASSUME IInv, EditClicked
  PROVE  IInv'
<1>1. poll.at = "finish" /\ UNCHANGED <<clicks, inbox, offset>> /\ NotBroker /\ PollOnly
  BY DEF EditClicked
<1>2. /\ poll \in PollRecord /\ poll.key \in inbox.pending \ poll.todo /\ poll.result \in Shown
      /\ poll.todo \subseteq inbox.pending /\ poll.batch \subseteq 1 .. Len(clicks)
  BY <1>1 DEF IInv, PollInv
<1>3. poll.key \in Known
  BY <1>2, PendingKeys DEF IInv
<1>4. PICK m \in 1 .. Len(messages) : m = poll.key[1]
  BY <1>3, KeyIsMessage DEF IInv
<1>5. PICK shown \in Shown : shown = poll.result
  BY <1>2
<1>6. UNCHANGED broker /\ tokens' = tokens
  BY <1>1 DEF NotBroker, PollOnly, broker
<1>7. StatusMoves /\ ClicksGrow
  BY <1>1, <1>6, BrokerFrame, ClicksSame DEF IInv
<1>8. InboxInv'
  BY <1>1, <1>7, InboxFrame DEF IInv
<1>9. Edit(poll.key[1], poll.result) => ChatInv' /\ MessagesGrow
  <2>1. Edit(poll.key[1], poll.result) => Edit(m, shown)
    BY <1>4, <1>5
  <2> QED BY <1>1, <1>6, <1>7, <2>1, EditKeeps DEF IInv
<1>10. messages' = messages => ChatInv' /\ MessagesGrow
  BY <1>1, <1>6, <1>7, ChatFrame, MessagesSame DEF IInv
<1>11. CASE Fine /\ Edit(poll.key[1], poll.result) /\ poll' = [poll EXCEPT !.at = "terminal"]
  <2>1. /\ poll' \in PollRecord /\ poll'.at = "terminal" /\ poll'.key = poll.key
        /\ poll'.todo = poll.todo /\ poll'.batch = poll.batch
    BY <1>2, <1>11 DEF PollRecord, PollAt
  <2>2. PollInv'
    BY <1>1, <1>2, <2>1 DEF PollInv
  <2> QED BY <1>1, <1>8, <1>9, <1>11, <2>2, PollerParts
<1>12. CASE Fault /\ Postpone /\ (UNCHANGED messages \/ Edit(poll.key[1], poll.result))
  <2>1. PollInv'
    BY <1>1, <1>2, <1>12, PostponeKeeps DEF IInv
  <2> QED BY <1>1, <1>8, <1>9, <1>10, <1>12, <2>1, PollerParts
<1> QED BY <1>11, <1>12 DEF EditClicked

LEMMA TerminalSteps ==
  ASSUME IInv, Terminal
  PROVE  IInv'
<1>1. /\ poll.at = "terminal" /\ Postpone
      /\ inbox' = [pending |-> inbox.pending \ {poll.key},
                   terminal |-> inbox.terminal \cup {poll.key}]
      /\ Fine /\ UNCHANGED <<telegram, offset>> /\ NotBroker /\ PollOnly
  BY DEF Terminal
<1>2. UNCHANGED <<messages, clicks, tokens, offset>> /\ UNCHANGED broker
  BY <1>1 DEF telegram, NotBroker, PollOnly, broker
<1>3. poll.key \in inbox.pending \ poll.todo /\ poll.todo \subseteq inbox.pending
  BY <1>1 DEF IInv, PollInv
<1>4. PollInv'
  BY <1>1, <1>2, <1>3, PostponeKeeps DEF IInv
<1>5. ChatInv' /\ MessagesGrow
  BY <1>2, BrokerFrame, ChatFrame, MessagesSame DEF IInv
<1>6. InboxInv'
  <2>1. inbox' \in [pending : SUBSET Keys, terminal : SUBSET Keys]
    BY <1>1, <1>3, PendingKeys DEF IInv
  <2>2. Known' \subseteq Known
    BY <1>1, <1>3 DEF Known
  <2>3. \A k \in Known' : Clicked(k)'
    BY <1>2, <2>2 DEF IInv, InboxInv, Clicked
  <2> QED BY <1>2, <2>1, <2>3 DEF IInv, InboxInv
<1> QED BY <1>1, <1>2, <1>4, <1>5, <1>6, PollerParts

LEMMA GetUpdatesSteps ==
  ASSUME IInv, GetUpdates
  PROVE  IInv'
<1> DEFINE fresh == {u \in 1 .. Len(clicks) : u >= offset}
<1>1. Fine /\ UNCHANGED <<telegram, inbox, offset>> /\ NotBroker /\ PollOnly
  BY DEF GetUpdates
<1>2. CASE poll' = Polling
  BY <1>1, <1>2, PollingKeeps, PollerLooks
<1>3. CASE poll' = [Polling EXCEPT !.at = "persist", !.batch = fresh]
  <2>1. fresh \subseteq Nat /\ fresh \subseteq 1 .. Len(clicks)
    BY DEF IInv, ChatInv
  <2> HIDE DEF fresh
  <2>2. /\ poll' \in PollRecord /\ poll'.at = "persist" /\ poll'.todo = {}
        /\ poll'.batch = fresh
    BY <1>3, <2>1 DEF Polling, PollRecord, PollAt, Keys, Actions
  <2>3. clicks' = clicks
    BY <1>1 DEF telegram
  <2>4. PollInv'
    BY <2>1, <2>2, <2>3 DEF PollInv
  <2> QED BY <1>1, <2>4, PollerLooks
<1> QED BY <1>2, <1>3 DEF GetUpdates

LEMMA PersistUpdateSteps ==
  ASSUME IInv, PersistUpdate
  PROVE  IInv'
<1>1. /\ poll.at = "persist" /\ poll.batch # {} /\ Fine /\ UNCHANGED telegram
      /\ NotBroker /\ PollOnly
  BY DEF PersistUpdate
<1>2. poll \in PollRecord /\ poll.batch \subseteq 1 .. Len(clicks) /\ poll.todo \subseteq inbox.pending
  BY DEF IInv, PollInv
<1>3. poll.batch \in SUBSET Nat
  BY <1>2 DEF PollRecord
<1>4. \E u \in poll.batch : \A v \in poll.batch : u <= v
  BY <1>1, <1>3, LeastExists
<1>5. PICK u \in poll.batch :
        /\ offset' = u + 1 /\ poll' = [poll EXCEPT !.batch = @ \ {u}]
        /\ inbox' = [inbox EXCEPT !.pending = @ \cup ({Key(clicks[u])} \ Known)]
  <2> DEFINE n == CHOOSE u \in poll.batch : \A v \in poll.batch : u <= v
  <2>1. n \in poll.batch
    BY <1>4
  <2>2. /\ offset' = n + 1 /\ poll' = [poll EXCEPT !.batch = @ \ {n}]
        /\ inbox' = [inbox EXCEPT !.pending = @ \cup ({Key(clicks[n])} \ Known)]
    BY DEF PersistUpdate
  <2> HIDE DEF n
  <2> QED BY <2>1, <2>2
<1>6. UNCHANGED <<messages, clicks, tokens>> /\ UNCHANGED broker
  BY <1>1 DEF telegram, NotBroker, PollOnly, broker
<1>7. clicks \in Seq(ClickRecord) /\ Len(clicks) \in Nat
  BY DEF IInv, ChatInv
<1>8. u \in 1 .. Len(clicks) /\ clicks[u] \in ClickRecord
  BY <1>2, <1>7
<1>9. PICK k \in Keys : k = Key(clicks[u])
  BY <1>8 DEF Key, Keys, ClickRecord
<1>10. ChatInv' /\ MessagesGrow
  BY <1>6, BrokerFrame, ChatFrame, MessagesSame DEF IInv
<1>11. /\ inbox' \in [pending : SUBSET Keys, terminal : SUBSET Keys]
       /\ inbox.pending \subseteq inbox'.pending /\ Known' \subseteq Known \cup {k}
  <2>1. inbox \in [pending : SUBSET Keys, terminal : SUBSET Keys]
    BY DEF IInv, InboxInv
  <2>2. inbox' = [inbox EXCEPT !.pending = @ \cup ({k} \ Known)]
    BY <1>5, <1>9
  <2>3. /\ inbox'.pending = inbox.pending \cup ({k} \ Known) /\ inbox'.terminal = inbox.terminal
        /\ inbox' \in [pending : SUBSET Keys, terminal : SUBSET Keys]
    BY <1>9, <2>1, <2>2
  <2> QED BY <2>3 DEF Known
<1>12. InboxInv'
  <2>1. \A q \in Known' : Clicked(q)
    BY <1>8, <1>9, <1>11 DEF IInv, InboxInv, Clicked
  <2>2. \A q \in Known' : Clicked(q)'
    BY <1>6, <2>1 DEF Clicked
  <2>3. offset' \in 1 .. Len(clicks') + 1
    BY <1>5, <1>6, <1>7, <1>8
  <2> QED BY <1>11, <2>2, <2>3 DEF InboxInv
<1>13. PollInv'
  <2>1. /\ poll' \in PollRecord /\ poll'.at = "persist" /\ poll'.todo = poll.todo
        /\ poll'.batch = poll.batch \ {u}
    BY <1>1, <1>2, <1>5 DEF PollRecord
  <2> QED BY <1>2, <1>6, <1>11, <2>1 DEF PollInv
<1> QED BY <1>1, <1>6, <1>10, <1>12, <1>13, PollerParts

\* The decision that takes effect is the one of the click, on the card.
LEMMA DecidesKeeps ==
  ASSUME IInv, poll.at = "decide", NEW r \in Requests, r = RequestOf(poll.key),
         status[r] = "pending", NEW new \in {"active", "over"}, Become(r, new),
         by' = [by EXCEPT ![r] = poll.key[2]], Fault \/ Fine,
         UNCHANGED <<telegram, inbox, offset>>, PollOnly, PollInv'
  PROVE  IInv'
<1>1. UNCHANGED <<messages, clicks, tokens, card, stored, owner, epoch, inbox, offset>>
  BY DEF telegram, PollOnly
<1>2. poll.key \in Known
  BY PendingKeys DEF IInv, PollInv
<1>3. poll.key[2] \in Actions /\ poll.key = <<poll.key[1], poll.key[2]>>
  BY <1>2, KeyIsMessage DEF IInv
<1>4. PICK a \in Actions : a = poll.key[2]
  BY <1>3
<1>5. by \in [Requests -> Actions \cup {"none"}]
  BY DEF IInv, BrokerInv
<1>6. /\ by' \in [Requests -> Actions \cup {"none"}] /\ by'[r] = a
      /\ \A q \in Requests : q # r => by'[q] = by[q]
  BY <1>4, <1>5
<1>7. new \in Statuses \ {"absent"} /\ new # "pending"
  BY DEF Statuses
<1>8. /\ status' \in [Requests -> Statuses] /\ nextEvent' \in Nat \ {0}
      /\ events' \in Seq(EventRecord)
      /\ \A i \in 1 .. Len(events') : Exists(events[i].request)'
      /\ StatusMoves /\ status'[r] = new
  BY <1>7, BecomeKeeps DEF IInv
<1>9. BrokerInv'
  <2>1. ASSUME NEW q \in Requests, by'[q] # "none" PROVE Settled(q)'
    <3>1. CASE q = r
      BY <1>7, <1>8, <3>1 DEF Settled
    <3>2. CASE q # r
      <4>1. Settled(q)
        BY <1>6, <2>1, <3>2 DEF IInv, BrokerInv
      <4> QED BY <1>8, <4>1, SettledStays
    <3> QED BY <3>1, <3>2
  <2> QED BY <1>1, <1>6, <1>8, <2>1 DEF IInv, BrokerInv
<1>10. MessagesGrow /\ ClicksGrow /\ ChatInv'
  BY <1>1, <1>8, MessagesSame, ClicksSame, ChatFrame DEF IInv
<1>11. stored' \in Cursors
  BY <1>1, StoredIsCursor DEF IInv
<1>12. CardInv' /\ InboxInv'
  BY <1>1, <1>8, <1>10, <1>11, CardFrame, InboxFrame DEF IInv
<1>13. card[r].state = "open" /\ card[r].message = poll.key[1]
  BY DEF IInv, PollInv
<1>14. OwnerInv'
  <2>1. ASSUME NEW q \in Requests, Answered(q) PROVE Answered(q)'
    <3>1. CASE q = r
      BY <1>1, <1>13, <3>1 DEF Answered
    <3>2. CASE q # r
      BY <1>1, <1>6, <2>1, <3>2 DEF Answered
    <3> QED BY <3>1, <3>2
  <2> QED BY <1>1, <1>8, <1>10, <2>1, OwnerFrame DEF IInv
<1>15. DecidedAsClicked'
  <2> SUFFICES ASSUME NEW q \in Requests, by'[q] # "none"
               PROVE  /\ card[q].state \in {"none", "open", "closed"}
                      /\ card[q].state # "none" =>
                           \E u \in 1 .. Len(clicks) :
                             clicks[u] = [message |-> card[q].message, action |-> by'[q]]
    BY <1>1 DEF DecidedAsClicked
  <2>1. CASE q # r
    BY <1>6, <2>1 DEF IInv, DecidedAsClicked
  <2>2. CASE q = r
    <3>1. PICK u \in 1 .. Len(clicks) : Key(clicks[u]) = poll.key
      BY <1>2 DEF IInv, InboxInv, Clicked
    <3>2. clicks[u] \in ClickRecord
      BY DEF IInv, ChatInv
    <3>3. clicks[u].message = poll.key[1] /\ clicks[u].action = poll.key[2]
      BY <1>3, <3>1 DEF Key
    <3>4. clicks[u] = [message |-> clicks[u].message, action |-> clicks[u].action]
      BY <3>2 DEF ClickRecord
    <3>5. clicks[u] = [message |-> card[q].message, action |-> by'[q]]
      BY <1>4, <1>6, <1>13, <2>2, <3>3, <3>4
    <3> QED BY <1>13, <2>2, <3>5
  <2> QED BY <2>1, <2>2
<1>16. FaultsInv'
  BY FaultKeeps DEF IInv
<1> QED BY <1>9, <1>10, <1>12, <1>14, <1>15, <1>16 DEF IInv

LEMMA DecideSteps ==
  ASSUME IInv, Decide
  PROVE  IInv'
<1>1. poll.at = "decide" /\ UNCHANGED <<telegram, inbox, offset>> /\ PollOnly
  BY DEF Decide
<1>2. UNCHANGED <<clicks, inbox>>
  BY <1>1 DEF telegram
<1>3. poll.key \in inbox.pending /\ poll.todo \subseteq inbox.pending
  BY <1>1 DEF IInv, PollInv
<1>4. poll.key \in Known
  BY <1>3, PendingKeys DEF IInv
<1>5. PICK r \in Requests : r = RequestOf(poll.key)
  BY <1>4, KeyIsMessage DEF IInv
<1>6. PICK new \in {"active", "over"} :
        new = IF poll.key[2] = "approve" THEN "active" ELSE "over"
  OBVIOUS
<1>7. PICK key \in inbox.pending : key = poll.key
  BY <1>3
<1>8. Postpone => PollInv'
  BY <1>2, <1>3, PostponeKeeps DEF IInv
<1>9. CASE /\ status[r] = "pending" /\ Become(r, new)
           /\ by' = [by EXCEPT ![r] = poll.key[2]]
           /\ (Fine /\ Finish(poll.key, new)) \/ (Fault /\ Postpone)
  <2>1. Finish(poll.key, new) => PollInv'
    <3>1. new \in Shown
      BY <1>6 DEF Shown, Statuses
    <3>2. Finish(poll.key, new) => Finish(key, new)
      BY <1>7
    <3> QED BY <1>2, <3>1, <3>2, FinishKeeps DEF IInv
  <2>2. PollInv' /\ (Fault \/ Fine)
    BY <1>8, <1>9, <2>1
  <2> QED BY <1>1, <1>5, <1>9, <2>2, DecidesKeeps
<1>10. CASE status[r] # "pending" /\ Fine /\ Finish(poll.key, status[r]) /\ NotBroker
  <2>1. PICK s \in Shown : s = status[r]
    BY DEF IInv, BrokerInv, Shown
  <2>2. Finish(key, s)
    BY <1>7, <1>10, <2>1
  <2>3. PollInv'
    BY <1>2, <2>2, FinishKeeps DEF IInv
  <2> QED BY <1>1, <1>10, <2>3, PollerLooks
<1>11. CASE Fault /\ Postpone /\ NotBroker
  BY <1>1, <1>8, <1>11, PollerLooks
<1> QED BY <1>5, <1>6, <1>9, <1>10, <1>11 DEF Decide

LEMMA PollerSteps ==
  ASSUME IInv, Poller
  PROVE  IInv'
BY LoadPendingSteps, DecideSteps, EditClickedSteps, TerminalSteps, GetUpdatesSteps,
   HandleSteps, HandleExpiredSteps, UnavailableSteps, PersistUpdateSteps
   DEF Poller

(***************************************************************************)
(* The theorems.                                                           *)
(***************************************************************************)
LEMMA CardsStart == Init => IInv
<1> SUFFICES ASSUME Init PROVE IInv
  OBVIOUS
<1>1. NoCard \in CardRecord /\ NoCard.state = "none" /\ NoCard.token = 0 /\ NoCard.message = 0
  BY DEF NoCard, CardRecord
<1>2. NoCursor \in Cursors
  BY DEF NoCursor, Cursors
<1>3. events = <<>> /\ messages = <<>> /\ clicks = <<>> /\ tokens = 0
  BY DEF Init
<1>4. /\ events \in Seq(EventRecord) /\ Len(events) = 0
      /\ messages \in Seq(MessageRecord) /\ Len(messages) = 0
      /\ clicks \in Seq(ClickRecord) /\ Len(clicks) = 0
  BY <1>3
<1>5. BrokerInv
  <2>1. status \in [Requests -> Statuses] /\ by \in [Requests -> Actions \cup {"none"}]
        /\ \A r \in Requests : by[r] = "none"
    BY DEF Init, Statuses
  <2> QED BY <1>4, <2>1 DEF Init, BrokerInv
<1>6. ChatInv
  BY <1>3, <1>4 DEF ChatInv
<1>7. \A r \in Requests : card[r] = NoCard
  BY DEF Init
<1>8. CardInv
  <2>1. card \in [Requests -> CardRecord]
    BY <1>1 DEF Init
  <2> QED BY <1>1, <1>2, <1>3, <1>4, <1>7, <2>1 DEF Init, CardInv
<1>9. OwnerInv
  <2>1. owner = Follow(NoCursor)
    BY DEF Init
  <2>2. owner \in OwnerRecord
    BY <1>2, <2>1 DEF Follow, Watching, OwnerRecord, OwnerAt, Statuses
  <2>3. owner.at \in {"list", "watch"} /\ owner.todo = {} /\ owner.message = 0
    BY <2>1 DEF Follow, Watching
  <2> QED BY <1>4, <2>2, <2>3 DEF OwnerInv, Applying
<1>10. InboxInv
  <2>1. inbox \in [pending : SUBSET Keys, terminal : SUBSET Keys] /\ Known = {}
    BY DEF Init, Known
  <2> QED BY <1>4, <2>1 DEF Init, InboxInv
<1>11. PollInv
  <2>1. poll \in PollRecord
    BY DEF Init, Polling, PollRecord, PollAt, Keys, Actions
  <2>2. poll.at = "idle" /\ poll.todo = {} /\ poll.batch = {}
    BY DEF Init, Polling
  <2> QED BY <2>1, <2>2 DEF PollInv
<1>12. FaultsInv /\ DecidedAsClicked
  BY CardsAssumption DEF Init, FaultsInv, DecidedAsClicked
<1> QED BY <1>5, <1>6, <1>8, <1>9, <1>10, <1>11, <1>12 DEF IInv

LEMMA CardsStutter == IInv /\ UNCHANGED vars => IInv'
<1> SUFFICES ASSUME IInv, UNCHANGED vars PROVE IInv'
  OBVIOUS
<1>1. UNCHANGED <<broker, messages, clicks, card, stored, inbox, offset, owner, poll, tokens,
                  faults, by>>
  BY DEF vars, telegram, file, broker
<1>2. BrokerInv' /\ StatusMoves /\ MessagesGrow /\ ClicksGrow
  BY <1>1, BrokerFrame, MessagesSame, ClicksSame DEF IInv
<1>3. stored' \in Cursors
  BY <1>1, StoredIsCursor DEF IInv
<1>4. ChatInv' /\ CardInv' /\ InboxInv' /\ DecidedAsClicked'
  BY <1>1, <1>2, <1>3, ChatFrame, CardFrame, InboxFrame, DecidedFrame DEF IInv
<1>5. OwnerInv' /\ PollInv'
  BY <1>1, <1>2, AnsweredSame, OwnerFrame, PollFrame DEF IInv, CardsStay
<1>6. FaultsInv'
  BY <1>1 DEF IInv, FaultsInv
<1> QED BY <1>2, <1>4, <1>5, <1>6 DEF IInv

LEMMA CardsStep == IInv /\ [Next]_vars => IInv'
BY CardsStutter, BrokerSteps, OwnerSteps, PollerSteps, CrashSteps, ClickSteps DEF Next

\* The inductive invariant of broker, chat, file, owner and poller holds in
\* every behaviour, whichever of them fails and whenever the process dies.
THEOREM CardsInvariance == Spec => []IInv
BY CardsStart, CardsStep, PTL DEF Spec

LEMMA CardsTyped == IInv => TypeOK
<1> SUFFICES ASSUME IInv PROVE TypeOK
  OBVIOUS
<1>1. messages \in Seq([request : Requests, token : 1 .. tokens, shown : Shown, buttons : BOOLEAN])
  <2> DEFINE T == [request : Requests, token : 1 .. tokens, shown : Shown, buttons : BOOLEAN]
  <2>1. messages \in Seq(MessageRecord)
    BY DEF IInv, ChatInv
  <2>2. ASSUME NEW m \in 1 .. Len(messages) PROVE messages[m] \in T
    <3>1. messages[m] \in MessageRecord
      BY <2>1
    <3>2. messages[m].token \in 1 .. tokens
      BY DEF IInv, ChatInv
    <3> QED BY <3>1, <3>2 DEF MessageRecord
  <2> HIDE DEF T
  <2>3. messages \in Seq(T)
    BY <2>1, <2>2, SeqNarrow
  <2> QED BY <2>3 DEF T
<1>2. clicks \in Seq([message : 1 .. Len(messages), action : Actions])
  <2> DEFINE T == [message : 1 .. Len(messages), action : Actions]
  <2>1. clicks \in Seq(ClickRecord)
    BY DEF IInv, ChatInv
  <2>2. ASSUME NEW u \in 1 .. Len(clicks) PROVE clicks[u] \in T
    <3>1. clicks[u] \in ClickRecord
      BY <2>1
    <3>2. clicks[u].message \in 1 .. Len(messages)
      BY DEF IInv, ChatInv
    <3> QED BY <3>1, <3>2 DEF ClickRecord
  <2> HIDE DEF T
  <2>3. clicks \in Seq(T)
    BY <2>1, <2>2, SeqNarrow
  <2> QED BY <2>3 DEF T
<1>3. card \in [Requests -> [state : {"none", "sending", "open", "closed"},
                             token : 0 .. tokens, message : 0 .. Len(messages)]]
  <2> DEFINE T == [state : {"none", "sending", "open", "closed"},
                   token : 0 .. tokens, message : 0 .. Len(messages)]
  <2>1. card \in [Requests -> CardRecord]
    BY DEF IInv, CardInv
  <2>2. ASSUME NEW r \in Requests PROVE card[r] \in T
    <3>1. card[r] \in CardRecord
      BY <2>1
    <3>2. card[r].token \in 0 .. tokens /\ card[r].message \in 0 .. Len(messages)
      BY DEF IInv, CardInv
    <3> QED BY <3>1, <3>2 DEF CardRecord
  <2> HIDE DEF T
  <2>3. card \in [Requests -> T]
    BY <2>1, <2>2
  <2> QED BY <2>3 DEF T
<1>4. stored.seq \in Nat \cup {Unset}
  BY DEF IInv, CardInv, Cursors
<1>5. Known \subseteq (1 .. Len(messages)) \X Actions
  <2>1. ASSUME NEW k \in Known PROVE k \in (1 .. Len(messages)) \X Actions
    <3>1. k[1] \in 1 .. Len(messages) /\ k[2] \in Actions /\ k = <<k[1], k[2]>>
      BY KeyIsMessage DEF IInv
    <3> QED BY <3>1
  <2> QED BY <2>1
<1>6. owner.todo \subseteq Requests /\ owner.seen \in Statuses
  BY DEF IInv, OwnerInv, OwnerRecord
<1>7. poll.todo \subseteq inbox.pending /\ offset \in 1 .. Len(clicks) + 1
  BY DEF IInv, PollInv, InboxInv
<1>8. /\ status \in [Requests -> Statuses] /\ nextEvent \in Nat \ {0}
      /\ events \in Seq([seq : Nat \ {0}, request : Requests])
      /\ by \in [Requests -> Actions \cup {"none"}]
  BY DEF IInv, BrokerInv, EventRecord
<1>9. faults \in 0 .. MaxFaults
  BY DEF IInv, FaultsInv
<1> QED BY <1>1, <1>2, <1>3, <1>4, <1>5, <1>6, <1>7, <1>8, <1>9 DEF TypeOK, Shown

\* The owner's file, the chat and the locals of both loops keep their types:
\* a card names a message that was sent, a callback a button that was clicked.
THEOREM CardsTypeCorrectness == Spec => []TypeOK
BY CardsInvariance, CardsTyped, PTL

\* A request decided in the chat was decided by a click on its own card, for
\* any number of requests, clicks and faults.
THEOREM DecisionsAreClicks == Spec => []DecidedAsClicked
<1>1. IInv => DecidedAsClicked
  BY DEF IInv
<1> QED BY <1>1, CardsInvariance, PTL
===============================================================================
