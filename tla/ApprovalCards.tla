---------------------------- MODULE ApprovalCards ----------------------------
(***************************************************************************)
(* Approval cards: the Telegram owner (approval/notifier/telegram) between *)
(* a broker's event log and a chat.                                        *)
(*                                                                         *)
(* Three parties run concurrently.  The broker's requests change and leave *)
(* events in a log that keeps the newest MaxEvents.  The owner follows the *)
(* log from a stored cursor and makes each request's card match it.  The   *)
(* poller takes clicks from the chat into a durable inbox, decides them at *)
(* the broker and edits the clicked message.  Owner and poller are one     *)
(* process and share one SQLite file, whose statements are atomic; calls   *)
(* to the broker and to Telegram are steps of their own.  A call that      *)
(* fails may have taken effect.                                            *)
(*                                                                         *)
(* One route is modelled; the routes share nothing but the update offset.  *)
(* Texts are reduced to the status a message shows and whether it still    *)
(* has its buttons.  The event log is the one of GrantStore, reduced to    *)
(* sequence numbers and request ids.                                       *)
(***************************************************************************)
EXTENDS Integers, Sequences, FiniteSets

CONSTANTS
  Requests,    \* request ids, each used once
  MaxEvents,   \* events the broker retains
  MaxClicks,   \* bound: clicks in a behaviour
  MaxFaults    \* bound: crashes, failed calls, replacements of the database

ASSUME CardsAssumption ==
  MaxEvents \in Nat \ {0} /\ MaxClicks \in Nat /\ MaxFaults \in Nat

VARIABLES
  \* the broker
  status,    \* status[r] of a request
  events,    \* retained events, oldest first: [seq, request]
  nextEvent, \* sequence number of the next event
  epoch,     \* history: how often the database was replaced
  by,        \* history: by[r], how the request was decided in the chat
  \* Telegram
  messages,  \* messages sent: [request, token, shown, buttons]
  clicks,    \* updates: [message, action]; its index is the update id
  \* the owner's SQLite file
  card,      \* card[r]: [state, token, message]
  stored,    \* the stored event cursor: [seq, of]; seq = Unset without one;
             \* of: history, the database whose list it goes on from
  inbox,     \* callbacks by decision key: [pending, terminal]
  offset,    \* next_offset
  \* the running process
  owner,     \* locals of the owner
  poll,      \* locals of the poller
  tokens,    \* card tokens drawn
  faults     \* faults so far

broker   == <<status, events, nextEvent, epoch, by>>
telegram == <<messages, clicks>>
file     == <<card, stored, inbox, offset>>
vars == <<broker, telegram, file, owner, poll, tokens, faults>>

\* over: denied, expired, canceled, consumed, revoked or failed.  missing: the
\* broker answers not found.
Statuses == {"absent", "pending", "active", "over", "missing"}
Final    == {"over", "missing"}   \* finalStatus, or closeMissing
Actions  == {"approve", "deny"}
Unset    == -1

NoCard   == [state |-> "none", token |-> 0, message |-> 0]
NoCursor == [seq |-> Unset, of |-> 0]

\* logicalDecisionKey: a message has one request and one token.
Key(click) == <<click.message, click.action>>

\* at: the next step.  back: where applyRequest returns to.  todo: requests
\* of the list being worked off.  request, seen: the request being applied
\* and its status as it was read.  cursor: the cursor to store afterwards.
Watching(cursor) ==
  [at |-> "watch", back |-> "watch", todo |-> {}, request |-> "none",
   seen |-> "absent", cursor |-> cursor, message |-> 0]

\* startCursor: without a stored cursor the owner lists the requests first.
Follow(cursor) == IF cursor.seq = Unset
                  THEN [Watching(cursor) EXCEPT !.at = "list"]
                  ELSE Watching(cursor)

\* todo: callbacks to dispatch; key: the one at hand; result: the status its
\* message will show; batch: update ids fetched and not yet persisted.
Polling == [at |-> "idle", todo |-> {}, key |-> <<0, "deny">>,
            result |-> "none", batch |-> {}]

Fault == faults < MaxFaults /\ faults' = faults + 1
Fine  == UNCHANGED faults

(***************************************************************************)
(* The broker.                                                             *)
(***************************************************************************)
\* A new status is saved together with its event; the oldest event beyond
\* MaxEvents goes.
Append1(r) ==
  LET log == Append(events, [seq |-> nextEvent, request |-> r])
  IN  /\ events' = IF Len(log) > MaxEvents THEN Tail(log) ELSE log
      /\ nextEvent' = nextEvent + 1

Become(r, new) == status' = [status EXCEPT ![r] = new] /\ Append1(r)

Others == UNCHANGED <<epoch, telegram, file, owner, poll, tokens, faults>>

Request(r) ==
  status[r] = "absent" /\ Become(r, "pending") /\ Others /\ UNCHANGED by

\* An approval over another operator surface, and the end of a request: it is
\* denied there, expires, is canceled, consumed or revoked.
DecideElsewhere(r) ==
  status[r] = "pending" /\ Become(r, "active") /\ Others /\ UNCHANGED by

End(r) ==
  /\ status[r] \in {"pending", "active"}
  /\ Become(r, "over") /\ Others /\ UNCHANGED by

\* A release with another state format starts with a fresh database: no
\* request of the old one exists, and sequence numbers begin again.
ReplaceState ==
  /\ Fault /\ epoch' = epoch + 1
  /\ status' = [r \in Requests |->
                  IF status[r] = "absent" THEN "absent" ELSE "missing"]
  /\ events' = <<>> /\ nextEvent' = 1
  /\ UNCHANGED <<by, telegram, file, owner, poll, tokens>>

\* eventStartingSequence refuses a cursor older than the retained events.
Expired(seq) == events # <<>> /\ seq < events[1].seq - 1

EventsAfter(seq) == {i \in 1 .. Len(events) : events[i].seq > seq}

(***************************************************************************)
(* The chat.  Messages lose their buttons with the first edit.             *)
(***************************************************************************)
Click(m, action) ==
  /\ Len(clicks) < MaxClicks /\ messages[m].buttons
  /\ clicks' = Append(clicks, [message |-> m, action |-> action])
  /\ UNCHANGED <<broker, messages, file, owner, poll, tokens, faults>>

Edit(m, shown) ==
  messages' = [messages EXCEPT ![m].shown = shown, ![m].buttons = FALSE]

(***************************************************************************)
(* The owner.                                                              *)
(***************************************************************************)
OwnerOnly == UNCHANGED <<status, events, nextEvent, epoch, by, clicks, inbox,
                         offset, poll>>

\* A failed step ends follow; runRoute begins anew.
Retry == Fault /\ owner' = Follow(stored)

Go(label) == owner' = [owner EXCEPT !.at = label]

\* A request was applied, with its status as read.
Applied == owner' = [owner EXCEPT !.at = owner.back, !.request = "none",
                                  !.seen = "absent", !.message = 0]

\* applyPendingRequests: the pending requests and the cursor of the log are
\* one consistent snapshot.
List ==
  /\ owner.at = "list"
  /\ owner' = [owner EXCEPT !.at = "pending",
                 !.todo = {r \in Requests : status[r] = "pending"},
                 !.cursor = [seq |-> nextEvent - 1, of |-> epoch]]
  /\ Fine /\ UNCHANGED <<messages, card, stored, tokens>> /\ OwnerOnly

ApplyListed(r) ==
  /\ owner.at = "pending" /\ r \in owner.todo
  /\ owner' = [owner EXCEPT !.at = "apply", !.back = "pending",
                 !.todo = @ \ {r}, !.request = r, !.seen = "pending"]
  /\ Fine /\ UNCHANGED <<messages, card, stored, tokens>> /\ OwnerOnly

\* Mutant: only the cards Telegram did not confirm are looked at again.
UnfinishedSending ==
  /\ owner.at = "pending" /\ owner.todo = {}
  /\ owner' = [owner EXCEPT !.at = "unfinished",
                 !.todo = {r \in Requests : card[r].state = "sending"}]
  /\ Fine /\ UNCHANGED <<messages, card, stored, tokens>> /\ OwnerOnly

\* settleUnfinished looks at every card that is not closed.
UnfinishedCards ==
  /\ owner.at = "pending" /\ owner.todo = {}
  /\ owner' = [owner EXCEPT !.at = "unfinished",
                 !.todo = {r \in Requests : card[r].state \in {"sending", "open"}}]
  /\ Fine /\ UNCHANGED <<messages, card, stored, tokens>> /\ OwnerOnly

SettleUnfinished(r) ==
  /\ owner.at = "unfinished" /\ r \in owner.todo
  /\ owner' = [owner EXCEPT !.at = "apply", !.back = "unfinished",
                 !.todo = @ \ {r}, !.request = r, !.seen = status[r]]
  /\ Fine /\ UNCHANGED <<messages, card, stored, tokens>> /\ OwnerOnly

\* pruneClosedCards, then the cursor of the list is stored.
ResyncDone ==
  /\ owner.at = "unfinished" /\ owner.todo = {}
  /\ \E old \in {{}, {r \in Requests : card[r].state = "closed"}} :
       card' = [r \in Requests |-> IF r \in old THEN NoCard ELSE card[r]]
  /\ Go("save")
  /\ Fine /\ UNCHANGED <<messages, stored, tokens>> /\ OwnerOnly

\* Watch is refused for an expired cursor, which is then cleared.
\* Mutant: it is replaced by the log's present one.
WatchExpiredJumps ==
  LET present == [seq |-> nextEvent - 1, of |-> epoch]
  IN  /\ owner.at = "watch" /\ Expired(owner.cursor.seq)
      /\ stored' = present /\ owner' = Follow(present)
      /\ Fine /\ UNCHANGED <<messages, card, tokens>> /\ OwnerOnly

WatchExpired ==
  /\ owner.at = "watch" /\ Expired(owner.cursor.seq)
  /\ stored' = NoCursor /\ owner' = Follow(NoCursor)
  /\ Fine /\ UNCHANGED <<messages, card, tokens>> /\ OwnerOnly

NextEvent == events[CHOOSE i \in EventsAfter(owner.cursor.seq) :
                       \A j \in EventsAfter(owner.cursor.seq) : i <= j]

\* The next event names a request, which is read afresh.  An event whose
\* request is gone reads as missing.
Receive ==
  /\ owner.at = "watch" /\ ~Expired(owner.cursor.seq)
  /\ EventsAfter(owner.cursor.seq) # {}
  /\ owner' = [owner EXCEPT !.at = "apply", !.back = "save",
                 !.request = NextEvent.request, !.seen = status[NextEvent.request],
                 !.cursor.seq = NextEvent.seq]
  /\ Fine /\ UNCHANGED <<messages, card, stored, tokens>> /\ OwnerOnly

\* The stream ends, or a read fails.
StreamEnds ==
  /\ owner.at \in {"list", "watch", "pending", "unfinished"} /\ Retry
  /\ UNCHANGED <<messages, card, stored, tokens>> /\ OwnerOnly

\* The cursor is stored after its event was applied.
SaveCursor ==
  /\ owner.at = "save"
  /\ \/ Fine /\ stored' = owner.cursor /\ owner' = Watching(owner.cursor)
     \/ Retry /\ UNCHANGED stored
  /\ UNCHANGED <<messages, card, tokens>> /\ OwnerOnly

(***************************************************************************)
(* applyRequest, settleCard and closeMissing.                              *)
(***************************************************************************)
Card == card[owner.request]

\* A pending request with a card, and a settled one without, need nothing.
ApplyNothing ==
  /\ owner.at = "apply"
  /\ IF owner.seen = "pending" THEN Card.state \in {"open", "closed"}
     ELSE Card.state \in {"none", "closed"}
  /\ Applied
  /\ Fine /\ UNCHANGED <<messages, card, stored, tokens>> /\ OwnerOnly

\* send: the card is recorded as sending, with a new token, ...
ReserveCard ==
  /\ owner.at = "apply" /\ owner.seen = "pending"
  /\ Card.state \in {"none", "sending"}
  /\ tokens' = tokens + 1
  /\ card' = [card EXCEPT ![owner.request] =
                [state |-> "sending", token |-> tokens + 1, message |-> 0]]
  /\ Go("send")
  /\ Fine /\ UNCHANGED <<messages, stored>> /\ OwnerOnly

Sent(r) == Append(messages, [request |-> r, token |-> card[r].token,
                             shown |-> "pending", buttons |-> TRUE])

\* ... sent, which may succeed although the call fails, ...  An error that
\* comes back with every retry (a request that cannot be rendered, an edit of a
\* message deleted in the chat) holds up the route for ever in the code; here
\* errors are faults, of which a behaviour has finitely many.
SendCard ==
  /\ owner.at = "send"
  /\ \/ /\ Fine /\ messages' = Sent(owner.request)
        /\ owner' = [owner EXCEPT !.at = "open", !.message = Len(messages) + 1]
     \/ Retry /\ messages' \in {messages, Sent(owner.request)}
  /\ UNCHANGED <<card, stored, tokens>> /\ OwnerOnly

\* ... and opened under the message it became.
OpenCard ==
  /\ owner.at = "open"
  /\ \/ /\ Fine /\ Applied
        /\ card' = [card EXCEPT ![owner.request].state = "open",
                                ![owner.request].message = owner.message]
     \/ Retry /\ UNCHANGED card
  /\ UNCHANGED <<messages, stored, tokens>> /\ OwnerOnly

\* A settled request shows its status on its card; a final one closes it.
UpdateCard ==
  /\ owner.at = "apply" /\ owner.seen # "pending" /\ Card.state = "open"
  /\ \/ /\ Fine /\ Edit(Card.message, owner.seen)
        /\ IF owner.seen \in Final THEN Go("close") ELSE Applied
     \/ Retry /\ (UNCHANGED messages \/ Edit(Card.message, owner.seen))
  /\ UNCHANGED <<card, stored, tokens>> /\ OwnerOnly

\* A card Telegram never confirmed closes without an edit.
CloseCard ==
  /\ \/ owner.at = "close"
     \/ owner.at = "apply" /\ owner.seen # "pending" /\ Card.state = "sending"
  /\ \/ /\ Fine /\ Applied
        /\ card' = [card EXCEPT ![owner.request].state = "closed"]
     \/ Retry /\ UNCHANGED card
  /\ UNCHANGED <<messages, stored, tokens>> /\ OwnerOnly

Owner ==
  \/ List \/ UnfinishedCards \/ ResyncDone \/ WatchExpired
  \/ \E r \in Requests : ApplyListed(r) \/ SettleUnfinished(r)
  \/ Receive \/ StreamEnds \/ SaveCursor \/ ApplyNothing \/ ReserveCard
  \/ SendCard \/ OpenCard \/ UpdateCard \/ CloseCard

(***************************************************************************)
(* The poller.                                                             *)
(***************************************************************************)
PollOnly == UNCHANGED <<card, stored, owner, tokens, epoch>>
NotBroker == UNCHANGED <<status, events, nextEvent, by>>

RequestOf(key) == messages[key[1]].request

\* dispatchPending takes every callback not yet terminal.  Retry delays are
\* left out: the longest is about two minutes.
LoadPending ==
  /\ poll.at = "idle" \/ (poll.at = "persist" /\ poll.batch = {})
  /\ IF inbox.pending # {}
     THEN poll' = [Polling EXCEPT !.at = "item", !.todo = inbox.pending]
     ELSE poll.at = "persist" /\ poll' = Polling
  /\ Fine /\ UNCHANGED <<telegram, inbox, offset>> /\ NotBroker /\ PollOnly

\* The callback stays pending and is tried again with the next poll.
Postpone == poll' = [poll EXCEPT !.at = "item", !.key = Polling.key,
                                 !.result = "none"]

Finish(key, shown) ==
  poll' = [poll EXCEPT !.at = "finish", !.key = key, !.result = shown,
                       !.todo = @ \ {key}]

\* verifyCard: the click is on the message of the request's open or closed
\* card, and carries its token.  The comparison of the button's label and of
\* the chat is left out: a weaker guard.
\* Mutant: any message of the request will do.
VerifyRequestOnly(key) == card[RequestOf(key)].state \in {"open", "closed"}

VerifyCard(key) ==
  LET c == card[RequestOf(key)]
  IN  /\ c.state \in {"open", "closed"} /\ c.message = key[1]
      /\ c.token = messages[key[1]].token

\* Handle up to the read of the request: a click on another message than the
\* card is superseded, one on a settled request shows the request's status.
Handle(key) ==
  /\ poll.at = "item" /\ key \in poll.todo
  /\ IF ~VerifyCard(key) THEN Finish(key, "superseded")
     ELSE IF status[RequestOf(key)] # "pending"
          THEN Finish(key, status[RequestOf(key)])
     ELSE poll' = [poll EXCEPT !.at = "decide", !.key = key, !.todo = @ \ {key}]
  /\ Fine /\ UNCHANGED <<telegram, inbox, offset>> /\ NotBroker /\ PollOnly

\* A callback older than a day is closed unheard.
HandleExpired(key) ==
  /\ poll.at = "item" /\ key \in poll.todo
  /\ Fault /\ Finish(key, "closed")
  /\ UNCHANGED <<telegram, inbox, offset>> /\ NotBroker /\ PollOnly

\* The broker cannot be reached.
Unavailable(key) ==
  /\ poll.at = "item" /\ key \in poll.todo /\ Fault
  /\ poll' = [poll EXCEPT !.todo = @ \ {key}]
  /\ UNCHANGED <<telegram, inbox, offset>> /\ NotBroker /\ PollOnly

\* Decide against the revision just read.  A request that changed meanwhile
\* comes back as it is now; a lost response is unavailable.
Decide ==
  LET r   == RequestOf(poll.key)
      new == IF poll.key[2] = "approve" THEN "active" ELSE "over"
  IN  /\ poll.at = "decide"
      /\ \/ /\ status[r] = "pending" /\ Become(r, new)
            /\ by' = [by EXCEPT ![r] = poll.key[2]]
            /\ \/ Fine /\ Finish(poll.key, new)
               \/ Fault /\ Postpone
         \/ /\ status[r] # "pending" /\ Fine /\ Finish(poll.key, status[r])
            /\ NotBroker
         \/ Fault /\ Postpone /\ NotBroker
      /\ UNCHANGED <<telegram, inbox, offset>> /\ PollOnly

\* finishDurableDecision edits the clicked message.
EditClicked ==
  /\ poll.at = "finish"
  /\ \/ /\ Fine /\ Edit(poll.key[1], poll.result)
        /\ poll' = [poll EXCEPT !.at = "terminal"]
     \/ Fault /\ Postpone /\ (UNCHANGED messages \/ Edit(poll.key[1], poll.result))
  /\ UNCHANGED <<clicks, inbox, offset>> /\ NotBroker /\ PollOnly

Terminal ==
  /\ poll.at = "terminal" /\ Postpone
  /\ inbox' = [pending |-> inbox.pending \ {poll.key},
               terminal |-> inbox.terminal \cup {poll.key}]
  /\ Fine /\ UNCHANGED <<telegram, offset>> /\ NotBroker /\ PollOnly

\* getUpdates confirms the updates before the offset and returns the others.
\* Without updates the call times out, and the loop begins again.
GetUpdates ==
  /\ poll.at = "idle" \/ (poll.at = "item" /\ poll.todo = {})
  /\ LET fresh == {u \in 1 .. Len(clicks) : u >= offset}
     IN  IF fresh = {} THEN poll.at = "item" /\ poll' = Polling
         ELSE poll' = [Polling EXCEPT !.at = "persist", !.batch = fresh]
  /\ Fine /\ UNCHANGED <<telegram, inbox, offset>> /\ NotBroker /\ PollOnly

Known == inbox.pending \cup inbox.terminal

\* persistUpdate: the callback, unless its decision is known, and the offset
\* are one database transaction.
\* Mutant: the offset passes an update that was not fetched.
PersistUpdateSkips ==
  /\ poll.at = "persist" /\ poll.batch # {}
  /\ LET u == CHOOSE u \in poll.batch : \A v \in poll.batch : u <= v
     IN  /\ offset' = u + 2 /\ poll' = [poll EXCEPT !.batch = @ \ {u}]
         /\ inbox' = [inbox EXCEPT !.pending = @ \cup ({Key(clicks[u])} \ Known)]
  /\ Fine /\ UNCHANGED telegram /\ NotBroker /\ PollOnly

\* Mutant: a callback of the message's other button takes its place.
PersistOnePerMessage ==
  /\ poll.at = "persist" /\ poll.batch # {}
  /\ LET u == CHOOSE u \in poll.batch : \A v \in poll.batch : u <= v
         k == Key(clicks[u])
     IN  /\ offset' = u + 1 /\ poll' = [poll EXCEPT !.batch = @ \ {u}]
         /\ inbox' = IF \E a \in Actions : <<k[1], a>> \in Known THEN inbox
                     ELSE [inbox EXCEPT !.pending = @ \cup {k}]
  /\ Fine /\ UNCHANGED telegram /\ NotBroker /\ PollOnly

PersistUpdate ==
  /\ poll.at = "persist" /\ poll.batch # {}
  /\ LET u == CHOOSE u \in poll.batch : \A v \in poll.batch : u <= v
     IN  /\ offset' = u + 1 /\ poll' = [poll EXCEPT !.batch = @ \ {u}]
         /\ inbox' = [inbox EXCEPT !.pending = @ \cup ({Key(clicks[u])} \ Known)]
  /\ Fine /\ UNCHANGED telegram /\ NotBroker /\ PollOnly

Poller ==
  \/ LoadPending \/ Decide \/ EditClicked \/ Terminal \/ GetUpdates
  \/ \E k \in poll.todo : Handle(k) \/ HandleExpired(k) \/ Unavailable(k)
  \/ PersistUpdate

(***************************************************************************)
(* The process dies; its file stays.                                       *)
(***************************************************************************)
Crash ==
  /\ Fault /\ owner' = Follow(stored) /\ poll' = Polling
  /\ UNCHANGED <<broker, telegram, file, tokens>>

Init ==
  /\ status = [r \in Requests |-> "absent"] /\ events = <<>> /\ nextEvent = 1
  /\ epoch = 0 /\ by = [r \in Requests |-> "none"]
  /\ messages = <<>> /\ clicks = <<>>
  /\ card = [r \in Requests |-> NoCard] /\ stored = NoCursor
  /\ inbox = [pending |-> {}, terminal |-> {}] /\ offset = 1
  /\ owner = Follow(NoCursor) /\ poll = Polling /\ tokens = 0 /\ faults = 0

Broker ==
  \/ \E r \in Requests : Request(r) \/ End(r) \/ DecideElsewhere(r)
  \/ ReplaceState

Next ==
  \/ Broker \/ Owner \/ Poller \/ Crash
  \/ \E m \in 1 .. Len(messages), a \in Actions : Click(m, a)

Spec == Init /\ [][Next]_vars

\* Both loops of the process run until the service ends: runRoute retries for
\* ever, PollDurable polls for ever, and the service manager restarts it.
FairSpec == Spec /\ WF_vars(Owner) /\ WF_vars(Poller)

(***************************************************************************)
(* Properties.                                                             *)
(***************************************************************************)
\* Cards, cursors, messages and the locals of both loops have their types.
TypeOK ==
  /\ status \in [Requests -> Statuses] /\ nextEvent \in Nat \ {0}
  /\ events \in Seq([seq : Nat \ {0}, request : Requests])
  /\ by \in [Requests -> Actions \cup {"none"}]
  /\ messages \in Seq([request : Requests, token : 1 .. tokens,
                       shown : Statuses \cup {"superseded", "closed"},
                       buttons : BOOLEAN])
  /\ clicks \in Seq([message : 1 .. Len(messages), action : Actions])
  /\ card \in [Requests -> [state : {"none", "sending", "open", "closed"},
                            token : 0 .. tokens, message : 0 .. Len(messages)]]
  /\ stored.seq \in Nat \cup {Unset}
  /\ Known \subseteq (1 .. Len(messages)) \X Actions
  /\ owner.todo \subseteq Requests /\ owner.seen \in Statuses
  /\ poll.todo \subseteq inbox.pending
  /\ offset \in 1 .. Len(clicks) + 1 /\ faults \in 0 .. MaxFaults

\* A request decided in the chat was decided by a click on its own card: the
\* message recorded for it, whichever messages failed sends, crashes and
\* second cards left in the chat, and however often updates were delivered.
DecidedAsClicked ==
  \A r \in Requests : by[r] # "none" =>
    /\ card[r].state \in {"none", "open", "closed"}
    /\ card[r].state # "none" =>
         \E u \in 1 .. Len(clicks) :
           clicks[u] = [message |-> card[r].message, action |-> by[r]]

\* The owner follows the log from a list of a database the broker no longer
\* has, also when the new log has passed that cursor.
Foreign == \/ stored.seq # Unset /\ stored.of # epoch
           \/ owner.cursor.seq # Unset /\ owner.cursor.of # epoch

\* Every pending request gets a card that its clicks are accepted from, or is
\* settled before, although the events of other requests push its own out of
\* the log, the cursor expires before it was read and the owner dies at any
\* point.
CardArrives ==
  \A r \in Requests : (status[r] = "pending" /\ ~Foreign) ~>
    (status[r] # "pending" \/ card[r].state = "open" \/ Foreign)

\* The card of a request that can no longer change is closed, and its message
\* has lost its buttons, also when the event that settled it was pushed out of
\* the log before the owner read it.
CardSettles ==
  \A r \in Requests : (status[r] \in Final /\ ~Foreign) ~>
    (Foreign \/ /\ card[r].state \in {"none", "closed"}
                /\ card[r].message # 0 => ~messages[card[r].message].buttons)

\* Every click is handled to the end: no crash between Telegram, the inbox,
\* the broker and the edit loses one.
ClickAnswered ==
  \A u \in 1 .. MaxClicks :
    (u <= Len(clicks)) ~> (u <= Len(clicks) /\ Key(clicks[u]) \in inbox.terminal)

\* docs/TELEGRAM_INGRESS.md: "When the broker no longer retains the stored
\* cursor, the owner clears it and rebuilds from a fresh list."
\* Every pending request gets its card, also after the broker's database was
\* replaced.
CardAfterReplacement ==
  \A r \in Requests :
    (status[r] = "pending") ~> (status[r] # "pending" \/ card[r].state = "open")

\* Nothing is left to do for either loop.
Quiet == /\ owner.at = "watch" /\ EventsAfter(owner.cursor.seq) = {}
         /\ poll.at = "idle" /\ inbox.pending = {} /\ offset = Len(clicks) + 1

\* docs/TELEGRAM_INGRESS.md: "a card is a view of a request in that inbox";
\* durable_poll.go: "so whichever edit lands last shows the same card."  Once
\* both loops have nothing left to do, the message of a card shows its
\* request's status (with its buttons while that is pending).
CardShowsRequest ==
  Quiet => \A r \in Requests :
    card[r].message # 0 => messages[card[r].message].shown = status[r]
===============================================================================
