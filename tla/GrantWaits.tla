------------------------------ MODULE GrantWaits ------------------------------
(***************************************************************************)
(* A caller of WaitForDecision, as the Git brokers call it for a push, next *)
(* to every other user of the grant store.  The waiter takes the store's   *)
(* lock anew for its cursor, for the status, for a page of events and for  *)
(* the next deadline, and sleeps on the channel it fetched before; every   *)
(* step between two of these is one at which others may change the store.  *)
(*                                                                         *)
(* signalNewEvents runs under the lock of the method that saved, so it is  *)
(* part of that method's action.  A channel is abstracted to whether the   *)
(* one the waiter holds was closed.                                        *)
(***************************************************************************)
EXTENDS GrantStore, FiniteSetsExt

VARIABLES
  pc,      \* where the waiter is
  target,  \* the grant it waits for, 0 before the call
  cursor,  \* sequence number of its cursor, NoCursor for the empty one
  closed,  \* whether the channel it holds was closed
  armed    \* whether its sleep has a timer

waitVars == <<now, grants, uses, events, nextEvent, decisions,
              pc, target, cursor, closed, armed>>
storeData == <<now, grants, uses, events, nextEvent, decisions>>

NoCursor == 0

EventsOf(g) == {e \in events : e.grant = g}

\* Mutant: the channel is fetched just before the sleep.
ChannelBeforeSleep == pc = "wait"

\* WaitForEvents has fetched the channel and not yet woken.
HoldsChannel == pc \in {"page", "delay", "wait"}

\* signalNewEvents at the end of a method of the store.
Signal == closed' = (HoldsChannel /\ (closed \/ nextEvent' # nextEvent))

StoreStep == Next /\ Signal /\ UNCHANGED <<pc, target, cursor, armed>>

\* The waiter goes on at label with cursor c and without a channel.
Goto(label, c) ==
  pc' = label /\ cursor' = c /\ closed' = FALSE /\ UNCHANGED <<target, armed>>

\* WaitForDecision returns; it may be called again.
Return ==
  /\ pc' = "idle" /\ target' = 0 /\ cursor' = NoCursor
  /\ closed' = FALSE /\ armed' = FALSE

WaitForDecision(g) ==
  /\ pc = "idle" /\ g \in Present(grants)
  /\ pc' = "cursor" /\ target' = g
  /\ UNCHANGED storeData /\ UNCHANGED <<cursor, closed, armed>>

\* latestGrantCursor
LatestEvent ==
  /\ pc = "cursor"
  /\ IF EventsOf(target) = {} THEN Goto("confirm", NoCursor)
     ELSE Goto("status", Max({e.seq : e \in EventsOf(target)}))
  /\ UNCHANGED storeData

\* latestGrantCursor without an event: Get, then the empty cursor.
ConfirmGrant == pc = "confirm" /\ SweepExpiry /\ Goto("status", NoCursor)

\* pendingGrant; Get saves the expiry it finds.
PendingGrant ==
  /\ pc = "status" /\ SweepExpiry
  /\ IF grants'[target].status = "pending" THEN Goto("channel", cursor)
     ELSE Return

EventWaitChannel ==
  pc = "channel" /\ Goto("page", cursor) /\ UNCHANGED storeData

\* eventStartingSequence; the empty cursor starts at the oldest event.
CursorExpired ==
  events # {} /\ cursor # NoCursor /\ cursor < Min({e.seq : e \in events}) - 1

Unread == {e \in events : e.seq > cursor}

\* EventsAfter with a limit of one, and what waitForGrantDecisionEvent makes
\* of the answer.
EventsAfter ==
  /\ pc = "page"
  /\ \/ CursorExpired /\ Goto("cursor", NoCursor)
     \/ /\ ~CursorExpired /\ Unread = {}
        /\ pc' = "delay" /\ UNCHANGED <<target, cursor, closed, armed>>
     \/ /\ ~CursorExpired
        /\ \E event \in Unread :
             /\ \A e \in Unread : event.seq <= e.seq
             /\ Goto(IF event.grant = target /\ event.status # "pending"
                     THEN "get" ELSE "status", event.seq)
  /\ UNCHANGED storeData

\* earliestGrantDeadline and earliestUseDeadline: whether there is one.
HasDeadline ==
  \/ \E g \in GrantIDs : grants[g].status \in {"pending", "active"}
  \/ \E u \in UseIDs : /\ uses[u].state = "reserved"
                       /\ CanSettle(grants[uses[u].grant].status)

NextLifecycleDelay ==
  /\ pc = "delay" /\ pc' = "wait" /\ armed' = HasDeadline
  /\ UNCHANGED <<target, cursor, closed>> /\ UNCHANGED storeData

\* waitForLifecycleWake.  The timer runs on the monotonic clock: when the
\* wall clock was set, it fires before or after the deadline it was set for.
Wake ==
  /\ pc = "wait"
  /\ \/ closed /\ pc' = "channel"
     \/ armed /\ pc' = "due"
  /\ closed' = FALSE /\ armed' = FALSE
  /\ UNCHANGED <<target, cursor>> /\ UNCHANGED storeData

\* reconcileDueLifecycle after the timer; without an event nothing is saved.
ReconcileDeadline ==
  /\ pc = "due" /\ Goto("channel", cursor)
  /\ ReconcileDue \/ (EventCount(grants, PreparedGrants) = 0 /\ UNCHANGED storeData)

\* The decision's event was read: WaitForDecision returns Get.
ReturnDecision == pc = "get" /\ SweepExpiry /\ Return

\* The context is cancelled, or the store cannot be read or saved.
WaitFails == pc # "idle" /\ Return /\ UNCHANGED storeData

WaitStep ==
  \/ LatestEvent \/ ConfirmGrant \/ PendingGrant \/ EventWaitChannel
  \/ EventsAfter \/ NextLifecycleDelay \/ Wake \/ ReconcileDeadline
  \/ ReturnDecision

WaitInit ==
  /\ Init /\ pc = "idle" /\ target = 0 /\ cursor = NoCursor
  /\ closed = FALSE /\ armed = FALSE

WaitNext ==
  \/ StoreStep \/ WaitStep \/ WaitFails
  \/ \E g \in GrantIDs : WaitForDecision(g)

\* The waiter's goroutine keeps running and its timer fires; nothing is
\* assumed of operators, of clients or of the clock.
WaitSpec == WaitInit /\ [][WaitNext]_waitVars /\ WF_waitVars(WaitStep)

(***************************************************************************)
(* Properties                                                              *)
(***************************************************************************)
NotYetDue == /\ grants[target].status = "pending"
             /\ now < grants[target].pendingExpiresAt

\* WaitForDecision misses no decision, as its comment says, and no deadline:
\* it never waits for ever on a request that was decided, withdrawn or is past
\* its deadline, whichever methods run between its calls, however many other
\* events are logged or dropped and whoever else expires the request.
WaitEnds == []<>(pc = "idle" \/ NotYetDue)
===============================================================================
