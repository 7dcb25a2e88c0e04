--------------------------- MODULE TicketDeskProofs ---------------------------
(***************************************************************************)
(* The actions on a ticket, for any number of tickets and closes.  The     *)
(* inductive invariant ties the three things the store of the pending      *)
(* close keeps: the close that may be undone, its timer, and the closes    *)
(* still waiting.                                                          *)
(***************************************************************************)
EXTENDS TicketDesk, TLAPS

\* The one close that waits is the one that may be undone.
PendingIsKept == \A i \in Closes : closes[i].state = "pending" <=> (Waiting /\ pending = i)

Store == TimerIsOfPending /\ PendingIsKept
IInv == TypeOK /\ Store /\ OpeningReads

LEMMA InitIInv == Init => IInv
<1> SUFFICES ASSUME Init PROVE IInv
  OBVIOUS
<1>1. Store
  BY TicketDeskAssumption DEF Init, Store, TimerIsOfPending, PendingIsKept, Waiting, Unscheduled
<1>2. NoChat \in [unread : SUBSET Messages, there : SUBSET Messages, screen : SUBSET Messages]
      /\ NoChat.unread = {} /\ NoChat.there = {} /\ NoChat.screen = {}
  BY DEF NoChat, Messages
<1>3. TypeOK
  BY <1>2 DEF Init, TypeOK, Unscheduled
<1>4. OpeningReads
  BY <1>2 DEF Init, OpeningReads
<1>5. QED BY <1>1, <1>3, <1>4 DEF IInv

\* What happens to the closes, whoever does it.
LEMMA ToastTyped ==
  ASSUME IInv, NEW t \in Tickets, Schedule(t)
  PROVE  /\ closes' \in [Closes -> [ticket : Tickets \union {None},
              state : {"unscheduled", "pending", "undone", "sent", "answered", "lost"}]]
         /\ pending' \in Closes /\ timers' = {pending'} /\ failure' \in BOOLEAN
         /\ \A i \in Closes : closes'[i].state = "pending" <=> pending' = i
<1>1. PICK i \in Closes :
         /\ closes[i] = Unscheduled
         /\ closes' = [Committed EXCEPT ![i] = [ticket |-> t, state |-> "pending"]]
         /\ pending' = i /\ timers' = {i} /\ failure' = FALSE
  BY DEF Schedule
<1>2. Committed \in [Closes -> [ticket : Tickets \union {None},
         state : {"unscheduled", "pending", "undone", "sent", "answered", "lost"}]]
      /\ \A j \in Closes : Committed[j].state # "pending"
  BY DEF IInv, Store, TypeOK, PendingIsKept, Committed, Waiting
<1>3. QED BY <1>1, <1>2

\* The store keeps its parts together whether a button, the menu or nobody schedules.
LEMMA RunKeeps ==
  ASSUME IInv, shown # None, NEW to, Run(to)
  PROVE  /\ change' \in Status \union {None} /\ rejecting' \in BOOLEAN
         /\ pending' \in Closes \union {None} /\ timers' \subseteq Closes /\ failure' \in BOOLEAN
         /\ closes' \in [Closes -> [ticket : Tickets \union {None},
              state : {"unscheduled", "pending", "undone", "sent", "answered", "lost"}]]
         /\ Store'
<1>1. CASE to = "CLOSED" /\ Schedule(shown) /\ UNCHANGED <<change, rejecting>>
  <2>1. shown \in Tickets
    BY DEF IInv, TypeOK
  <2>2. pending' \in Closes /\ timers' = {pending'} /\ failure' \in BOOLEAN
        /\ closes' \in [Closes -> [ticket : Tickets \union {None},
              state : {"unscheduled", "pending", "undone", "sent", "answered", "lost"}]]
        /\ \A i \in Closes : closes'[i].state = "pending" <=> pending' = i
    BY <1>1, <2>1, ToastTyped
  <2>3. pending' # None
    BY <2>2, TicketDeskAssumption DEF Closes
  <2>4. QED
    BY <1>1, <2>2, <2>3 DEF IInv, TypeOK, Store, TimerIsOfPending, PendingIsKept, Waiting
<1>2. CASE to = "REJECTED" /\ rejecting' = TRUE /\ UNCHANGED <<change, toast>>
  BY <1>2 DEF IInv, TypeOK, Store, TimerIsOfPending, PendingIsKept, Waiting, toast
<1>3. CASE to \in OpenStatuses /\ change' = to /\ UNCHANGED <<rejecting, toast>>
  <2>1. change' \in Status
    BY <1>3 DEF OpenStatuses, Status
  <2>2. QED
    BY <1>3, <2>1 DEF IInv, TypeOK, Store, TimerIsOfPending, PendingIsKept, Waiting, toast
<1>4. QED BY <1>1, <1>2, <1>3 DEF Run

\* The page of a ticket leaves the store alone.
PageStep ==
    \/ \E t \in Tickets : OpenTicket(t)
    \/ LeaveTicket
    \/ ClientWrites \/ ShowMessages \/ IntervalEnds \/ MarkRead \/ MarkFails
    \/ OpenMenu \/ CloseMenu
    \/ ConfirmRejection \/ CancelRejection \/ ChangeAnswered \/ ChangeFails

LEMMA PageKeepsToast == PageStep => UNCHANGED toast
  BY DEF PageStep, OpenTicket, LeaveTicket, ClientWrites, ShowMessages, IntervalEnds, MarkRead,
     MarkFails, OpenMenu, CloseMenu, ConfirmRejection, CancelRejection, ChangeAnswered,
     ChangeFails

LEMMA PageKeeps == IInv /\ PageStep => IInv'
<1> SUFFICES ASSUME IInv, PageStep PROVE IInv'
  OBVIOUS
<1>1. UNCHANGED toast
  BY PageKeepsToast
<1>2. Store'
  BY <1>1 DEF IInv, Store, TimerIsOfPending, PendingIsKept, Waiting, toast
<1> USE <1>1, TicketDeskAssumption
    DEF IInv, TypeOK, OpeningReads, toast, page, reading, NoChat, Messages
<1>3. CASE \E t \in Tickets : OpenTicket(t)
  <2>1. PICK t \in Tickets, unread \in SUBSET {"old"} :
          /\ shown' = t /\ menu' = FALSE /\ rejecting' = FALSE /\ change' = None
          /\ chat' = [unread |-> unread, there |-> {"old"}, screen |-> {}]
          /\ mark' = "out" /\ throttled' = TRUE
    BY <1>3 DEF OpenTicket, MarkWhenOpened
  <2>2. chat'.unread = unread /\ chat'.there = {"old"} /\ chat'.screen = {}
        /\ chat' \in [unread : SUBSET Messages, there : SUBSET Messages,
                       screen : SUBSET Messages]
    BY <2>1
  <2>3. QED BY <1>2, <2>1, <2>2
<1>4. CASE LeaveTicket
  BY <1>2, <1>4 DEF LeaveTicket
<1>5. CASE ClientWrites
  BY <1>2, <1>5 DEF ClientWrites
<1>6. CASE ShowMessages
  <2>1. chat'.unread = chat.unread /\ chat'.there = chat.there /\ chat'.screen = chat.there
        /\ chat' \in [unread : SUBSET Messages, there : SUBSET Messages,
                       screen : SUBSET Messages]
    BY <1>6 DEF ShowMessages
  <2>2. shown # None
    BY <1>6 DEF ShowMessages
  <2>3. UNCHANGED <<mark, throttled>> \/ (mark' = "out" /\ throttled' = TRUE)
    BY <1>6 DEF ShowMessages
  <2>4. UNCHANGED page
    BY <1>6 DEF ShowMessages
  <2>5. TypeOK'
    BY <2>1, <2>2, <2>3, <2>4
  <2>6. OpeningReads'
    BY <2>1, <2>3
  <2>7. QED BY <1>2, <2>5, <2>6
<1>7. CASE IntervalEnds \/ MarkFails
  <2>1. UNCHANGED <<page, chat>> /\ throttled' \in BOOLEAN /\ mark' \in {mark, "failed"}
    BY <1>7 DEF IntervalEnds, MarkFails
  <2>2. TypeOK'
    BY <2>1
  <2>3. OpeningReads'
    BY <2>1
  <2>4. QED BY <1>2, <2>2, <2>3
<1>8. CASE MarkRead
  <2>1. chat'.unread = {} /\ chat'.there = chat.there /\ chat'.screen = chat.screen
        /\ chat' \in [unread : SUBSET Messages, there : SUBSET Messages,
                       screen : SUBSET Messages]
    BY <1>8 DEF MarkRead
  <2>3. mark' = "none" /\ UNCHANGED <<page, throttled>>
    BY <1>8 DEF MarkRead
  <2>4. TypeOK'
    BY <2>1, <2>3
  <2>5. OpeningReads'
    BY <2>1
  <2>6. QED BY <1>2, <2>4, <2>5
<1>9. CASE OpenMenu \/ CloseMenu
  BY <1>2, <1>9 DEF OpenMenu, CloseMenu
<1>10. CASE ConfirmRejection \/ CancelRejection
  BY <1>2, <1>10 DEF ConfirmRejection, CancelRejection, Status
<1>11. CASE ChangeAnswered \/ ChangeFails
  BY <1>2, <1>11 DEF ChangeAnswered, ChangeFails
<1>12. QED
  BY <1>3, <1>4, <1>5, <1>6, <1>7, <1>8, <1>9, <1>10, <1>11 DEF PageStep

\* Buttons, timers and answers that move the store.
ToastStep ==
    \/ PressPrimary \/ PressItem \/ Undo \/ HideFailure \/ Reload
    \/ \E i \in Closes : UndoWindowEnds(i) \/ CloseAnswered(i) \/ CloseFails(i)

LEMMA PressKeeps == IInv /\ (PressPrimary \/ PressItem) => IInv'
<1> SUFFICES ASSUME IInv, PressPrimary \/ PressItem PROVE IInv'
  OBVIOUS
<1>1. shown # None
  BY DEF PressPrimary, PressItem, IInv, TypeOK
<1>2. PICK to : Run(to)
  BY DEF PressPrimary, PressItem
<1>3. UNCHANGED <<shown, reading>> /\ menu' \in BOOLEAN
  BY DEF PressPrimary, PressItem, IInv, TypeOK
<1>4. TypeOK'
  BY <1>1, <1>2, <1>3, RunKeeps DEF IInv, TypeOK, reading
<1>5. OpeningReads'
  BY <1>3 DEF IInv, OpeningReads, reading
<1>6. QED BY <1>1, <1>2, <1>4, <1>5, RunKeeps DEF IInv

\* The fates of a close.
Fates == {"unscheduled", "pending", "undone", "sent", "answered", "lost"}

LEMMA CommittedTyped ==
  ASSUME IInv
  PROVE  /\ Committed \in [Closes -> [ticket : Tickets \union {None}, state : Fates]]
         /\ \A i \in Closes : Committed[i].state # "pending"
  BY DEF IInv, Store, TypeOK, PendingIsKept, Committed, Waiting, Fates

LEMMA ToastKeeps == IInv /\ ToastStep => IInv'
<1> SUFFICES ASSUME IInv, ToastStep PROVE IInv'
  OBVIOUS
<1> USE TicketDeskAssumption
<1>1. CASE PressPrimary \/ PressItem
  BY <1>1, PressKeeps
<1>2. CASE Undo
  <2>1. pending \in Closes /\ closes' = [closes EXCEPT ![pending].state = "undone"]
        /\ pending' = None /\ timers' = {} /\ UNCHANGED <<page, reading, failure>>
    BY <1>2 DEF Undo, Waiting, IInv, TypeOK
  <2>2. closes' \in [Closes -> [ticket : Tickets \union {None}, state : Fates]]
    BY <2>1 DEF IInv, TypeOK, Fates
  <2>3. \A i \in Closes : closes'[i].state # "pending"
    BY <2>1 DEF IInv, TypeOK, Store, PendingIsKept
  <2>4. QED
    BY <2>1, <2>2, <2>3 DEF IInv, TypeOK, Store, TimerIsOfPending, PendingIsKept, OpeningReads,
       Waiting, Fates, page, reading
<1>3. CASE HideFailure
  BY <1>3 DEF HideFailure, IInv, TypeOK, Store, TimerIsOfPending, PendingIsKept, OpeningReads,
     Waiting, page, reading
<1>4. CASE Reload
  <2>1. /\ shown' = None /\ menu' = FALSE /\ rejecting' = FALSE /\ change' = None
        /\ chat' = NoChat /\ mark' = "none" /\ throttled' = FALSE
        /\ pending' = None /\ timers' = {} /\ failure' = FALSE
    BY <1>4 DEF Reload
  <2>2. closes' \in [Closes -> [ticket : Tickets \union {None}, state : Fates]]
        /\ \A i \in Closes : closes'[i].state # "pending"
    BY <1>4 DEF Reload, IInv, TypeOK, Fates
  <2>3. TypeOK'
    BY <2>1, <2>2 DEF TypeOK, Fates, NoChat
  <2>4. OpeningReads'
    BY <2>1 DEF OpeningReads, NoChat
  <2>5. Store'
    BY <2>1, <2>2 DEF Store, TimerIsOfPending, PendingIsKept, Waiting
  <2>6. QED BY <2>3, <2>4, <2>5 DEF IInv
<1>5. ASSUME NEW i \in Closes, UndoWindowEnds(i) PROVE IInv'
  <2>1. closes' = Committed /\ pending' = None /\ timers' = {}
        /\ UNCHANGED <<page, reading, failure>>
    BY <1>5 DEF UndoWindowEnds
  <2>2. QED
    BY <2>1, CommittedTyped DEF IInv, TypeOK, Store, TimerIsOfPending, PendingIsKept,
       OpeningReads, Waiting, Fates, page, reading
<1>6. ASSUME NEW i \in Closes, CloseAnswered(i) \/ CloseFails(i) PROVE IInv'
  <2>1. closes[i].state = "sent" /\ closes' = [closes EXCEPT ![i].state = "answered"]
        /\ failure' \in {failure, TRUE} /\ UNCHANGED <<page, reading, pending, timers>>
    BY <1>6 DEF CloseAnswered, CloseFails
  <2>2. closes' \in [Closes -> [ticket : Tickets \union {None}, state : Fates]]
    BY <2>1 DEF IInv, TypeOK, Fates
  <2>3. \A j \in Closes : closes'[j].state = "pending" <=> closes[j].state = "pending"
    BY <2>1 DEF IInv, TypeOK
  <2>4. QED
    BY <2>1, <2>2, <2>3 DEF IInv, TypeOK, Store, TimerIsOfPending, PendingIsKept, OpeningReads,
       Waiting, Fates, page, reading
<1>7. QED
  BY <1>1, <1>2, <1>3, <1>4, <1>5, <1>6 DEF ToastStep

LEMMA NextSplits == Next => PageStep \/ ToastStep
  BY DEF Next, PageStep, ToastStep

LEMMA NextIInv == IInv /\ [Next]_vars => IInv'
<1>1. IInv /\ UNCHANGED vars => IInv'
  BY DEF IInv, TypeOK, Store, TimerIsOfPending, PendingIsKept, OpeningReads, Waiting, vars,
     page, reading, toast
<1>2. QED BY <1>1, NextSplits, PageKeeps, ToastKeeps

\* The inductive invariant of the desk.
THEOREM Inductive == Spec => []IInv
<1>1. QED BY InitIInv, NextIInv, PTL DEF Spec

\* Every reachable state of the page of a ticket and of the store of the pending close is
\* well typed.
THEOREM DeskTypeCorrect == Spec => []TypeOK
<1>1. IInv => TypeOK
  BY DEF IInv
<1>2. QED BY <1>1, Inductive, PTL

\* schedule, undo and the timer of pending-close.ts leave no timer behind.
THEOREM TimerAlwaysOfPending == Spec => []TimerIsOfPending
<1>1. IInv => TimerIsOfPending
  BY DEF IInv, Store
<1>2. QED BY <1>1, Inductive, PTL

\* The mark that use-mark-read.ts sends on mount is never swallowed.
THEOREM OpeningAlwaysReads == Spec => []OpeningReads
<1>1. IInv => OpeningReads
  BY DEF IInv
<1>2. QED BY <1>1, Inductive, PTL

\* A close leaves the panel at most once, whoever schedules, undoes or navigates.
THEOREM EveryCloseOnce == Spec => ClosesOnce
<1> DEFINE Once == \A i \in Closes :
             /\ closes'[i].state = "sent" => closes[i].state \in {"pending", "sent"}
             /\ closes[i].state \in {"undone", "lost", "answered"} => closes'[i] = closes[i]
<1>1. IInv /\ Next => Once
  <2> SUFFICES ASSUME IInv, Next PROVE Once
    OBVIOUS
  <2>1. CASE closes' = closes
    BY <2>1
  <2>2. CASE closes' = Committed
    BY <2>2 DEF IInv, TypeOK, Store, PendingIsKept, Committed, Waiting
  <2>3. ASSUME NEW t, Schedule(t) PROVE Once
    <3>1. PICK i \in Closes :
             /\ closes[i] = Unscheduled
             /\ closes' = [Committed EXCEPT ![i] = [ticket |-> t, state |-> "pending"]]
      BY <2>3 DEF Schedule
    <3>2. \A j \in Closes \ {i} : closes'[j] = Committed[j]
      BY <3>1, CommittedTyped
    <3>3. closes'[i].state = "pending" /\ closes[i].state = "unscheduled"
      BY <3>1, CommittedTyped DEF Unscheduled
    <3>4. QED
      BY <3>2, <3>3 DEF IInv, TypeOK, Store, PendingIsKept, Committed, Waiting
  <2>4. CASE Undo
    BY <2>4 DEF Undo, IInv, TypeOK, Store, PendingIsKept, Waiting
  <2>5. ASSUME NEW i \in Closes, CloseAnswered(i) \/ CloseFails(i) PROVE Once
    BY <2>5 DEF CloseAnswered, CloseFails, IInv, TypeOK
  <2>6. CASE Reload
    BY <2>6 DEF Reload, IInv, TypeOK
  <2>7. ASSUME NEW to, Run(to) PROVE closes' = closes \/ \E t : Schedule(t)
    BY <2>7 DEF Run, toast
  <2>8. closes' = closes \/ closes' = Committed \/ (\E t : Schedule(t)) \/ Undo \/ Reload
        \/ \E i \in Closes : CloseAnswered(i) \/ CloseFails(i)
    <3>1. CASE PageStep
      BY <3>1, PageKeepsToast DEF toast
    <3>2. CASE PressPrimary \/ PressItem
      BY <3>2, <2>7 DEF PressPrimary, PressItem
    <3>3. CASE HideFailure
      BY <3>3 DEF HideFailure
    <3>4. CASE \E i \in Closes : UndoWindowEnds(i)
      BY <3>4 DEF UndoWindowEnds
    <3>5. QED BY <3>1, <3>2, <3>3, <3>4, NextSplits DEF ToastStep
  <2>9. QED BY <2>1, <2>2, <2>3, <2>4, <2>5, <2>6, <2>8
<1>2. IInv /\ [Next]_vars => [Once]_vars
  BY <1>1
<1>3. QED BY <1>2, Inductive, PTL DEF Spec, ClosesOnce
==============================================================================
