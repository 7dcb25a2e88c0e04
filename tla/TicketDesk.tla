------------------------------ MODULE TicketDesk ------------------------------
(***************************************************************************)
(* What a member of staff does with a ticket on the panel besides writing: *)
(* the primary button, the menu, the dialog of a rejection, the close that *)
(* waits five seconds for an undo, and the read mark that the chat sets    *)
(* while it is on the screen.  Requests are answered late, fail, or are    *)
(* lost with the page.                                                     *)
(*                                                                         *)
(* Colleagues and clients move a ticket at any moment, so the status that  *)
(* the page shows is any status, and the server takes or refuses any       *)
(* request: TicketLifecycle says which.                                    *)
(***************************************************************************)
EXTENDS TicketRules, FiniteSets

CONSTANTS
    Tickets,
    MaxCloses  \* bound: closes that are scheduled

ASSUME TicketDeskAssumption == None \notin Tickets \union Nat /\ MaxCloses \in Nat

Closes == 1 .. MaxCloses

VARIABLES
    shown,     \* the ticket on the page
    menu,      \* the menu is open
    rejecting, \* the dialog of a rejection is open
    change,    \* the request that the mounted useChangeStatus follows: its status
    chat,      \* the messages of the client in the chat that is mounted
    mark,      \* its read mark: "none", "out" or "failed"
    throttled, \* less than MIN_INTERVAL since the last mark of this chat
    pending,   \* pending-close: the close that may be undone
    timers,    \* the closes whose timer is armed
    failure,   \* the error of the toast
    closes     \* history: the ticket and the fate of every close

page == <<shown, menu, rejecting, change>>
reading == <<chat, mark, throttled>>
toast == <<pending, timers, failure, closes>>
vars == <<page, reading, toast>>

\* The messages that were there before the chat was opened, and those that came later:
\* unread at the server, and on the screen.
Messages == {"old", "new"}
NoChat == [unread |-> {}, there |-> {}, screen |-> {}]

Unscheduled == [ticket |-> None, state |-> "unscheduled"]

-----------------------------------------------------------------------------
\* What the server puts into allowed_statuses.
Allowed(from, role) == {to \in Status : <<<<from, to>>, role>> \in PersonTransitions}

\* primaryStatusAction; None when only the menu is left.
Primary(from, role) ==
    LET allowed == Allowed(from, role)
    IN  IF from = "NEW" /\ "IN_PROGRESS" \in allowed THEN "IN_PROGRESS"
        ELSE IF "CLOSED" \in allowed THEN "CLOSED"
        ELSE IF "IN_PROGRESS" \in allowed THEN "IN_PROGRESS" ELSE None

Secondary(from, role) == Allowed(from, role) \ {Primary(from, role)}

Waiting == pending # None

Busy == change # None \/ (Waiting /\ closes[pending].ticket = shown)

TypeOK ==
    /\ shown \in Tickets \union {None} /\ menu \in BOOLEAN /\ rejecting \in BOOLEAN
    /\ throttled \in BOOLEAN /\ failure \in BOOLEAN
    /\ change \in Status \union {None}
    /\ chat \in [unread : SUBSET Messages, there : SUBSET Messages, screen : SUBSET Messages]
    /\ chat.unread \subseteq chat.there /\ chat.screen \subseteq chat.there
    /\ mark \in {"none", "out", "failed"}
    /\ shown = None => ~menu /\ ~rejecting /\ change = None /\ chat.there = {}
    /\ pending \in Closes \union {None} /\ timers \subseteq Closes
    /\ closes \in [Closes -> [ticket : Tickets \union {None},
          state : {"unscheduled", "pending", "undone", "sent", "answered", "lost"}]]

Init ==
    /\ shown = None /\ menu = FALSE /\ rejecting = FALSE /\ change = None
    /\ chat = NoChat /\ mark = "none" /\ throttled = FALSE
    /\ pending = None /\ timers = {} /\ failure = FALSE
    /\ closes = [i \in Closes |-> Unscheduled]

-----------------------------------------------------------------------------
\* The page of a ticket is keyed by it: the state of the actions and of the chat starts
\* anew, and requests that are out go on without it.

\* Fault: the interval is counted across tickets.
MarkWhenOpenedLater == IF throttled THEN "none" ELSE "out"

\* The effect marks the chat when it is mounted, whatever it shows yet.
MarkWhenOpened == "out"

OpenTicket(t) ==
    /\ shown # t
    /\ shown' = t /\ menu' = FALSE /\ rejecting' = FALSE /\ change' = None
    /\ chat' \in {[unread |-> unread, there |-> there, screen |-> {}] :
                      unread \in SUBSET {"old"}, there \in {{"old"}}}
    /\ mark' = MarkWhenOpened /\ throttled' = TRUE
    /\ UNCHANGED toast

LeaveTicket ==
    /\ shown # None
    /\ shown' = None /\ menu' = FALSE /\ rejecting' = FALSE /\ change' = None
    /\ chat' = NoChat /\ mark' = "none" /\ throttled' = FALSE
    /\ UNCHANGED toast

-----------------------------------------------------------------------------
\* Reading.

ClientWrites ==
    /\ shown # None
    /\ chat' = [chat EXCEPT !.unread = @ \union {"new"}, !.there = @ \union {"new"},
                            !.screen = @ \ {"new"}]
    /\ UNCHANGED <<page, mark, throttled, toast>>

\* Messages come in, and the effect of the last one of the client marks it: at most once
\* in MIN_INTERVAL.
ShowMessages ==
    /\ chat.screen # chat.there
    /\ chat' = [chat EXCEPT !.screen = chat.there]
    /\ IF throttled THEN UNCHANGED <<mark, throttled>> ELSE mark' = "out" /\ throttled' = TRUE
    /\ UNCHANGED <<page, toast>>

IntervalEnds ==
    /\ throttled
    /\ throttled' = FALSE
    /\ UNCHANGED <<page, chat, mark, toast>>

\* POST .../read: everything that the ticket has by now.
MarkRead ==
    /\ mark = "out"
    /\ chat' = [chat EXCEPT !.unread = {}]
    /\ mark' = "none"
    /\ UNCHANGED <<page, throttled, toast>>

\* Nobody looks at the error of this request.
MarkFails ==
    /\ mark = "out"
    /\ mark' = "failed"
    /\ UNCHANGED <<page, chat, throttled, toast>>

-----------------------------------------------------------------------------
\* pending-close.

\* clear and the commit of what was pending: the request goes out at once.
Committed == IF Waiting THEN [closes EXCEPT ![pending].state = "sent"] ELSE closes

\* Fault: the close before it is forgotten.
ScheduleForgets(t) ==
    \E i \in Closes :
        /\ closes[i] = Unscheduled /\ \A j \in 1 .. i - 1 : closes[j] # Unscheduled
        /\ closes' = [closes EXCEPT ![i] = [ticket |-> t, state |-> "pending"]]
        /\ pending' = i /\ timers' = {i} /\ failure' = FALSE

\* schedule.
Schedule(t) ==
    \E i \in Closes :
        /\ closes[i] = Unscheduled /\ \A j \in 1 .. i - 1 : closes[j] # Unscheduled
        /\ closes' = [Committed EXCEPT ![i] = [ticket |-> t, state |-> "pending"]]
        /\ pending' = i /\ timers' = {i} /\ failure' = FALSE

\* Fault: the timer runs on.
UndoKeepsTimer ==
    /\ Waiting /\ ~failure
    /\ closes' = [closes EXCEPT ![pending].state = "undone"]
    /\ pending' = None
    /\ UNCHANGED <<page, reading, timers, failure>>

\* "Отменить": the toast is on every page of the tickets, and an error hides the button.
Undo ==
    /\ Waiting /\ ~failure
    /\ closes' = [closes EXCEPT ![pending].state = "undone"]
    /\ pending' = None /\ timers' = {}
    /\ UNCHANGED <<page, reading, failure>>

\* Fault: the commit stays in the store and goes out with the next close once more.
UndoWindowEndsAgain(i) ==
    /\ i \in timers
    /\ closes' = Committed
    /\ timers' = {}
    /\ UNCHANGED <<page, reading, pending, failure>>

\* The timer of CLOSE_UNDO_MS.
UndoWindowEnds(i) ==
    /\ i \in timers
    /\ closes' = Committed
    /\ pending' = None /\ timers' = {}
    /\ UNCHANGED <<page, reading, failure>>

\* The answer to the close, on whatever page.
CloseAnswered(i) ==
    /\ closes[i].state = "sent"
    /\ closes' = [closes EXCEPT ![i].state = "answered"]
    /\ UNCHANGED <<page, reading, pending, timers, failure>>

\* Refused, or lost on the way: the toast says so, whatever it shows.
CloseFails(i) ==
    /\ closes[i].state = "sent"
    /\ closes' = [closes EXCEPT ![i].state = "answered"]
    /\ failure' = TRUE
    /\ UNCHANGED <<page, reading, pending, timers>>

\* The error leaves the toast.
HideFailure ==
    /\ failure
    /\ failure' = FALSE
    /\ UNCHANGED <<page, reading, pending, timers, closes>>

-----------------------------------------------------------------------------
\* StatusActions.

\* run.
Run(to) ==
    \/ to = "REJECTED" /\ rejecting' = TRUE /\ UNCHANGED <<change, toast>>
    \/ to = "CLOSED" /\ Schedule(shown) /\ UNCHANGED <<change, rejecting>>
    \/ to \in OpenStatuses /\ change' = to /\ UNCHANGED <<rejecting, toast>>

\* The primary button.  A click outside closes the menu, the keyboard leaves it open.
PressPrimary ==
    /\ shown # None /\ ~rejecting /\ ~Busy
    /\ \E from \in Status, role \in StaffRoles : Run(Primary(from, role))
    /\ menu' \in {FALSE, menu}
    /\ UNCHANGED <<shown, reading>>

OpenMenu ==
    /\ shown # None /\ ~rejecting /\ ~Busy
    /\ \E from \in Status, role \in StaffRoles : Secondary(from, role) # {}
    /\ menu' = TRUE
    /\ UNCHANGED <<shown, rejecting, change, reading, toast>>

CloseMenu ==
    /\ menu
    /\ menu' = FALSE
    /\ UNCHANGED <<shown, rejecting, change, reading, toast>>

\* The items of an open menu are never disabled.
PressItem ==
    /\ menu
    /\ \E from \in Status, role \in StaffRoles : \E to \in Secondary(from, role) : Run(to)
    /\ menu' = FALSE
    /\ UNCHANGED <<shown, reading>>

\* RejectDialog, with a reason that is valid.  The mutation follows its last request.
ConfirmRejection ==
    /\ rejecting
    /\ change' = "REJECTED"
    /\ UNCHANGED <<shown, menu, rejecting, reading, toast>>

\* "Отмена" and Escape, also while the request is out.
CancelRejection ==
    /\ rejecting
    /\ rejecting' = FALSE
    /\ UNCHANGED <<shown, menu, change, reading, toast>>

ChangeAnswered ==
    /\ change # None
    /\ change' = None
    /\ rejecting' = (rejecting /\ change # "REJECTED")
    /\ UNCHANGED <<shown, menu, reading, toast>>

\* The dialog stays for another attempt.
ChangeFails ==
    /\ change # None
    /\ change' = None
    /\ UNCHANGED <<shown, menu, rejecting, reading, toast>>

-----------------------------------------------------------------------------
\* F5: what the page has not sent is lost, and so are the answers to the rest.
Reload ==
    /\ shown' = None /\ menu' = FALSE /\ rejecting' = FALSE /\ change' = None
    /\ chat' = NoChat /\ mark' = "none" /\ throttled' = FALSE
    /\ pending' = None /\ timers' = {} /\ failure' = FALSE
    /\ closes' = [i \in Closes |->
          IF closes[i].state \in {"pending", "sent"}
          THEN [closes[i] EXCEPT !.state = "lost"] ELSE closes[i]]

Next ==
    \/ \E t \in Tickets : OpenTicket(t)
    \/ LeaveTicket \/ Reload
    \/ ClientWrites \/ ShowMessages \/ IntervalEnds \/ MarkRead \/ MarkFails
    \/ PressPrimary \/ OpenMenu \/ CloseMenu \/ PressItem
    \/ ConfirmRejection \/ CancelRejection \/ ChangeAnswered \/ ChangeFails
    \/ Undo \/ HideFailure
    \/ \E i \in Closes : UndoWindowEnds(i) \/ CloseAnswered(i) \/ CloseFails(i)

Spec == Init /\ [][Next]_vars

\* Timers fire and requests end.
Fairness ==
    \A i \in Closes :
        WF_vars(UndoWindowEnds(i)) /\ WF_vars(CloseAnswered(i) \/ CloseFails(i))

FairSpec == Spec /\ Fairness

-----------------------------------------------------------------------------
(* Properties. *)

\* No timer outlives the close it was armed for: it would send the next one before its
\* time is over.
TimerIsOfPending == timers = IF Waiting THEN {pending} ELSE {}

\* A close is sent at most once, and never after it was undone or lost with the page.
ClosesOnce ==
    [][\A i \in Closes :
          /\ closes'[i].state = "sent" => closes[i].state \in {"pending", "sent"}
          /\ closes[i].state \in {"undone", "lost", "answered"} => closes'[i] = closes[i]]_vars

\* Leaving the ticket, the next close or a failure do not lose a close: it is sent and
\* answered, undone, or lost with the page.
EveryCloseEnds ==
    \A i \in Closes :
        (closes[i].state \in {"pending", "sent"})
            ~> (closes[i].state \in {"undone", "lost", "answered"})

\* What the client wrote before the chat was opened is read, or the mark is on its way,
\* or it failed: switching between tickets quickly does not swallow a mark.
OpeningReads == "old" \in chat.unread => mark # "none"
==============================================================================
