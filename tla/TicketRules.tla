----------------------------- MODULE TicketRules -----------------------------
(***************************************************************************)
(* The pure rules of services/ticket_rules.py: which status may follow     *)
(* which and for whom, who may rate, what counts as unread.  Instants are  *)
(* natural numbers; None is the SQL NULL.                                  *)
(***************************************************************************)
EXTENDS Integers

CONSTANTS
    None,         \* an empty column
    ReopenWindow  \* CLIENT_REOPEN_WINDOW, in ticks of the model's clock

ASSUME ReopenWindowAssumption == ReopenWindow \in Nat

Status == {"NEW", "IN_PROGRESS", "WAITING_CLIENT", "CLOSED", "REJECTED"}

OpenStatuses == {"NEW", "IN_PROGRESS", "WAITING_CLIENT"}

ASSUME NoneIsNoStatus == None \notin Status

StaffRoles == {"MANAGER", "ADMIN"}

UserRoles == StaffRoles \union {"CLIENT"}

IsOpen(status) == status \in OpenStatuses

\* The badge of the chat: the client wrote after the last mark of the staff.
IsUnread(lastClientMessageAt, staffSeenAt) ==
    /\ lastClientMessageAt # None
    /\ staffSeenAt # None => lastClientMessageAt > staffSeenAt

\* Edges of the status graph that any member of staff may take.
StaffTransitions ==
    {<<"NEW", "IN_PROGRESS">>, <<"NEW", "REJECTED">>,
     <<"IN_PROGRESS", "WAITING_CLIENT">>, <<"IN_PROGRESS", "CLOSED">>,
     <<"IN_PROGRESS", "REJECTED">>, <<"WAITING_CLIENT", "CLOSED">>,
     <<"WAITING_CLIENT", "REJECTED">>}

\* Back into work after the end: the client and the administrators only.
ReopenTransitions ==
    {<<<<"CLOSED", "IN_PROGRESS">>, "CLIENT">>, <<<<"CLOSED", "IN_PROGRESS">>, "ADMIN">>,
     <<<<"REJECTED", "IN_PROGRESS">>, "ADMIN">>}

\* Fault: a ticket nobody took may be closed.
PersonTransitionsCloseNew ==
    ((StaffTransitions \union {<<"NEW", "CLOSED">>}) \X StaffRoles) \union ReopenTransitions

\* _PERSON_TRANSITIONS as a relation between edges and the roles allowed on them.
PersonTransitions == (StaffTransitions \X StaffRoles) \union ReopenTransitions

\* Fault: the window is not looked at.
CanClientReopenAnytime(status, closedAt, now) == status = "CLOSED"

CanClientReopen(status, closedAt, now) ==
    /\ status = "CLOSED"
    /\ closedAt # None
    /\ now - closedAt <= ReopenWindow

\* check_transition does not raise.
TransitionAllowed(current, target, role, closedAt, now) ==
    /\ <<<<current, target>>, role>> \in PersonTransitions
    /\ role = "CLIENT" => CanClientReopen(current, closedAt, now)

\* The system transitions: None when the message leaves the status alone.
StatusAfterStaffMessage(status) ==
    IF status = "NEW" THEN "IN_PROGRESS" ELSE None

StatusAfterClientMessage(status) ==
    IF status = "WAITING_CLIENT" THEN "IN_PROGRESS" ELSE None

CanRate(status) == status = "CLOSED"
==============================================================================
