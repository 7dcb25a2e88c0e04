---------------------------- MODULE TicketContract ----------------------------
(***************************************************************************)
(* What the service promises about a ticket, whatever staff, the client    *)
(* and the bot do at the same time: the status diagram, the one owner a    *)
(* ticket ever gets, and the closing time that exists exactly while it is  *)
(* closed.  TicketLifecycle implements it.                                 *)
(***************************************************************************)
CONSTANTS
    Tickets,
    Staff,
    Instants,  \* the moments at which a ticket may be closed
    None

VARIABLES
    status,    \* None until the ticket is registered
    assignee,  \* the member of staff who leads the ticket
    closedAt   \* when it was closed or rejected

vars == <<status, assignee, closedAt>>

Init ==
    /\ status = [t \in Tickets |-> None]
    /\ assignee = [t \in Tickets |-> None]
    /\ closedAt = [t \in Tickets |-> None]

Move(t, from, to) ==
    /\ status[t] \in from
    /\ status' = [status EXCEPT ![t] = to]

Register(t) ==
    /\ Move(t, {None}, "NEW")
    /\ UNCHANGED <<assignee, closedAt>>

\* Taken by hand, or by the first answer: the only step that names an assignee.
Take(t, s) ==
    /\ Move(t, {"NEW"}, "IN_PROGRESS")
    /\ assignee' = [assignee EXCEPT ![t] = s]
    /\ UNCHANGED closedAt

AskClient(t) ==
    /\ Move(t, {"IN_PROGRESS"}, "WAITING_CLIENT")
    /\ UNCHANGED <<assignee, closedAt>>

ClientAnswers(t) ==
    /\ Move(t, {"WAITING_CLIENT"}, "IN_PROGRESS")
    /\ UNCHANGED <<assignee, closedAt>>

Finish(t, at) ==
    /\ \/ Move(t, {"IN_PROGRESS", "WAITING_CLIENT"}, "CLOSED")
       \/ Move(t, {"NEW", "IN_PROGRESS", "WAITING_CLIENT"}, "REJECTED")
    /\ closedAt' = [closedAt EXCEPT ![t] = at]
    /\ UNCHANGED assignee

Reopen(t) ==
    /\ Move(t, {"CLOSED", "REJECTED"}, "IN_PROGRESS")
    /\ closedAt' = [closedAt EXCEPT ![t] = None]
    /\ UNCHANGED assignee

Next ==
    \E t \in Tickets :
        \/ Register(t)
        \/ \E s \in Staff : Take(t, s)
        \/ AskClient(t)
        \/ ClientAnswers(t)
        \/ \E at \in Instants : Finish(t, at)
        \/ Reopen(t)

Spec == Init /\ [][Next]_vars
===============================================================================
