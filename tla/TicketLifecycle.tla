--------------------------- MODULE TicketLifecycle ---------------------------
(***************************************************************************)
(* Tickets under concurrent requests: StatusService, MessageService,       *)
(* ClientTicketService and TicketService over PostgreSQL READ COMMITTED.   *)
(*                                                                         *)
(* A panel request runs in one of ApiSlots, the bot handles its updates    *)
(* one at a time in Bot.  A request is cut where the code awaits: between  *)
(* two of its steps any other request may run.  SELECT ... FOR UPDATE and  *)
(* UPDATE wait for the row lock; a plain SELECT sees the last commit.      *)
(***************************************************************************)
EXTENDS TicketRules, Sequences, FiniteSets

CONSTANTS
    Tickets,   \* the ids the tickets table may hand out
    Clients,
    Staff,
    Messages,  \* ids that Max gives to the clients' messages
    Ratings,
    ApiSlots,  \* panel requests that may be in flight at once
    Bot,
    MaxTime,   \* bound: the model's clock stops here
    MaxCommits \* bound: transactions committed in a behaviour

Procs == ApiSlots \union {Bot}

ASSUME LifecycleAssumption ==
    /\ Bot \notin ApiSlots
    /\ MaxTime \in Nat /\ MaxCommits \in Nat
    /\ None \notin Tickets \union Clients \union Staff \union Messages
                    \union Ratings \union Procs
    /\ None \notin Nat
    /\ Clients \intersect Staff = {}

Instants == 0 .. MaxTime

VARIABLES
    \* the columns of tickets; status is None until the row is inserted
    status, client, assignee, closedAt, rating, staffSeenAt, lastClientMessageAt,
    activeTicket,  \* users.active_ticket_id
    history,       \* status_changes of a ticket, in the order of the commits
    messages,      \* messages of a ticket, in the order of the commits
    rowLock,       \* the request whose transaction holds the ticket's row
    req,           \* the requests in flight
    now,
    commits        \* transactions committed so far

tables == <<status, client, assignee, closedAt, rating, staffSeenAt,
            lastClientMessageAt, activeTicket, history, messages>>

vars == <<tables, rowLock, req, now, commits>>

(***************************************************************************)
(* A request in flight.  arg is what the operation carries (the target     *)
(* status, the score or the message's id), seen the status it read under   *)
(* the row lock, stamp the datetime.now(UTC) it took.                      *)
(***************************************************************************)
Idle == [pc |-> "idle", op |-> None, user |-> None, role |-> None,
         ticket |-> None, arg |-> None, seen |-> None, stamp |-> 0]

StaffOps  == {"change", "reply", "read"}
ClientOps == {"reopen", "rate", "message", "activate"}

Requests ==
    [pc : {"idle", "started", "checked", "sent", "locked", "committed"},
     op : StaffOps \union ClientOps \union {"create", None},
     user : Staff \union Clients \union {None}, role : UserRoles \union {None},
     ticket : Tickets \union {None},
     arg : Status \union Ratings \union Messages \union {None},
     seen : Status \union {None}, stamp : Instants]

Changes == [from : Status \union {None}, to : Status,
            by : Staff \union Clients \union {None}]

ChatMessages == [sender : {"CLIENT", "STAFF", "SYSTEM"}, mid : Messages \union {None}]

TypeOK ==
    /\ status \in [Tickets -> Status \union {None}]
    /\ client \in [Tickets -> Clients \union {None}]
    /\ assignee \in [Tickets -> Staff \union {None}]
    /\ closedAt \in [Tickets -> Instants \union {None}]
    /\ rating \in [Tickets -> Ratings \union {None}]
    /\ staffSeenAt \in [Tickets -> Instants \union {None}]
    /\ lastClientMessageAt \in [Tickets -> Instants \union {None}]
    /\ activeTicket \in [Clients -> Tickets \union {None}]
    /\ history \in [Tickets -> Seq(Changes)]
    /\ messages \in [Tickets -> Seq(ChatMessages)]
    /\ rowLock \in [Tickets -> Procs \union {None}]
    /\ req \in [Procs -> Requests]
    /\ now \in Instants
    /\ commits \in Nat

Init ==
    /\ status = [t \in Tickets |-> None]
    /\ client = [t \in Tickets |-> None]
    /\ assignee = [t \in Tickets |-> None]
    /\ closedAt = [t \in Tickets |-> None]
    /\ rating = [t \in Tickets |-> None]
    /\ staffSeenAt = [t \in Tickets |-> None]
    /\ lastClientMessageAt = [t \in Tickets |-> None]
    /\ activeTicket = [c \in Clients |-> None]
    /\ history = [t \in Tickets |-> <<>>]
    /\ messages = [t \in Tickets |-> <<>>]
    /\ rowLock = [t \in Tickets |-> None]
    /\ req = [p \in Procs |-> Idle]
    /\ now = 0
    /\ commits = 0

-----------------------------------------------------------------------------
\* Steps shared by the requests.

Registered(t) == status[t] # None

At(p, op, phase) == req[p].op = op /\ req[p].pc = phase

\* Fault: nobody asks whose ticket it is.
OwnsAny(p) == TRUE

Owns(p) == client[req[p].ticket] = req[p].user

RowFree(p) == rowLock[req[p].ticket] = None

Busy == {p \in Procs : req[p].pc # "idle"}

\* Authenticated, or past UserSyncMiddleware; the handler runs.
Begin(p, op, user, role, t, arg) ==
    /\ req[p].pc = "idle"
    /\ commits + Cardinality(Busy) < MaxCommits
    /\ req' = [req EXCEPT ![p] =
                 [Idle EXCEPT !.pc = "started", !.op = op, !.user = user, !.role = role,
                              !.ticket = t, !.arg = arg]]
    /\ UNCHANGED <<tables, rowLock, now, commits>>

\* Answered and its session closed, with the row it may have held.
Finish(p) == req' = [req EXCEPT ![p] = Idle]

GoesOn(p, phase) == req' = [req EXCEPT ![p].pc = phase]

\* A check on rows read without a lock; a refusal ends the request.
Check(p, ok) ==
    /\ IF ok THEN GoesOn(p, "checked") ELSE Finish(p)
    /\ UNCHANGED <<tables, rowLock, now, commits>>

\* Fault: get_by_id, which waits for nobody, instead of get_by_id_for_update.
ReadWithoutLock(p, ok) ==
    /\ IF ok
       THEN req' = [req EXCEPT ![p].pc = "locked", ![p].stamp = now,
                               ![p].seen = status[req[p].ticket]]
       ELSE Finish(p)
    /\ UNCHANGED <<tables, rowLock, now, commits>>

\* get_by_id_for_update waits for the row and reads it afresh; a refusal frees
\* it with the session.
Lock(p, ok) ==
    LET t == req[p].ticket IN
    /\ RowFree(p)
    /\ IF ok
       THEN /\ rowLock' = [rowLock EXCEPT ![t] = p]
            /\ req' = [req EXCEPT ![p].pc = "locked", ![p].seen = status[t],
                                  ![p].stamp = now]
       ELSE Finish(p) /\ UNCHANGED rowLock
    /\ UNCHANGED <<tables, now, commits>>

\* The transaction commits and frees the row.
Commit(p) ==
    /\ rowLock' = [rowLock EXCEPT ![req[p].ticket] =
                     IF @ = p THEN None ELSE @]
    /\ commits' = commits + 1
    /\ UNCHANGED now

Record(t, from, to, by) ==
    history' = [history EXCEPT ![t] = Append(@, [from |-> from, to |-> to, by |-> by])]

Post(t, sender, mid) ==
    messages' = [messages EXCEPT ![t] = Append(@, [sender |-> sender, mid |-> mid])]

-----------------------------------------------------------------------------
\* What starts: POST .../status, .../messages, .../read of the panel, the
\* client's buttons and messages, a new ticket.

ArgsOf(op) ==
    CASE op = "change"  -> Status
      [] op = "rate"    -> Ratings
      [] op = "message" -> Messages
      [] OTHER          -> {None}

BeginByStaff(p) ==
    /\ p \in ApiSlots
    /\ \E s \in Staff, role \in StaffRoles, t \in Tickets, op \in StaffOps :
          /\ Registered(t)
          /\ \E arg \in ArgsOf(op) : Begin(p, op, s, role, t, arg)

BeginByClient(p) ==
    /\ p = Bot
    /\ \E c \in Clients, t \in Tickets, op \in ClientOps :
          /\ Registered(t)
          /\ \E arg \in ArgsOf(op) : Begin(p, op, c, "CLIENT", t, arg)

BeginCreate(p) ==
    /\ p = Bot
    /\ \E c \in Clients, t \in Tickets :
          /\ ~Registered(t)
          /\ Begin(p, "create", c, "CLIENT", t, None)

\* _create_ticket: nobody else can see the row before the commit.
CommitCreate(p) ==
    LET r == req[p] IN
    /\ At(p, "create", "started")
    /\ status' = [status EXCEPT ![r.ticket] = "NEW"]
    /\ client' = [client EXCEPT ![r.ticket] = r.user]
    /\ activeTicket' = [activeTicket EXCEPT ![r.user] = r.ticket]
    /\ Record(r.ticket, None, "NEW", r.user)
    /\ Commit(p)
    /\ Finish(p)
    /\ UNCHANGED <<assignee, closedAt, rating, staffSeenAt, lastClientMessageAt, messages>>

-----------------------------------------------------------------------------
\* StatusService: a change by staff, a reopening by the client.

LockForChange(p) ==
    LET r == req[p]
        t == r.ticket
    IN  /\ At(p, "change", "started")
        /\ Lock(p, TransitionAllowed(status[t], r.arg, r.role, closedAt[t], now))

LockForReopen(p) ==
    LET t == req[p].ticket IN
    /\ At(p, "reopen", "started")
    /\ Lock(p, /\ Owns(p)
               /\ TransitionAllowed(status[t], "IN_PROGRESS", "CLIENT", closedAt[t], now))

\* Fault: whoever moves the ticket into work becomes its assignee.
AssigneeTakenOver(p, target) ==
    IF target = "IN_PROGRESS" THEN req[p].user ELSE assignee[req[p].ticket]

\* Fault: a ticket without an assignee gets one whenever it is moved into work.
AssigneeFilledIn(p, target) ==
    IF target = "IN_PROGRESS" /\ assignee[req[p].ticket] = None
    THEN req[p].user ELSE assignee[req[p].ticket]

AssigneeAfter(p, target) ==
    IF req[p].seen = "NEW" /\ target = "IN_PROGRESS"
    THEN req[p].user ELSE assignee[req[p].ticket]

\* Fault: reopening a rejected ticket leaves its closing time.
ClosedAtOfRejectedKept(p, target) ==
    IF target \in {"CLOSED", "REJECTED"} THEN req[p].stamp
    ELSE IF target = "IN_PROGRESS" /\ req[p].seen = "CLOSED" THEN None
    ELSE closedAt[req[p].ticket]

ClosedAtAfter(p, target) ==
    IF target \in {"CLOSED", "REJECTED"} THEN req[p].stamp
    ELSE IF target = "IN_PROGRESS" /\ req[p].seen \in {"CLOSED", "REJECTED"} THEN None
    ELSE closedAt[req[p].ticket]

\* _apply_transition and the commit.
ApplyTransition(p, target) ==
    LET r == req[p]
        t == r.ticket
    IN  /\ status' = [status EXCEPT ![t] = target]
        /\ Record(t, r.seen, target, r.user)
        /\ assignee' = [assignee EXCEPT ![t] = AssigneeAfter(p, target)]
        /\ closedAt' = [closedAt EXCEPT ![t] = ClosedAtAfter(p, target)]
        /\ Commit(p)
        /\ GoesOn(p, "committed")
        /\ UNCHANGED <<client, rating, staffSeenAt, lastClientMessageAt,
                       activeTicket, messages>>

CommitChange(p) ==
    /\ At(p, "change", "locked")
    /\ ApplyTransition(p, req[p].arg)

CommitReopen(p) ==
    /\ At(p, "reopen", "locked")
    /\ ApplyTransition(p, "IN_PROGRESS")

\* send_status_message: stored as SYSTEM, in a transaction of its own, if Max took
\* it.  The foreign key makes the INSERT wait for the ticket's row.
NotifyClient(p) ==
    /\ At(p, "change", "committed")
    /\ \/ RowFree(p) /\ Post(req[p].ticket, "SYSTEM", None)
       \/ UNCHANGED messages
    /\ Finish(p)
    /\ UNCHANGED <<status, client, assignee, closedAt, rating, staffSeenAt,
                   lastClientMessageAt, activeTicket, history, rowLock, now, commits>>

\* handle_resolved_no goes on to set_active_ticket.
ReopenThenActivate(p) ==
    /\ At(p, "reopen", "committed")
    /\ req' = [req EXCEPT ![p].op = "activate", ![p].pc = "started"]
    /\ UNCHANGED <<tables, rowLock, now, commits>>

\* rate reads without a lock: the check and the UPDATE are two steps.
CheckRate(p) ==
    /\ At(p, "rate", "started")
    /\ Check(p, Owns(p) /\ CanRate(status[req[p].ticket]))

CommitRate(p) ==
    /\ At(p, "rate", "checked")
    /\ RowFree(p)
    /\ rating' = [rating EXCEPT ![req[p].ticket] = req[p].arg]
    /\ Commit(p)
    /\ Finish(p)
    /\ UNCHANGED <<status, client, assignee, closedAt, staffSeenAt,
                   lastClientMessageAt, activeTicket, history, messages>>

-----------------------------------------------------------------------------
\* MessageService.send_staff_message: read, send through Max, only then lock.

CheckReply(p) ==
    /\ At(p, "reply", "started")
    /\ Check(p, IsOpen(status[req[p].ticket]))

\* upload_file and send_message; when Max refuses, the panel gets a 502.
SendReply(p) ==
    /\ At(p, "reply", "checked")
    /\ GoesOn(p, "sent") \/ Finish(p)
    /\ UNCHANGED <<tables, rowLock, now, commits>>

LockForReply(p) ==
    /\ At(p, "reply", "sent")
    /\ Lock(p, TRUE)

CommitReply(p) ==
    LET r == req[p]
        t == r.ticket
        next == StatusAfterStaffMessage(r.seen)
    IN  /\ At(p, "reply", "locked")
        /\ Post(t, "STAFF", None)
        /\ staffSeenAt' = [staffSeenAt EXCEPT ![t] = r.stamp]
        /\ IF next # None
           THEN /\ status' = [status EXCEPT ![t] = next]
                /\ assignee' = [assignee EXCEPT ![t] = r.user]
                /\ Record(t, r.seen, next, None)
           ELSE UNCHANGED <<status, assignee, history>>
        /\ Commit(p)
        /\ Finish(p)
        /\ UNCHANGED <<client, closedAt, rating, lastClientMessageAt, activeTicket>>

-----------------------------------------------------------------------------
\* MessageService.add_client_message: Max may deliver a message more than once.

Stored(mid) ==
    \E t \in Tickets : \E i \in DOMAIN messages[t] : messages[t][i].mid = mid

\* Fault: the message is looked up in the ticket it is routed to only.
DuplicateCheckedInTicket(p) ==
    /\ At(p, "message", "started")
    /\ Check(p, ~\E i \in DOMAIN messages[req[p].ticket] :
                   messages[req[p].ticket][i].mid = req[p].arg)

CheckDuplicate(p) ==
    /\ At(p, "message", "started")
    /\ Check(p, ~Stored(req[p].arg))

\* Fault: open or not is left to the routing, which ran before.
LockWithoutOpenCheck(p) ==
    /\ At(p, "message", "checked")
    /\ Lock(p, Owns(p))

\* Fault: the time of the message is taken before the wait for the row.
LockWithEarlierTime(p) ==
    LET t == req[p].ticket IN
    /\ At(p, "message", "checked")
    /\ RowFree(p) /\ Owns(p) /\ IsOpen(status[t])
    /\ rowLock' = [rowLock EXCEPT ![t] = p]
    /\ \E time \in 0 .. now :
          req' = [req EXCEPT ![p].pc = "locked", ![p].seen = status[t], ![p].stamp = time]
    /\ UNCHANGED <<tables, now, commits>>

LockForMessage(p) ==
    /\ At(p, "message", "checked")
    /\ Lock(p, Owns(p) /\ IsOpen(status[req[p].ticket]))

CommitMessage(p) ==
    LET r == req[p]
        t == r.ticket
        next == StatusAfterClientMessage(r.seen)
    IN  /\ At(p, "message", "locked")
        /\ Post(t, "CLIENT", r.arg)
        /\ lastClientMessageAt' = [lastClientMessageAt EXCEPT ![t] = r.stamp]
        /\ activeTicket' = [activeTicket EXCEPT ![r.user] = t]
        /\ IF next # None
           THEN /\ status' = [status EXCEPT ![t] = next]
                /\ Record(t, r.seen, next, None)
           ELSE UNCHANGED <<status, history>>
        /\ Commit(p)
        /\ Finish(p)
        /\ UNCHANGED <<client, assignee, closedAt, rating, staffSeenAt>>

-----------------------------------------------------------------------------
\* ClientTicketService.set_active_ticket and TicketService.mark_read.

CheckActivate(p) ==
    /\ At(p, "activate", "started")
    /\ Check(p, Owns(p) /\ IsOpen(status[req[p].ticket]))

\* The foreign key from users waits for the ticket's row.
CommitActivate(p) ==
    /\ At(p, "activate", "checked")
    /\ RowFree(p)
    /\ activeTicket' = [activeTicket EXCEPT ![req[p].user] = req[p].ticket]
    /\ Commit(p)
    /\ Finish(p)
    /\ UNCHANGED <<status, client, assignee, closedAt, rating, staffSeenAt,
                   lastClientMessageAt, history, messages>>

StampRead(p) ==
    /\ At(p, "read", "started")
    /\ req' = [req EXCEPT ![p].pc = "checked", ![p].stamp = now]
    /\ UNCHANGED <<tables, rowLock, now, commits>>

CommitRead(p) ==
    /\ At(p, "read", "checked")
    /\ RowFree(p)
    /\ staffSeenAt' = [staffSeenAt EXCEPT ![req[p].ticket] = req[p].stamp]
    /\ Commit(p)
    /\ Finish(p)
    /\ UNCHANGED <<status, client, assignee, closedAt, rating, lastClientMessageAt,
                   activeTicket, history, messages>>

-----------------------------------------------------------------------------
\* The process is restarted: PostgreSQL rolls its transactions back.
Restart ==
    /\ req' = [p \in Procs |-> Idle]
    /\ rowLock' = [t \in Tickets |-> None]
    /\ UNCHANGED <<tables, now, commits>>

Tick ==
    /\ now < MaxTime
    /\ now' = now + 1
    /\ UNCHANGED <<tables, rowLock, req, commits>>

Step(p) ==
    \/ CommitCreate(p)
    \/ LockForChange(p) \/ CommitChange(p) \/ NotifyClient(p)
    \/ LockForReopen(p) \/ CommitReopen(p) \/ ReopenThenActivate(p)
    \/ CheckRate(p) \/ CommitRate(p)
    \/ CheckReply(p) \/ SendReply(p) \/ LockForReply(p) \/ CommitReply(p)
    \/ CheckDuplicate(p) \/ LockForMessage(p) \/ CommitMessage(p)
    \/ CheckActivate(p) \/ CommitActivate(p)
    \/ StampRead(p) \/ CommitRead(p)

Next ==
    \/ \E p \in Procs : BeginByStaff(p) \/ BeginByClient(p) \/ BeginCreate(p) \/ Step(p)
    \/ Restart
    \/ Tick

Spec == Init /\ [][Next]_vars

-----------------------------------------------------------------------------
\* Safety.

Closed(t) == status[t] \in {"CLOSED", "REJECTED"}

\* What the history of a ticket says its status is.
LastStatus(t) == IF history[t] = <<>> THEN None ELSE history[t][Len(history[t])].to

\* What a request carries fits its operation, and its ticket's row is there unless
\* the request is the one that inserts it.
WellFormed(p) ==
    LET r == req[p] IN
    r.pc # "idle" =>
        /\ r.op \in StaffOps \union ClientOps \union {"create"}
        /\ r.ticket \in Tickets
        /\ (r.op = "create") <=> (status[r.ticket] = None)
        /\ r.op \in StaffOps => p \in ApiSlots /\ r.user \in Staff /\ r.role \in StaffRoles
        /\ r.op \notin StaffOps => p = Bot /\ r.user \in Clients
        /\ r.op = "change" => r.arg \in Status
        /\ r.op = "rate" => r.arg \in Ratings
        /\ r.op = "message" => r.arg \in Messages
        /\ r.stamp <= now

(***************************************************************************)
(* Whatever a request decided on after SELECT ... FOR UPDATE still holds   *)
(* when it commits: the status, the right to make the transition, the      *)
(* reopening window, the owner.                                            *)
(***************************************************************************)
Snapshot(p) ==
    LET r == req[p]
        t == r.ticket
    IN  r.pc = "locked" =>
            /\ rowLock[t] = p
            /\ r.seen = status[t]
            /\ r.op = "change" => <<<<status[t], r.arg>>, r.role>> \in PersonTransitions
            /\ r.op = "reopen" => CanClientReopen(status[t], closedAt[t], r.stamp)
            /\ r.op \in {"reopen", "message"} => client[t] = r.user
            /\ r.op = "message" => IsOpen(status[t])

SnapshotHolds == \A p \in Procs : Snapshot(p)

(***************************************************************************)
(* The history starts with the registration, each change starts where the  *)
(* one before it ended, and the last one ends in the status of the row:    *)
(* no transition is decided on a status that has changed meanwhile.        *)
(***************************************************************************)
HistoryTellsStatus ==
    \A t \in Tickets :
        /\ status[t] = LastStatus(t)
        /\ \A i \in DOMAIN history[t] :
              history[t][i].from = IF i = 1 THEN None ELSE history[t][i - 1].to

Reactions(t) == {i \in DOMAIN history[t] : history[t][i].from = "NEW"}

(***************************************************************************)
(* list_for_dashboard takes "the single change out of NEW" for the         *)
(* reaction: there is at most one, and it named the assignee exactly when  *)
(* it took the ticket into work.                                           *)
(***************************************************************************)
ReactedOnce ==
    \A t \in Tickets :
        /\ \A i, j \in Reactions(t) : i = j
        /\ (assignee[t] # None) <=> \E i \in Reactions(t) : history[t][i].to = "IN_PROGRESS"

\* closed_at is there exactly while the ticket is closed, and never in the future:
\* the reopening window and the dashboard's durations are counted from it.
ClosedAtTellsClosed ==
    \A t \in Tickets :
        /\ (closedAt[t] # None) <=> Closed(t)
        /\ closedAt[t] # None => closedAt[t] <= now

\* Two deliveries of one message of the client are stored once: get_by_max_message_id
\* expects at most one row.
MessageStoredOnce ==
    \A t, u \in Tickets : \A i \in DOMAIN messages[t], j \in DOMAIN messages[u] :
        /\ messages[t][i].mid # None
        /\ messages[t][i].mid = messages[u][j].mid
        => t = u /\ i = j

\* A client's free text goes to active_ticket_id: it never names another's ticket.
ActiveTicketIsOwn ==
    \A c \in Clients : activeTicket[c] # None => client[activeTicket[c]] = c

\* Whoever leads a ticket leads it for good, through closing and reopening.
AssigneeKept ==
    [][\A t \in Tickets : assignee[t] # None => assignee'[t] = assignee[t]]_vars

Posted(t, sender) ==
    /\ messages'[t] # messages[t]
    /\ messages'[t][Len(messages'[t])].sender = sender

(***************************************************************************)
(* A message of the client that is stored finds its ticket open at that    *)
(* very moment, whoever has been closing it since the message was routed,  *)
(* and ends the wait for the client.                                       *)
(***************************************************************************)
ClientIsHeard ==
    [][\A t \in Tickets : Posted(t, "CLIENT") =>
          IsOpen(status[t]) /\ status'[t] \in {"NEW", "IN_PROGRESS"}]_vars

(***************************************************************************)
(* A message of the client is unread when it is stored, although marks     *)
(* take their time before they wait for the row and commit in any order:   *)
(* only a mark of the very same instant hides it.  (A mark that took its   *)
(* time after the message did, and waits for it to be stored, puts the     *)
(* badge out in the next step: that is not excluded, see the README.)      *)
(***************************************************************************)
MessageIsUnread ==
    [][\A t \in Tickets : Posted(t, "CLIENT") =>
          \/ IsUnread(lastClientMessageAt'[t], staffSeenAt'[t])
          \/ staffSeenAt'[t] = lastClientMessageAt'[t]]_vars

(***************************************************************************)
(* A client reopens only a ticket that is CLOSED when the reopening        *)
(* commits, and pressed the button within the window of that closing, not  *)
(* of an earlier one.                                                      *)
(***************************************************************************)
ClientReopensInTime ==
    [][\A t \in Tickets, p \in Procs :
          At(p, "reopen", "locked") /\ req[p].ticket = t /\ status'[t] # status[t] =>
             /\ status[t] = "CLOSED" /\ status'[t] = "IN_PROGRESS"
             /\ req[p].stamp - closedAt[t] <= ReopenWindow]_vars

\* The lifecycle of the documentation, reached through all this concurrency.
Contract == INSTANCE TicketContract
    WITH status <- status, assignee <- assignee, closedAt <- closedAt, Instants <- Instants
ImplementsContract == Contract!Spec

-----------------------------------------------------------------------------
\* Said by the documentation, not kept by the code.

\* docs/product.md: staff can only write to an open ticket.
StaffWritesToOpen ==
    [][\A t \in Tickets : Posted(t, "STAFF") => IsOpen(status[t])]_vars
==============================================================================
