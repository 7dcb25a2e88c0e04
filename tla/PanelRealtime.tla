----------------------------- MODULE PanelRealtime -----------------------------
(***************************************************************************)
(* What one staff panel shows of one ticket: the WebSocket of              *)
(* StaffRealtime, and the cached answers of the REST API it keeps fresh.   *)
(* The server is what the panel can tell of it: messages numbered as they  *)
(* are stored, and a version of the ticket that any change raises.  Each   *)
(* event is broadcast by a task of its own, so events arrive in any order  *)
(* while the socket lives and are lost with it.                            *)
(*                                                                         *)
(* A query of TanStack Query is a record: its data, the request in flight  *)
(* ("sent" until the server reads, "read" until the answer is in), and its *)
(* error and invalidated flags.                                            *)
(***************************************************************************)
EXTENDS Integers, Sequences, FiniteSets

CONSTANTS
    MaxStored,   \* bound: messages of the ticket
    MaxVersion,  \* bound: changes of the ticket
    MaxBreaks,   \* bound: sockets that break or are refused
    Queries,     \* the cached answers: "messages", "detail", "lists", or some of them
    None

ASSUME PanelRealtimeAssumption ==
    /\ Queries \subseteq {"messages", "detail", "lists"} /\ {"messages", "detail"} \subseteq Queries
    /\ MaxStored \in Nat /\ MaxVersion \in Nat /\ MaxBreaks \in Nat
    /\ None \notin Nat /\ None \notin Seq(Nat)

VARIABLES
    stored,   \* server: the messages are 1 .. stored
    version,  \* server: how often the ticket changed
    events,   \* sent to this socket and not yet delivered
    sock,     \* the WebSocket and its retry timer
    opened,   \* this socket object has been open before
    online,   \* the indicator
    breaks,   \* how many sockets broke, for MaxBreaks
    cache,    \* the queries
    screen,   \* the queries that have an observer on the page
    post,     \* the mutation of this page in flight
    due       \* history: what the panel has been told to read again

\* The lists and the count of unread tickets are on every page.
Shell == Queries \ {"messages", "detail"}

server == <<stored, version>>
socket == <<events, sock, opened, online, breaks>>
vars == <<server, socket, cache, screen, post, due>>

Chat == [i \in 1 .. stored |-> i]
Values(q) == IF q = "messages" THEN Seq(Nat) ELSE Nat
Truth(q) == IF q = "messages" THEN Chat ELSE version

Unread == [data |-> None, fetch |-> "none", got |-> None,
           error |-> FALSE, invalid |-> FALSE]

NoPost == [kind |-> "none", stage |-> "none", value |-> 0]

\* How far a cached value goes: the number of its last message, or its version.
Covers(q, value, n) ==
    IF q = "messages" THEN \A i \in 1 .. n : \E k \in 1 .. Len(value) : value[k] = i
    ELSE value >= n

-----------------------------------------------------------------------------
\* TanStack Query, as the panel uses it.

\* A request goes out; an error without data is forgotten.
Fetching(c) ==
    [c EXCEPT !.fetch = "sent", !.got = None, !.error = @ /\ c.data # None]

\* A request that is already out is joined.
Joined(c) == IF c.fetch = "none" THEN Fetching(c) ELSE c

\* Fault: the request in flight is taken for the new one.
InvalidatedJoins(q, c) ==
    LET marked == [c EXCEPT !.invalid = TRUE]
    IN  IF q \notin screen THEN marked ELSE Joined(marked)

\* invalidateQueries: what is on the page is read again, and the request in
\* flight is cancelled for it, unless it is the first one.
Invalidated(q, c) ==
    LET marked == [c EXCEPT !.invalid = TRUE]
    IN  IF q \notin screen THEN marked
        ELSE IF c.data = None THEN Joined(marked) ELSE Fetching(marked)

\* setQueryData: fresh from now on, whatever is in flight.
Written(c, value) == [c EXCEPT !.data = value, !.error = FALSE, !.invalid = FALSE]

\* The first observer comes: no data, invalidated data and old data are read.
Mounted(c, old) == IF c.data = None \/ c.invalid \/ old THEN Joined(c) ELSE c

-----------------------------------------------------------------------------
\* The realtime plan.

\* Fault: the message that comes back a second time is added again.
AppendAgain(c, id) == IF c.data = None THEN c ELSE Written(c, Append(c.data, id))

\* appendMessage: a message sent from here comes back twice.
AppendMessage(c, id) ==
    IF c.data = None THEN c
    ELSE IF \E k \in 1 .. Len(c.data) : c.data[k] = id THEN Written(c, c.data)
    ELSE Written(c, Append(c.data, id))

\* planRealtimeUpdate.
Plan(type) ==
    CASE type = "message_created" -> {"append-message"}
      [] type = "ticket_created" -> {"invalidate-lists"}
      [] type = "ticket_updated" -> {"invalidate-lists", "invalidate-ticket"}
      [] type = "reconnected" -> {"invalidate-all"}

\* Which queries an action reads again.
Concerns(q) ==
    CASE q = "messages" -> {"invalidate-all"}
      [] q = "detail" -> {"invalidate-all", "invalidate-ticket"}
      [] q = "lists" -> {"invalidate-all", "invalidate-lists"}

\* apply.
Apply(cs, event) ==
    [q \in Queries |->
        IF q = "messages" /\ "append-message" \in Plan(event.type)
        THEN AppendMessage(cs[q], event.id)
        ELSE IF Plan(event.type) \intersect Concerns(q) # {} THEN Invalidated(q, cs[q])
        ELSE cs[q]]

\* What the page is owed once it has been told: only of data it already shows.
Owed(cs, told) ==
    [q \in Queries |->
        IF q \in screen /\ cs[q].data # None /\ told[q] > due[q] THEN told[q] ELSE due[q]]

NothingDue == [q \in Queries |-> 0]

-----------------------------------------------------------------------------
TypeOK ==
    /\ stored \in 0 .. MaxStored /\ version \in 0 .. MaxVersion /\ breaks \in 0 .. MaxBreaks
    /\ events \subseteq [type : {"message_created"}, id : 1 .. stored]
                   \union [type : {"ticket_updated"}, id : 1 .. version]
    /\ sock \in {"connecting", "accepted", "open", "waiting", "forbidden", "off"}
    /\ opened \in BOOLEAN /\ online \in BOOLEAN
    /\ (sock = "open" => online) /\ (sock = "waiting" => ~online)
    /\ DOMAIN cache = Queries
    /\ \A q \in Queries :
          cache[q] \in [data : Values(q) \union {None}, fetch : {"none", "sent", "read"},
                       got : Values(q) \union {None},
                       error : BOOLEAN, invalid : BOOLEAN]
    /\ \A q \in Queries : cache[q].got = None <=> cache[q].fetch # "read"
    /\ screen \subseteq Queries
    /\ post \in [kind : {"none", "message", "status"}, stage : {"none", "sent", "done"},
                 value : Nat]
    /\ due \in [Queries -> Nat]

\* The panel starts: the lists are asked for, the socket is being opened.
Init ==
    /\ stored = 0 /\ version = 0 /\ events = {}
    /\ sock = "connecting" /\ opened = FALSE /\ online = TRUE /\ breaks = 0
    /\ cache = [q \in Queries |-> IF q \in Shell THEN Fetching(Unread) ELSE Unread]
    /\ screen = Shell
    /\ post = NoPost
    /\ due = NothingDue

-----------------------------------------------------------------------------
\* The server.

Send(event) ==
    events' = IF sock \in {"accepted", "open"} THEN events \union {event} ELSE events

\* A message of the client or of a colleague.
StoreMessage ==
    /\ stored < MaxStored
    /\ stored' = stored + 1
    /\ Send([type |-> "message_created", id |-> stored + 1])
    /\ UNCHANGED <<version, sock, opened, online, breaks, cache, screen, post, due>>

\* A change of status, of the assignee or of the read mark, by anybody.
ChangeTicket ==
    /\ version < MaxVersion
    /\ version' = version + 1
    /\ Send([type |-> "ticket_updated", id |-> version + 1])
    /\ UNCHANGED <<stored, sock, opened, online, breaks, cache, screen, post, due>>

\* The mutation of this page is carried out.
StorePost ==
    /\ post.stage = "sent"
    /\ \/ /\ post.kind = "message" /\ stored < MaxStored
          /\ stored' = stored + 1 /\ version' = version
          /\ post' = [post EXCEPT !.stage = "done", !.value = stored + 1]
          /\ Send([type |-> "message_created", id |-> stored + 1])
       \/ /\ post.kind = "status" /\ version < MaxVersion
          /\ version' = version + 1 /\ stored' = stored
          /\ post' = [post EXCEPT !.stage = "done", !.value = version + 1]
          /\ Send([type |-> "ticket_updated", id |-> version + 1])
    /\ UNCHANGED <<sock, opened, online, breaks, cache, screen, due>>

\* A request is read at the server.
Read(q) ==
    /\ cache[q].fetch = "sent"
    /\ cache' = [cache EXCEPT ![q].fetch = "read", ![q].got = Truth(q)]
    /\ UNCHANGED <<server, socket, screen, post, due>>

-----------------------------------------------------------------------------
\* The socket.

\* The handshake is accepted and the socket entered in the registry.
Accept ==
    /\ sock = "connecting"
    /\ sock' = "accepted"
    /\ UNCHANGED <<server, events, opened, online, breaks, cache, screen, post, due>>

\* Fault: only the first opening puts the indicator on.
OnOpenLightsOnce ==
    /\ sock = "accepted"
    /\ sock' = "open" /\ opened' = TRUE /\ online' = (opened => online)
    /\ IF opened
       THEN /\ cache' = Apply(cache, [type |-> "reconnected"])
            /\ due' = Owed(cache, [q \in Queries |-> IF q = "messages" THEN stored ELSE version])
       ELSE UNCHANGED <<cache, due>>
    /\ UNCHANGED <<server, events, breaks, screen, post>>

\* onopen: after a break everything is read again.
OnOpen ==
    /\ sock = "accepted"
    /\ sock' = "open" /\ opened' = TRUE /\ online' = TRUE
    /\ IF opened
       THEN /\ cache' = Apply(cache, [type |-> "reconnected"])
            /\ due' = Owed(cache, [q \in Queries |-> IF q = "messages" THEN stored ELSE version])
       ELSE UNCHANGED <<cache, due>>
    /\ UNCHANGED <<server, events, breaks, screen, post>>

\* onmessage.
Deliver(event) ==
    /\ sock = "open" /\ event \in events
    /\ events' = events \ {event}
    /\ cache' = Apply(cache, event)
    /\ due' = IF event.type = "message_created" THEN due
              ELSE Owed(cache, [q \in Queries |-> IF q = "messages" THEN 0 ELSE event.id])
    /\ UNCHANGED <<server, sock, opened, online, breaks, screen, post>>

\* onclose with a code that is worth another try.
Drop ==
    /\ sock \in {"connecting", "accepted", "open"} /\ breaks < MaxBreaks
    /\ sock' = "waiting" /\ online' = FALSE /\ events' = {} /\ breaks' = breaks + 1
    /\ UNCHANGED <<server, opened, cache, screen, post, due>>

\* The timer of reconnectDelay.
Reconnect ==
    /\ sock = "waiting"
    /\ sock' = "connecting"
    /\ UNCHANGED <<server, events, opened, online, breaks, cache, screen, post, due>>

\* onclose with 4403: nothing is tried again, and the indicator is left as it is.
CloseForbidden ==
    /\ sock \in {"accepted", "open"} /\ breaks < MaxBreaks
    /\ sock' = "forbidden" /\ events' = {} /\ breaks' = breaks + 1
    /\ UNCHANGED <<server, opened, online, cache, screen, post, due>>

\* onclose with 4401: the session is gone, the cache is cleared, and the panel
\* with its effect goes; a mutation in flight goes on.
CloseUnauthorized ==
    /\ sock \in {"accepted", "open"} /\ breaks < MaxBreaks
    /\ sock' = "off" /\ online' = TRUE /\ events' = {} /\ breaks' = breaks + 1
    /\ cache' = [q \in Queries |-> Unread]
    /\ screen' = {} /\ due' = NothingDue
    /\ UNCHANGED <<server, opened, post>>

\* A new session mounts the panel and a new socket.
SignIn ==
    /\ sock = "off"
    /\ sock' = "connecting" /\ opened' = FALSE
    /\ screen' = Shell
    /\ cache' = [q \in Queries |-> IF q \in Shell THEN Mounted(cache[q], FALSE) ELSE cache[q]]
    /\ UNCHANGED <<server, events, online, breaks, post, due>>

-----------------------------------------------------------------------------
\* The queries.

Answer(q) ==
    /\ cache[q].fetch = "read"
    /\ cache' = [cache EXCEPT ![q] = [Unread EXCEPT !.data = cache[q].got]]
    /\ UNCHANGED <<server, socket, screen, post, due>>

\* shouldRetry: a lost connection or a 5xx is tried again while somebody looks.  The
\* two repetitions are not counted: what they read is what "sent" may still read.
Retry(q) ==
    /\ cache[q].fetch = "read" /\ q \in screen
    /\ cache' = [cache EXCEPT ![q].fetch = "sent", ![q].got = None]
    /\ UNCHANGED <<server, socket, screen, post, due>>

\* A 4xx, or one failure too many.
Fail(q) ==
    /\ cache[q].fetch # "none"
    /\ cache' = [cache EXCEPT ![q] = [@ EXCEPT !.fetch = "none", !.got = None,
                                               !.error = TRUE, !.invalid = TRUE]]
    /\ due' = [due EXCEPT ![q] = 0]
    /\ UNCHANGED <<server, socket, screen, post>>

\* "Повторить", or the window gets the focus and the data is stale.
Refetch(q) ==
    /\ q \in screen /\ cache[q].fetch = "none"
    /\ cache' = [cache EXCEPT ![q] = Fetching(@)]
    /\ UNCHANGED <<server, socket, screen, post, due>>

\* Five minutes without an observer.
Collect(q) ==
    /\ q \notin screen /\ cache[q].fetch = "none" /\ cache[q] # Unread
    /\ cache' = [cache EXCEPT ![q] = Unread]
    /\ UNCHANGED <<server, socket, screen, post, due>>

-----------------------------------------------------------------------------
\* The page.

OpenTicket ==
    /\ sock # "off" /\ "detail" \notin screen
    /\ screen' = screen \union {"detail"}
    /\ \E old \in BOOLEAN : cache' = [cache EXCEPT !["detail"] = Mounted(@, old)]
    /\ UNCHANGED <<server, socket, post, due>>

\* TicketView renders the chat once the ticket is there ...
ShowChat ==
    /\ "detail" \in screen /\ "messages" \notin screen
    /\ cache["detail"].data # None /\ ~cache["detail"].error
    /\ screen' = screen \union {"messages"}
    /\ \E old \in BOOLEAN : cache' = [cache EXCEPT !["messages"] = Mounted(@, old)]
    /\ UNCHANGED <<server, socket, post, due>>

\* ... and takes it away when the ticket could not be read again.
HideChat ==
    /\ "messages" \in screen /\ cache["detail"].error
    /\ screen' = screen \ {"messages"}
    /\ due' = [due EXCEPT !["messages"] = 0]
    /\ UNCHANGED <<server, socket, cache, post>>

LeaveTicket ==
    /\ "detail" \in screen
    /\ screen' = Shell
    /\ due' = [due EXCEPT !["messages"] = 0, !["detail"] = 0]
    /\ UNCHANGED <<server, socket, cache, post>>

\* useSendMessage and useChangeStatus; the buttons wait for the answer.
Post(kind) ==
    /\ post = NoPost /\ "messages" \in screen
    /\ post' = [NoPost EXCEPT !.kind = kind, !.stage = "sent"]
    /\ UNCHANGED <<server, socket, cache, screen, due>>

\* onSuccess.
PostAnswered ==
    /\ post.stage = "done"
    /\ cache' = IF post.kind = "message"
                THEN [cache EXCEPT !["messages"] = AppendMessage(@, post.value)]
                ELSE [q \in Queries |->
                         IF q = "detail" THEN Written(cache[q], post.value)
                         ELSE IF q = "lists" THEN Invalidated(q, cache[q]) ELSE cache[q]]
    /\ post' = NoPost
    /\ due' = IF post.kind = "message" THEN due
              ELSE [Owed(cache, [q \in Queries |-> IF q = "lists" THEN post.value ELSE 0])
                       EXCEPT !["detail"] = 0]
    /\ UNCHANGED <<server, socket, screen>>

\* onError: the request or its answer was lost, or the server refused.
PostFailed ==
    /\ post # NoPost
    /\ cache' = IF post.kind = "message" THEN cache
                ELSE [cache EXCEPT !["detail"] = Invalidated("detail", @)]
    /\ post' = NoPost
    /\ UNCHANGED <<server, socket, screen, due>>

-----------------------------------------------------------------------------
Socket == Accept \/ OnOpen \/ Drop \/ Reconnect \/ CloseForbidden \/ CloseUnauthorized
             \/ SignIn \/ \E event \in events : Deliver(event)

Request(q) == Read(q) \/ Answer(q) \/ Retry(q) \/ Fail(q) \/ Refetch(q) \/ Collect(q)

Page == OpenTicket \/ ShowChat \/ HideChat \/ LeaveTicket \/ PostAnswered \/ PostFailed
           \/ \E kind \in {"message", "status"} : Post(kind)

Next ==
    \/ StoreMessage \/ ChangeTicket \/ StorePost
    \/ Socket
    \/ \E q \in Queries : Request(q)
    \/ Page

Spec == Init /\ [][Next]_vars

-----------------------------------------------------------------------------
(* Properties. *)

\* The chat shows messages the server has, each once: the answer to a POST, its
\* event and the rereading after a break bring the same message in any order.
ChatIsTrue ==
    LET chat == cache["messages"].data
    IN  chat # None =>
            /\ \A k \in 1 .. Len(chat) : chat[k] \in 1 .. stored
            /\ \A j, k \in 1 .. Len(chat) : chat[j] = chat[k] => j = k

\* What the page was told to read again - by an event, or by the socket that came
\* back - it shows once no request is out, or it says that it could not: an answer
\* that was read too early does not settle it.
ShowsWhatItIsOwed ==
    \A q \in Queries :
        q \in screen /\ cache[q].fetch = "none" /\ ~cache[q].error
            => due[q] = 0 \/ Covers(q, cache[q].data, due[q])
==============================================================================
