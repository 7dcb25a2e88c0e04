-------------------------- MODULE PanelRealtimeProofs --------------------------
(***************************************************************************)
(* What the panel shows of a ticket, for any number of messages, changes   *)
(* and broken sockets.  The invariant is kept query by query: Fits says    *)
(* how the cached answer, the request in flight and what the page was told *)
(* belong together, and one lemma for each operation of the cache says     *)
(* that the operation keeps it.                                            *)
(***************************************************************************)
EXTENDS PanelRealtime, SequenceTheorems, TLAPS

Entry(S) == [data : S \union {None}, fetch : {"none", "sent", "read"}, got : S \union {None},
             error : BOOLEAN, invalid : BOOLEAN]

\* The numbers of a chat are those of stored messages, each once.
TrueChat(v, n) ==
    /\ \A k \in 1 .. Len(v) : v[k] \in 1 .. n
    /\ \A j, k \in 1 .. Len(v) : v[j] = v[k] => j = k

\* The entry c of the query q fits: d is due, and n is how far the server is.
Fits(q, c, d, shows, n) ==
    /\ c \in Entry(Values(q)) /\ (c.got = None <=> c.fetch # "read")
    /\ q = "messages" /\ c.data # None => TrueChat(c.data, n)
    /\ q = "messages" /\ c.got # None => TrueChat(c.got, n)
    /\ d \in 0 .. n
    /\ d > 0 => /\ shows /\ c.data # None
                /\ c.fetch = "none" => Covers(q, c.data, d)
                /\ c.fetch = "read" => Covers(q, c.got, d)

Level(q) == IF q = "messages" THEN stored ELSE version

-----------------------------------------------------------------------------
LEMMA UnreadFits ==
  ASSUME NEW q, NEW shows, NEW n \in Nat
  PROVE  Fits(q, Unread, 0, shows, n)
  BY DEF Fits, Unread, Entry

\* What is there goes on fitting when the server has more.
LEMMA MoreFits ==
  ASSUME NEW q, NEW c, NEW d, NEW shows, NEW n \in Nat, NEW m \in Nat, n <= m,
         Fits(q, c, d, shows, n)
  PROVE  Fits(q, c, d, shows, m)
  BY DEF Fits, TrueChat

\* Nothing is due of what is no longer shown.
LEMMA NothingDueFits ==
  ASSUME NEW q, NEW c, NEW d, NEW s1, NEW s2, NEW n \in Nat, Fits(q, c, d, s1, n)
  PROVE  Fits(q, c, 0, s2, n)
  BY DEF Fits

LEMMA FetchingFields ==
  ASSUME NEW S, NEW c \in Entry(S)
  PROVE  /\ Fetching(c) \in Entry(S)
         /\ Fetching(c).data = c.data /\ Fetching(c).fetch = "sent" /\ Fetching(c).got = None
  BY DEF Fetching, Entry

LEMMA FetchingFits ==
  ASSUME NEW q, NEW c, NEW d, NEW e, NEW shows, NEW n \in Nat, Fits(q, c, d, shows, n),
         e \in 0 .. n, e > 0 => shows /\ c.data # None
  PROVE  Fits(q, Fetching(c), e, shows, n)
<1>1. c \in Entry(Values(q))
  BY DEF Fits
<1>2. /\ Fetching(c) \in Entry(Values(q))
      /\ Fetching(c).data = c.data /\ Fetching(c).fetch = "sent" /\ Fetching(c).got = None
  BY <1>1, FetchingFields
<1>3. QED BY <1>2 DEF Fits

LEMMA JoinedFits ==
  ASSUME NEW q, NEW c, NEW s1, NEW s2, NEW n \in Nat, Fits(q, c, 0, s1, n)
  PROVE  Fits(q, Joined(c), 0, s2, n)
<1>1. Fits(q, c, 0, s2, n)
  BY NothingDueFits
<1>2. Fits(q, Fetching(c), 0, s2, n)
  BY <1>1, FetchingFits
<1>3. QED BY <1>1, <1>2 DEF Joined

LEMMA MountedFits ==
  ASSUME NEW q, NEW c, NEW old, NEW s1, NEW s2, NEW n \in Nat, Fits(q, c, 0, s1, n)
  PROVE  Fits(q, Mounted(c, old), 0, s2, n)
  BY NothingDueFits, JoinedFits DEF Mounted

LEMMA MarkedFields ==
  ASSUME NEW S, NEW c \in Entry(S)
  PROVE  /\ [c EXCEPT !.invalid = TRUE] \in Entry(S)
         /\ [c EXCEPT !.invalid = TRUE].data = c.data
         /\ [c EXCEPT !.invalid = TRUE].fetch = c.fetch
         /\ [c EXCEPT !.invalid = TRUE].got = c.got
  BY DEF Entry

LEMMA MarkedFits ==
  ASSUME NEW q, NEW c, NEW d, NEW shows, NEW n \in Nat, Fits(q, c, d, shows, n)
  PROVE  Fits(q, [c EXCEPT !.invalid = TRUE], d, shows, n)
<1>1. c \in Entry(Values(q))
  BY DEF Fits
<1>2. QED BY <1>1, MarkedFields DEF Fits

\* A query that is read again may be due, one that was not shown or empty is not.
LEMMA InvalidatedFits ==
  ASSUME NEW q, NEW c, NEW d, NEW e, NEW n \in Nat, Fits(q, c, d, q \in screen, n),
         e \in 0 .. n, e = d \/ (q \in screen /\ c.data # None)
  PROVE  Fits(q, Invalidated(q, c), e, q \in screen, n)
<1> DEFINE marked == [c EXCEPT !.invalid = TRUE]
<1>1. Fits(q, marked, d, q \in screen, n) /\ marked.data = c.data
  BY MarkedFits, MarkedFields DEF Fits
<1> HIDE DEF marked
<1>2. CASE q \notin screen
  <2>1. e = d
    BY <1>2
  <2>2. QED BY <1>1, <1>2, <2>1 DEF Invalidated, marked
<1>3. CASE q \in screen /\ c.data = None
  <2>1. e = 0 /\ d = 0
    BY <1>3 DEF Fits
  <2>2. QED BY <1>1, <1>3, <2>1, JoinedFits DEF Invalidated, marked
<1>4. CASE q \in screen /\ c.data # None
  <2>1. Fits(q, Fetching(marked), e, q \in screen, n)
    BY <1>1, <1>4, FetchingFits
  <2>2. QED BY <1>1, <1>4, <2>1 DEF Invalidated, marked
<1>5. QED BY <1>2, <1>3, <1>4

LEMMA WrittenFields ==
  ASSUME NEW S, NEW c \in Entry(S), NEW v \in S
  PROVE  /\ Written(c, v) \in Entry(S)
         /\ Written(c, v).data = v /\ Written(c, v).fetch = c.fetch /\ Written(c, v).got = c.got
  BY DEF Written, Entry

\* A ticket written into the cache: nothing more is due of it.
LEMMA WrittenFits ==
  ASSUME NEW q, q # "messages", NEW c, NEW d, NEW shows, NEW n \in Nat, Fits(q, c, d, shows, n),
         NEW v \in Nat
  PROVE  Fits(q, Written(c, v), 0, shows, n)
<1>1. c \in Entry(Values(q)) /\ v \in Values(q)
  BY DEF Fits, Values
<1>2. QED BY <1>1, WrittenFields DEF Fits

\* A message appended once makes the chat longer, true and as good as what was due.
LEMMA AppendFits ==
  ASSUME NEW c, NEW d, NEW shows, NEW n \in Nat, Fits("messages", c, d, shows, n),
         NEW id \in 1 .. n
  PROVE  Fits("messages", AppendMessage(c, id), d, shows, n)
<1>1. c \in Entry(Values("messages"))
  BY DEF Fits
<1>2. CASE c.data = None
  BY <1>2 DEF AppendMessage
<1>3. CASE c.data # None
  <2>1. c.data \in Seq(Nat) /\ c.data \in Values("messages")
    BY <1>1, <1>3 DEF Entry, Values
  <2>2. CASE \E k \in 1 .. Len(c.data) : c.data[k] = id
    <3>1. AppendMessage(c, id) = Written(c, c.data)
      BY <1>3, <2>2 DEF AppendMessage
    <3>2. QED BY <1>1, <2>1, <3>1, WrittenFields DEF Fits
  <2>3. CASE ~ \E k \in 1 .. Len(c.data) : c.data[k] = id
    <3> DEFINE longer == Append(c.data, id)
    <3>1. AppendMessage(c, id) = Written(c, longer)
      BY <1>3, <2>3 DEF AppendMessage
    <3>2. /\ longer \in Seq(Nat) /\ Len(longer) = Len(c.data) + 1
          /\ \A k \in 1 .. Len(c.data) : longer[k] = c.data[k]
          /\ longer[Len(longer)] = id
      BY <2>1
    <3> HIDE DEF longer
    <3>3. longer \in Values("messages")
      BY <3>2 DEF Values
    <3>4. TrueChat(c.data, n)
      BY <1>3 DEF Fits
    <3>5. Len(c.data) \in Nat
      BY <2>1
    <3>6. TrueChat(longer, n)
      <4>1. \A k \in 1 .. Len(longer) : k \in 1 .. Len(c.data) \/ k = Len(longer)
        BY <3>2, <3>5
      <4>2. ASSUME NEW k \in 1 .. Len(longer) PROVE longer[k] \in 1 .. n
        BY <3>2, <3>4, <4>1 DEF TrueChat
      <4>3. ASSUME NEW j \in 1 .. Len(longer), NEW k \in 1 .. Len(longer),
                   longer[j] = longer[k]
            PROVE  j = k
        <5>1. CASE j \in 1 .. Len(c.data) /\ k \in 1 .. Len(c.data)
          BY <3>2, <3>4, <4>3, <5>1 DEF TrueChat
        <5>2. CASE j = Len(longer) \/ k = Len(longer)
          BY <2>3, <3>2, <4>1, <4>3, <5>2
        <5>3. QED BY <4>1, <5>1, <5>2
      <4>4. QED BY <4>2, <4>3 DEF TrueChat
    <3>7. ASSUME d > 0, Covers("messages", c.data, d) PROVE Covers("messages", longer, d)
      <4>1. ASSUME NEW i \in 1 .. d PROVE \E k \in 1 .. Len(longer) : longer[k] = i
        <5>1. PICK k \in 1 .. Len(c.data) : c.data[k] = i
          BY <3>7 DEF Covers
        <5>2. k \in 1 .. Len(longer) /\ longer[k] = i
          BY <3>2, <3>5, <5>1
        <5>3. QED BY <5>2
      <4>2. QED BY <4>1 DEF Covers
    <3>8. longer # None
      BY <3>2, PanelRealtimeAssumption
    <3>9. QED BY <1>1, <1>3, <3>1, <3>3, <3>6, <3>7, <3>8, WrittenFields DEF Fits
  <2>4. QED BY <2>2, <2>3
<1>4. QED BY <1>2, <1>3
\* A request that has been read at the server brings all that is due.
LEMMA ReadFits ==
  ASSUME NEW q \in Queries, NEW c, NEW d, NEW shows, stored \in Nat, version \in Nat,
         Fits(q, c, d, shows, Level(q))
  PROVE  Fits(q, [c EXCEPT !.fetch = "read", !.got = Truth(q)], d, shows, Level(q))
<1> DEFINE r == [c EXCEPT !.fetch = "read", !.got = Truth(q)]
<1>1. Truth(q) \in Values(q) /\ Truth(q) # None
  <2>1. CASE q = "messages"
    <3>1. Chat \in Seq(Nat)
      BY DEF Chat
    <3>2. QED BY <2>1, <3>1, PanelRealtimeAssumption DEF Truth, Values
  <2>2. CASE q # "messages"
    BY <2>2, PanelRealtimeAssumption DEF Truth, Values
  <2>3. QED BY <2>1, <2>2
<1>2. r \in Entry(Values(q)) /\ r.fetch = "read" /\ r.got = Truth(q) /\ r.data = c.data
  <2>1. c \in Entry(Values(q))
    BY DEF Fits
  <2>2. QED BY <1>1, <2>1 DEF Entry
<1> HIDE DEF r
<1>3. d \in 0 .. Level(q)
  BY DEF Fits
<1>4. q = "messages" => TrueChat(Chat, stored)
  BY DEF TrueChat, Chat
<1>5. Covers(q, Truth(q), d)
  <2>1. CASE q = "messages"
    <3>1. Len(Chat) = stored /\ \A i \in 1 .. stored : Chat[i] = i
      BY DEF Chat
    <3>2. QED BY <1>3, <2>1, <3>1 DEF Covers, Truth, Level
  <2>2. CASE q # "messages"
    BY <1>3, <2>2 DEF Covers, Truth, Level
  <2>3. QED BY <2>1, <2>2
<1>6. q = "messages" => TrueChat(Truth(q), Level(q))
  BY <1>4 DEF Truth, Level
<1>7. Fits(q, r, d, shows, Level(q))
  BY <1>1, <1>2, <1>5, <1>6 DEF Fits
<1>8. QED BY <1>7 DEF r

\* The answer settles what is due.
LEMMA AnswerFits ==
  ASSUME NEW q, NEW c, NEW d, NEW shows, NEW n \in Nat, Fits(q, c, d, shows, n),
         c.fetch = "read"
  PROVE  Fits(q, [Unread EXCEPT !.data = c.got], d, shows, n)
<1> DEFINE r == [Unread EXCEPT !.data = c.got]
<1>1. c.got \in Values(q) /\ c.got # None
  BY DEF Fits, Entry
<1>2. r \in Entry(Values(q)) /\ r.fetch = "none" /\ r.got = None /\ r.data = c.got
  BY <1>1 DEF Entry, Unread
<1> HIDE DEF r
<1>3. Fits(q, r, d, shows, n)
  BY <1>1, <1>2 DEF Fits
<1>4. QED BY <1>3 DEF r

LEMMA RetryFits ==
  ASSUME NEW q, NEW c, NEW d, NEW shows, NEW n \in Nat, Fits(q, c, d, shows, n)
  PROVE  Fits(q, [c EXCEPT !.fetch = "sent", !.got = None], d, shows, n)
<1> DEFINE r == [c EXCEPT !.fetch = "sent", !.got = None]
<1>1. c \in Entry(Values(q))
  BY DEF Fits
<1>2. r \in Entry(Values(q)) /\ r.fetch = "sent" /\ r.got = None /\ r.data = c.data
  BY <1>1 DEF Entry
<1> HIDE DEF r
<1>3. Fits(q, r, d, shows, n)
  BY <1>2 DEF Fits
<1>4. QED BY <1>3 DEF r

LEMMA FailFits ==
  ASSUME NEW q, NEW c, NEW d, NEW shows, NEW n \in Nat, Fits(q, c, d, shows, n)
  PROVE  Fits(q, [c EXCEPT !.fetch = "none", !.got = None, !.error = TRUE, !.invalid = TRUE],
              0, shows, n)
<1> DEFINE r == [c EXCEPT !.fetch = "none", !.got = None, !.error = TRUE, !.invalid = TRUE]
<1>1. c \in Entry(Values(q))
  BY DEF Fits
<1>2. r \in Entry(Values(q)) /\ r.fetch = "none" /\ r.got = None /\ r.data = c.data
  BY <1>1 DEF Entry
<1> HIDE DEF r
<1>3. Fits(q, r, 0, shows, n)
  BY <1>2 DEF Fits
<1>4. QED BY <1>3 DEF r

-----------------------------------------------------------------------------
\* The mutation and the events tell of what the server has.
PostIsStored ==
    post.stage = "done" => /\ post.kind = "message" => post.value \in 1 .. stored
                           /\ post.kind # "message" => post.value \in 0 .. version

\* The parts of TypeOK besides the queries.
Frame ==
    /\ stored \in 0 .. MaxStored /\ version \in 0 .. MaxVersion /\ breaks \in 0 .. MaxBreaks
    /\ events \subseteq [type : {"message_created"}, id : 1 .. stored]
                   \union [type : {"ticket_updated"}, id : 1 .. version]
    /\ sock \in {"connecting", "accepted", "open", "waiting", "forbidden", "off"}
    /\ opened \in BOOLEAN /\ online \in BOOLEAN
    /\ (sock = "open" => online) /\ (sock = "waiting" => ~online)
    /\ screen \subseteq Queries
    /\ post \in [kind : {"none", "message", "status"}, stage : {"none", "sent", "done"},
                 value : Nat]

QueriesFit ==
    /\ DOMAIN cache = Queries /\ due \in [Queries -> Nat]
    /\ cache = [q \in Queries |-> cache[q]]
    /\ \A q \in Queries : Fits(q, cache[q], due[q], q \in screen, Level(q))

OffShowsNothing == sock = "off" => screen = {}

Core == Frame /\ PostIsStored /\ QueriesFit
IInv == Core /\ OffShowsNothing

LEMMA LevelTyped == Frame => \A q : Level(q) \in Nat
  BY PanelRealtimeAssumption DEF Frame, Level

LEMMA InitCore == Init => Core
<1> SUFFICES ASSUME Init PROVE Core
  OBVIOUS
<1>1. Frame
  <2>1. NoPost \in [kind : {"none", "message", "status"}, stage : {"none", "sent", "done"},
                   value : Nat]
    BY DEF NoPost
  <2>2. Shell \subseteq Queries
    BY DEF Shell
  <2>3. stored \in 0 .. MaxStored /\ version \in 0 .. MaxVersion /\ breaks \in 0 .. MaxBreaks
    BY PanelRealtimeAssumption DEF Init
  <2>4. QED BY <2>1, <2>2, <2>3 DEF Init, Frame
<1>2. PostIsStored
  BY DEF Init, PostIsStored, NoPost
<1>3. ASSUME NEW q \in Queries PROVE Fits(q, cache[q], due[q], q \in screen, Level(q))
  <2>1. Fits(q, Unread, 0, q \in screen, Level(q))
    BY <1>1, LevelTyped, UnreadFits
  <2>2. Fits(q, Fetching(Unread), 0, q \in screen, Level(q))
    BY <1>1, <2>1, LevelTyped, FetchingFits
  <2>3. QED BY <2>1, <2>2 DEF Init, NothingDue
<1>4. QueriesFit
  BY <1>3 DEF QueriesFit, Init, NothingDue
<1>5. QED BY <1>1, <1>2, <1>4 DEF IInv, Core

-----------------------------------------------------------------------------
\* The server stores a message or a change: the queries go on fitting.
LEMMA LevelRises ==
  ASSUME QueriesFit, Frame, Frame', stored <= stored', version <= version',
         UNCHANGED <<cache, screen, due>>
  PROVE  QueriesFit'
<1>1. ASSUME NEW q \in Queries PROVE Fits(q, cache[q], due[q], q \in screen, Level(q)')
  <2>1. Level(q) \in Nat /\ Level(q)' \in Nat /\ Level(q) <= Level(q)'
    BY PanelRealtimeAssumption DEF Frame, Level
  <2>2. Fits(q, cache[q], due[q], q \in screen, Level(q))
    BY DEF QueriesFit
  <2>3. QED BY <2>1, <2>2, MoreFits
<1>2. QED BY <1>1 DEF QueriesFit

LEMMA PostDone ==
  ASSUME NEW p \in [kind : {"none", "message", "status"}, stage : {"none", "sent", "done"},
                    value : Nat],
         NEW v \in Nat
  PROVE  LET r == [p EXCEPT !.stage = "done", !.value = v]
         IN  /\ r.stage = "done" /\ r.kind = p.kind /\ r.value = v
             /\ r \in [kind : {"none", "message", "status"}, stage : {"none", "sent", "done"},
                       value : Nat]
  OBVIOUS

LEMMA ServerKeeps == IInv /\ (StoreMessage \/ ChangeTicket \/ StorePost) => Core'
<1> SUFFICES ASSUME IInv, StoreMessage \/ ChangeTicket \/ StorePost PROVE Core'
  OBVIOUS
<1> USE PanelRealtimeAssumption DEF IInv, Core
<1>1. /\ stored' \in 0 .. MaxStored /\ version' \in 0 .. MaxVersion
      /\ stored <= stored' /\ version <= version'
      /\ UNCHANGED <<sock, opened, online, breaks, cache, screen, due>>
  BY DEF StoreMessage, ChangeTicket, StorePost, Frame
<1>2. events' \subseteq [type : {"message_created"}, id : 1 .. stored']
                 \union [type : {"ticket_updated"}, id : 1 .. version']
  <2>1. events \subseteq [type : {"message_created"}, id : 1 .. stored']
                   \union [type : {"ticket_updated"}, id : 1 .. version']
    BY <1>1 DEF Frame
  <2>2. CASE stored' = stored + 1 /\ Send([type |-> "message_created", id |-> stored + 1])
    BY <2>1, <2>2 DEF Send, Frame
  <2>3. CASE version' = version + 1 /\ Send([type |-> "ticket_updated", id |-> version + 1])
    BY <2>1, <2>3 DEF Send, Frame
  <2>4. QED BY <2>2, <2>3 DEF StoreMessage, ChangeTicket, StorePost
<1>3. /\ post' \in [kind : {"none", "message", "status"}, stage : {"none", "sent", "done"},
                    value : Nat]
      /\ PostIsStored'
  <2>1. CASE StoreMessage \/ ChangeTicket
    BY <1>1, <2>1 DEF StoreMessage, ChangeTicket, PostIsStored, Frame
  <2>2. CASE StorePost
    <3> DEFINE value == IF post.kind = "message" THEN stored + 1 ELSE version + 1
    <3>1. stored \in Nat /\ version \in Nat
      BY DEF Frame
    <3>2. post' = [post EXCEPT !.stage = "done", !.value = value]
          /\ (post.kind = "message" => stored' = stored + 1)
          /\ (post.kind # "message" => version' = version + 1)
      BY <2>2 DEF StorePost
    <3>5. value \in Nat
      BY <3>1
    <3> HIDE DEF value
    <3>3. post'.stage = "done" /\ post'.kind = post.kind /\ post'.value = value
          /\ post' \in [kind : {"none", "message", "status"}, stage : {"none", "sent", "done"},
                        value : Nat]
      BY <3>2, <3>5, PostDone DEF IInv, Core, Frame
    <3>4. QED BY <3>1, <3>2, <3>3 DEF PostIsStored, value
  <2>3. QED BY <2>1, <2>2
<1>4. Frame'
  BY <1>1, <1>2, <1>3 DEF Frame
<1>5. QED BY <1>1, <1>3, <1>4, LevelRises

\* A step that changes one query and leaves what is on the page.
LEMMA OneQuery ==
  ASSUME QueriesFit, NEW q \in Queries, NEW c, NEW d,
         cache' = [cache EXCEPT ![q] = c], due' = [due EXCEPT ![q] = d],
         UNCHANGED <<stored, version, screen>>,
         d \in Nat, Fits(q, c, d, q \in screen, Level(q))
  PROVE  QueriesFit'
<1>1. ASSUME NEW p \in Queries PROVE Fits(p, cache'[p], due'[p], p \in screen', Level(p)')
  <2>1. Level(p)' = Level(p)
    BY DEF Level
  <2>2. CASE p = q
    BY <2>1, <2>2 DEF QueriesFit
  <2>3. CASE p # q
    BY <2>1, <2>3 DEF QueriesFit
  <2>4. QED BY <2>2, <2>3
<1>2. QED BY <1>1 DEF QueriesFit

LEMMA RequestKeeps == ASSUME IInv, NEW q \in Queries, Request(q) PROVE Core'
<1>1. UNCHANGED <<server, socket, screen, post>>
  BY DEF Request, Read, Answer, Retry, Fail, Refetch, Collect
<1>2. Frame' /\ PostIsStored'
  BY <1>1 DEF IInv, Core, Frame, PostIsStored, server, socket
<1>3. /\ Fits(q, cache[q], due[q], q \in screen, Level(q))
      /\ Level(q) \in Nat /\ stored \in Nat /\ version \in Nat
      /\ due \in [Queries -> Nat] /\ due = [due EXCEPT ![q] = due[q]]
  BY PanelRealtimeAssumption DEF IInv, Core, QueriesFit, Frame, Level
<1>4. CASE Read(q)
  <2>1. cache' = [cache EXCEPT ![q] = [cache[q] EXCEPT !.fetch = "read", !.got = Truth(q)]]
        /\ due' = due
    BY <1>4 DEF Read
  <2>2. Fits(q, [cache[q] EXCEPT !.fetch = "read", !.got = Truth(q)], due[q], q \in screen,
             Level(q))
    BY <1>3, ReadFits
  <2>3. QueriesFit'
    BY <1>1, <1>3, <2>1, <2>2, OneQuery DEF IInv, Core, server
  <2>4. QED BY <1>2, <2>3 DEF IInv, Core
<1>5. CASE Answer(q)
  <2>1. QueriesFit'
    BY <1>1, <1>3, <1>5, AnswerFits, OneQuery DEF IInv, Core, Answer, server
  <2>2. QED BY <1>2, <2>1 DEF IInv, Core
<1>6. CASE Retry(q)
  <2>1. cache' = [cache EXCEPT ![q] = [cache[q] EXCEPT !.fetch = "sent", !.got = None]]
        /\ due' = due
    BY <1>6 DEF Retry
  <2>2. QueriesFit'
    BY <1>1, <1>3, <2>1, RetryFits, OneQuery DEF IInv, Core, server
  <2>3. QED BY <1>2, <2>2 DEF IInv, Core
<1>7. CASE Fail(q)
  <2>1. QueriesFit'
    BY <1>1, <1>3, <1>7, FailFits, OneQuery DEF IInv, Core, Fail, server
  <2>2. QED BY <1>2, <2>1 DEF IInv, Core
<1>8. CASE Refetch(q)
  <2>1. due[q] \in 0 .. Level(q) /\ (due[q] > 0 => q \in screen /\ cache[q].data # None)
    BY <1>3 DEF Fits
  <2>2. Fits(q, Fetching(cache[q]), due[q], q \in screen, Level(q))
    BY <1>3, <2>1, FetchingFits
  <2>3. QueriesFit'
    BY <1>1, <1>3, <1>8, <2>2, OneQuery DEF IInv, Core, Refetch, server
  <2>4. QED BY <1>2, <2>3 DEF IInv, Core
<1>9. CASE Collect(q)
  <2>1. due[q] = 0
    BY <1>3, <1>9 DEF Collect, Fits
  <2>2. Fits(q, Unread, due[q], q \in screen, Level(q))
    BY <1>3, <2>1, UnreadFits
  <2>3. QueriesFit'
    BY <1>1, <1>3, <1>9, <2>2, OneQuery DEF IInv, Core, Collect, server
  <2>4. QED BY <1>2, <2>3 DEF IInv, Core
<1>10. QED
  BY <1>4, <1>5, <1>6, <1>7, <1>8, <1>9 DEF Request

-----------------------------------------------------------------------------
\* What the page is newly owed is of data it shows, and the server is that far.
LEMMA OwedFields ==
  ASSUME QueriesFit, Frame, NEW told, NEW q \in Queries, told[q] \in 0 .. Level(q)
  PROVE  LET e == Owed(cache, told)[q]
         IN  /\ e \in 0 .. Level(q) /\ e \in Nat
             /\ e = due[q] \/ (q \in screen /\ cache[q].data # None)
<1>1. due[q] \in 0 .. Level(q) /\ Level(q) \in Nat
  BY LevelTyped DEF QueriesFit, Fits
<1>2. Owed(cache, told)[q] \in {told[q], due[q]}
      /\ (Owed(cache, told)[q] # due[q] => q \in screen /\ cache[q].data # None)
  BY DEF Owed
<1>3. QED BY <1>1, <1>2

\* onopen after a break: every query is read again.
LEMMA ReopenKeeps == IInv /\ OnOpen => Core'
<1> SUFFICES ASSUME IInv, OnOpen PROVE Core'
  OBVIOUS
<1>1. Frame' /\ PostIsStored' /\ UNCHANGED <<stored, version, screen>>
  BY DEF IInv, Core, Frame, PostIsStored, OnOpen, server
<1>2. QueriesFit /\ Frame
  BY DEF IInv, Core
<1>3. CASE ~opened
  BY <1>1, <1>2, <1>3 DEF OnOpen, QueriesFit, Level, IInv, Core
<1>4. CASE opened
  <2> DEFINE told == [q \in Queries |-> IF q = "messages" THEN stored ELSE version]
  <2>1. cache' = Apply(cache, [type |-> "reconnected"]) /\ due' = Owed(cache, told)
    BY <1>4 DEF OnOpen
  <2>2. ASSUME NEW q \in Queries
        PROVE  cache'[q] = Invalidated(q, cache[q]) /\ Fits(q, cache'[q], due'[q], q \in screen, Level(q))
               /\ due'[q] \in Nat
    <3>1. cache'[q] = Invalidated(q, cache[q])
      BY <2>1, PanelRealtimeAssumption DEF Apply, Plan, Concerns
    <3>2. told[q] \in 0 .. Level(q)
      BY <1>2, PanelRealtimeAssumption DEF Level, Frame
    <3> HIDE DEF told
    <3>3. /\ due'[q] \in 0 .. Level(q) /\ due'[q] \in Nat
          /\ due'[q] = due[q] \/ (q \in screen /\ cache[q].data # None)
      BY <1>2, <2>1, <3>2, OwedFields
    <3>4. Fits(q, cache[q], due[q], q \in screen, Level(q)) /\ Level(q) \in Nat
      BY <1>2, LevelTyped DEF QueriesFit
    <3>5. QED BY <3>1, <3>3, <3>4, InvalidatedFits
  <2>3. DOMAIN cache' = Queries /\ cache' = [q \in Queries |-> cache'[q]]
    BY <2>1 DEF Apply
  <2>4. due' \in [Queries -> Nat]
    BY <2>1, <2>2 DEF Owed
  <2>5. QueriesFit'
    BY <1>1, <2>2, <2>3, <2>4 DEF QueriesFit, Level
  <2>6. QED BY <1>1, <2>5 DEF IInv, Core
<1>5. QED BY <1>3, <1>4 DEF IInv, Core, OnOpen, Frame

\* onmessage: the chat gets longer, or the ticket is read again.
LEMMA DeliverKeeps == ASSUME IInv, NEW event \in events, Deliver(event) PROVE Core'
<1>1. Frame' /\ PostIsStored' /\ UNCHANGED <<stored, version, screen>>
  BY DEF IInv, Core, Frame, PostIsStored, Deliver, server
<1>2. QueriesFit /\ Frame
  BY DEF IInv, Core
<1>3. cache' = Apply(cache, event)
  BY DEF Deliver
<1>4. DOMAIN cache' = Queries /\ cache' = [q \in Queries |-> cache'[q]]
  BY <1>3 DEF Apply
<1>5. ASSUME NEW q \in Queries
      PROVE  Fits(q, cache[q], due[q], q \in screen, Level(q)) /\ Level(q) \in Nat
             /\ due[q] \in Nat
  BY <1>2, LevelTyped DEF QueriesFit
<1>6. CASE event.type = "message_created"
  <2>1. event.id \in 1 .. stored
    BY <1>2, <1>6 DEF Frame
  <2>2. due' = due
    BY <1>6 DEF Deliver
  <2>3. ASSUME NEW q \in Queries PROVE Fits(q, cache'[q], due[q], q \in screen, Level(q))
    <3>1. CASE q = "messages"
      <4>1. cache'[q] = AppendMessage(cache[q], event.id)
        BY <1>3, <1>6, <3>1 DEF Apply, Plan
      <4>2. QED BY <1>5, <2>1, <3>1, <4>1, AppendFits DEF Level
    <3>2. CASE q # "messages"
      <4>1. cache'[q] = cache[q]
        BY <1>3, <1>6, <3>2, PanelRealtimeAssumption DEF Apply, Plan, Concerns
      <4>2. QED BY <1>5, <4>1
    <3>3. QED BY <3>1, <3>2
  <2>4. QueriesFit'
    BY <1>1, <1>2, <1>4, <2>2, <2>3 DEF QueriesFit, Level
  <2>5. QED BY <1>1, <2>4 DEF IInv, Core
<1>7. CASE event.type # "message_created"
  <2> DEFINE told == [q \in Queries |-> IF q = "messages" THEN 0 ELSE event.id]
  <2>1. event.type = "ticket_updated" /\ event.id \in 1 .. version
    BY <1>2, <1>7 DEF Frame
  <2>2. due' = Owed(cache, told)
    BY <1>7 DEF Deliver
  <2>3. ASSUME NEW q \in Queries
        PROVE  Fits(q, cache'[q], due'[q], q \in screen, Level(q)) /\ due'[q] \in Nat
    <3>1. told[q] \in 0 .. Level(q)
      BY <1>5, <2>1 DEF Level
    <3>4. q = "messages" => due'[q] = due[q]
      BY <1>5, <2>2 DEF Owed
    <3> HIDE DEF told
    <3>2. /\ due'[q] \in 0 .. Level(q) /\ due'[q] \in Nat
          /\ due'[q] = due[q] \/ (q \in screen /\ cache[q].data # None)
      BY <1>2, <2>2, <3>1, OwedFields
    <3>3. CASE q = "messages"
      <4>1. cache'[q] = cache[q]
        BY <1>3, <2>1, <3>3 DEF Apply, Plan, Concerns
      <4>2. QED BY <1>5, <3>3, <3>4, <4>1
    <3>5. CASE q # "messages"
      <4>1. cache'[q] = Invalidated(q, cache[q])
        BY <1>3, <2>1, <3>5, PanelRealtimeAssumption DEF Apply, Plan, Concerns
      <4>2. QED BY <1>5, <3>2, <4>1, InvalidatedFits
    <3>6. QED BY <3>3, <3>5
  <2>4. due' \in [Queries -> Nat]
    BY <2>2, <2>3 DEF Owed
  <2>5. QueriesFit'
    BY <1>1, <1>4, <2>3, <2>4 DEF QueriesFit, Level
  <2>6. QED BY <1>1, <2>5 DEF IInv, Core
<1>8. QED BY <1>6, <1>7

-----------------------------------------------------------------------------
\* The steps of the socket that only tell of the connection.
LEMMA SocketKeeps ==
  IInv /\ (Accept \/ Drop \/ Reconnect \/ CloseForbidden) => Core'
<1> SUFFICES ASSUME IInv, Accept \/ Drop \/ Reconnect \/ CloseForbidden PROVE Core'
  OBVIOUS
<1>1. UNCHANGED <<stored, version, cache, screen, post, due>>
  BY DEF Accept, Drop, Reconnect, CloseForbidden, server
<1>2. Frame'
  <2>1. events' \subseteq events /\ breaks' \in 0 .. MaxBreaks
    BY PanelRealtimeAssumption DEF Accept, Drop, Reconnect, CloseForbidden, IInv, Core, Frame
  <2>2. opened' = opened /\ online' \in BOOLEAN
        /\ sock' \in {"connecting", "accepted", "open", "waiting", "forbidden", "off"}
    BY DEF Accept, Drop, Reconnect, CloseForbidden, IInv, Core, Frame
  <2>3. sock' # "open" /\ (sock' = "waiting" => ~online')
    BY DEF Accept, Drop, Reconnect, CloseForbidden
  <2>4. QED BY <1>1, <2>1, <2>2, <2>3 DEF IInv, Core, Frame
<1>3. PostIsStored' /\ QueriesFit'
  BY <1>1 DEF IInv, Core, PostIsStored, QueriesFit, Level
<1>4. QED BY <1>2, <1>3 DEF IInv, Core

\* 4401 takes the panel away, a new session mounts another one: nothing is due.
LEMMA SessionKeeps == IInv /\ (CloseUnauthorized \/ SignIn) => Core'
<1> SUFFICES ASSUME IInv, CloseUnauthorized \/ SignIn PROVE Core'
  OBVIOUS
<1>1. UNCHANGED <<stored, version, post>> /\ (\A q : Level(q)' = Level(q) /\ Level(q) \in Nat)
  BY LevelTyped DEF CloseUnauthorized, SignIn, server, Level, IInv, Core
<1>2. PostIsStored'
  BY <1>1 DEF IInv, Core, PostIsStored
<1>3. Frame'
  <2>1. events' \subseteq events /\ breaks' \in 0 .. MaxBreaks /\ opened' \in BOOLEAN
        /\ online' \in BOOLEAN /\ screen' \subseteq Queries
        /\ sock' \in {"connecting", "accepted", "open", "waiting", "forbidden", "off"}
    <3>1. CASE CloseUnauthorized
      BY <3>1, PanelRealtimeAssumption DEF CloseUnauthorized, IInv, Core, Frame
    <3>2. CASE SignIn
      BY <3>2, PanelRealtimeAssumption DEF SignIn, Shell, IInv, Core, Frame
    <3>3. QED BY <3>1, <3>2
  <2>2. sock' \in {"off", "connecting"}
    BY DEF CloseUnauthorized, SignIn
  <2>3. QED BY <1>1, <2>1, <2>2 DEF IInv, Core, Frame
<1>4. CASE CloseUnauthorized
  <2>1. \A q \in Queries : Fits(q, Unread, 0, q \in screen', Level(q))
    BY <1>1, UnreadFits
  <2>2. QueriesFit'
    BY <1>1, <1>4, <2>1 DEF CloseUnauthorized, QueriesFit, NothingDue
  <2>3. QED BY <1>2, <1>3, <2>2 DEF IInv, Core
<1>5. CASE SignIn
  <2>1. ASSUME NEW q \in Queries
        PROVE  Fits(q, cache'[q], due'[q], q \in screen', Level(q))
    <3>1. Fits(q, cache[q], due[q], q \in screen, Level(q))
      BY DEF IInv, Core, QueriesFit
    <3>2. due'[q] = 0 /\ due[q] = 0
      BY <1>5, <3>1 DEF SignIn, IInv, Core, OffShowsNothing, Fits
    <3>3. Fits(q, cache[q], 0, q \in screen', Level(q))
      BY <1>1, <3>1, NothingDueFits
    <3>4. Fits(q, Mounted(cache[q], FALSE), 0, q \in screen', Level(q))
      BY <1>1, <3>1, <3>2, MountedFits
    <3>5. QED BY <1>5, <3>2, <3>3, <3>4 DEF SignIn
  <2>2. QueriesFit'
    BY <1>1, <1>5, <2>1 DEF SignIn, QueriesFit, IInv, Core
  <2>3. QED BY <1>2, <1>3, <2>2 DEF IInv, Core
<1>6. QED BY <1>4, <1>5

-----------------------------------------------------------------------------
\* The page: what comes into view is not due yet, and what goes is due no more.
LEMMA ViewKeeps == IInv /\ (OpenTicket \/ ShowChat \/ HideChat \/ LeaveTicket) => Core'
<1> SUFFICES ASSUME IInv, OpenTicket \/ ShowChat \/ HideChat \/ LeaveTicket PROVE Core'
  OBVIOUS
<1>1. UNCHANGED <<server, socket, post>> /\ screen' \subseteq Queries
  BY PanelRealtimeAssumption DEF OpenTicket, ShowChat, HideChat, LeaveTicket, Shell, IInv, Core,
     Frame
<1>2. Frame' /\ PostIsStored'
  BY <1>1 DEF IInv, Core, Frame, PostIsStored, server, socket
<1>3. ASSUME NEW q \in Queries
      PROVE  /\ Fits(q, cache[q], due[q], q \in screen, Level(q))
             /\ Level(q) \in Nat /\ Level(q)' = Level(q)
             /\ q \notin screen => due[q] = 0
  <2>1. Fits(q, cache[q], due[q], q \in screen, Level(q)) /\ Level(q) \in Nat
    BY LevelTyped DEF IInv, Core, QueriesFit
  <2>2. q \notin screen => due[q] = 0
    BY <2>1 DEF Fits
  <2>3. Level(q)' = Level(q)
    BY <1>1 DEF Level, server
  <2>4. QED BY <2>1, <2>2, <2>3
<1>4. ASSUME NEW r \in Queries, r \notin screen, screen' = screen \union {r}, due' = due,
             NEW old, cache' = [cache EXCEPT ![r] = Mounted(cache[r], old)]
      PROVE  QueriesFit'
  <2>1. ASSUME NEW q \in Queries PROVE Fits(q, cache'[q], due'[q], q \in screen', Level(q))
    <3>1. CASE q = r
      <4>1. due[q] = 0
        BY <1>3, <1>4, <3>1
      <4>2. Fits(q, Mounted(cache[q], old), 0, q \in screen', Level(q))
        BY <1>3, <4>1, MountedFits
      <4>3. QED BY <1>4, <3>1, <4>1, <4>2 DEF IInv, Core, QueriesFit
    <3>2. CASE q # r
      BY <1>3, <1>4, <3>2 DEF IInv, Core, QueriesFit
    <3>3. QED BY <3>1, <3>2
  <2>2. QED BY <1>3, <1>4, <2>1 DEF IInv, Core, QueriesFit
<1>5. CASE OpenTicket
  <2>1. PICK old \in BOOLEAN : cache' = [cache EXCEPT !["detail"] = Mounted(cache["detail"], old)]
    BY <1>5 DEF OpenTicket
  <2>2. "detail" \in Queries /\ "detail" \notin screen /\ screen' = screen \union {"detail"}
        /\ due' = due
    BY <1>5, PanelRealtimeAssumption DEF OpenTicket
  <2>3. QueriesFit'
    BY <1>4, <2>1, <2>2
  <2>4. QED BY <1>2, <2>3 DEF Core
<1>6. CASE ShowChat
  <2>1. PICK old \in BOOLEAN :
          cache' = [cache EXCEPT !["messages"] = Mounted(cache["messages"], old)]
    BY <1>6 DEF ShowChat
  <2>2. "messages" \in Queries /\ "messages" \notin screen
        /\ screen' = screen \union {"messages"} /\ due' = due
    BY <1>6, PanelRealtimeAssumption DEF ShowChat
  <2>3. QueriesFit'
    BY <1>4, <2>1, <2>2
  <2>4. QED BY <1>2, <2>3 DEF Core
<1>7. CASE HideChat \/ LeaveTicket
  <2>1. cache' = cache /\ due' \in [Queries -> Nat]
        /\ \A q \in Queries : \/ (q \in screen' <=> q \in screen) /\ due'[q] = due[q]
                              \/ due'[q] = 0
    <3> USE PanelRealtimeAssumption DEF IInv, Core, QueriesFit, Frame
    <3>1. CASE HideChat
      BY <3>1 DEF HideChat
    <3>2. CASE LeaveTicket
      <4>1. ASSUME NEW q \in Queries
            PROVE  ((q \in screen' <=> q \in screen) /\ due'[q] = due[q]) \/ due'[q] = 0
        <5>1. CASE q \in {"messages", "detail"}
          BY <3>2, <5>1 DEF LeaveTicket
        <5>2. CASE q \notin {"messages", "detail"}
          <6>1. q \in screen => q \in screen'
            BY <3>2, <5>2 DEF LeaveTicket, Shell
          <6>2. q \notin screen => due[q] = 0
            BY <1>3
          <6>3. due'[q] = due[q]
            BY <3>2, <5>2 DEF LeaveTicket
          <6>4. QED BY <6>1, <6>2, <6>3
        <5>3. QED BY <5>1, <5>2
      <4>2. QED BY <3>2, <4>1 DEF LeaveTicket
    <3>3. QED BY <1>7, <3>1, <3>2
  <2>2. ASSUME NEW q \in Queries PROVE Fits(q, cache'[q], due'[q], q \in screen', Level(q))
    <3>1. CASE due'[q] = 0
      BY <1>3, <2>1, <3>1, NothingDueFits
    <3>2. CASE (q \in screen' <=> q \in screen) /\ due'[q] = due[q]
      BY <1>3, <2>1, <3>2 DEF Fits
    <3>3. QED BY <2>1, <3>1, <3>2
  <2>3. QueriesFit'
    BY <1>3, <2>1, <2>2 DEF IInv, Core, QueriesFit
  <2>4. QED BY <1>2, <2>3 DEF Core
<1>8. QED BY <1>5, <1>6, <1>7

-----------------------------------------------------------------------------
\* The mutation of the page.
LEMMA PostKeeps == IInv /\ (PostAnswered \/ PostFailed \/ \E k \in {"message", "status"} : Post(k))
                     => Core'
<1> SUFFICES ASSUME IInv, PostAnswered \/ PostFailed \/ \E k \in {"message", "status"} : Post(k)
             PROVE  Core'
  OBVIOUS
<1>1. UNCHANGED <<server, socket, screen>>
  BY DEF PostAnswered, PostFailed, Post
<1>2. post' \in [kind : {"none", "message", "status"}, stage : {"none", "sent", "done"}, value : Nat]
      /\ post'.stage # "done"
  <2>1. NoPost \in [kind : {"none", "message", "status"}, stage : {"none", "sent", "done"},
                   value : Nat] /\ NoPost.stage = "none"
    BY DEF NoPost
  <2>2. ASSUME NEW k \in {"message", "status"}
        PROVE  LET p == [NoPost EXCEPT !.kind = k, !.stage = "sent"]
               IN  /\ p.stage = "sent"
                   /\ p \in [kind : {"none", "message", "status"},
                             stage : {"none", "sent", "done"}, value : Nat]
    BY <2>1 DEF NoPost
  <2>3. QED BY <2>1, <2>2 DEF PostAnswered, PostFailed, Post
<1>3. Frame' /\ PostIsStored'
  BY <1>1, <1>2 DEF IInv, Core, Frame, PostIsStored, server, socket
<1>4. ASSUME NEW q \in Queries
      PROVE  /\ Fits(q, cache[q], due[q], q \in screen, Level(q))
             /\ Level(q) \in Nat /\ Level(q)' = Level(q) /\ due[q] \in 0 .. Level(q)
             /\ due[q] \in Nat
  <2>1. Fits(q, cache[q], due[q], q \in screen, Level(q)) /\ Level(q) \in Nat
        /\ due[q] \in Nat
    BY LevelTyped DEF IInv, Core, QueriesFit
  <2>2. due[q] \in 0 .. Level(q)
    BY <2>1 DEF Fits
  <2>3. Level(q)' = Level(q)
    BY <1>1 DEF Level, server
  <2>4. QED BY <2>1, <2>2, <2>3
<1>5. ASSUME NEW q \in Queries, NEW c, cache' = [cache EXCEPT ![q] = c], due' = due,
             Fits(q, c, due[q], q \in screen, Level(q))
      PROVE  QueriesFit'
  <2>1. due' = [due EXCEPT ![q] = due[q]]
    BY <1>5 DEF IInv, Core, QueriesFit
  <2>2. QED BY <1>1, <1>4, <1>5, <2>1, OneQuery DEF IInv, Core, server
<1>6. CASE cache' = cache /\ due' = due
  BY <1>1, <1>3, <1>4, <1>6 DEF IInv, Core, QueriesFit
<1>7. CASE PostAnswered /\ post.kind = "message"
  <2>1. post.value \in 1 .. Level("messages") /\ "messages" \in Queries
    BY <1>7, PanelRealtimeAssumption DEF PostAnswered, IInv, Core, PostIsStored, Level
  <2>2. Fits("messages", AppendMessage(cache["messages"], post.value), due["messages"],
             "messages" \in screen, Level("messages"))
    BY <1>4, <2>1, AppendFits
  <2>3. cache' = [cache EXCEPT !["messages"] = AppendMessage(cache["messages"], post.value)]
        /\ due' = due
    BY <1>7 DEF PostAnswered
  <2>4. QueriesFit'
    BY <1>5, <2>1, <2>2, <2>3
  <2>5. QED BY <1>3, <2>4 DEF Core
<1>8. CASE PostAnswered /\ post.kind # "message"
  <2> DEFINE told == [q \in Queries |-> IF q = "lists" THEN post.value ELSE 0]
  <2>1. /\ cache' = [q \in Queries |->
                        IF q = "detail" THEN Written(cache[q], post.value)
                        ELSE IF q = "lists" THEN Invalidated(q, cache[q]) ELSE cache[q]]
        /\ due' = [Owed(cache, told) EXCEPT !["detail"] = 0]
        /\ post.value \in 0 .. version
    BY <1>8 DEF PostAnswered, IInv, Core, PostIsStored
  <2>2. ASSUME NEW q \in Queries
        PROVE  Fits(q, cache'[q], due'[q], q \in screen, Level(q)) /\ due'[q] \in Nat
    <3>1. told[q] \in 0 .. Level(q)
      BY <1>4, <2>1 DEF Level
    <3>2. q = "messages" => due'[q] = due[q]
      BY <1>4, <2>1 DEF Owed
    <3>3. q # "detail" => due'[q] = Owed(cache, told)[q]
      BY <2>1 DEF Owed
    <3>4. q = "detail" => due'[q] = 0
      BY <2>1 DEF Owed
    <3> HIDE DEF told
    <3>5. CASE q = "messages"
      <4>1. cache'[q] = cache[q]
        BY <2>1, <3>5
      <4>2. QED BY <1>4, <3>2, <3>5, <4>1
    <3>6. CASE q = "detail"
      <4>1. cache'[q] = Written(cache[q], post.value) /\ post.value \in Nat
        BY <2>1, <3>6 DEF IInv, Core, Frame
      <4>2. QED BY <1>4, <3>4, <3>6, <4>1, WrittenFits
    <3>7. CASE q = "lists"
      <4>1. cache'[q] = Invalidated(q, cache[q])
        BY <2>1, <3>7
      <4>2. /\ due'[q] \in 0 .. Level(q) /\ due'[q] \in Nat
            /\ due'[q] = due[q] \/ (q \in screen /\ cache[q].data # None)
        BY <3>1, <3>3, <3>7, OwedFields DEF IInv, Core
      <4>3. QED BY <1>4, <4>1, <4>2, InvalidatedFits
    <3>8. QED BY <3>5, <3>6, <3>7, PanelRealtimeAssumption
  <2>3. due' \in [Queries -> Nat] /\ cache' = [q \in Queries |-> cache'[q]]
        /\ DOMAIN cache' = Queries
    <3>1. due' = [q \in Queries |-> due'[q]]
      BY <2>1 DEF Owed
    <3>2. \A q \in Queries : due'[q] \in Nat
      BY <2>2
    <3>3. cache' = [q \in Queries |-> cache'[q]] /\ DOMAIN cache' = Queries
      BY <2>1
    <3>4. QED BY <3>1, <3>2, <3>3
  <2>4. QueriesFit'
    BY <1>1, <1>4, <2>2, <2>3 DEF QueriesFit
  <2>5. QED BY <1>3, <2>4 DEF Core
<1>9. CASE PostFailed /\ post.kind # "message"
  <2>1. cache' = [cache EXCEPT !["detail"] = Invalidated("detail", cache["detail"])]
        /\ due' = due /\ "detail" \in Queries
    BY <1>9, PanelRealtimeAssumption DEF PostFailed
  <2>2. Fits("detail", Invalidated("detail", cache["detail"]), due["detail"],
             "detail" \in screen, Level("detail"))
    BY <1>4, <2>1, InvalidatedFits
  <2>3. QueriesFit'
    BY <1>5, <2>1, <2>2
  <2>4. QED BY <1>3, <2>3 DEF Core
<1>10. QED
  BY <1>6, <1>7, <1>8, <1>9 DEF PostAnswered, PostFailed, Post

-----------------------------------------------------------------------------
\* A panel that is off shows nothing, so nothing of it comes into view.
LEMMA OffKeeps == IInv /\ [Next]_vars => OffShowsNothing'
<1> SUFFICES ASSUME IInv, [Next]_vars PROVE OffShowsNothing'
  OBVIOUS
<1> USE DEF IInv, OffShowsNothing, server, socket
<1>1. CASE StoreMessage \/ ChangeTicket \/ StorePost
  BY <1>1 DEF StoreMessage, ChangeTicket, StorePost
<1>2. CASE Accept \/ OnOpen \/ Drop \/ Reconnect \/ CloseForbidden \/ CloseUnauthorized \/ SignIn
  BY <1>2 DEF Accept, OnOpen, Drop, Reconnect, CloseForbidden, CloseUnauthorized, SignIn
<1>3. CASE \E event \in events : Deliver(event)
  BY <1>3 DEF Deliver
<1>4. CASE \E q \in Queries : Request(q)
  BY <1>4 DEF Request, Read, Answer, Retry, Fail, Refetch, Collect
<1>5. CASE OpenTicket \/ ShowChat \/ HideChat
  BY <1>5 DEF OpenTicket, ShowChat, HideChat
<1>6. CASE LeaveTicket
  BY <1>6 DEF LeaveTicket
<1>7. CASE PostAnswered \/ PostFailed \/ \E k \in {"message", "status"} : Post(k)
  BY <1>7 DEF PostAnswered, PostFailed, Post
<1>8. CASE UNCHANGED vars
  BY <1>8 DEF vars
<1>9. QED
  BY <1>1, <1>2, <1>3, <1>4, <1>5, <1>6, <1>7, <1>8 DEF Next, Socket, Page

LEMMA NextIInv == IInv /\ [Next]_vars => IInv'
<1>1. IInv /\ UNCHANGED vars => Core'
  BY DEF IInv, Core, Frame, PostIsStored, QueriesFit, Level, vars, server, socket
<1>2. IInv /\ Next => Core'
  BY ServerKeeps, RequestKeeps, ReopenKeeps, DeliverKeeps, SocketKeeps, SessionKeeps,
     ViewKeeps, PostKeeps DEF Next, Socket, Page
<1>3. QED BY <1>1, <1>2, OffKeeps DEF IInv

LEMMA InitIInv == Init => IInv
  BY InitCore DEF Init, IInv, OffShowsNothing

\* The inductive invariant of the panel.
THEOREM Inductive == Spec => []IInv
<1>1. QED BY InitIInv, NextIInv, PTL DEF Spec

\* Every reachable state of the cache, the socket and the page is well typed.
THEOREM PanelTypeCorrect == Spec => []TypeOK
<1>1. IInv => TypeOK
  <2>1. ASSUME IInv, NEW q \in Queries
        PROVE  /\ cache[q] \in [data : Values(q) \union {None}, fetch : {"none", "sent", "read"},
                             got : Values(q) \union {None}, error : BOOLEAN, invalid : BOOLEAN]
               /\ cache[q].got = None <=> cache[q].fetch # "read"
    BY <2>1 DEF IInv, Core, QueriesFit, Fits, Entry
  <2>2. QED BY <2>1 DEF IInv, Core, Frame, QueriesFit, TypeOK
<1>2. QED BY <1>1, Inductive, PTL

\* The chat shows stored messages, each once, in whatever order the answer to a POST, its
\* event and a rereading arrive (append-message.ts, StaffRealtime.tsx).
THEOREM ChatAlwaysTrue == Spec => []ChatIsTrue
<1>1. IInv => ChatIsTrue
  <2> SUFFICES ASSUME IInv, cache["messages"].data # None
               PROVE  TrueChat(cache["messages"].data, stored)
    BY DEF ChatIsTrue, TrueChat
  <2>1. "messages" \in Queries
    BY PanelRealtimeAssumption
  <2>2. Fits("messages", cache["messages"], due["messages"], "messages" \in screen, stored)
    BY <2>1 DEF IInv, Core, QueriesFit, Level
  <2>3. QED BY <2>2 DEF Fits
<1>2. QED BY <1>1, Inductive, PTL

\* What an event or a reconnection told the page to read again is on the page when nothing
\* is being read, or the page shows an error.
THEOREM AlwaysShowsWhatItIsOwed == Spec => []ShowsWhatItIsOwed
<1>1. IInv => ShowsWhatItIsOwed
  <2> SUFFICES ASSUME IInv, NEW q \in Queries, cache[q].fetch = "none"
               PROVE  due[q] = 0 \/ Covers(q, cache[q].data, due[q])
    BY DEF ShowsWhatItIsOwed
  <2>1. Fits(q, cache[q], due[q], q \in screen, Level(q)) /\ due[q] \in Nat
    BY DEF IInv, Core, QueriesFit
  <2>2. QED BY <2>1 DEF Fits
<1>2. QED BY <1>1, Inductive, PTL

==============================================================================
