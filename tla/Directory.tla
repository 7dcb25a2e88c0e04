------------------------------- MODULE Directory -------------------------------
(***************************************************************************)
(* The directory of categories: CategoryService over the table, and the    *)
(* card of the panel that shows the list and changes it.  A request is cut *)
(* at its statements: none of them locks, so the requests of one impatient *)
(* administrator, or of two, interleave.  Buildings are the same without   *)
(* the order.  A category is never deleted; its id only orders the ties.   *)
(***************************************************************************)
EXTENDS Integers, Sequences, SequencesExt

CONSTANTS
    MaxRows,   \* bound: categories
    MaxTitle,  \* bound: titles
    MaxCalls,  \* bound: requests made
    Limit,     \* DIRECTORY_ACTIVE_LIMIT and ACTIVE_LIMIT
    Calls,     \* requests in flight at once
    None

ASSUME DirectoryAssumption ==
    /\ MaxRows \in Nat /\ MaxTitle \in Nat /\ MaxRows <= MaxTitle
    /\ Limit \in 1 .. MaxRows - 1 /\ MaxCalls \in Nat

VARIABLES
    rows,    \* the table; the order of a row that is not there is 0
    calls,   \* the requests in flight
    made,    \* how many were made, for MaxCalls
    list,    \* the cached list of the card
    onPage,  \* the page of the directories is open
    since    \* history: the lists the server had since the card was last told to read, and
             \* a reading already on its way then that the telling does not replace

vars == <<rows, calls, made, list, onPage, since>>

Ids == 1 .. MaxRows
Titles == 1 .. MaxTitle
NoRow == [order |-> 0, title |-> 0, on |-> FALSE]

Exists(rs) == {i \in Ids : rs[i].order > 0}
Offered(rs) == {i \in Exists(rs) : rs[i].on}
CountActive == Cardinality(Offered(rows))

\* ORDER BY sort_order, id.
Before(rs, i, j) == rs[i].order < rs[j].order \/ (rs[i].order = rs[j].order /\ i < j)
Order(rs) ==
    LET ids == Exists(rs)
    IN  [k \in 1 .. Cardinality(ids) |->
            CHOOSE i \in ids : Cardinality({j \in ids : Before(rs, j, i)}) = k - 1]

Item(rs, i) == [id |-> i, title |-> rs[i].title, on |-> rs[i].on]

\* list_all in a session that already holds the rows "seen": the order is that of the
\* table, but an object in the session keeps its attributes.
ListAll(seen) ==
    LET ids == Order(rows)
    IN  [k \in DOMAIN ids |-> Item(IF ids[k] \in Exists(seen) THEN seen ELSE rows, ids[k])]

NothingSeen == [i \in Ids |-> NoRow]
Truth == ListAll(NothingSeen)

NoCall == [stage |-> "none", ask |-> None, own |-> FALSE, seen |-> NothingSeen, count |-> 0,
           answer |-> None, previous |-> None]

Unread == [data |-> None, fetch |-> "none", got |-> None, error |-> FALSE, invalid |-> FALSE]

IdsOf(items) == [k \in DOMAIN items |-> items[k].id]

Items == [id : Ids, title : Titles, on : BOOLEAN]

TypeOK ==
    /\ rows \in [Ids -> {NoRow} \union [order : Ids, title : Titles, on : BOOLEAN]]
    /\ made \in 0 .. MaxCalls /\ onPage \in BOOLEAN
    /\ \A c \in Calls :
          /\ calls[c].stage \in {"none", "sent", "loaded", "checked", "stored", "answered"}
          /\ calls[c].answer # None => calls[c].stage = "answered"
          /\ calls[c].previous # None => calls[c].previous \in Seq(Items)
    /\ list.fetch \in {"none", "sent", "read"}
    /\ list.got # None => list.fetch = "read" /\ list.got \in Seq(Items)
    /\ list.data # None => list.data \in Seq(Items)

-----------------------------------------------------------------------------
\* TanStack Query, as in PanelRealtime.

Fetching(c) == [c EXCEPT !.fetch = "sent", !.got = None, !.error = @ /\ c.data # None]
Joined(c) == IF c.fetch = "none" THEN Fetching(c) ELSE c

\* Fault: the request in flight is taken for the new one.
RefreshJoins(c) ==
    LET marked == [c EXCEPT !.invalid = TRUE] IN IF onPage THEN Joined(marked) ELSE marked

\* refresh: the request in flight is cancelled for the new one, unless it is the first.
Refresh(c) ==
    LET marked == [c EXCEPT !.invalid = TRUE]
    IN  IF ~onPage THEN marked
        ELSE IF c.data = None THEN Joined(marked) ELSE Fetching(marked)

\* setQueryData; of nothing it makes nothing.
Written(c, items) ==
    IF items = None THEN c ELSE [c EXCEPT !.data = items, !.error = FALSE, !.invalid = FALSE]

-----------------------------------------------------------------------------
\* Some rows are there; the first of them are enabled.
Init ==
    /\ \E n \in Ids, enabled \in 1 .. Limit :
          rows = [i \in Ids |-> IF i <= n
                                THEN [order |-> i, title |-> i, on |-> i <= enabled]
                                ELSE NoRow]
    /\ calls = [c \in Calls |-> NoCall] /\ made = 0
    /\ list = Unread /\ onPage = FALSE /\ since = {Truth}

-----------------------------------------------------------------------------
\* The card.

\* atLimit(items).
Full ==
    list.data # None /\ Cardinality({k \in DOMAIN list.data : list.data[k].on}) >= Limit

\* moveId.
MoveId(ids, i, delta) == [ids EXCEPT ![i] = ids[i + delta], ![i + delta] = ids[i]]

\* The rows are on the page.
ShowsRows == onPage /\ list.data # None /\ ~list.error

Send(c, ask, own) ==
    /\ calls[c] = NoCall /\ made < MaxCalls
    /\ made' = made + 1
    /\ calls' = [calls EXCEPT ![c] = [NoCall EXCEPT !.stage = "sent", !.ask = ask, !.own = own,
                    !.previous = IF own /\ ask.kind = "reorder" THEN list.data ELSE None]]
    /\ UNCHANGED <<rows, onPage, since>>

OpenPage ==
    /\ ~onPage
    /\ onPage' = TRUE
    /\ \E old \in BOOLEAN :
          list' = IF list.data = None \/ list.invalid \/ old THEN Joined(list) ELSE list
    /\ UNCHANGED <<rows, calls, made, since>>

LeavePage ==
    /\ onPage
    /\ onPage' = FALSE
    /\ UNCHANGED <<rows, calls, made, list, since>>

\* Five minutes without an observer.
Collect ==
    /\ ~onPage /\ list.fetch = "none" /\ list # Unread
    /\ list' = Unread
    /\ UNCHANGED <<rows, calls, made, onPage, since>>

\* Bound: each creation on its way finds an id.
Creating == {c \in Calls : calls[c].ask # None /\ calls[c].ask.kind = "create"
                             /\ calls[c].stage # "answered"}
SpareId == Cardinality(Exists(rows)) + Cardinality(Creating) < MaxRows

\* The form is there before the list is.
Add(c) ==
    /\ onPage /\ ~Full /\ SpareId
    /\ \E t \in Titles : Send(c, [kind |-> "create", title |-> t], TRUE)
    /\ UNCHANGED list

Rename(c) ==
    /\ ShowsRows
    /\ \E k \in DOMAIN list.data : \E t \in Titles \ {list.data[k].title} :
          Send(c, [kind |-> "rename", id |-> list.data[k].id, title |-> t], TRUE)
    /\ UNCHANGED list

Toggle(c) ==
    /\ ShowsRows
    /\ \E k \in DOMAIN list.data :
          /\ list.data[k].on \/ ~Full
          /\ Send(c, [kind |-> "switch", id |-> list.data[k].id, on |-> ~list.data[k].on], TRUE)
    /\ UNCHANGED list

\* onMutate: the new order shows at once.
Move(c) ==
    /\ ShowsRows
    /\ \E k \in DOMAIN list.data, delta \in {-1, 1} :
          /\ k + delta \in DOMAIN list.data
          /\ Send(c, [kind |-> "reorder", ids |-> MoveId(IdsOf(list.data), k, delta)], TRUE)
          /\ list' = Written(list, MoveId(list.data, k, delta))

\* Another administrator, who sees the list as it is now.
OtherAsks(c) ==
    /\ \/ SpareId /\ \E t \in Titles : Send(c, [kind |-> "create", title |-> t], FALSE)
       \/ \E i \in Exists(rows) :
             Send(c, [kind |-> "switch", id |-> i, on |-> ~rows[i].on], FALSE)
       \/ \E k \in 1 .. Len(Order(rows)) - 1 :
             Send(c, [kind |-> "reorder", ids |-> MoveId(Order(rows), k, 1)], FALSE)
    /\ UNCHANGED list

-----------------------------------------------------------------------------
\* The server.

Asks(c, stage, kinds) == calls[c].stage = stage /\ calls[c].ask.kind \in kinds

Answered(call, answer) == [call EXCEPT !.stage = "answered", !.answer = answer,
                                       !.seen = NothingSeen, !.count = 0]

\* A ConflictException.
Refused(call) == Answered(call, None)

Reads(c, call) ==
    /\ calls' = [calls EXCEPT ![c] = call]
    /\ UNCHANGED <<rows, made, list, onPage, since>>

\* A commit; the session goes on to answer.
Stores(c, newRows, call) ==
    /\ rows' = newRows
    /\ calls' = [calls EXCEPT ![c] = call]
    /\ since' = since \union {Truth'}
    /\ UNCHANGED <<made, list, onPage>>

TitleTaken(rs, t, i) == \E j \in Exists(rs) \ {i} : rs[j].title = t

\* create: count_active.
CountToCreate(c) ==
    /\ Asks(c, "sent", {"create"})
    /\ Reads(c, IF CountActive >= Limit THEN Refused(calls[c])
                ELSE [calls[c] EXCEPT !.stage = "loaded", !.count = CountActive])

\* max_sort_order.
ReadMaxOrder(c) ==
    /\ Asks(c, "loaded", {"create"})
    /\ Reads(c, [calls[c] EXCEPT !.stage = "checked", !.seen = rows])

MaxOrder(rs) == CHOOSE m \in 0 .. MaxRows :
    /\ \A i \in Exists(rs) : rs[i].order <= m
    /\ m = 0 \/ \E i \in Exists(rs) : rs[i].order = m

\* The ids count up.
NextId(i) == i \notin Exists(rows) /\ i - 1 \in Exists(rows)

Insert(c) ==
    LET call == calls[c]
        new == [order |-> MaxOrder(call.seen) + 1, title |-> call.ask.title, on |-> TRUE]
    IN  /\ Asks(c, "checked", {"create"})
        /\ IF TitleTaken(rows, call.ask.title, 0) THEN Reads(c, Refused(call))
           ELSE \E i \in Ids :
                   /\ NextId(i)
                   /\ Stores(c, [rows EXCEPT ![i] = new],
                             Answered(call, Item([rows EXCEPT ![i] = new], i)))

\* update: get_by_id.
LoadOne(c) ==
    /\ Asks(c, "sent", {"rename", "switch"})
    /\ Reads(c, [calls[c] EXCEPT !.stage = "loaded",
                                 !.seen[calls[c].ask.id] = rows[calls[c].ask.id]])

\* Fault: the last one is not looked at.
MayDisableAny == CountActive > 0

\* The checks of update, before any attribute changes.
MayEnable == CountActive < Limit
MayDisable == CountActive > 1

CheckUpdate(c) ==
    LET call == calls[c]
        ask == call.ask
        switches == ask.kind = "switch" /\ ask.on # call.seen[ask.id].on
        allowed == switches => IF ask.on THEN MayEnable ELSE MayDisable
    IN  /\ Asks(c, "loaded", {"rename", "switch"})
        /\ Reads(c, IF allowed THEN [call EXCEPT !.stage = "checked", !.count = CountActive]
                    ELSE Refused(call))

\* The UPDATE holds only the columns that differ from those read; the answer holds the
\* row as the session has it.
Update(c) ==
    LET call == calls[c]
        ask == call.ask
        seen == call.seen[ask.id]
        asked == IF ask.kind = "rename" THEN [seen EXCEPT !.title = ask.title]
                 ELSE [seen EXCEPT !.on = ask.on]
        new == [rows[ask.id] EXCEPT
                   !.title = IF asked.title # seen.title THEN asked.title ELSE @,
                   !.on = IF asked.on # seen.on THEN asked.on ELSE @]
    IN  /\ Asks(c, "checked", {"rename", "switch"})
        /\ IF asked.title # seen.title /\ TitleTaken(rows, asked.title, ask.id)
           THEN Reads(c, Refused(call))
           ELSE Stores(c, [rows EXCEPT ![ask.id] = new],
                       Answered(call, Item([call.seen EXCEPT ![ask.id] = asked], ask.id)))

\* Fault: ids that are there are enough.
KnownIds(ids, rs) == ToSet(ids) \subseteq Exists(rs)

\* reorder: list_all, and the ids must be those of the table.
SameIds(ids, rs) == Len(ids) = Cardinality(Exists(rs)) /\ ToSet(ids) = Exists(rs)

LoadAll(c) ==
    /\ Asks(c, "sent", {"reorder"})
    /\ Reads(c, IF SameIds(calls[c].ask.ids, rows)
                THEN [calls[c] EXCEPT !.stage = "checked", !.seen = rows]
                ELSE Refused(calls[c]))

\* Fault: enumerate starts at zero.
PositionFromZero(ids, i) == (CHOOSE p \in DOMAIN ids : ids[p] = i) - 1

Position(ids, i) == CHOOSE p \in DOMAIN ids : ids[p] = i

\* Only the rows whose position differs from the one read are written.
Renumber(c) ==
    LET call == calls[c]
        ids == call.ask.ids
        moved == {i \in ToSet(ids) : Position(ids, i) # call.seen[i].order}
    IN  /\ Asks(c, "checked", {"reorder"})
        /\ Stores(c, [i \in Ids |-> IF i \in moved
                                THEN [rows[i] EXCEPT !.order = Position(ids, i)]
                                    ELSE rows[i]],
                  [call EXCEPT !.stage = "stored"])

AnswerOrder(c) ==
    /\ Asks(c, "stored", {"reorder"})
    /\ Reads(c, Answered(calls[c], ListAll(calls[c].seen)))

-----------------------------------------------------------------------------
\* The answers.

\* The card is told to read the list again.  That replaces a reading on its way, except the
\* first one, which is joined, and that of a page that was left, which only is marked.
Told ==
    since' = {Truth} \union (IF onPage /\ list.data # None THEN {} ELSE {list'.got} \ {None})

\* onSuccess of the mutations.
Succeeds(c) ==
    LET call == calls[c]
        replaced == [k \in DOMAIN list.data |->
                        IF list.data[k].id = call.answer.id THEN call.answer ELSE list.data[k]]
        new == CASE call.ask.kind = "create" -> None
                 [] call.ask.kind = "reorder" -> call.answer
                 [] OTHER -> IF list.data = None THEN None ELSE replaced
    IN  /\ call.stage = "answered" /\ call.answer # None /\ call.own
        /\ list' = Refresh(Written(list, new))
        /\ Told
        /\ calls' = [calls EXCEPT ![c] = NoCall]
        /\ UNCHANGED <<rows, made, onPage>>

\* onError: the server refused, or the connection was lost, at any moment: a request that
\* has reached the server goes on there for nobody.  Only a move is undone and read again.
Fails(c) ==
    LET call == calls[c]
        lost == call.stage \in {"sent", "answered"}
        goesOn == call.stage \in {"sent", "loaded", "checked", "stored"}
    IN  /\ call.own
        /\ IF call.ask.kind = "reorder"
           THEN list' = Refresh(Written(list, call.previous)) /\ Told
           ELSE UNCHANGED <<list, since>>
        /\ \/ lost /\ calls' = [calls EXCEPT ![c] = NoCall]
           \/ goesOn /\ calls' = [calls EXCEPT ![c].own = FALSE]
        /\ UNCHANGED <<rows, made, onPage>>

\* The answer to another administrator, or to nobody.
OtherIsDone(c) ==
    /\ calls[c].stage = "answered" /\ ~calls[c].own
    /\ calls' = [calls EXCEPT ![c] = NoCall]
    /\ UNCHANGED <<rows, made, list, onPage, since>>

\* The list: read at the server, answered, failed, or asked for once more.
ReadList ==
    /\ list.fetch = "sent"
    /\ list' = [list EXCEPT !.fetch = "read", !.got = Truth]
    /\ UNCHANGED <<rows, calls, made, onPage, since>>

ListAnswered ==
    /\ list.fetch = "read"
    /\ list' = [Unread EXCEPT !.data = list.got]
    /\ UNCHANGED <<rows, calls, made, onPage, since>>

ListFails ==
    /\ list.fetch # "none"
    /\ list' = [list EXCEPT !.fetch = "none", !.got = None, !.error = TRUE, !.invalid = TRUE]
    /\ UNCHANGED <<rows, calls, made, onPage, since>>

Refetch ==
    /\ onPage /\ list.fetch = "none"
    /\ list' = Fetching(list)
    /\ UNCHANGED <<rows, calls, made, onPage, since>>

-----------------------------------------------------------------------------
Page(c) == Add(c) \/ Rename(c) \/ Toggle(c) \/ Move(c) \/ Succeeds(c) \/ Fails(c)

Server(c) ==
    \/ CountToCreate(c) \/ ReadMaxOrder(c) \/ Insert(c)
    \/ LoadOne(c) \/ CheckUpdate(c) \/ Update(c)
    \/ LoadAll(c) \/ Renumber(c) \/ AnswerOrder(c)

Next ==
    \/ \E c \in Calls : Page(c) \/ Server(c) \/ OtherAsks(c) \/ OtherIsDone(c)
    \/ OpenPage \/ LeavePage \/ Collect
    \/ ReadList \/ ListAnswered \/ ListFails \/ Refetch

Spec == Init /\ [][Next]_vars

-----------------------------------------------------------------------------
(* Properties. *)

\* The number changed between the count of the request that commits and its commit.
Overtaken ==
    \E c \in Calls : /\ calls[c].stage = "checked" /\ calls'[c].stage = "answered"
                     /\ calls[c].count # CountActive

\* The bot keeps a category to offer and its keyboard stays within the limit: only a
\* request overtaken since its count breaks either rule.
RulesBreakByRaceOnly ==
    [][(\/ Offered(rows) # {} /\ Offered(rows') = {}
        \/ Cardinality(Offered(rows')) > Limit /\ CountActive <= Limit) => Overtaken]_vars

\* A reorder puts the rows it names in the order that was asked for, although it only writes
\* the positions it saw differ and a creation may come between: then the new row stands
\* anywhere among them.  Another reorder that comes between is excepted.
OrderIsAsked ==
    [][\A c \in Calls :
          LET ids == calls[c].ask.ids
              seen == calls[c].seen
          IN  /\ Asks(c, "checked", {"reorder"}) /\ calls'[c].stage = "stored"
              /\ \A i \in Exists(seen) : rows[i].order = seen[i].order
              => /\ \A j, k \in DOMAIN ids : j < k => Before(rows', ids[j], ids[k])
                 /\ Exists(rows) = Exists(seen) => Order(rows') = ids]_vars

\* Once the changes of this card are over and nothing is being read, it shows a list that
\* the server had since one was last answered, or a move failed, or an error: moves shown
\* early and answers out of order leave no trace, and no list read too early does, save the
\* one that was on its way then and that nothing replaces - the first one of the card, or
\* that of a page that was left, whose answer also clears the mark to read again.  That one
\* the card shows, however old, and says nothing.
ShowsWhatItChanged ==
    onPage /\ list.data # None /\ list.fetch = "none" /\ ~list.error
        /\ (\A c \in Calls : ~calls[c].own)
        => list.data \in since

==============================================================================
