---------------------------- MODULE DirectoryProofs ----------------------------
(***************************************************************************)
(* The directory, for any number of categories, requests and titles.  The  *)
(* order of a table is shown to exist and to be the only list that ranks   *)
(* its rows.  The inductive invariant adds to the types that the rows a    *)
(* session holds, or a request names, are in the table, what each check of *)
(* a request has established, and what the card is owed.                   *)
(***************************************************************************)
EXTENDS Directory, FiniteSetTheorems, WellFoundedInduction, TLAPS

Rows == [order : Ids, title : Titles, on : BOOLEAN]
Tables == [Ids -> {NoRow} \union Rows]

\* The rows that come before one.
Above(rs, i) == {j \in Exists(rs) : Before(rs, j, i)}

-----------------------------------------------------------------------------
(* The order of a table. *)

\* The ids are finitely many.
LEMMA ExistsFinite ==
  ASSUME NEW rs
  PROVE  /\ Exists(rs) \subseteq Ids /\ IsFiniteSet(Exists(rs))
         /\ Cardinality(Exists(rs)) \in 0 .. MaxRows
<1>1. IsFiniteSet(Ids) /\ Cardinality(Ids) = MaxRows
  BY FS_Interval, DirectoryAssumption DEF Ids
<1>2. Exists(rs) \subseteq Ids
  BY DEF Exists
<1> QED BY <1>1, <1>2, FS_Subset, FS_CardinalityType, DirectoryAssumption

\* A row of the table that is not the empty one.
LEMMA RowThere ==
  ASSUME NEW rs \in Tables, NEW i \in Ids
  PROVE  i \in Exists(rs) <=> rs[i] \in Rows
<1>1. rs[i] \in {NoRow} \union Rows
  BY DEF Tables
<1>2. NoRow.order = 0
  BY DEF NoRow
<1>3. rs[i] \in Rows => rs[i].order > 0
  BY DEF Rows, Ids
<1>4. i \in Exists(rs) <=> rs[i].order > 0
  BY DEF Exists
<1> QED BY <1>1, <1>2, <1>3, <1>4

\* What comes before a row is fewer than all.
LEMMA FewAbove ==
  ASSUME NEW rs \in Tables, NEW i \in Exists(rs)
  PROVE  /\ IsFiniteSet(Above(rs, i))
         /\ Cardinality(Above(rs, i)) \in 0 .. Cardinality(Exists(rs)) - 1
<1>1. Above(rs, i) \subseteq Exists(rs) /\ IsFiniteSet(Exists(rs))
  BY ExistsFinite DEF Above
<1>2. i \in Ids /\ rs[i].order \in Nat
  BY RowThere, ExistsFinite, DirectoryAssumption DEF Rows, Ids
<1>3. i \notin Above(rs, i)
  BY <1>2, DirectoryAssumption DEF Above, Before, Ids
<1>4. Above(rs, i) # Exists(rs)
  BY <1>3
<1>5. /\ IsFiniteSet(Above(rs, i)) /\ Cardinality(Above(rs, i)) <= Cardinality(Exists(rs))
      /\ Cardinality(Above(rs, i)) # Cardinality(Exists(rs))
  BY <1>1, <1>4, FS_Subset
<1>6. Cardinality(Above(rs, i)) \in Nat /\ Cardinality(Exists(rs)) \in Nat
  BY <1>1, <1>5, FS_CardinalityType
<1> QED BY <1>5, <1>6

\* Of two rows, the one that comes later has more before it.
LEMMA LaterHasMore ==
  ASSUME NEW rs \in Tables, NEW i \in Exists(rs), NEW j \in Exists(rs), Before(rs, i, j)
  PROVE  Cardinality(Above(rs, i)) < Cardinality(Above(rs, j))
<1>1. \A k \in Exists(rs) : k \in Int /\ rs[k].order \in Int
  BY RowThere, ExistsFinite, DirectoryAssumption DEF Rows, Ids
<1>2. Above(rs, i) \subseteq Above(rs, j)
  BY <1>1 DEF Above, Before
<1>3. i \in Above(rs, j) /\ i \notin Above(rs, i)
  BY <1>1 DEF Above, Before
<1>4. IsFiniteSet(Above(rs, j)) /\ IsFiniteSet(Above(rs, i))
  BY FewAbove
<1>5. /\ Cardinality(Above(rs, i)) <= Cardinality(Above(rs, j))
      /\ Cardinality(Above(rs, i)) # Cardinality(Above(rs, j))
  BY <1>2, <1>3, <1>4, FS_Subset
<1>6. Cardinality(Above(rs, i)) \in Nat /\ Cardinality(Above(rs, j)) \in Nat
  BY <1>4, FS_CardinalityType
<1> QED BY <1>5, <1>6

\* No two rows have the same number of rows before them.
LEMMA RanksDiffer ==
  ASSUME NEW rs \in Tables, NEW i \in Exists(rs), NEW j \in Exists(rs),
         Cardinality(Above(rs, i)) = Cardinality(Above(rs, j))
  PROVE  i = j
<1>1. \A k \in Exists(rs) : k \in Int /\ rs[k].order \in Int
  BY RowThere, ExistsFinite, DirectoryAssumption DEF Rows, Ids
<1>2. i # j => Before(rs, i, j) \/ Before(rs, j, i)
  BY <1>1 DEF Before
<1>3. Cardinality(Above(rs, i)) \in Int
  BY FewAbove
<1> QED BY <1>2, <1>3, LaterHasMore

\* Every place is taken: the ranks of n rows are n different numbers below n.
LEMMA RanksCover ==
  ASSUME NEW rs \in Tables, NEW k \in 1 .. Cardinality(Exists(rs))
  PROVE  \E i \in Exists(rs) : Cardinality(Above(rs, i)) = k - 1
<1> DEFINE n == Cardinality(Exists(rs))
           Places == 0 .. n - 1
           rank == [i \in Exists(rs) |-> Cardinality(Above(rs, i))]
<1>1. n \in Nat /\ IsFiniteSet(Exists(rs))
  BY ExistsFinite
<1>2. IsFiniteSet(Places) /\ Cardinality(Places) = n
  <2>1. n - 1 \in Int /\ 0 \in Int
    BY <1>1
  <2>2. IsFiniteSet(0 .. n - 1) /\ Cardinality(0 .. n - 1) = IF 0 > n - 1 THEN 0 ELSE n - 1 - 0 + 1
    <3> HIDE DEF n
    <3> QED BY <2>1, FS_Interval
  <2> QED BY <1>1, <2>2
<1>3. rank \in [Exists(rs) -> Places]
  BY FewAbove
<1>4. \A i, j \in Exists(rs) : rank[i] = rank[j] => i = j
  BY RanksDiffer
<1>5. rank \in Injection(Exists(rs), Places)
  BY <1>3, <1>4 DEF Injection, IsInjective
<1>6. rank \in Surjection(Exists(rs), Places)
  <2> HIDE DEF Places, rank
  <2> QED BY <1>1, <1>2, <1>5, FS_Injection
<1>7. \A p \in Places : \E i \in Exists(rs) : rank[i] = p
  BY <1>6 DEF Surjection
<1> QED BY <1>1, <1>7

\* The order is a list of the rows that are there, each in its place.
LEMMA OrderRanks ==
  ASSUME NEW rs \in Tables
  PROVE  /\ Order(rs) \in [1 .. Cardinality(Exists(rs)) -> Exists(rs)]
         /\ \A k \in 1 .. Cardinality(Exists(rs)) :
               Cardinality(Above(rs, Order(rs)[k])) = k - 1
<1> DEFINE Ranked(k) == CHOOSE i \in Exists(rs) :
                            Cardinality({j \in Exists(rs) : Before(rs, j, i)}) = k - 1
<1>1. Order(rs) = [k \in 1 .. Cardinality(Exists(rs)) |-> Ranked(k)]
  BY DEF Order
<1>2. ASSUME NEW k \in 1 .. Cardinality(Exists(rs))
      PROVE  Ranked(k) \in Exists(rs) /\ Cardinality(Above(rs, Ranked(k))) = k - 1
  BY RanksCover DEF Above
<1> HIDE DEF Ranked
<1> QED BY <1>1, <1>2

\* ... and no other list is.
LEMMA OrderIsOnly ==
  ASSUME NEW rs \in Tables, NEW ids \in [1 .. Cardinality(Exists(rs)) -> Exists(rs)],
         \A k \in 1 .. Cardinality(Exists(rs)) : Cardinality(Above(rs, ids[k])) = k - 1
  PROVE  Order(rs) = ids
<1> DEFINE places == 1 .. Cardinality(Exists(rs))
<1>1. Order(rs) \in [places -> Exists(rs)] /\ ids \in [places -> Exists(rs)]
  BY OrderRanks
<1>2. ASSUME NEW k \in places
      PROVE  Order(rs)[k] = ids[k]
  <2>1. Cardinality(Above(rs, Order(rs)[k])) = Cardinality(Above(rs, ids[k]))
    BY OrderRanks
  <2>2. Order(rs)[k] \in Exists(rs) /\ ids[k] \in Exists(rs)
    BY <1>1
  <2> QED BY <2>1, <2>2, RanksDiffer
<1> QED
  <2> HIDE DEF places
  <2>1. \A k \in places : Order(rs)[k] = ids[k]
    BY <1>2
  <2>2. Order(rs) = [k \in places |-> Order(rs)[k]] /\ ids = [k \in places |-> ids[k]]
    BY <1>1
  <2> QED BY <2>1, <2>2

\* It is a sequence, as long as the rows are many.
LEMMA OrderIsList ==
  ASSUME NEW rs \in Tables
  PROVE  /\ Order(rs) \in Seq(Exists(rs)) /\ Len(Order(rs)) = Cardinality(Exists(rs))
         /\ DOMAIN Order(rs) = 1 .. Cardinality(Exists(rs))
<1>1. Cardinality(Exists(rs)) \in Nat
  BY ExistsFinite
<1> QED BY <1>1, OrderRanks

\* The largest order exists, and no row has more.
LEMMA LargestOrder ==
  ASSUME NEW rs \in Tables
  PROVE  /\ MaxOrder(rs) \in 0 .. MaxRows
         /\ MaxOrder(rs) = 0 \/ \E i \in Exists(rs) : rs[i].order = MaxOrder(rs)
<1> DEFINE Largest(m) == /\ \A i \in Exists(rs) : rs[i].order <= m
                         /\ m = 0 \/ \E i \in Exists(rs) : rs[i].order = m
           Over == {m \in Nat : \A i \in Exists(rs) : rs[i].order <= m}
<1>1. \A i \in Exists(rs) : rs[i].order \in 1 .. MaxRows
  BY RowThere, ExistsFinite DEF Rows, Ids
<1>2. MaxRows \in Over
  BY <1>1, DirectoryAssumption
<1>3. PICK m \in Over : \A y \in Over : ~(<<y, m>> \in OpToRel(<, Nat))
  BY <1>2, NatLessThanWellFounded, WFMin
<1>4. \A y \in Over : ~(y < m)
  BY <1>3 DEF OpToRel
<1>5. m \in 0 .. MaxRows
  BY <1>2, <1>4, DirectoryAssumption
<1>6. m = 0 \/ \E i \in Exists(rs) : rs[i].order = m
  <2> SUFFICES ASSUME m # 0, \A i \in Exists(rs) : rs[i].order # m
               PROVE  FALSE
    OBVIOUS
  <2>1. m - 1 \in Over
    BY <1>1, <1>5, DirectoryAssumption
  <2> QED BY <2>1, <1>4, <1>5, DirectoryAssumption
<1>7. Largest(m)
  BY <1>6
<1>8. MaxOrder(rs) = CHOOSE l \in 0 .. MaxRows : Largest(l)
  BY DEF MaxOrder
<1> HIDE DEF Largest
<1>9. MaxOrder(rs) \in 0 .. MaxRows /\ Largest(MaxOrder(rs))
  BY <1>5, <1>7, <1>8
<1> QED BY <1>9 DEF Largest
-----------------------------------------------------------------------------
(* The inductive invariant. *)

\* What a session, an answer or the card knows of the rows that are in the table.
Known(rs) == [id : Exists(rs), title : Titles, on : BOOLEAN]
Lists(rs) == Seq(Known(rs))

Requests(rs) ==
    [kind : {"create"}, title : Titles]
      \union [kind : {"rename"}, id : Exists(rs), title : Titles]
      \union [kind : {"switch"}, id : Exists(rs), on : BOOLEAN]
      \union [kind : {"reorder"}, ids : Seq(Exists(rs))]

Stages == {"none", "sent", "loaded", "checked", "stored", "answered"}

InFlight(rs) ==
    [stage : Stages, ask : Requests(rs) \union {None}, own : BOOLEAN, seen : Tables,
     count : Nat, answer : Known(rs) \union Lists(rs) \union {None},
     previous : Lists(rs) \union {None}]

\* No order is larger than the number of rows.
OrdersFit(rs, seen) == \A i \in Ids : seen[i].order <= Cardinality(Exists(rs))

\* What the checks of a request have established.
Passed(call) ==
    LET ask == call.ask
    IN  /\ call.stage \in {"loaded", "checked"} /\ ask.kind = "create" => call.count < Limit
        /\ call.stage \in {"loaded", "checked"} /\ ask.kind \in {"rename", "switch"}
              => ask.id \in Exists(call.seen)
        /\ call.stage = "checked" /\ ask.kind = "switch" /\ ask.on # call.seen[ask.id].on
              => IF ask.on THEN call.count < Limit ELSE call.count > 1
        /\ call.stage = "checked" /\ ask.kind = "reorder" => SameIds(ask.ids, call.seen)

Answers(rs, call) == IF call.ask.kind = "reorder" THEN Lists(rs) ELSE Known(rs)

CallFits(rs, call) ==
    /\ call \in InFlight(rs)
    /\ call.stage # "none" => call.ask \in Requests(rs)
    /\ call.answer # None => call.stage = "answered" /\ call.answer \in Answers(rs, call)
    /\ Exists(call.seen) \subseteq Exists(rs) /\ OrdersFit(rs, call.seen)
    /\ Passed(call)

CallsFit(rs, cs) == cs \in [Calls -> InFlight(rs)] /\ \A c \in Calls : CallFits(rs, cs[c])

Cards(rs) ==
    [data : Lists(rs) \union {None}, fetch : {"none", "sent", "read"},
     got : Lists(rs) \union {None}, error : BOOLEAN, invalid : BOOLEAN]

CardFits(rs, l) == l \in Cards(rs) /\ (l.got # None => l.fetch = "read")

TableFits(rs) == rs \in Tables /\ OrdersFit(rs, rs)

Fits ==
    /\ TableFits(rows) /\ CallsFit(rows, calls) /\ CardFits(rows, list)
    /\ made \in 0 .. MaxCalls /\ onPage \in BOOLEAN

-----------------------------------------------------------------------------
(* Rows never leave the table, so what is known of them stays known. *)

\* A list over some things is a list over more of them.
LEMMA SeqGrows ==
  ASSUME NEW S, NEW T, S \subseteq T, NEW s \in Seq(S)
  PROVE  s \in Seq(T)
  OBVIOUS

\* Items and lists of them.
LEMMA KnownGrows ==
  ASSUME NEW rs, NEW rt, Exists(rs) \subseteq Exists(rt)
  PROVE  Known(rs) \subseteq Known(rt) /\ Lists(rs) \subseteq Lists(rt)
<1>1. Known(rs) \subseteq Known(rt)
  BY DEF Known
<1>2. ASSUME NEW l \in Lists(rs)
      PROVE  l \in Lists(rt)
  BY <1>1, SeqGrows DEF Lists
<1> QED BY <1>1, <1>2

\* What a request names.
LEMMA RequestsGrow ==
  ASSUME NEW rs, NEW rt, Exists(rs) \subseteq Exists(rt)
  PROVE  Requests(rs) \subseteq Requests(rt)
<1>1. ASSUME NEW ids \in Seq(Exists(rs))
      PROVE  ids \in Seq(Exists(rt))
  BY SeqGrows
<1>2. [kind : {"reorder"}, ids : Seq(Exists(rs))]
        \subseteq [kind : {"reorder"}, ids : Seq(Exists(rt))]
  BY <1>1
<1>3. [kind : {"rename"}, id : Exists(rs), title : Titles]
        \subseteq [kind : {"rename"}, id : Exists(rt), title : Titles]
  OBVIOUS
<1>4. [kind : {"switch"}, id : Exists(rs), on : BOOLEAN]
        \subseteq [kind : {"switch"}, id : Exists(rt), on : BOOLEAN]
  OBVIOUS
<1> QED BY <1>2, <1>3, <1>4 DEF Requests

\* The orders have their bound, and it grows.
LEMMA OrderIsNatural ==
  ASSUME NEW rs \in Tables, NEW i \in Ids
  PROVE  rs[i].order \in 0 .. MaxRows
<1>1. rs[i] \in {NoRow} \union Rows /\ NoRow.order = 0
  BY DEF Tables, NoRow
<1> QED BY <1>1, DirectoryAssumption DEF Rows, Ids

LEMMA MoreRows ==
  ASSUME NEW rs, NEW rt, Exists(rs) \subseteq Exists(rt)
  PROVE  Cardinality(Exists(rs)) <= Cardinality(Exists(rt))
  BY ExistsFinite, FS_Subset

LEMMA OrdersGrow ==
  ASSUME NEW rs, NEW rt, Exists(rs) \subseteq Exists(rt), NEW seen \in Tables, OrdersFit(rs, seen)
  PROVE  OrdersFit(rt, seen)
<1>1. /\ Cardinality(Exists(rs)) <= Cardinality(Exists(rt))
      /\ Cardinality(Exists(rs)) \in Int /\ Cardinality(Exists(rt)) \in Int
  BY MoreRows, ExistsFinite, DirectoryAssumption
<1>2. \A i \in Ids : seen[i].order \in Int
  BY OrderIsNatural, DirectoryAssumption
<1> QED BY <1>1, <1>2 DEF OrdersFit

\* A request, and all of them.
LEMMA CallGrows ==
  ASSUME NEW rs, NEW rt, Exists(rs) \subseteq Exists(rt), NEW call, CallFits(rs, call)
  PROVE  CallFits(rt, call)
<1>1. /\ Known(rs) \subseteq Known(rt) /\ Lists(rs) \subseteq Lists(rt)
      /\ Requests(rs) \subseteq Requests(rt)
  BY KnownGrows, RequestsGrow
<1>2. call \in InFlight(rt)
  BY <1>1 DEF CallFits, InFlight
<1>3. call.answer # None => call.answer \in Answers(rt, call)
  BY <1>1 DEF CallFits, Answers
<1>4. OrdersFit(rt, call.seen)
  BY OrdersGrow DEF CallFits, InFlight
<1> QED BY <1>1, <1>2, <1>3, <1>4 DEF CallFits

LEMMA CallsGrow ==
  ASSUME NEW rs, NEW rt, Exists(rs) \subseteq Exists(rt), NEW cs, CallsFit(rs, cs)
  PROVE  CallsFit(rt, cs)
<1>1. ASSUME NEW c \in Calls
      PROVE  CallFits(rt, cs[c])
  BY CallGrows DEF CallsFit
<1>2. cs \in [Calls -> InFlight(rt)]
  BY <1>1 DEF CallsFit, CallFits
<1> QED BY <1>1, <1>2 DEF CallsFit

\* The cached list.
LEMMA CardGrows ==
  ASSUME NEW rs, NEW rt, Exists(rs) \subseteq Exists(rt), NEW l, CardFits(rs, l)
  PROVE  CardFits(rt, l)
  BY KnownGrows DEF CardFits, Cards

-----------------------------------------------------------------------------
(* The requests. *)

\* A session that has read nothing.
LEMMA NothingSeenFits ==
  ASSUME NEW rs
  PROVE  NothingSeen \in Tables /\ Exists(NothingSeen) = {} /\ OrdersFit(rs, NothingSeen)
<1>1. NothingSeen \in Tables /\ \A i \in Ids : NothingSeen[i].order = 0
  BY DEF NothingSeen, Tables, NoRow
<1>2. Cardinality(Exists(rs)) \in 0 .. MaxRows
  BY ExistsFinite
<1> QED BY <1>1, <1>2, DirectoryAssumption DEF Exists, OrdersFit

LEMMA NoCallFits == ASSUME NEW rs PROVE CallFits(rs, NoCall)
<1>1. NoCall \in InFlight(rs)
  BY NothingSeenFits DEF NoCall, InFlight, Stages
<1>2. /\ NoCall.stage = "none" /\ NoCall.answer = None /\ NoCall.seen = NothingSeen
  BY DEF NoCall
<1> QED BY <1>1, <1>2, NothingSeenFits DEF CallFits, Passed

\* One request changes.
LEMMA CallChanges ==
  ASSUME NEW rs, NEW cs, CallsFit(rs, cs), NEW c \in Calls, NEW call, CallFits(rs, call)
  PROVE  CallsFit(rs, [cs EXCEPT ![c] = call])
<1> PICK new : new = [cs EXCEPT ![c] = call]
  OBVIOUS
<1>1. cs \in [Calls -> InFlight(rs)] /\ call \in InFlight(rs)
  BY DEF CallsFit, CallFits
<1>2. new \in [Calls -> InFlight(rs)]
  BY <1>1
<1>3. new[c] = call /\ \A d \in Calls : d # c => new[d] = cs[d]
  BY <1>1
<1>4. CallsFit(rs, new)
  BY <1>2, <1>3 DEF CallsFit
<1> QED BY <1>4

\* A request gets an answer of its kind, or is refused.
LEMMA AnsweredFits ==
  ASSUME NEW rs, NEW call, CallFits(rs, call), call.stage # "none", NEW answer,
         answer = None \/ answer \in Answers(rs, call)
  PROVE  CallFits(rs, Answered(call, answer))
<1> PICK new : new = Answered(call, answer)
  OBVIOUS
<1>1. call \in InFlight(rs) /\ call.ask \in Requests(rs)
  BY DEF CallFits
<1>2. /\ new.stage = "answered" /\ new.answer = answer /\ new.seen = NothingSeen
      /\ new.ask = call.ask
  BY <1>1 DEF Answered, InFlight
<1>3. answer \in Known(rs) \union Lists(rs) \union {None}
  BY DEF Answers
<1>4. new \in InFlight(rs)
  BY <1>1, <1>3, NothingSeenFits DEF Answered, InFlight, Stages
<1>5. new.answer # None => new.answer \in Answers(rs, new)
  BY <1>2 DEF Answers
<1>6. CallFits(rs, new)
  BY <1>1, <1>2, <1>4, <1>5, NothingSeenFits DEF CallFits, Passed
<1> QED BY <1>6

LEMMA RefusedFits ==
  ASSUME NEW rs, NEW call, CallFits(rs, call), call.stage # "none"
  PROVE  CallFits(rs, Refused(call))
  BY AnsweredFits DEF Refused

\* A request that was just made.
LEMMA SentFits ==
  ASSUME NEW rs, NEW ask \in Requests(rs), NEW own \in BOOLEAN,
         NEW previous \in Lists(rs) \union {None}
  PROVE  CallFits(rs, [NoCall EXCEPT !.stage = "sent", !.ask = ask, !.own = own,
                                     !.previous = previous])
<1> PICK new : new = [NoCall EXCEPT !.stage = "sent", !.ask = ask, !.own = own,
                                    !.previous = previous]
  OBVIOUS
<1>1. /\ new.stage = "sent" /\ new.ask = ask /\ new.seen = NothingSeen /\ new.answer = None
  BY DEF NoCall
<1>2. new \in InFlight(rs)
  BY NothingSeenFits DEF NoCall, InFlight, Stages
<1>3. CallFits(rs, new)
  BY <1>1, <1>2, NothingSeenFits DEF CallFits, Passed
<1> QED BY <1>3

-----------------------------------------------------------------------------
(* The list. *)

\* What is said of a row is what the table or the session holds.
LEMMA ItemKnown ==
  ASSUME NEW rs, NEW seen \in Tables, NEW i \in Exists(seen), i \in Exists(rs)
  PROVE  Item(seen, i) \in Known(rs)
<1>1. seen[i] \in Rows
  BY RowThere, ExistsFinite
<1> QED BY <1>1 DEF Item, Known, Rows

\* A list read from the table holds only rows that are there.
LEMMA ListAllKnown ==
  ASSUME rows \in Tables, NEW seen \in Tables
  PROVE  ListAll(seen) \in Lists(rows)
<1> DEFINE n == Cardinality(Exists(rows))
           At(k) == Item(IF Order(rows)[k] \in Exists(seen) THEN seen ELSE rows, Order(rows)[k])
<1>1. n \in Nat /\ DOMAIN Order(rows) = 1 .. n
  BY ExistsFinite, OrderIsList
<1>2. ASSUME NEW k \in 1 .. n
      PROVE  At(k) \in Known(rows)
  <2>1. Order(rows)[k] \in Exists(rows)
    BY OrderRanks
  <2> QED BY <2>1, ItemKnown
<1>3. ListAll(seen) = [k \in 1 .. n |-> At(k)]
  BY <1>1 DEF ListAll
<1> HIDE DEF n, At
<1> QED BY <1>1, <1>2, <1>3 DEF Lists

LEMMA TruthKnown == ASSUME rows \in Tables PROVE Truth \in Lists(rows)
  BY ListAllKnown, NothingSeenFits DEF Truth

\* The operators of the cache keep the list well typed.
LEMMA JoinedFits ==
  ASSUME NEW rs, NEW l, CardFits(rs, l)
  PROVE  CardFits(rs, Fetching(l)) /\ CardFits(rs, Joined(l))
  BY DEF CardFits, Cards, Joined, Fetching

LEMMA WrittenFits ==
  ASSUME NEW rs, NEW l, CardFits(rs, l), NEW items \in Lists(rs) \union {None}
  PROVE  CardFits(rs, Written(l, items))
  BY DEF CardFits, Cards, Written

LEMMA RefreshFits ==
  ASSUME NEW rs, NEW l, CardFits(rs, l)
  PROVE  CardFits(rs, Refresh(l))
<1> PICK marked : marked = [l EXCEPT !.invalid = TRUE]
  OBVIOUS
<1>1. CardFits(rs, marked)
  BY DEF CardFits, Cards
<1>2. CardFits(rs, Joined(marked)) /\ CardFits(rs, Fetching(marked))
  BY <1>1, JoinedFits
<1>3. Refresh(l) \in {marked, Joined(marked), Fetching(marked)}
  BY DEF Refresh
<1> QED BY <1>1, <1>2, <1>3

\* Two neighbours change places.
LEMMA MoveIdKeeps ==
  ASSUME NEW S, NEW s \in Seq(S), NEW k \in DOMAIN s, NEW delta \in {-1, 1},
         k + delta \in DOMAIN s
  PROVE  MoveId(s, k, delta) \in Seq(S)
  BY DEF MoveId

\* The ids of a list of known items.
LEMMA IdsKnown ==
  ASSUME NEW rs, NEW l \in Lists(rs)
  PROVE  /\ IdsOf(l) \in Seq(Exists(rs)) /\ DOMAIN IdsOf(l) = DOMAIN l
         /\ \A k \in DOMAIN l : l[k].id \in Exists(rs) /\ l[k].on \in BOOLEAN
<1>1. l \in Seq(Known(rs))
  BY DEF Lists
<1>2. \A k \in DOMAIN l : l[k] \in Known(rs)
  BY <1>1
<1>3. \A k \in DOMAIN l : l[k].id \in Exists(rs) /\ l[k].on \in BOOLEAN
  BY <1>2 DEF Known
<1>4. IdsOf(l) = [k \in 1 .. Len(l) |-> l[k].id] /\ DOMAIN l = 1 .. Len(l) /\ Len(l) \in Nat
  BY <1>1 DEF IdsOf
<1> QED BY <1>3, <1>4

\* The row that was answered for is replaced in the list.
LEMMA ReplacedKnown ==
  ASSUME NEW rs, NEW l \in Lists(rs), NEW item \in Known(rs)
  PROVE  [k \in DOMAIN l |-> IF l[k].id = item.id THEN item ELSE l[k]] \in Lists(rs)
<1> DEFINE At(k) == IF l[k].id = item.id THEN item ELSE l[k]
<1>1. DOMAIN l = 1 .. Len(l) /\ Len(l) \in Nat
  BY DEF Lists
<1>2. \A k \in 1 .. Len(l) : l[k] \in Known(rs)
  BY DEF Lists
<1>3. \A k \in 1 .. Len(l) : At(k) \in Known(rs)
  BY <1>2
<1> HIDE DEF At
<1>4. [k \in 1 .. Len(l) |-> At(k)] \in Seq(Known(rs))
  BY <1>1, <1>3
<1> QED BY <1>1, <1>4 DEF At, Lists

-----------------------------------------------------------------------------
(* The changes of the table. *)

\* One row is written.
LEMMA RowWritten ==
  ASSUME NEW rs \in Tables, NEW i \in Ids, NEW row \in Rows,
         NEW rt \in Tables, rt[i] = row, \A j \in Ids : j # i => rt[j] = rs[j]
  PROVE  /\ Exists(rt) = Exists(rs) \union {i}
         /\ Offered(rt) = IF row.on THEN Offered(rs) \union {i} ELSE Offered(rs) \ {i}
<1>2. rt[i] = row /\ \A j \in Ids : j # i => rt[j] = rs[j]
  OBVIOUS
<1>3. row.order > 0 /\ row.on \in BOOLEAN
  BY DEF Rows, Ids
<1>4. Exists(rt) = Exists(rs) \union {i}
  BY <1>2, <1>3 DEF Exists
<1>5. \A j \in Ids : j \in Offered(rt) <=> IF j = i THEN row.on ELSE j \in Offered(rs)
  <2> SUFFICES ASSUME NEW j \in Ids
               PROVE  j \in Offered(rt) <=> IF j = i THEN row.on ELSE j \in Offered(rs)
    OBVIOUS
  <2>1. CASE j = i
    BY <2>1, <1>2, <1>4 DEF Offered
  <2>2. CASE j # i
    BY <2>2, <1>2, <1>4 DEF Offered
  <2> QED BY <2>1, <2>2
<1>6. Offered(rt) \subseteq Ids /\ Offered(rs) \subseteq Ids
  BY DEF Offered, Exists
<1>7. CASE row.on
  BY <1>5, <1>6, <1>7
<1>8. CASE ~row.on
  BY <1>5, <1>6, <1>8
<1> QED BY <1>4, <1>7, <1>8

\* A reorder names every row it has seen once, so a position belongs to one row.
LEMMA SameIdsOnce ==
  ASSUME NEW rs, NEW ids, ids \in Seq(Ids), SameIds(ids, rs)
  PROVE  /\ ids \in [1 .. Cardinality(Exists(rs)) -> Exists(rs)]
         /\ \A j, k \in 1 .. Cardinality(Exists(rs)) : ids[j] = ids[k] => j = k
         /\ \A i \in Exists(rs) : \E k \in 1 .. Cardinality(Exists(rs)) : ids[k] = i
<1> DEFINE n == Cardinality(Exists(rs))
<1>1. n \in Nat /\ IsFiniteSet(Exists(rs))
  BY ExistsFinite
<1>2. Len(ids) = n /\ DOMAIN ids = 1 .. n /\ ids \in [1 .. n -> Ids]
  BY DEF SameIds
<1>3. \A i : i \in Exists(rs) <=> \E k \in 1 .. n : ids[k] = i
  BY <1>2 DEF SameIds, ToSet
<1>4. ids \in [1 .. n -> Exists(rs)]
  BY <1>2, <1>3
<1>5. ids \in Surjection(1 .. n, Exists(rs))
  BY <1>3, <1>4 DEF Surjection
<1>6. IsFiniteSet(1 .. n) /\ Cardinality(1 .. n) = n
  <2> HIDE DEF n
  <2>1. n \in Int /\ 1 \in Int
    BY <1>1
  <2>2. IsFiniteSet(1 .. n) /\ Cardinality(1 .. n) = IF 1 > n THEN 0 ELSE n - 1 + 1
    BY <2>1, FS_Interval
  <2> QED BY <1>1, <2>2
<1>7. ids \in Injection(1 .. n, Exists(rs))
  BY <1>5, <1>6, FS_SurjSameCardinalityImpliesInj
<1>8. \A j, k \in 1 .. n : ids[j] = ids[k] => j = k
  BY <1>7 DEF Injection, IsInjective
<1> QED BY <1>3, <1>4, <1>8

\* Each row that is named has one position, and each position one row.
LEMMA PositionIs ==
  ASSUME NEW rs, NEW ids, ids \in Seq(Ids), SameIds(ids, rs)
  PROVE  /\ \A i \in Exists(rs) : /\ Position(ids, i) \in 1 .. Cardinality(Exists(rs))
                                  /\ ids[Position(ids, i)] = i
         /\ \A k \in 1 .. Cardinality(Exists(rs)) : Position(ids, ids[k]) = k
<1> DEFINE places == 1 .. Cardinality(Exists(rs))
<1>1. DOMAIN ids = places
  BY SameIdsOnce
<1>2. ASSUME NEW i \in Exists(rs)
      PROVE  Position(ids, i) \in places /\ ids[Position(ids, i)] = i
  <2>1. \E k \in places : ids[k] = i
    BY SameIdsOnce
  <2> QED BY <1>1, <2>1 DEF Position
<1>3. ASSUME NEW k \in places
      PROVE  Position(ids, ids[k]) = k
  <2>1. ids[k] \in Exists(rs)
    <3>1. ids \in [places -> Exists(rs)]
      BY SameIdsOnce
    <3> QED BY <3>1
  <2>2. Position(ids, ids[k]) \in places /\ ids[Position(ids, ids[k])] = ids[k]
    BY <1>2, <2>1
  <2> QED BY <2>2, SameIdsOnce
<1> QED BY <1>2, <1>3

\* The table after a reorder; only the order of rows that were seen has changed.
Renumbered(rs, seen, ids) ==
    [i \in Ids |-> IF i \in {j \in ToSet(ids) : Position(ids, j) # seen[j].order}
                   THEN [rs[i] EXCEPT !.order = Position(ids, i)] ELSE rs[i]]

\* Row by row: those that moved have their new position, the others are as they were.
LEMMA RenumberedRows ==
  ASSUME NEW rs \in Tables, NEW seen \in Tables, Exists(seen) \subseteq Exists(rs),
         NEW ids \in Seq(Ids), SameIds(ids, seen), NEW i \in Ids
  PROVE  LET new == Renumbered(rs, seen, ids)[i]
         IN  /\ i \in Exists(seen) /\ Position(ids, i) # seen[i].order
                   => /\ new \in Rows /\ rs[i] \in Rows
                      /\ new.on = rs[i].on /\ new.order = Position(ids, i)
             /\ ~(i \in Exists(seen) /\ Position(ids, i) # seen[i].order) => new = rs[i]
<1> DEFINE new == Renumbered(rs, seen, ids)[i]
<1>1. ToSet(ids) = Exists(seen)
  BY DEF SameIds
<1>2. new = IF i \in Exists(seen) /\ Position(ids, i) # seen[i].order
            THEN [rs[i] EXCEPT !.order = Position(ids, i)] ELSE rs[i]
  BY <1>1 DEF Renumbered
<1>3. ASSUME i \in Exists(seen), Position(ids, i) # seen[i].order
      PROVE  /\ new \in Rows /\ rs[i] \in Rows
             /\ new.on = rs[i].on /\ new.order = Position(ids, i)
  <2>1. rs[i] \in Rows
    BY <1>3, RowThere
  <2>2. Position(ids, i) \in Ids
    <3>1. Position(ids, i) \in 1 .. Cardinality(Exists(seen))
      BY <1>3, PositionIs
    <3> QED BY <3>1, ExistsFinite, DirectoryAssumption DEF Ids
  <2>3. new = [rs[i] EXCEPT !.order = Position(ids, i)]
    BY <1>2, <1>3
  <2> HIDE DEF new
  <2> QED BY <2>1, <2>2, <2>3 DEF Rows
<1>4. ~(i \in Exists(seen) /\ Position(ids, i) # seen[i].order) => new = rs[i]
  BY <1>2
<1> HIDE DEF new
<1>5. QED BY <1>3, <1>4 DEF new

\* A reorder neither adds, removes nor switches a category.
LEMMA RenumberedFits ==
  ASSUME NEW rs, TableFits(rs), NEW seen \in Tables, Exists(seen) \subseteq Exists(rs),
         NEW ids \in Seq(Ids), SameIds(ids, seen), NEW rt, rt = Renumbered(rs, seen, ids)
  PROVE  TableFits(rt) /\ Exists(rt) = Exists(rs) /\ Offered(rt) = Offered(rs)
<1>1. rs \in Tables /\ OrdersFit(rs, rs)
  BY DEF TableFits
<1>2. ASSUME NEW i \in Ids
      PROVE  /\ rt[i] \in {NoRow} \union Rows
             /\ rt[i] \in Rows <=> rs[i] \in Rows
             /\ rt[i] \in Rows => rt[i].on = rs[i].on
             /\ \/ rt[i].order = rs[i].order
                \/ i \in Exists(seen) /\ rt[i].order = Position(ids, i)
  <2>1. rs[i] \in {NoRow} \union Rows
    BY <1>1 DEF Tables
  <2> QED BY <1>1, <2>1, RenumberedRows
<1>3. rt \in Tables
  <2>1. rt = [i \in Ids |-> rt[i]]
    BY DEF Renumbered
  <2> QED BY <1>2, <2>1 DEF Tables
<1>4. Exists(rt) = Exists(rs)
  <2>1. \A i \in Ids : i \in Exists(rt) <=> i \in Exists(rs)
    BY <1>1, <1>2, <1>3, RowThere
  <2> QED BY <2>1, ExistsFinite
<1>5. Offered(rt) = Offered(rs)
  <2>1. \A i \in Exists(rs) : rt[i].on = rs[i].on
    BY <1>1, <1>2, RowThere, ExistsFinite
  <2> QED BY <1>4, <2>1 DEF Offered
<1>6. OrdersFit(rt, rt)
  <2> SUFFICES ASSUME NEW i \in Ids
               PROVE  rt[i].order <= Cardinality(Exists(rs))
    BY <1>4 DEF OrdersFit
  <2>1. rs[i].order <= Cardinality(Exists(rs))
    BY <1>1 DEF OrdersFit
  <2>2. ASSUME i \in Exists(seen)
        PROVE  Position(ids, i) <= Cardinality(Exists(rs))
    <3>1. Position(ids, i) \in 1 .. Cardinality(Exists(seen))
      BY <2>2, PositionIs
    <3>2. /\ Cardinality(Exists(seen)) <= Cardinality(Exists(rs))
          /\ Cardinality(Exists(seen)) \in Nat /\ Cardinality(Exists(rs)) \in Nat
      BY MoreRows, ExistsFinite
    <3> QED BY <3>1, <3>2
  <2> QED BY <2>1, <2>2, <1>2
<1> QED BY <1>3, <1>4, <1>5, <1>6 DEF TableFits

\* A reorder that has seen the orders its rows have leaves each at its position.
LEMMA RenumberedInOrder ==
  ASSUME NEW rs, TableFits(rs), NEW seen \in Tables, Exists(seen) \subseteq Exists(rs),
         \A i \in Exists(seen) : rs[i].order = seen[i].order,
         NEW ids \in Seq(Ids), SameIds(ids, seen), NEW rt, rt = Renumbered(rs, seen, ids),
         NEW k \in DOMAIN ids
  PROVE  ids[k] \in Exists(seen) /\ rt[ids[k]].order = k
<1>1. k \in 1 .. Cardinality(Exists(seen)) /\ ids[k] \in Exists(seen) /\ ids[k] \in Ids
  <2>1. ids \in [1 .. Cardinality(Exists(seen)) -> Exists(seen)]
    BY SameIdsOnce
  <2> QED BY <2>1, ExistsFinite
<1>2. Position(ids, ids[k]) = k
  BY <1>1, PositionIs
<1>3. rs \in Tables
  BY DEF TableFits
<1>4. rt[ids[k]].order = Position(ids, ids[k])
  BY <1>1, <1>3, RenumberedRows
<1> QED BY <1>1, <1>2, <1>4

\* Where it has seen all the rows, the order is the one that was asked for.
LEMMA RenumberedIsAsked ==
  ASSUME NEW rs, TableFits(rs), NEW seen \in Tables, Exists(rs) = Exists(seen),
         \A i \in Exists(seen) : rs[i].order = seen[i].order,
         NEW ids \in Seq(Ids), SameIds(ids, seen), NEW rt, rt = Renumbered(rs, seen, ids)
  PROVE  Order(rt) = ids
<1> DEFINE n == Cardinality(Exists(rs))
<1>1. Exists(rs) = Exists(seen)
  OBVIOUS
<1>2. TableFits(rt) /\ Exists(rt) = Exists(rs)
  BY <1>1, RenumberedFits
<1>3. rt \in Tables /\ rs \in Tables
  BY <1>2 DEF TableFits
<1>4. /\ ids \in [1 .. n -> Exists(rs)] /\ n \in Nat
      /\ \A j, k \in 1 .. n : ids[j] = ids[k] => j = k
      /\ \A i \in Exists(rs) : \E k \in 1 .. n : ids[k] = i
  BY <1>1, SameIdsOnce, ExistsFinite
<1>5. ASSUME NEW k \in 1 .. n
      PROVE  rt[ids[k]].order = k
  <2>1. Exists(seen) \subseteq Exists(rs)
    OBVIOUS
  <2>2. ASSUME NEW l \in DOMAIN ids
        PROVE  rt[ids[l]].order = l
    <3> HIDE DEF n
    <3> QED BY <2>1, RenumberedInOrder
  <2>3. DOMAIN ids = 1 .. n
    BY <1>4
  <2> QED BY <2>2, <2>3
<1>6. ASSUME NEW k \in 1 .. n
      PROVE  Cardinality(Above(rt, ids[k])) = k - 1
  <2> DEFINE first == [l \in 1 .. k - 1 |-> ids[l]]
  <2>1. ASSUME NEW l \in 1 .. n
        PROVE  ids[l] \in Above(rt, ids[k]) <=> l < k
    <3>1. rt[ids[l]].order = l /\ rt[ids[k]].order = k /\ ids[l] \in Exists(rt)
      BY <1>2, <1>4, <1>5
    <3>2. Before(rt, ids[l], ids[k]) <=> l < k
      <4>1. CASE l = k
        <5>1. ids[l] \in Int
          BY <1>4, ExistsFinite, DirectoryAssumption DEF Ids
        <5> QED BY <4>1, <5>1, <3>1 DEF Before
      <4>2. CASE l # k
        BY <4>2, <3>1 DEF Before
      <4> QED BY <4>1, <4>2
    <3> QED BY <3>1, <3>2 DEF Above
  <2>2. Above(rt, ids[k]) \subseteq Exists(rs)
    BY <1>2 DEF Above
  <2>3. \A i \in Above(rt, ids[k]) : \E l \in 1 .. k - 1 : first[l] = i
    <3> SUFFICES ASSUME NEW i \in Above(rt, ids[k])
                 PROVE  \E l \in 1 .. k - 1 : ids[l] = i
      OBVIOUS
    <3>1. PICK l \in 1 .. n : ids[l] = i
      BY <1>4, <2>2
    <3>2. l \in 1 .. k - 1
      BY <2>1, <3>1, <1>4
    <3> QED BY <3>1, <3>2
  <2>4. first \in [1 .. k - 1 -> Above(rt, ids[k])]
    BY <2>1, <1>4
  <2>5. \A j, l \in 1 .. k - 1 : first[j] = first[l] => j = l
    BY <1>4
  <2> HIDE DEF first
  <2>6. first \in Bijection(1 .. k - 1, Above(rt, ids[k]))
    BY <2>3, <2>4, <2>5 DEF Bijection, Injection, Surjection, IsInjective
  <2>7. ExistsBijection(1 .. k - 1, Above(rt, ids[k])) /\ k - 1 \in Nat
    BY <2>6, <1>4 DEF ExistsBijection
  <2> QED BY <2>7, FS_CountingElements
<1> QED
  <2>1. ids \in [1 .. Cardinality(Exists(rt)) -> Exists(rt)]
    BY <1>2, <1>4
  <2>2. \A k \in 1 .. Cardinality(Exists(rt)) : Cardinality(Above(rt, ids[k])) = k - 1
    BY <1>2, <1>6
  <2> QED BY <1>3, <2>1, <2>2, OrderIsOnly

-----------------------------------------------------------------------------
(* The steps of the server. *)

\* A step that reads, and one that commits, keep what is known of all requests.
LEMMA ReadsFits ==
  ASSUME Fits, NEW c \in Calls, NEW call, CallFits(rows, call), Reads(c, call)
  PROVE  Fits'
<1>1. CallsFit(rows, [calls EXCEPT ![c] = call])
  BY CallChanges DEF Fits
<1> QED BY <1>1 DEF Fits, Reads

LEMMA StoresFits ==
  ASSUME Fits, NEW c \in Calls, NEW newRows, NEW call, Stores(c, newRows, call),
         TableFits(newRows), Exists(rows) \subseteq Exists(newRows), CallFits(newRows, call)
  PROVE  Fits'
<1>1. CallsFit(newRows, calls) /\ CardFits(newRows, list)
  BY CallsGrow, CardGrows DEF Fits
<1>2. CallsFit(newRows, [calls EXCEPT ![c] = call])
  BY <1>1, CallChanges
<1> QED BY <1>1, <1>2 DEF Fits, Stores

\* What a request in flight is known to hold.
LEMMA RequestIs ==
  ASSUME Fits, NEW c \in Calls, calls[c].stage # "none"
  PROVE  /\ CallFits(rows, calls[c]) /\ calls[c] \in InFlight(rows)
         /\ calls[c].ask \in Requests(rows) /\ rows \in Tables /\ TableFits(rows)
         /\ calls[c].seen \in Tables /\ Exists(calls[c].seen) \subseteq Exists(rows)
         /\ OrdersFit(rows, calls[c].seen) /\ Passed(calls[c])
<1>1. CallFits(rows, calls[c]) /\ TableFits(rows)
  BY DEF Fits, CallsFit
<1>2. calls[c].seen \in Tables
  BY <1>1 DEF CallFits, InFlight
<1> QED BY <1>1, <1>2 DEF CallFits, TableFits

\* What the kinds of requests carry.
LEMMA AskIs ==
  ASSUME NEW rs, NEW ask \in Requests(rs)
  PROVE  /\ ask.kind = "create" => ask.title \in Titles
         /\ ask.kind = "rename" => ask.id \in Exists(rs) /\ ask.title \in Titles
         /\ ask.kind = "switch" => ask.id \in Exists(rs) /\ ask.on \in BOOLEAN
         /\ ask.kind = "reorder" => ask.ids \in Seq(Exists(rs)) /\ ask.ids \in Seq(Ids)
<1>1. ASSUME NEW ids \in Seq(Exists(rs))
      PROVE  ids \in Seq(Ids)
  BY ExistsFinite, SeqGrows
<1> QED BY <1>1 DEF Requests

\* A creation is refused, or the next row gets an enabled category, whose order is at most
\* one more than there were rows.
LEMMA InsertIs ==
  ASSUME Fits, NEW c \in Calls, Insert(c)
  PROVE  \/ Reads(c, Refused(calls[c]))
         \/ \E i \in Ids, row \in Rows :
               /\ i \notin Exists(rows)
               /\ row.on /\ row.order <= Cardinality(Exists(rows)) + 1
               /\ Stores(c, [rows EXCEPT ![i] = row],
                         Answered(calls[c], Item([rows EXCEPT ![i] = row], i)))
<1> DEFINE call == calls[c]
           new == [order |-> MaxOrder(call.seen) + 1, title |-> call.ask.title, on |-> TRUE]
<1>1. call.stage = "checked" /\ call.ask.kind = "create"
  BY DEF Insert, Asks
<1>2. call.seen \in Tables /\ OrdersFit(rows, call.seen) /\ call.ask \in Requests(rows)
  BY <1>1, RequestIs
<1>3. call.ask.title \in Titles
  BY <1>1, <1>2, AskIs
<1>4. /\ MaxOrder(call.seen) \in 0 .. MaxRows
      /\ MaxOrder(call.seen) <= Cardinality(Exists(rows))
  <2>1. /\ MaxOrder(call.seen) \in 0 .. MaxRows
        /\ MaxOrder(call.seen) = 0
             \/ \E i \in Exists(call.seen) : call.seen[i].order = MaxOrder(call.seen)
    BY <1>2, LargestOrder
  <2>2. \A i \in Exists(call.seen) : call.seen[i].order <= Cardinality(Exists(rows))
    BY <1>2, ExistsFinite DEF OrdersFit
  <2>3. Cardinality(Exists(rows)) \in Nat
    BY ExistsFinite
  <2> QED BY <2>1, <2>2, <2>3
<1>5. ASSUME NEW i \in Ids, i \notin Exists(rows)
      PROVE  new \in Rows /\ new.order <= Cardinality(Exists(rows)) + 1
  <2>1. Cardinality(Exists(rows)) \in 0 .. MaxRows - 1
    <3>1. IsFiniteSet(Ids) /\ Cardinality(Ids) = MaxRows
      BY FS_Interval, DirectoryAssumption DEF Ids
    <3>2. IsFiniteSet(Ids \ {i}) /\ Cardinality(Ids \ {i}) = MaxRows - 1
      BY <3>1, FS_RemoveElement
    <3>3. Exists(rows) \subseteq Ids \ {i}
      BY <1>5, ExistsFinite
    <3>4. Cardinality(Exists(rows)) <= MaxRows - 1 /\ Cardinality(Exists(rows)) \in Nat
      BY <3>2, <3>3, FS_Subset, ExistsFinite
    <3> QED BY <3>4, DirectoryAssumption
  <2>2. MaxOrder(call.seen) + 1 \in Ids
    BY <1>4, <2>1, DirectoryAssumption DEF Ids
  <2>3. MaxOrder(call.seen) + 1 <= Cardinality(Exists(rows)) + 1
    BY <1>4, <2>1, DirectoryAssumption
  <2> QED BY <1>3, <2>2, <2>3 DEF Rows
<1>6. \/ Reads(c, Refused(call))
      \/ \E i \in Ids : /\ i \notin Exists(rows)
                        /\ Stores(c, [rows EXCEPT ![i] = new],
                                  Answered(call, Item([rows EXCEPT ![i] = new], i)))
  BY DEF Insert, NextId
<1>7. new.on
  OBVIOUS
<1> HIDE DEF new, call
<1>8. QED BY <1>5, <1>6, <1>7 DEF call

LEMMA InsertFits ==
  ASSUME Fits, NEW c \in Calls, Insert(c)
  PROVE  Fits'
<1>1. calls[c].stage = "checked" /\ calls[c].ask.kind = "create"
  BY DEF Insert, Asks
<1>2. CallFits(rows, calls[c]) /\ TableFits(rows) /\ rows \in Tables
  BY <1>1, RequestIs
<1>3. CASE Reads(c, Refused(calls[c]))
  BY <1>1, <1>2, <1>3, RefusedFits, ReadsFits
<1>4. ASSUME NEW i \in Ids, i \notin Exists(rows), NEW row \in Rows,
             row.order <= Cardinality(Exists(rows)) + 1, NEW rt, rt = [rows EXCEPT ![i] = row],
             Stores(c, rt, Answered(calls[c], Item(rt, i)))
      PROVE  Fits'
  <2>1. rt \in Tables /\ rt[i] = row /\ \A j \in Ids : j # i => rt[j] = rows[j]
    BY <1>2, <1>4 DEF Tables
  <2>2. Exists(rt) = Exists(rows) \union {i}
    BY <1>2, <2>1, RowWritten
  <2>3. TableFits(rt)
    <3>1. Cardinality(Exists(rt)) = Cardinality(Exists(rows)) + 1
      BY <1>4, <2>2, ExistsFinite, FS_AddElement
    <3>2. Cardinality(Exists(rows)) \in Nat
      BY ExistsFinite
    <3>3. \A j \in Ids : rows[j].order \in Int /\ rows[j].order <= Cardinality(Exists(rows))
      BY <1>2, OrderIsNatural, DirectoryAssumption DEF TableFits, OrdersFit
    <3>4. \A j \in Ids : rt[j].order <= Cardinality(Exists(rt))
      BY <1>4, <2>1, <3>1, <3>2, <3>3
    <3> QED BY <2>1, <3>4 DEF TableFits, OrdersFit
  <2>4. CallFits(rt, calls[c])
    BY <1>2, <2>2, CallGrows
  <2>5. Item(rt, i) \in Answers(rt, calls[c])
    BY <1>1, <2>1, <2>2, ItemKnown DEF Answers
  <2>6. CallFits(rt, Answered(calls[c], Item(rt, i)))
    BY <1>1, <2>4, <2>5, AnsweredFits
  <2> QED BY <1>4, <2>2, <2>3, <2>6, StoresFits
<1> QED BY <1>3, <1>4, InsertIs

\* A change is refused, or one row gets another title, or is switched if the session saw
\* it the other way.
LEMMA UpdateIs ==
  ASSUME Fits, NEW c \in Calls, Update(c)
  PROVE  LET ask == calls[c].ask
         IN  \/ Reads(c, Refused(calls[c]))
             \/ /\ ask.id \in Exists(rows)
                /\ \E row \in Rows, item \in Known(rows) :
                      /\ row.order = rows[ask.id].order
                      /\ row.on = IF ask.kind = "switch" /\ ask.on # calls[c].seen[ask.id].on
                                  THEN ask.on ELSE rows[ask.id].on
                      /\ Stores(c, [rows EXCEPT ![ask.id] = row], Answered(calls[c], item))
<1> DEFINE call == calls[c]
           ask == call.ask
<1>1. call.stage = "checked" /\ ask.kind \in {"rename", "switch"}
  BY DEF Update, Asks
<1>2. /\ call.seen \in Tables /\ ask \in Requests(rows) /\ rows \in Tables
      /\ Exists(call.seen) \subseteq Exists(rows) /\ Passed(call)
  BY <1>1, RequestIs
<1>3. ask.id \in Exists(call.seen) /\ ask.id \in Exists(rows) /\ ask.id \in Ids
  BY <1>1, <1>2, ExistsFinite DEF Passed
<1>4. PICK seen : seen = call.seen[ask.id]
  OBVIOUS
<1>5. seen \in Rows /\ rows[ask.id] \in Rows
  BY <1>2, <1>3, <1>4, RowThere
<1>6. PICK asked : asked = IF ask.kind = "rename" THEN [seen EXCEPT !.title = ask.title]
                           ELSE [seen EXCEPT !.on = ask.on]
  OBVIOUS
<1>7. /\ ask.kind = "rename" => ask.title \in Titles
      /\ ask.kind = "switch" => ask.on \in BOOLEAN
  BY <1>2, AskIs
<1>8. asked \in Rows
  <2>1. CASE ask.kind = "rename"
    <3>1. asked = [seen EXCEPT !.title = ask.title]
      BY <2>1, <1>6
    <3> QED BY <3>1, <2>1, <1>5, <1>7 DEF Rows
  <2>2. CASE ask.kind = "switch"
    <3>1. asked = [seen EXCEPT !.on = ask.on]
      BY <2>2, <1>6
    <3> QED BY <3>1, <2>2, <1>5, <1>7 DEF Rows
  <2> QED BY <1>1, <2>1, <2>2
<1>9. asked.on = IF ask.kind = "switch" THEN ask.on ELSE seen.on
  BY <1>1, <1>5, <1>6 DEF Rows
<1>10. PICK title : title = IF asked.title # seen.title THEN asked.title ELSE rows[ask.id].title
  OBVIOUS
<1>11. PICK on : on = IF asked.on # seen.on THEN asked.on ELSE rows[ask.id].on
  OBVIOUS
<1>12. title \in Titles /\ on \in BOOLEAN
  BY <1>5, <1>8, <1>10, <1>11 DEF Rows
<1>13. PICK row : row = [rows[ask.id] EXCEPT !.title = title, !.on = on]
  OBVIOUS
<1>14. row \in Rows /\ row.order = rows[ask.id].order /\ row.on = on
  BY <1>5, <1>12, <1>13 DEF Rows
<1>15. on = IF ask.kind = "switch" /\ ask.on # seen.on THEN ask.on ELSE rows[ask.id].on
  BY <1>9, <1>11
<1>16. PICK item : item = Item([call.seen EXCEPT ![ask.id] = asked], ask.id)
  OBVIOUS
<1>17. item \in Known(rows)
  <2>1. ASSUME NEW st \in Tables, st[ask.id] = asked,
               \A j \in Ids : j # ask.id => st[j] = call.seen[j]
        PROVE  ask.id \in Exists(st)
    BY <1>2, <1>3, <1>8, <2>1, RowThere
  <2> PICK st : st = [call.seen EXCEPT ![ask.id] = asked]
    OBVIOUS
  <2>2. /\ st \in Tables /\ st[ask.id] = asked
        /\ \A j \in Ids : j # ask.id => st[j] = call.seen[j]
    BY <1>2, <1>3, <1>8 DEF Tables
  <2>3. item = Item(st, ask.id)
    BY <1>16
  <2> QED BY <1>3, <2>1, <2>2, <2>3, ItemKnown
<1>18. Reads(c, Refused(call)) \/ Stores(c, [rows EXCEPT ![ask.id] = row], Answered(call, item))
  <2> DEFINE asked0 == IF ask.kind = "rename"
                       THEN [call.seen[ask.id] EXCEPT !.title = ask.title]
                       ELSE [call.seen[ask.id] EXCEPT !.on = ask.on]
             title0 == IF asked0.title # call.seen[ask.id].title
                       THEN asked0.title ELSE rows[ask.id].title
             on0 == IF asked0.on # call.seen[ask.id].on THEN asked0.on ELSE rows[ask.id].on
             row0 == [rows[ask.id] EXCEPT !.title = title0, !.on = on0]
             item0 == Item([call.seen EXCEPT ![ask.id] = asked0], ask.id)
  <2>1. Reads(c, Refused(call)) \/ Stores(c, [rows EXCEPT ![ask.id] = row0], Answered(call, item0))
    BY DEF Update
  <2>2. asked = asked0
    BY <1>4, <1>6
  <2>3. row = row0
    <3>1. title = title0 /\ on = on0
      <4> HIDE DEF asked0
      <4> QED BY <1>4, <1>10, <1>11, <2>2
    <3> HIDE DEF title0, on0
    <3> QED BY <1>13, <3>1
  <2>4. item = item0
    BY <1>16, <2>2
  <2> HIDE DEF row0, item0
  <2> QED BY <2>1, <2>3, <2>4
<1> QED BY <1>3, <1>4, <1>14, <1>15, <1>17, <1>18

LEMMA UpdateFits ==
  ASSUME Fits, NEW c \in Calls, Update(c)
  PROVE  Fits'
<1> DEFINE i == calls[c].ask.id
<1>1. calls[c].stage = "checked" /\ calls[c].ask.kind \in {"rename", "switch"}
  BY DEF Update, Asks
<1>2. CallFits(rows, calls[c]) /\ TableFits(rows) /\ rows \in Tables
  BY <1>1, RequestIs
<1>3. CASE Reads(c, Refused(calls[c]))
  BY <1>1, <1>2, <1>3, RefusedFits, ReadsFits
<1>4. ASSUME i \in Exists(rows), NEW row \in Rows, row.order = rows[i].order,
             NEW item \in Known(rows), NEW rt, rt = [rows EXCEPT ![i] = row],
             Stores(c, rt, Answered(calls[c], item))
      PROVE  Fits'
  <2>1. i \in Ids
    BY <1>4, ExistsFinite
  <2>2. /\ rt \in Tables /\ Exists(rt) = Exists(rows)
        /\ rt[i] = row /\ \A j \in Ids : j # i => rt[j] = rows[j]
    <3> HIDE DEF i
    <3>1. rt \in Tables /\ rt[i] = row /\ \A j \in Ids : j # i => rt[j] = rows[j]
      BY <1>2, <1>4, <2>1 DEF Tables
    <3>2. Exists(rt) = Exists(rows) \union {i}
      BY <1>2, <2>1, <3>1, RowWritten
    <3> QED BY <1>4, <3>1, <3>2
  <2>3. TableFits(rt)
    BY <1>2, <1>4, <2>2 DEF TableFits, OrdersFit
  <2>4. CallFits(rt, calls[c]) /\ item \in Known(rt)
    BY <1>2, <2>2, CallGrows, KnownGrows
  <2>5. item \in Answers(rt, calls[c])
    BY <1>1, <2>4 DEF Answers
  <2>6. CallFits(rt, Answered(calls[c], item))
    BY <1>1, <2>4, <2>5, AnsweredFits
  <2> QED BY <1>4, <2>2, <2>3, <2>6, StoresFits
<1> HIDE DEF i
<1> QED BY <1>3, <1>4, UpdateIs DEF i

\* A reorder commits on the rows it has read, each named once.
LEMMA RenumberIs ==
  ASSUME Fits, NEW c \in Calls, Renumber(c)
  PROVE  /\ calls[c].stage = "checked" /\ calls[c].ask.kind = "reorder"
         /\ calls[c].ask.ids \in Seq(Ids) /\ SameIds(calls[c].ask.ids, calls[c].seen)
         /\ Stores(c, Renumbered(rows, calls[c].seen, calls[c].ask.ids),
                   [calls[c] EXCEPT !.stage = "stored"])
<1>1. calls[c].stage = "checked" /\ calls[c].ask.kind = "reorder"
  BY DEF Renumber, Asks
<1>2. calls[c].ask \in Requests(rows) /\ Passed(calls[c])
  BY <1>1, RequestIs
<1>3. calls[c].ask.ids \in Seq(Ids) /\ SameIds(calls[c].ask.ids, calls[c].seen)
  BY <1>1, <1>2, AskIs DEF Passed
<1>4. Stores(c, Renumbered(rows, calls[c].seen, calls[c].ask.ids),
             [calls[c] EXCEPT !.stage = "stored"])
  BY DEF Renumber, Renumbered
<1> QED BY <1>1, <1>3, <1>4

\* A request that only goes on, with nothing new known of it.
LEMMA StageFits ==
  ASSUME NEW rs, NEW call, CallFits(rs, call), call.stage # "none",
         NEW new \in InFlight(rs), new.stage # "none", new.ask = call.ask, new.answer = None,
         Exists(new.seen) \subseteq Exists(rs), OrdersFit(rs, new.seen), Passed(new)
  PROVE  CallFits(rs, new)
  BY DEF CallFits

\* A request that is not answered yet, with what RequestIs says of it.
LEMMA Unanswered ==
  ASSUME Fits, NEW c \in Calls, calls[c].stage \in {"sent", "loaded", "checked", "stored"}
  PROVE  calls[c].answer = None
  BY RequestIs DEF CallFits

LEMMA RenumberFits ==
  ASSUME Fits, NEW c \in Calls, Renumber(c)
  PROVE  Fits'
<1> DEFINE call == calls[c]
<1>1. /\ call.stage = "checked" /\ call.ask.kind = "reorder" /\ call.ask.ids \in Seq(Ids)
      /\ SameIds(call.ask.ids, call.seen)
  BY RenumberIs
<1>2. PICK rt, new : /\ rt = Renumbered(rows, call.seen, call.ask.ids)
                     /\ new = [call EXCEPT !.stage = "stored"]
  OBVIOUS
<1>3. Stores(c, rt, new)
  BY <1>2, RenumberIs
<1>4. /\ CallFits(rows, call) /\ call \in InFlight(rows) /\ TableFits(rows)
      /\ call.seen \in Tables /\ Exists(call.seen) \subseteq Exists(rows)
      /\ OrdersFit(rows, call.seen)
  BY <1>1, RequestIs
<1>5. TableFits(rt) /\ Exists(rt) = Exists(rows)
  BY <1>1, <1>2, <1>4, RenumberedFits
<1>6. CallFits(rows, new)
  <2>1. call.answer = None /\ call.count \in Nat
    BY <1>1, <1>4, Unanswered DEF InFlight
  <2>2. new \in InFlight(rows)
    BY <1>2, <1>4 DEF InFlight, Stages
  <2>3. /\ new.stage = "stored" /\ new.ask = call.ask /\ new.answer = call.answer
        /\ new.seen = call.seen
    BY <1>2, <1>4 DEF InFlight
  <2>4. Passed(new)
    BY <2>3 DEF Passed
  <2> HIDE DEF call
  <2> QED BY <1>1, <1>4, <2>1, <2>2, <2>3, <2>4, StageFits
<1>7. CallFits(rt, new)
  BY <1>5, <1>6, CallGrows
<1> QED BY <1>3, <1>5, <1>7, StoresFits

\* The steps that only read.  The active categories are a number.
LEMMA ActiveIsNatural == CountActive \in Nat
<1>1. Offered(rows) \subseteq Exists(rows)
  BY DEF Offered
<1> QED BY <1>1, ExistsFinite, FS_Subset, FS_CardinalityType DEF CountActive

LEMMA CountToCreateFits ==
  ASSUME Fits, NEW c \in Calls, CountToCreate(c)
  PROVE  Fits'
<1> DEFINE call == calls[c]
<1>1. call.stage = "sent" /\ call.ask.kind = "create"
  BY DEF CountToCreate, Asks
<1>2. /\ CallFits(rows, call) /\ call \in InFlight(rows) /\ call.answer = None
      /\ call.seen \in Tables /\ Exists(call.seen) \subseteq Exists(rows)
      /\ OrdersFit(rows, call.seen)
  BY <1>1, RequestIs, Unanswered
<1>3. PICK new : new = [call EXCEPT !.stage = "loaded", !.count = CountActive]
  OBVIOUS
<1>4. ASSUME CountActive < Limit
      PROVE  CallFits(rows, new)
  <2>1. /\ new.stage = "loaded" /\ new.count = CountActive /\ new.ask = call.ask
        /\ new.seen = call.seen /\ new.answer = None /\ new \in InFlight(rows)
    BY <1>2, <1>3, ActiveIsNatural DEF InFlight, Stages
  <2>2. Passed(new)
    BY <1>1, <1>4, <2>1 DEF Passed
  <2> HIDE DEF call
  <2> QED BY <1>1, <1>2, <2>1, <2>2, StageFits
<1>5. Reads(c, IF CountActive >= Limit THEN Refused(call) ELSE new)
  BY <1>3 DEF CountToCreate
<1>6. CASE CountActive >= Limit
  <2>1. Reads(c, Refused(call)) /\ CallFits(rows, Refused(call))
    BY <1>1, <1>2, <1>5, <1>6, RefusedFits
  <2> QED BY <2>1, ReadsFits
<1>7. CASE CountActive < Limit
  <2>1. Reads(c, new)
    BY <1>5, <1>7, ActiveIsNatural, DirectoryAssumption
  <2> QED BY <1>4, <1>7, <2>1, ReadsFits
<1> QED BY <1>6, <1>7, ActiveIsNatural, DirectoryAssumption

LEMMA ReadMaxOrderFits ==
  ASSUME Fits, NEW c \in Calls, ReadMaxOrder(c)
  PROVE  Fits'
<1> DEFINE call == calls[c]
<1>1. call.stage = "loaded" /\ call.ask.kind = "create"
  BY DEF ReadMaxOrder, Asks
<1>2. /\ CallFits(rows, call) /\ call \in InFlight(rows) /\ call.answer = None
      /\ rows \in Tables /\ OrdersFit(rows, rows) /\ Passed(call)
  BY <1>1, RequestIs, Unanswered DEF TableFits
<1>3. PICK new : new = [call EXCEPT !.stage = "checked", !.seen = rows]
  OBVIOUS
<1>4. /\ new.stage = "checked" /\ new.ask = call.ask /\ new.count = call.count
      /\ new.seen = rows /\ new.answer = None /\ new \in InFlight(rows)
  BY <1>2, <1>3 DEF InFlight, Stages
<1>5. Passed(new)
  BY <1>1, <1>2, <1>4 DEF Passed
<1>6. CallFits(rows, new)
  <2> HIDE DEF call
  <2> QED BY <1>1, <1>2, <1>4, <1>5, StageFits
<1> QED BY <1>3, <1>6, ReadsFits DEF ReadMaxOrder

LEMMA LoadOneFits ==
  ASSUME Fits, NEW c \in Calls, LoadOne(c)
  PROVE  Fits'
<1> DEFINE call == calls[c]
           i == call.ask.id
<1>1. call.stage = "sent" /\ call.ask.kind \in {"rename", "switch"}
  BY DEF LoadOne, Asks
<1>2. /\ CallFits(rows, call) /\ call \in InFlight(rows) /\ call.answer = None
      /\ rows \in Tables /\ OrdersFit(rows, rows) /\ call.ask \in Requests(rows)
      /\ call.seen \in Tables /\ Exists(call.seen) \subseteq Exists(rows)
      /\ OrdersFit(rows, call.seen)
  BY <1>1, RequestIs, Unanswered DEF TableFits
<1>3. i \in Exists(rows) /\ i \in Ids
  BY <1>1, <1>2, AskIs, ExistsFinite
<1>4. PICK seen : seen = [call.seen EXCEPT ![i] = rows[i]]
  OBVIOUS
<1>5. seen \in Tables /\ \A j \in Ids : seen[j] = IF j = i THEN rows[i] ELSE call.seen[j]
  BY <1>2, <1>3, <1>4 DEF Tables
<1>6. Exists(seen) \subseteq Exists(rows) /\ i \in Exists(seen) /\ OrdersFit(rows, seen)
  BY <1>2, <1>3, <1>5 DEF Exists, OrdersFit
<1>7. PICK new : new = [call EXCEPT !.stage = "loaded", !.seen = seen]
  OBVIOUS
<1>8. /\ new.stage = "loaded" /\ new.ask = call.ask /\ new.seen = seen
      /\ new.answer = None /\ new \in InFlight(rows)
  BY <1>2, <1>5, <1>7 DEF InFlight, Stages
<1>9. Passed(new)
  BY <1>1, <1>6, <1>8 DEF Passed
<1>10. CallFits(rows, new)
  <2> HIDE DEF call, i
  <2> QED BY <1>1, <1>2, <1>5, <1>6, <1>8, <1>9, StageFits
<1>11. Reads(c, new)
  <2>1. new = [call EXCEPT !.stage = "loaded", !.seen[i] = rows[i]]
    BY <1>2, <1>4, <1>7 DEF InFlight
  <2> QED BY <2>1 DEF LoadOne
<1> QED BY <1>10, <1>11, ReadsFits

LEMMA CheckUpdateFits ==
  ASSUME Fits, NEW c \in Calls, CheckUpdate(c)
  PROVE  Fits'
<1> DEFINE call == calls[c]
           ask == call.ask
           allowed == ask.kind = "switch" /\ ask.on # call.seen[ask.id].on
                         => IF ask.on THEN MayEnable ELSE MayDisable
<1>1. call.stage = "loaded" /\ ask.kind \in {"rename", "switch"}
  BY DEF CheckUpdate, Asks
<1>2. /\ CallFits(rows, call) /\ call \in InFlight(rows) /\ call.answer = None
      /\ call.seen \in Tables /\ Exists(call.seen) \subseteq Exists(rows)
      /\ OrdersFit(rows, call.seen) /\ Passed(call)
  BY <1>1, RequestIs, Unanswered
<1>3. PICK new : new = [call EXCEPT !.stage = "checked", !.count = CountActive]
  OBVIOUS
<1>4. ASSUME allowed
      PROVE  CallFits(rows, new)
  <2>1. /\ new.stage = "checked" /\ new.count = CountActive /\ new.ask = ask
        /\ new.seen = call.seen /\ new.answer = None /\ new \in InFlight(rows)
    BY <1>2, <1>3, ActiveIsNatural DEF InFlight, Stages
  <2>2. ask.id \in Exists(call.seen)
    BY <1>1, <1>2 DEF Passed
  <2>3. Passed(new)
    BY <1>1, <1>4, <2>1, <2>2 DEF Passed, MayEnable, MayDisable
  <2> HIDE DEF call
  <2> QED BY <1>1, <1>2, <2>1, <2>3, StageFits
<1>5. Reads(c, IF allowed THEN new ELSE Refused(call))
  BY <1>3 DEF CheckUpdate
<1> HIDE DEF allowed
<1>6. CASE allowed
  BY <1>4, <1>5, <1>6, ReadsFits
<1>7. CASE ~allowed
  <2>1. Reads(c, Refused(call)) /\ CallFits(rows, Refused(call))
    BY <1>1, <1>2, <1>5, <1>7, RefusedFits
  <2> QED BY <2>1, ReadsFits
<1> QED BY <1>6, <1>7

LEMMA LoadAllFits ==
  ASSUME Fits, NEW c \in Calls, LoadAll(c)
  PROVE  Fits'
<1> DEFINE call == calls[c]
<1>1. call.stage = "sent" /\ call.ask.kind = "reorder"
  BY DEF LoadAll, Asks
<1>2. /\ CallFits(rows, call) /\ call \in InFlight(rows) /\ call.answer = None
      /\ rows \in Tables /\ OrdersFit(rows, rows)
  BY <1>1, RequestIs, Unanswered DEF TableFits
<1>3. PICK new : new = [call EXCEPT !.stage = "checked", !.seen = rows]
  OBVIOUS
<1>4. /\ new.stage = "checked" /\ new.ask = call.ask /\ new.seen = rows
      /\ new.answer = None /\ new \in InFlight(rows)
  BY <1>2, <1>3 DEF InFlight, Stages
<1>5. Reads(c, IF SameIds(call.ask.ids, rows) THEN new ELSE Refused(call))
  BY <1>3 DEF LoadAll
<1>6. CASE SameIds(call.ask.ids, rows)
  <2>1. Passed(new)
    BY <1>1, <1>4, <1>6 DEF Passed
  <2>2. CallFits(rows, new)
    <3> HIDE DEF call
    <3> QED BY <1>1, <1>2, <1>4, <2>1, StageFits
  <2> QED BY <1>5, <1>6, <2>2, ReadsFits
<1>7. CASE ~SameIds(call.ask.ids, rows)
  <2>1. Reads(c, Refused(call)) /\ CallFits(rows, Refused(call))
    BY <1>1, <1>2, <1>5, <1>7, RefusedFits
  <2> QED BY <2>1, ReadsFits
<1> QED BY <1>6, <1>7

LEMMA AnswerOrderFits ==
  ASSUME Fits, NEW c \in Calls, AnswerOrder(c)
  PROVE  Fits'
<1>1. calls[c].stage = "stored" /\ calls[c].ask.kind = "reorder"
  BY DEF AnswerOrder, Asks
<1>2. CallFits(rows, calls[c]) /\ rows \in Tables /\ calls[c].seen \in Tables
  BY <1>1, RequestIs
<1>3. ListAll(calls[c].seen) \in Answers(rows, calls[c])
  BY <1>1, <1>2, ListAllKnown DEF Answers
<1>4. CallFits(rows, Answered(calls[c], ListAll(calls[c].seen)))
  BY <1>1, <1>2, <1>3, AnsweredFits
<1> QED BY <1>4, ReadsFits DEF AnswerOrder

-----------------------------------------------------------------------------
(* The steps of the card. *)

LEMMA SendFits ==
  ASSUME Fits, NEW c \in Calls, NEW ask \in Requests(rows), NEW own \in BOOLEAN,
         Send(c, ask, own), CardFits(rows, list')
  PROVE  Fits'
<1> PICK previous : previous = IF own /\ ask.kind = "reorder" THEN list.data ELSE None
  OBVIOUS
<1>1. previous \in Lists(rows) \union {None}
  BY DEF Fits, CardFits, Cards
<1> PICK new : new = [NoCall EXCEPT !.stage = "sent", !.ask = ask, !.own = own,
                                    !.previous = previous]
  OBVIOUS
<1>2. CallFits(rows, new)
  BY <1>1, SentFits
<1>3. calls' = [calls EXCEPT ![c] = new]
  BY DEF Send
<1>4. CallsFit(rows, calls')
  BY <1>2, <1>3, CallChanges DEF Fits
<1>5. made' \in 0 .. MaxCalls
  BY DirectoryAssumption DEF Fits, Send
<1> QED BY <1>4, <1>5 DEF Fits, Send

\* The list that is shown names rows that are there.
LEMMA ShownKnown ==
  ASSUME Fits, ShowsRows
  PROVE  /\ list.data \in Lists(rows) /\ IdsOf(list.data) \in Seq(Exists(rows))
         /\ DOMAIN IdsOf(list.data) = DOMAIN list.data
         /\ \A k \in DOMAIN list.data :
               list.data[k].id \in Exists(rows) /\ list.data[k].on \in BOOLEAN
<1>1. list.data \in Lists(rows)
  BY DEF Fits, CardFits, Cards, ShowsRows
<1> QED BY <1>1, IdsKnown

LEMMA AddFits ==
  ASSUME Fits, NEW c \in Calls, Add(c)
  PROVE  Fits'
<1>1. PICK t \in Titles : Send(c, [kind |-> "create", title |-> t], TRUE)
  BY DEF Add
<1>2. [kind |-> "create", title |-> t] \in Requests(rows)
  BY DEF Requests
<1>3. CardFits(rows, list')
  BY DEF Add, Fits
<1> QED BY <1>1, <1>2, <1>3, SendFits

LEMMA RenameFits ==
  ASSUME Fits, NEW c \in Calls, Rename(c)
  PROVE  Fits'
<1>1. PICK k \in DOMAIN list.data, t \in Titles :
         Send(c, [kind |-> "rename", id |-> list.data[k].id, title |-> t], TRUE)
  BY DEF Rename
<1>2. list.data[k].id \in Exists(rows)
  BY ShownKnown DEF Rename
<1>3. [kind |-> "rename", id |-> list.data[k].id, title |-> t] \in Requests(rows)
  BY <1>2 DEF Requests
<1>4. CardFits(rows, list')
  BY DEF Rename, Fits
<1> QED BY <1>1, <1>3, <1>4, SendFits

LEMMA ToggleFits ==
  ASSUME Fits, NEW c \in Calls, Toggle(c)
  PROVE  Fits'
<1>1. PICK k \in DOMAIN list.data :
         Send(c, [kind |-> "switch", id |-> list.data[k].id, on |-> ~list.data[k].on], TRUE)
  BY DEF Toggle
<1>2. list.data[k].id \in Exists(rows) /\ (~list.data[k].on) \in BOOLEAN
  BY ShownKnown DEF Toggle
<1>3. [kind |-> "switch", id |-> list.data[k].id, on |-> ~list.data[k].on] \in Requests(rows)
  BY <1>2 DEF Requests
<1>4. CardFits(rows, list')
  BY DEF Toggle, Fits
<1> QED BY <1>1, <1>3, <1>4, SendFits

LEMMA MoveFits ==
  ASSUME Fits, NEW c \in Calls, Move(c)
  PROVE  Fits'
<1>1. PICK k \in DOMAIN list.data, delta \in {-1, 1} :
         /\ k + delta \in DOMAIN list.data
         /\ Send(c, [kind |-> "reorder", ids |-> MoveId(IdsOf(list.data), k, delta)], TRUE)
         /\ list' = Written(list, MoveId(list.data, k, delta))
  BY DEF Move
<1>2. /\ list.data \in Lists(rows) /\ IdsOf(list.data) \in Seq(Exists(rows))
      /\ DOMAIN IdsOf(list.data) = DOMAIN list.data
  BY ShownKnown DEF Move
<1>3. MoveId(IdsOf(list.data), k, delta) \in Seq(Exists(rows))
  BY <1>1, <1>2, MoveIdKeeps
<1>4. [kind |-> "reorder", ids |-> MoveId(IdsOf(list.data), k, delta)] \in Requests(rows)
  BY <1>3 DEF Requests
<1>5. MoveId(list.data, k, delta) \in Lists(rows)
  BY <1>1, <1>2, MoveIdKeeps DEF Lists
<1>6. CardFits(rows, list')
  BY <1>1, <1>5, WrittenFits DEF Fits
<1> QED BY <1>1, <1>4, <1>6, SendFits

LEMMA OtherAsksFits ==
  ASSUME Fits, NEW c \in Calls, OtherAsks(c)
  PROVE  Fits'
<1>1. CardFits(rows, list') /\ rows \in Tables
  BY DEF OtherAsks, Fits, TableFits
<1>2. ASSUME NEW t \in Titles, Send(c, [kind |-> "create", title |-> t], FALSE)
      PROVE  Fits'
  <2>1. [kind |-> "create", title |-> t] \in Requests(rows)
    BY DEF Requests
  <2> QED BY <1>1, <1>2, <2>1, SendFits
<1>3. ASSUME NEW i \in Exists(rows),
             Send(c, [kind |-> "switch", id |-> i, on |-> ~rows[i].on], FALSE)
      PROVE  Fits'
  <2>1. [kind |-> "switch", id |-> i, on |-> ~rows[i].on] \in Requests(rows)
    BY DEF Requests
  <2> QED BY <1>1, <1>3, <2>1, SendFits
<1>4. ASSUME NEW k \in 1 .. Len(Order(rows)) - 1,
             Send(c, [kind |-> "reorder", ids |-> MoveId(Order(rows), k, 1)], FALSE)
      PROVE  Fits'
  <2>1. Order(rows) \in Seq(Exists(rows))
    BY <1>1, OrderIsList
  <2>2. k \in DOMAIN Order(rows) /\ k + 1 \in DOMAIN Order(rows)
    BY <2>1
  <2>3. MoveId(Order(rows), k, 1) \in Seq(Exists(rows))
    BY <2>1, <2>2, MoveIdKeeps
  <2>4. [kind |-> "reorder", ids |-> MoveId(Order(rows), k, 1)] \in Requests(rows)
    BY <2>3 DEF Requests
  <2> QED BY <1>1, <1>4, <2>4, SendFits
<1> QED BY <1>2, <1>3, <1>4 DEF OtherAsks

\* A request that is over makes room for another.
LEMMA DoneFits ==
  ASSUME Fits, NEW c \in Calls, calls' = [calls EXCEPT ![c] = NoCall],
         UNCHANGED <<rows, made, onPage>>, CardFits(rows, list')
  PROVE  Fits'
<1>1. CallsFit(rows, calls')
  BY CallChanges, NoCallFits DEF Fits
<1> QED BY <1>1 DEF Fits

LEMMA SucceedsWrites ==
  ASSUME Fits, NEW c \in Calls, Succeeds(c)
  PROVE  \E items \in Lists(rows) \union {None} : list' = Refresh(Written(list, items))
<1> DEFINE call == calls[c]
           replaced == [k \in DOMAIN list.data |->
                           IF list.data[k].id = call.answer.id THEN call.answer ELSE list.data[k]]
           new == CASE call.ask.kind = "create" -> None
                    [] call.ask.kind = "reorder" -> call.answer
                    [] OTHER -> IF list.data = None THEN None ELSE replaced
<1>1. call.stage = "answered" /\ call.answer # None
  BY DEF Succeeds
<1>2. call.answer \in Answers(rows, call) /\ CardFits(rows, list)
  BY <1>1, RequestIs DEF CallFits, Fits
<1>3. new \in Lists(rows) \union {None}
  <2>1. CASE call.ask.kind = "create"
    BY <2>1
  <2>2. CASE call.ask.kind = "reorder"
    BY <1>2, <2>2 DEF Answers
  <2>3. CASE call.ask.kind \notin {"create", "reorder"} /\ list.data # None
    <3>1. call.answer \in Known(rows)
      BY <1>2, <2>3 DEF Answers
    <3>2. list.data \in Lists(rows)
      BY <1>2, <2>3 DEF CardFits, Cards
    <3>3. replaced \in Lists(rows)
      BY <3>1, <3>2, ReplacedKnown
    <3> HIDE DEF replaced
    <3> QED BY <2>3, <3>3
  <2>4. CASE call.ask.kind \notin {"create", "reorder"} /\ list.data = None
    BY <2>4
  <2> QED BY <2>1, <2>2, <2>3, <2>4
<1>4. list' = Refresh(Written(list, new))
  BY DEF Succeeds
<1> HIDE DEF new
<1> QED BY <1>3, <1>4

LEMMA SucceedsFits ==
  ASSUME Fits, NEW c \in Calls, Succeeds(c)
  PROVE  Fits'
<1>1. CardFits(rows, list')
  BY SucceedsWrites, WrittenFits, RefreshFits DEF Fits
<1>2. calls' = [calls EXCEPT ![c] = NoCall] /\ UNCHANGED <<rows, made, onPage>>
  BY DEF Succeeds
<1> QED BY <1>1, <1>2, DoneFits

\* A request that goes on for nobody is as it was otherwise.
LEMMA DisownedFits ==
  ASSUME NEW rs, NEW call, CallFits(rs, call)
  PROVE  CallFits(rs, [call EXCEPT !.own = FALSE])
<1> PICK new : new = [call EXCEPT !.own = FALSE]
  OBVIOUS
<1>1. call \in InFlight(rs)
  BY DEF CallFits
<1>2. /\ new \in InFlight(rs) /\ new.stage = call.stage /\ new.ask = call.ask
      /\ new.seen = call.seen /\ new.count = call.count /\ new.answer = call.answer
  BY <1>1 DEF InFlight
<1>3. CallFits(rs, new)
  BY <1>2 DEF CallFits, Passed, Answers
<1> QED BY <1>3

\* What happens to the request: it is forgotten, or goes on.
FailedCall(c) == {NoCall, [calls[c] EXCEPT !.own = FALSE]}

LEMMA FailsIs ==
  ASSUME Fits, NEW c \in Calls, Fails(c)
  PROVE  /\ calls[c].stage # "none" /\ UNCHANGED <<rows, made, onPage>>
         /\ \E new \in FailedCall(c) :
               /\ new = NoCall => calls[c].stage \in {"sent", "answered"}
               /\ calls' = [calls EXCEPT ![c] = new]
<1>1. calls \in [Calls -> InFlight(rows)]
  BY DEF Fits, CallsFit
<1>2. [calls EXCEPT ![c].own = FALSE] = [calls EXCEPT ![c] = [calls[c] EXCEPT !.own = FALSE]]
  BY <1>1
<1>3. CASE calls' = [calls EXCEPT ![c] = NoCall] /\ calls[c].stage \in {"sent", "answered"}
  BY <1>3 DEF Fails, FailedCall
<1>4. CASE /\ calls' = [calls EXCEPT ![c].own = FALSE]
           /\ calls[c].stage \in {"sent", "loaded", "checked", "stored"}
  <2>1. [calls[c] EXCEPT !.own = FALSE] # NoCall
    BY <1>1, <1>4 DEF NoCall, InFlight
  <2> QED BY <1>2, <1>4, <2>1 DEF Fails, FailedCall
<1> QED BY <1>3, <1>4 DEF Fails

LEMMA FailsFits ==
  ASSUME Fits, NEW c \in Calls, Fails(c)
  PROVE  Fits'
<1>1. CallFits(rows, calls[c]) /\ calls[c].previous \in Lists(rows) \union {None}
  BY FailsIs, RequestIs DEF InFlight
<1>2. CardFits(rows, list) /\ CardFits(rows, Refresh(Written(list, calls[c].previous)))
  BY <1>1, WrittenFits, RefreshFits DEF Fits
<1>3. CardFits(rows, list')
  BY <1>2 DEF Fails
<1>4. PICK new \in FailedCall(c) : calls' = [calls EXCEPT ![c] = new]
  BY FailsIs
<1>5. CallFits(rows, new)
  BY <1>1, <1>4, NoCallFits, DisownedFits DEF FailedCall
<1>6. CallsFit(rows, calls')
  BY <1>4, <1>5, CallChanges DEF Fits
<1> QED BY <1>3, <1>6, FailsIs DEF Fits

LEMMA OtherIsDoneFits ==
  ASSUME Fits, NEW c \in Calls, OtherIsDone(c)
  PROVE  Fits'
<1>1. CardFits(rows, list')
  BY DEF OtherIsDone, Fits
<1> QED BY <1>1, DoneFits DEF OtherIsDone

\* The steps of the page and of the list.
LEMMA ListFits ==
  ASSUME Fits, OpenPage \/ LeavePage \/ Collect \/ ReadList \/ ListAnswered \/ ListFails \/ Refetch
  PROVE  Fits'
<1>1. CardFits(rows, list) /\ rows \in Tables /\ onPage \in BOOLEAN
  BY DEF Fits, TableFits
<1>2. CardFits(rows, Joined(list)) /\ CardFits(rows, Fetching(list)) /\ CardFits(rows, Unread)
  BY <1>1, JoinedFits DEF CardFits, Cards, Unread
<1>3. CASE OpenPage \/ LeavePage \/ Collect \/ Refetch
  BY <1>1, <1>2, <1>3 DEF Fits, OpenPage, LeavePage, Collect, Refetch
<1>4. CASE ReadList
  <2>1. Truth \in Lists(rows)
    BY <1>1, TruthKnown
  <2>2. CardFits(rows, list')
    BY <1>1, <1>4, <2>1 DEF ReadList, CardFits, Cards
  <2> QED BY <1>4, <2>2 DEF Fits, ReadList
<1>5. CASE ListAnswered
  <2>1. CardFits(rows, list')
    BY <1>1, <1>5 DEF ListAnswered, Unread, CardFits, Cards
  <2> QED BY <1>5, <2>1 DEF Fits, ListAnswered
<1>6. CASE ListFails
  <2>1. CardFits(rows, list')
    BY <1>1, <1>6 DEF ListFails, CardFits, Cards
  <2> QED BY <1>6, <2>1 DEF Fits, ListFails
<1> QED BY <1>3, <1>4, <1>5, <1>6

-----------------------------------------------------------------------------
(* The theorem about types. *)

\* The types hold at first and in every step.
LEMMA InitFits == ASSUME Init PROVE Fits
<1>1. PICK n \in Ids, enabled \in 1 .. Limit :
         rows = [i \in Ids |-> IF i <= n THEN [order |-> i, title |-> i, on |-> i <= enabled]
                               ELSE NoRow]
  BY DEF Init
<1>2. ASSUME NEW i \in Ids
      PROVE  /\ rows[i] \in {NoRow} \union Rows
             /\ rows[i].order = IF i <= n THEN i ELSE 0
  BY <1>1, DirectoryAssumption DEF Ids, Titles, Rows, NoRow
<1>3. rows \in Tables
  BY <1>1, <1>2 DEF Tables
<1>4. OrdersFit(rows, rows)
  <2>1. Exists(rows) = 1 .. n
    BY <1>2, DirectoryAssumption DEF Exists, Ids
  <2>2. Cardinality(1 .. n) = n /\ n \in Nat
    BY FS_Interval, DirectoryAssumption DEF Ids
  <2>3. \A i \in Ids : rows[i].order <= n
    BY <1>2, <2>2, DirectoryAssumption DEF Ids
  <2> QED BY <2>1, <2>2, <2>3 DEF OrdersFit
<1>5. CallsFit(rows, calls)
  <2>1. calls = [c \in Calls |-> NoCall] /\ CallFits(rows, NoCall)
    BY NoCallFits DEF Init
  <2>2. NoCall \in InFlight(rows)
    BY <2>1 DEF CallFits
  <2> QED BY <2>1, <2>2 DEF CallsFit
<1>6. CardFits(rows, list)
  BY DEF Init, Unread, CardFits, Cards
<1>7. made \in 0 .. MaxCalls /\ onPage \in BOOLEAN
  <2>1. made = 0 /\ onPage = FALSE
    BY DEF Init
  <2>2. onPage \in BOOLEAN
    BY <2>1
  <2>3. made \in 0 .. MaxCalls
    BY <2>1, DirectoryAssumption
  <2> QED BY <2>2, <2>3
<1> QED BY <1>3, <1>4, <1>5, <1>6, <1>7 DEF Fits, TableFits

LEMMA NextFits == ASSUME Fits, [Next]_vars PROVE Fits'
<1>1. CASE UNCHANGED vars
  BY <1>1 DEF Fits, vars
<1>2. ASSUME NEW c \in Calls, Page(c)
      PROVE  Fits'
  BY <1>2, AddFits, RenameFits, ToggleFits, MoveFits, SucceedsFits, FailsFits DEF Page
<1>3. ASSUME NEW c \in Calls, Server(c)
      PROVE  Fits'
  BY <1>3, CountToCreateFits, ReadMaxOrderFits, InsertFits, LoadOneFits, CheckUpdateFits,
     UpdateFits, LoadAllFits, RenumberFits, AnswerOrderFits DEF Server
<1> QED BY <1>1, <1>2, <1>3, OtherAsksFits, OtherIsDoneFits, ListFits DEF Next

LEMMA AlwaysFits == Spec => []Fits
  BY InitFits, NextFits, PTL DEF Spec

\* They imply the type invariant.
LEMMA FitsIsTyped == ASSUME Fits PROVE TypeOK
<1>1. Known(rows) \subseteq Items
  BY ExistsFinite DEF Known, Items
<1>2. ASSUME NEW l \in Lists(rows)
      PROVE  l \in Seq(Items)
  BY <1>1, SeqGrows DEF Lists
<1>3. rows \in [Ids -> {NoRow} \union [order : Ids, title : Titles, on : BOOLEAN]]
  BY DEF Fits, TableFits, Tables, Rows
<1>4. ASSUME NEW c \in Calls
      PROVE  /\ calls[c].stage \in {"none", "sent", "loaded", "checked", "stored", "answered"}
             /\ calls[c].answer # None => calls[c].stage = "answered"
             /\ calls[c].previous # None => calls[c].previous \in Seq(Items)
  <2>1. CallFits(rows, calls[c])
    BY DEF Fits, CallsFit
  <2>2. calls[c] \in InFlight(rows)
    BY <2>1 DEF CallFits
  <2>3. calls[c].stage \in Stages /\ calls[c].previous \in Lists(rows) \union {None}
    BY <2>2 DEF InFlight
  <2> QED BY <1>2, <2>1, <2>3 DEF CallFits, Stages
<1>5. /\ list.fetch \in {"none", "sent", "read"}
      /\ list.got # None => list.fetch = "read" /\ list.got \in Seq(Items)
      /\ list.data # None => list.data \in Seq(Items)
  BY <1>2 DEF Fits, CardFits, Cards
<1>6. made \in 0 .. MaxCalls /\ onPage \in BOOLEAN
  BY DEF Fits
<1> QED BY <1>3, <1>4, <1>5, <1>6 DEF TypeOK

\* The table, the requests and the cached list of the card always have their types: what is
\* written to the table, and what is read from it while it is written, is well formed.
THEOREM DirectoryTypeCorrect == Spec => []TypeOK
  BY AlwaysFits, FitsIsTyped, PTL

-----------------------------------------------------------------------------
(* What a step leaves alone. *)

\* An answer changes neither who asked nor what for.
LEMMA AnsweredGoesOn ==
  ASSUME NEW rs, NEW call \in InFlight(rs), NEW answer
  PROVE  /\ Answered(call, answer).own = call.own /\ Answered(call, answer).ask = call.ask
         /\ Answered(call, answer).stage = "answered"
         /\ Answered(call, answer).count = 0
  BY DEF Answered, InFlight

\* A step of the server on a request either only reads, or commits a change of the table.
Commits(c) == Insert(c) \/ Update(c) \/ Renumber(c)

\* The server touches neither the card nor the other requests, and only a commit changes
\* the table.
LEMMA ServerStep ==
  ASSUME Fits, Fits', NEW c \in Calls, Server(c)
  PROVE  /\ UNCHANGED <<list, onPage>>
         /\ \/ rows' = rows /\ since' = since
            \/ Commits(c) /\ since' = since \union {Truth'}
         /\ \A d \in Calls : calls'[d].own = calls[d].own /\ calls'[d].ask = calls[d].ask
         /\ \A d \in Calls : d # c => calls'[d] = calls[d]
<1> DEFINE call == calls[c]
           Kept(new) == new.own = call.own /\ new.ask = call.ask
           Result == \E new, newRows : /\ Kept(new)
                                       /\ \/ Reads(c, new)
                                          \/ Commits(c) /\ Stores(c, newRows, new)
<1>1. call.stage # "none"
  BY DEF Server, CountToCreate, ReadMaxOrder, Insert, LoadOne, CheckUpdate, Update, LoadAll,
         Renumber, AnswerOrder, Asks
<1>2. call \in InFlight(rows) /\ calls \in [Calls -> InFlight(rows)]
  BY <1>1, RequestIs DEF Fits, CallsFit
<1>3. \A answer : Kept(Answered(call, answer))
  BY <1>2, AnsweredGoesOn
<1>4. Kept(Refused(call))
  BY <1>3 DEF Refused
<1>5. /\ Kept([call EXCEPT !.stage = "loaded", !.count = CountActive])
      /\ Kept([call EXCEPT !.stage = "checked", !.count = CountActive])
      /\ Kept([call EXCEPT !.stage = "checked", !.seen = rows])
      /\ Kept([call EXCEPT !.stage = "stored"])
      /\ Kept([call EXCEPT !.stage = "loaded", !.seen[call.ask.id] = rows[call.ask.id]])
  BY <1>2 DEF InFlight
<1> HIDE DEF Kept
<1>6. Result
  <2>1. CASE CountToCreate(c)
    <3>1. \/ Reads(c, Refused(call))
          \/ Reads(c, [call EXCEPT !.stage = "loaded", !.count = CountActive])
      BY <2>1 DEF CountToCreate
    <3> QED BY <3>1, <1>4, <1>5
  <2>2. CASE ReadMaxOrder(c)
    BY <2>2, <1>5 DEF ReadMaxOrder
  <2>3. CASE Insert(c)
    BY <2>3, <1>3, <1>4, InsertIs DEF Commits
  <2>4. CASE LoadOne(c)
    BY <2>4, <1>5 DEF LoadOne
  <2>5. CASE CheckUpdate(c)
    <3>1. \/ Reads(c, Refused(call))
          \/ Reads(c, [call EXCEPT !.stage = "checked", !.count = CountActive])
      BY <2>5 DEF CheckUpdate
    <3> QED BY <3>1, <1>4, <1>5
  <2>6. CASE Update(c)
    BY <2>6, <1>3, <1>4, UpdateIs DEF Commits
  <2>7. CASE LoadAll(c)
    <3>1. \/ Reads(c, Refused(call))
          \/ Reads(c, [call EXCEPT !.stage = "checked", !.seen = rows])
      BY <2>7 DEF LoadAll
    <3> QED BY <3>1, <1>4, <1>5
  <2>8. CASE Renumber(c)
    BY <2>8, <1>5, RenumberIs DEF Commits
  <2>9. CASE AnswerOrder(c)
    BY <2>9, <1>3 DEF AnswerOrder
  <2> QED BY <2>1, <2>2, <2>3, <2>4, <2>5, <2>6, <2>7, <2>8, <2>9 DEF Server
<1>7. PICK new, newRows : /\ Kept(new)
                          /\ \/ Reads(c, new)
                             \/ Commits(c) /\ Stores(c, newRows, new)
  BY <1>6
<1>8. calls' = [calls EXCEPT ![c] = new]
  BY <1>7 DEF Reads, Stores
<1>9. /\ \A d \in Calls : d # c => calls'[d] = calls[d]
      /\ calls'[c] = new
  BY <1>2, <1>8
<1>10. /\ UNCHANGED <<list, onPage>>
       /\ \/ rows' = rows /\ since' = since
          \/ Commits(c) /\ since' = since \union {Truth'}
  BY <1>7 DEF Reads, Stores
<1> QED BY <1>7, <1>9, <1>10 DEF Kept

\* The other steps leave the table alone, and a request of the panel or of the other
\* administrator appears or is over.
LEMMA OtherStep ==
  ASSUME Fits, [Next]_vars, \A c \in Calls : ~Server(c)
  PROVE  /\ rows' = rows
         /\ \/ calls' = calls
            \/ \E c \in Calls : /\ \/ calls[c].stage \in {"none", "sent", "answered"}
                                 \/ calls'[c].stage = calls[c].stage
                              /\ \A d \in Calls : d # c => calls'[d] = calls[d]
<1>1. NoCall.stage = "none" /\ calls \in [Calls -> InFlight(rows)]
  BY DEF NoCall, Fits, CallsFit
<1>2. ASSUME NEW c \in Calls, NEW ask, NEW own, Send(c, ask, own)
      PROVE  /\ rows' = rows /\ calls[c].stage = "none"
             /\ \A d \in Calls : d # c => calls'[d] = calls[d]
  BY <1>1, <1>2 DEF Send
<1>3. ASSUME NEW c \in Calls,
             Add(c) \/ Rename(c) \/ Toggle(c) \/ Move(c) \/ OtherAsks(c)
      PROVE  \E ask, own : Send(c, ask, own)
  BY <1>3 DEF Add, Rename, Toggle, Move, OtherAsks
<1>4. ASSUME NEW c \in Calls, Succeeds(c) \/ Fails(c) \/ OtherIsDone(c)
      PROVE  /\ rows' = rows
             /\ \/ calls[c].stage \in {"none", "sent", "answered"}
                \/ calls'[c].stage = calls[c].stage
             /\ \A d \in Calls : d # c => calls'[d] = calls[d]
  <2>1. CASE Succeeds(c) \/ OtherIsDone(c)
    BY <1>1, <2>1 DEF Succeeds, OtherIsDone
  <2>2. CASE Fails(c)
    <3>1. PICK new \in FailedCall(c) :
             /\ new = NoCall => calls[c].stage \in {"sent", "answered"}
             /\ calls' = [calls EXCEPT ![c] = new]
      BY <2>2, FailsIs
    <3>2. [calls[c] EXCEPT !.own = FALSE].stage = calls[c].stage
      BY <1>1 DEF InFlight
    <3> QED BY <1>1, <2>2, <3>1, <3>2 DEF FailedCall, Fails
  <2> QED BY <1>4, <2>1, <2>2
<1>5. CASE \/ OpenPage \/ LeavePage \/ Collect \/ ReadList \/ ListAnswered \/ ListFails
           \/ Refetch \/ UNCHANGED vars
  BY <1>5 DEF OpenPage, LeavePage, Collect, ReadList, ListAnswered, ListFails, Refetch, vars
<1>6. CASE \E c \in Calls : Page(c) \/ OtherAsks(c) \/ OtherIsDone(c)
  BY <1>2, <1>3, <1>4, <1>6 DEF Page
<1> QED BY <1>5, <1>6 DEF Next

-----------------------------------------------------------------------------
(* The rules of the offer. *)

\* Either rule breaks in this step.
RuleBreaks ==
    \/ Offered(rows) # {} /\ Offered(rows') = {}
    \/ Cardinality(Offered(rows')) > Limit /\ CountActive <= Limit

LEMMA OfferedFinite ==
  ASSUME NEW rs
  PROVE  IsFiniteSet(Offered(rs)) /\ Cardinality(Offered(rs)) \in Nat
<1>1. Offered(rs) \subseteq Exists(rs)
  BY DEF Offered
<1> QED BY <1>1, ExistsFinite, FS_Subset, FS_CardinalityType

\* One more category, where there is room for it.
LEMMA OneMore ==
  ASSUME NEW x, Offered(rows') = Offered(rows) \union {x}, CountActive < Limit
  PROVE  ~RuleBreaks
<1>1. Cardinality(Offered(rows) \union {x}) \in
        {Cardinality(Offered(rows)), Cardinality(Offered(rows)) + 1}
  BY OfferedFinite, FS_AddElement
<1>2. Cardinality(Offered(rows')) \in {CountActive, CountActive + 1}
  BY <1>1 DEF CountActive
<1>3. ~(Cardinality(Offered(rows')) > Limit)
  BY <1>2, ActiveIsNatural, DirectoryAssumption
<1> QED BY <1>3 DEF RuleBreaks

\* One less, where another one stays.
LEMMA OneLess ==
  ASSUME NEW x, Offered(rows') = Offered(rows) \ {x}, CountActive > 1
  PROVE  ~RuleBreaks
<1>1. Cardinality(Offered(rows) \ {x}) \in
        {Cardinality(Offered(rows)), Cardinality(Offered(rows)) - 1}
  BY OfferedFinite, FS_RemoveElement
<1>2. Cardinality(Offered(rows')) \in {CountActive, CountActive - 1}
  BY <1>1 DEF CountActive
<1>3. Cardinality(Offered(rows')) > 0 /\ ~(Cardinality(Offered(rows')) > Limit /\ CountActive <= Limit)
  BY <1>2, ActiveIsNatural, DirectoryAssumption
<1>4. Offered(rows') # {}
  BY <1>3, FS_EmptySet
<1> QED BY <1>3, <1>4 DEF RuleBreaks

\* The same, or the same and a row that was on already.
LEMMA SameOffer ==
  ASSUME Offered(rows') = Offered(rows)
  PROVE  ~RuleBreaks
<1>1. ~(CountActive > Limit /\ CountActive <= Limit)
  BY ActiveIsNatural, DirectoryAssumption
<1> QED BY <1>1 DEF RuleBreaks, CountActive

\* A request that commits its answer and was not overtaken counted what there is.
LEMMA CountedNow ==
  ASSUME NEW c \in Calls, calls[c].stage = "checked", calls'[c].stage = "answered", ~Overtaken
  PROVE  calls[c].count = CountActive
  BY DEF Overtaken

\* The commit of a creation or a change also answers it.
LEMMA AnswersNow ==
  ASSUME Fits, NEW c \in Calls, calls[c].stage # "none", NEW newRows, NEW answer,
         Stores(c, newRows, Answered(calls[c], answer))
  PROVE  calls'[c].stage = "answered" /\ rows' = newRows
<1>1. calls[c] \in InFlight(rows) /\ calls \in [Calls -> InFlight(rows)]
  BY RequestIs DEF Fits, CallsFit
<1>2. calls' = [calls EXCEPT ![c] = Answered(calls[c], answer)] /\ rows' = newRows
  BY DEF Stores
<1>3. calls'[c] = Answered(calls[c], answer)
  BY <1>1, <1>2
<1> QED BY <1>1, <1>2, <1>3, AnsweredGoesOn

\* A creation or a change that was not overtaken keeps both rules, a reorder always does.
LEMMA InsertKeepsRules ==
  ASSUME Fits, NEW c \in Calls, Insert(c), ~Overtaken
  PROVE  ~RuleBreaks
<1>1. calls[c].stage = "checked" /\ calls[c].ask.kind = "create"
  BY DEF Insert, Asks
<1>2. rows \in Tables /\ Passed(calls[c])
  BY <1>1, RequestIs
<1>3. CASE Reads(c, Refused(calls[c]))
  BY <1>3, SameOffer DEF Reads
<1>4. ASSUME NEW i \in Ids, NEW row \in Rows, row.on, NEW rt, rt = [rows EXCEPT ![i] = row],
             Stores(c, rt, Answered(calls[c], Item(rt, i)))
      PROVE  ~RuleBreaks
  <2>2. rt \in Tables /\ rt[i] = row /\ \A j \in Ids : j # i => rt[j] = rows[j]
    BY <1>2, <1>4 DEF Tables
  <2>3. Offered(rt) = Offered(rows) \union {i}
    <3>1. Offered(rt) = IF row.on THEN Offered(rows) \union {i} ELSE Offered(rows) \ {i}
      BY <1>2, <2>2, RowWritten
    <3> QED BY <1>4, <3>1
  <2>4. calls'[c].stage = "answered" /\ rows' = rt
    BY <1>1, <1>4, AnswersNow
  <2>5. CountActive < Limit
    BY <1>1, <1>2, <2>4, CountedNow DEF Passed
  <2> QED BY <2>3, <2>4, <2>5, OneMore
<1> QED BY <1>3, <1>4, InsertIs

LEMMA UpdateKeepsRules ==
  ASSUME Fits, NEW c \in Calls, Update(c), ~Overtaken
  PROVE  ~RuleBreaks
<1> DEFINE ask == calls[c].ask
           i == ask.id
           switches == ask.kind = "switch" /\ ask.on # calls[c].seen[i].on
<1>1. calls[c].stage = "checked" /\ ask.kind \in {"rename", "switch"}
  BY DEF Update, Asks
<1>2. rows \in Tables /\ Passed(calls[c]) /\ ask \in Requests(rows)
  BY <1>1, RequestIs
<1>3. CASE Reads(c, Refused(calls[c]))
  BY <1>3, SameOffer DEF Reads
<1>4. ASSUME i \in Exists(rows), NEW row \in Rows, NEW item, NEW rt, rt = [rows EXCEPT ![i] = row],
             row.on = IF switches THEN ask.on ELSE rows[i].on,
             Stores(c, rt, Answered(calls[c], item))
      PROVE  ~RuleBreaks
  <2>1. i \in Ids
    BY <1>4, ExistsFinite
  <2>2. rt \in Tables /\ rt[i] = row /\ \A j \in Ids : j # i => rt[j] = rows[j]
    BY <1>2, <1>4, <2>1 DEF Tables
  <2>3. Offered(rt) = IF row.on THEN Offered(rows) \union {i} ELSE Offered(rows) \ {i}
    <3> HIDE DEF i
    <3> QED BY <1>2, <2>1, <2>2, RowWritten
  <2>4. calls'[c].stage = "answered" /\ rows' = rt
    <3> HIDE DEF i, switches
    <3> QED BY <1>1, <1>4, AnswersNow
  <2>5. switches => IF ask.on THEN CountActive < Limit ELSE CountActive > 1
    BY <1>1, <1>2, <2>4, CountedNow DEF Passed
  <2>6. CASE ~switches
    <3>1. row.on = rows[i].on
      BY <1>4, <2>6
    <3>2. Offered(rt) = Offered(rows)
      BY <1>4, <2>3, <3>1 DEF Offered
    <3> QED BY <2>4, <3>2, SameOffer
  <2>7. CASE switches /\ row.on
    <3>1. ask.on
      BY <1>4, <2>7
    <3> QED BY <2>3, <2>4, <2>5, <2>7, <3>1, OneMore
  <2>8. CASE switches /\ ~row.on
    <3>1. ~ask.on
      BY <1>4, <2>8
    <3> QED BY <2>3, <2>4, <2>5, <2>8, <3>1, OneLess
  <2> QED BY <2>6, <2>7, <2>8
<1> HIDE DEF i, switches
<1> QED BY <1>3, <1>4, UpdateIs DEF i, switches

LEMMA RenumberKeepsRules ==
  ASSUME Fits, NEW c \in Calls, Renumber(c)
  PROVE  ~RuleBreaks
<1>1. /\ calls[c].stage = "checked" /\ calls[c].ask.ids \in Seq(Ids)
      /\ SameIds(calls[c].ask.ids, calls[c].seen)
      /\ Stores(c, Renumbered(rows, calls[c].seen, calls[c].ask.ids),
                [calls[c] EXCEPT !.stage = "stored"])
  BY RenumberIs
<1>2. /\ TableFits(rows) /\ calls[c].seen \in Tables
      /\ Exists(calls[c].seen) \subseteq Exists(rows)
  BY <1>1, RequestIs
<1>3. rows' = Renumbered(rows, calls[c].seen, calls[c].ask.ids)
  BY <1>1 DEF Stores
<1>4. Offered(rows') = Offered(rows)
  BY <1>1, <1>2, <1>3, RenumberedFits
<1> QED BY <1>4, SameOffer

\* So does every step.
LEMMA NextKeepsRules ==
  ASSUME Fits, Fits', [Next]_vars
  PROVE  RuleBreaks => Overtaken
<1> SUFFICES ASSUME ~Overtaken
             PROVE  ~RuleBreaks
  OBVIOUS
<1>1. CASE rows' = rows
  BY <1>1, SameOffer
<1>2. ASSUME NEW c \in Calls, Commits(c)
      PROVE  ~RuleBreaks
  BY <1>2, InsertKeepsRules, UpdateKeepsRules, RenumberKeepsRules DEF Commits
<1>3. CASE \E c \in Calls : Server(c)
  BY <1>1, <1>2, <1>3, ServerStep
<1>4. CASE \A c \in Calls : ~Server(c)
  BY <1>1, <1>4, OtherStep
<1> QED BY <1>3, <1>4

\* A category stays on offer and the keyboard of the bot stays within the limit, whatever
\* the administrators send, unless the number changes between the count of a request and
\* its commit.
THEOREM RulesAlwaysByRace == Spec => RulesBreakByRaceOnly
<1>1. Fits /\ Fits' /\ [Next]_vars
        => [(\/ Offered(rows) # {} /\ Offered(rows') = {}
             \/ Cardinality(Offered(rows')) > Limit /\ CountActive <= Limit) => Overtaken]_vars
  BY NextKeepsRules DEF RuleBreaks
<1> QED BY <1>1, AlwaysFits, PTL DEF Spec, RulesBreakByRaceOnly

-----------------------------------------------------------------------------
(* The order that was asked for. *)

\* Only Renumber takes a reorder that was checked to the stage "stored".
LEMMA StoredByRenumber ==
  ASSUME Fits, Fits', [Next]_vars, NEW c \in Calls,
         Asks(c, "checked", {"reorder"}), calls'[c].stage = "stored"
  PROVE  Renumber(c)
<1>1. calls[c].stage = "checked" /\ calls[c].ask.kind = "reorder"
  BY DEF Asks
<1>2. calls'[c] # calls[c] /\ calls'[c].stage # calls[c].stage
  BY <1>1
<1>4. PICK d \in Calls : Server(d)
  <2> SUFFICES ASSUME \A d \in Calls : ~Server(d)
               PROVE  FALSE
    OBVIOUS
  <2>1. PICK d \in Calls : /\ \/ calls[d].stage \in {"none", "sent", "answered"}
                              \/ calls'[d].stage = calls[d].stage
                           /\ \A e \in Calls : e # d => calls'[e] = calls[e]
    BY <1>2, OtherStep
  <2> QED BY <1>1, <1>2, <2>1
<1>5. d = c
  BY <1>2, <1>4, ServerStep
<1> QED BY <1>1, <1>4, <1>5 DEF Server, CountToCreate, ReadMaxOrder, Insert, LoadOne,
     CheckUpdate, Update, LoadAll, AnswerOrder, Asks

\* It leaves its rows in the order that was asked for.
Asked(c) ==
    LET ids == calls[c].ask.ids
        seen == calls[c].seen
    IN  /\ Asks(c, "checked", {"reorder"}) /\ calls'[c].stage = "stored"
        /\ \A i \in Exists(seen) : rows[i].order = seen[i].order
        => /\ \A j, k \in DOMAIN ids : j < k => Before(rows', ids[j], ids[k])
           /\ Exists(rows) = Exists(seen) => Order(rows') = ids

LEMMA StoredIsAsked ==
  ASSUME Fits, Fits', [Next]_vars, NEW c \in Calls
  PROVE  Asked(c)
<1> DEFINE ids == calls[c].ask.ids
           seen == calls[c].seen
<1> SUFFICES ASSUME Asks(c, "checked", {"reorder"}), calls'[c].stage = "stored",
                    \A i \in Exists(seen) : rows[i].order = seen[i].order
             PROVE  /\ \A j, k \in DOMAIN ids : j < k => Before(rows', ids[j], ids[k])
                    /\ Exists(rows) = Exists(seen) => Order(rows') = ids
  BY DEF Asked
<1>1. /\ calls[c].stage = "checked" /\ calls[c].ask.ids \in Seq(Ids)
      /\ SameIds(calls[c].ask.ids, calls[c].seen)
      /\ Stores(c, Renumbered(rows, calls[c].seen, calls[c].ask.ids),
                [calls[c] EXCEPT !.stage = "stored"])
  BY StoredByRenumber, RenumberIs
<1>2. /\ TableFits(rows) /\ calls[c].seen \in Tables
      /\ Exists(calls[c].seen) \subseteq Exists(rows)
  BY <1>1, RequestIs
<1>3. rows' = Renumbered(rows, calls[c].seen, calls[c].ask.ids)
  BY <1>1 DEF Stores
<1>4. \A k \in DOMAIN ids : rows'[ids[k]].order = k
  <2> HIDE DEF ids, seen
  <2> QED BY <1>1, <1>2, <1>3, RenumberedInOrder DEF ids, seen
<1>5. \A j, k \in DOMAIN ids : j < k => Before(rows', ids[j], ids[k])
  BY <1>4 DEF Before
<1>6. Exists(rows) = Exists(seen) => Order(rows') = ids
  BY <1>1, <1>2, <1>3, RenumberedIsAsked
<1> QED BY <1>5, <1>6

\* A reorder leaves the rows it names in the order that was asked for, although it writes only
\* the positions that differ from those it has read, if the orders it has read are those of
\* the table: a creation may have come between, another reorder not.
THEOREM OrderIsAlwaysAsked == Spec => OrderIsAsked
<1>1. Fits /\ Fits' /\ [Next]_vars => [\A c \in Calls : Asked(c)]_vars
  BY StoredIsAsked
<1> QED BY <1>1, AlwaysFits, PTL DEF Spec, OrderIsAsked, Asked

-----------------------------------------------------------------------------
(* What the card is owed. *)

\* A move of this card that is not over: its list may be one the server never had.
Moving(cs) == \E c \in Calls : cs[c].own /\ cs[c].ask.kind = "reorder"

\* What the card has read, and what it shows unless it knows better, is one of the lists it
\* is owed; a page that knows better is reading again, or says that it could not.
Late(l, page, lists, moving) ==
    /\ l.got # None => l.got \in lists
    /\ page /\ l.invalid => l.fetch # "none" \/ l.error
    /\ l.data # None /\ l.fetch = "none" /\ ~l.error /\ ~l.invalid /\ ~moving
          => l.data \in lists

Owed == Truth \in since /\ Late(list, onPage, since, Moving(calls))

\* The list of the server is that of the table.
LEMMA SameTruth == ASSUME rows' = rows PROVE Truth' = Truth
  BY DEF Truth, ListAll

\* What is owed stays paid when the server has more lists or a move starts.
LEMMA LateGrows ==
  ASSUME NEW l, NEW page, NEW lists, NEW more, lists \subseteq more, NEW moving, NEW still,
         still \/ ~moving, Late(l, page, lists, moving)
  PROVE  Late(l, page, more, still)
  BY DEF Late

\* The answer of a mutation, or its failure, has the list read again.
LEMMA AnsweredIsLate ==
  ASSUME Fits, Owed, NEW items, items \in Lists(rows) \union {None},
         list' = Refresh(Written(list, items)), Told, UNCHANGED <<rows, onPage>>
  PROVE  Owed'
<1> PICK written : written = Written(list, items)
  OBVIOUS
<1>1. CardFits(rows, list) /\ CardFits(rows, written)
  BY WrittenFits DEF Fits
<1>2. written.fetch = list.fetch /\ written.got = list.got
      /\ (list.data # None => written.data # None)
  BY <1>1 DEF Written, CardFits, Cards
<1>3. list' = Refresh(written)
  OBVIOUS
<1>4. Truth' \in since'
  BY SameTruth DEF Told, Owed
<1>5. CASE ~onPage
  <2>1. list' = [written EXCEPT !.invalid = TRUE]
    BY <1>3, <1>5 DEF Refresh
  <2>2. list'.invalid /\ (list'.got # None => list'.got \in since')
    BY <1>1, <1>5, <2>1 DEF Told, CardFits, Cards
  <2> QED BY <1>4, <1>5, <2>2 DEF Owed, Late
<1>6. CASE onPage /\ list.data # None
  <2>1. list' = Fetching([written EXCEPT !.invalid = TRUE])
    BY <1>2, <1>1, <1>3, <1>6 DEF Refresh, CardFits, Cards
  <2>2. list'.fetch = "sent" /\ list'.got = None
    BY <1>1, <2>1 DEF Fetching, CardFits, Cards
  <2> QED BY <1>4, <2>2 DEF Owed, Late
<1>7. CASE onPage /\ list.data = None
  <2>1. list'.fetch # "none"
    BY <1>1, <1>2, <1>3, <1>7 DEF Refresh, Joined, Fetching, CardFits, Cards
  <2>2. list'.got # None => list'.got \in since'
    BY <1>7 DEF Told
  <2> QED BY <1>4, <2>1, <2>2 DEF Owed, Late
<1> QED BY <1>5, <1>6, <1>7

\* A request that is made: a move shows early, the others change nothing that is shown.
LEMMA SendOwed ==
  ASSUME Fits, Owed, NEW c \in Calls, NEW ask, NEW own \in BOOLEAN, Send(c, ask, own),
         \/ list' = list
         \/ own /\ ask.kind = "reorder" /\ \E items : list' = Written(list, items)
  PROVE  Owed'
<1> PICK new : new = [NoCall EXCEPT !.stage = "sent", !.ask = ask, !.own = own,
                          !.previous = IF own /\ ask.kind = "reorder" THEN list.data ELSE None]
  OBVIOUS
<1>1. new.own = own /\ new.ask = ask /\ ~NoCall.own
  BY DEF NoCall
<1>2. /\ calls[c] = NoCall /\ calls' = [calls EXCEPT ![c] = new]
      /\ UNCHANGED <<rows, onPage, since>>
  BY DEF Send
<1>3. calls'[c] = new /\ \A d \in Calls : d # c => calls'[d] = calls[d]
  BY <1>2 DEF Fits, CallsFit
<1>4. Moving(calls) => Moving(calls')
  BY <1>1, <1>2, <1>3 DEF Moving
<1>5. Truth' \in since'
  BY <1>2, SameTruth DEF Owed
<1>6. CASE list' = list
  <2>1. Late(list, onPage, since, Moving(calls'))
    BY <1>4, LateGrows DEF Owed
  <2> QED BY <1>2, <1>5, <1>6, <2>1 DEF Owed
<1>7. CASE own /\ ask.kind = "reorder" /\ \E items : list' = Written(list, items)
  <2>1. Moving(calls')
    <3>1. own = TRUE
      BY <1>7
    <3>2. calls'[c].own = TRUE /\ calls'[c].ask.kind = "reorder"
      BY <1>1, <1>3, <1>7, <3>1
    <3> QED BY <3>2 DEF Moving
  <2>2. PICK items : list' = Written(list, items)
    BY <1>7
  <2>3. /\ list'.got = list.got /\ list'.fetch = list.fetch
        /\ list' = list \/ ~list'.invalid
    BY <2>2 DEF Written, Fits, CardFits, Cards
  <2> QED BY <1>2, <1>5, <2>1, <2>3 DEF Owed, Late
<1> QED BY <1>6, <1>7

\* A request of somebody else, or one that failed without a trace, is forgotten.
LEMMA DoneOwed ==
  ASSUME Fits, Owed, NEW c \in Calls, NEW new, calls' = [calls EXCEPT ![c] = new],
         ~(calls[c].own /\ calls[c].ask.kind = "reorder"),
         UNCHANGED <<rows, onPage, list, since>>
  PROVE  Owed'
<1>1. \A d \in Calls : d # c => calls'[d] = calls[d]
  BY DEF Fits, CallsFit
<1>2. Moving(calls) => Moving(calls')
  BY <1>1 DEF Moving
<1>3. Late(list, onPage, since, Moving(calls'))
  BY <1>2, LateGrows DEF Owed
<1> QED BY <1>3, SameTruth DEF Owed

\* The steps of the server, of the page and of the list.
LEMMA ServerOwed ==
  ASSUME Fits, Fits', Owed, NEW c \in Calls, Server(c)
  PROVE  Owed'
<1>1. /\ UNCHANGED <<list, onPage>>
      /\ \/ rows' = rows /\ since' = since
         \/ since' = since \union {Truth'}
      /\ \A d \in Calls : calls'[d].own = calls[d].own /\ calls'[d].ask = calls[d].ask
  BY ServerStep
<1>2. Moving(calls) => Moving(calls')
  BY <1>1 DEF Moving
<1>3. since \subseteq since' /\ Truth' \in since'
  BY <1>1, SameTruth DEF Owed
<1>4. Late(list, onPage, since', Moving(calls'))
  BY <1>2, <1>3, LateGrows DEF Owed
<1> QED BY <1>1, <1>3, <1>4 DEF Owed

LEMMA PageOwed ==
  ASSUME Fits, Owed, NEW c \in Calls, Page(c) \/ OtherAsks(c) \/ OtherIsDone(c)
  PROVE  Owed'
<1>1. CASE Add(c) \/ Rename(c) \/ Toggle(c) \/ OtherAsks(c)
  <2>1. list' = list /\ \E ask, own : own \in BOOLEAN /\ Send(c, ask, own)
    BY <1>1 DEF Add, Rename, Toggle, OtherAsks
  <2> QED BY <2>1, SendOwed
<1>2. CASE Move(c)
  <2>1. \E ask, items : /\ ask.kind = "reorder" /\ Send(c, ask, TRUE)
                        /\ list' = Written(list, items)
    BY <1>2 DEF Move
  <2> QED BY <2>1, SendOwed
<1>3. CASE Succeeds(c)
  <2>1. UNCHANGED <<rows, onPage>> /\ Told
    BY <1>3 DEF Succeeds
  <2>2. PICK items \in Lists(rows) \union {None} : list' = Refresh(Written(list, items))
    BY <1>3, SucceedsWrites
  <2> QED BY <2>1, <2>2, AnsweredIsLate
<1>4. CASE Fails(c) /\ calls[c].ask.kind = "reorder"
  <2>1. /\ UNCHANGED <<rows, onPage>> /\ Told
        /\ list' = Refresh(Written(list, calls[c].previous))
    BY <1>4 DEF Fails
  <2>2. calls[c].previous \in Lists(rows) \union {None}
    BY <1>4, FailsIs, RequestIs DEF InFlight
  <2> QED BY <2>1, <2>2, AnsweredIsLate
<1>5. CASE Fails(c) /\ calls[c].ask.kind # "reorder"
  <2>1. \E new : calls' = [calls EXCEPT ![c] = new]
    BY <1>5, FailsIs
  <2>2. UNCHANGED <<rows, onPage, list, since>>
    BY <1>5 DEF Fails
  <2> QED BY <1>5, <2>1, <2>2, DoneOwed
<1>6. CASE OtherIsDone(c)
  BY <1>6, DoneOwed DEF OtherIsDone
<1> QED BY <1>1, <1>2, <1>3, <1>4, <1>5, <1>6 DEF Page

LEMMA ListOwed ==
  ASSUME Fits, Owed,
         OpenPage \/ LeavePage \/ Collect \/ ReadList \/ ListAnswered \/ ListFails \/ Refetch
  PROVE  Owed'
<1>1. list \in Cards(rows) /\ calls' = calls /\ rows' = rows /\ since' = since
  BY DEF Fits, CardFits, OpenPage, LeavePage, Collect, ReadList, ListAnswered, ListFails, Refetch
<1>2. Truth' \in since'
  BY <1>1, SameTruth DEF Owed
<1>3. CASE OpenPage
  <2>1. \/ list' = list /\ ~list.invalid
        \/ list' = Joined(list)
    BY <1>3 DEF OpenPage
  <2>2. list' = Joined(list) => /\ list'.fetch # "none"
                                /\ list'.got = None \/ list'.got = list.got
    BY <1>1 DEF Joined, Fetching, Cards
  <2> QED BY <1>1, <1>2, <2>1, <2>2 DEF Owed, Late
<1>4. CASE LeavePage
  BY <1>1, <1>2, <1>4 DEF LeavePage, Owed, Late
<1>5. CASE Collect
  <2>1. list'.got = None /\ list'.data = None /\ ~list'.invalid
    BY <1>5 DEF Collect, Unread
  <2> QED BY <1>1, <1>2, <2>1 DEF Owed, Late
<1>6. CASE ReadList
  <2>1. list'.fetch = "read" /\ list'.got = Truth
    BY <1>1, <1>6 DEF ReadList, Cards
  <2> QED BY <1>1, <1>2, <2>1 DEF Owed, Late
<1>7. CASE ListAnswered
  <2>1. list'.got = None /\ list'.data = list.got /\ ~list'.invalid
    BY <1>7 DEF ListAnswered, Unread
  <2> QED BY <1>1, <1>2, <2>1 DEF Owed, Late
<1>8. CASE ListFails
  <2>1. list'.got = None /\ list'.error
    BY <1>1, <1>8 DEF ListFails, Cards
  <2> QED BY <1>1, <1>2, <2>1 DEF Owed, Late
<1>9. CASE Refetch
  <2>1. list'.got = None /\ list'.fetch = "sent"
    BY <1>1, <1>9 DEF Refetch, Fetching, Cards
  <2> QED BY <1>1, <1>2, <2>1 DEF Owed, Late
<1> QED BY <1>3, <1>4, <1>5, <1>6, <1>7, <1>8, <1>9

\* What the card is owed holds at first and in every step.
LEMMA InitOwed == ASSUME Init PROVE Owed
  BY DEF Init, Unread, Owed, Late

LEMMA NextOwed == ASSUME Fits, Fits', Owed, [Next]_vars PROVE Owed'
<1>1. CASE UNCHANGED vars
  <2>1. Truth' = Truth
    BY <1>1, SameTruth DEF vars
  <2> QED BY <1>1, <2>1 DEF vars, Owed
<1>2. CASE Next
  BY <1>2, ServerOwed, PageOwed, ListOwed DEF Next
<1> QED BY <1>1, <1>2

LEMMA AlwaysOwed == Spec => []Owed
<1>1. Init => Owed
  BY InitOwed
<1>2. Fits /\ Fits' /\ Owed /\ [Next]_vars => Owed'
  BY NextOwed
<1> QED BY <1>1, <1>2, AlwaysFits, PTL DEF Spec

\* Once the changes of the card are over and nothing is being read, what it shows is a list
\* the server has had since the card was last told to read it, or the one that was already
\* on its way then and that nothing replaces, or an error.
THEOREM AlwaysShowsWhatItChanged == Spec => []ShowsWhatItChanged
<1>1. Owed => ShowsWhatItChanged
  BY DEF Owed, Late, Moving, ShowsWhatItChanged
<1> QED BY <1>1, AlwaysOwed, PTL

=============================================================================
