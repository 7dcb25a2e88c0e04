--------------------------- MODULE PanelFormsProofs ---------------------------
(***************************************************************************)
(* A form of the panel and its draft, for any number of texts, images and  *)
(* saves.  The inductive invariant adds to the types what the steps rely   *)
(* on: an upload has room for its image, a save that waits for the value   *)
(* to be read again was answered, what is read for it is not older, and    *)
(* the saves that can still reach the server bound its counter.            *)
(***************************************************************************)
EXTENDS PanelForms, FiniteSetTheorems, TLAPS

SavedUpTo(n) == [value : Value, number : 0 .. n]

Queries(n) == [data : SavedUpTo(n) \union {None}, fetch : {"none", "sent", "read"},
               got : SavedUpTo(n) \union {None}, failed : BOOLEAN, invalid : BOOLEAN]

Stages == {"none", "sent", "stored", "reread", "deaf", "over"}

Posted(n) == [stage : Stages, value : Value, number : 0 .. n, live : BOOLEAN, ok : BOOLEAN]

Forms == [on : BOOLEAN, value : Value, editor : 0 .. MaxTyped, timer : BOOLEAN,
          restored : BOOLEAN]

OneLive(requests) ==
    \A i, j \in Sends : /\ requests[i].live /\ requests[i].stage # "over"
                        /\ requests[j].live /\ requests[j].stage # "over"
                        => i = j

\* The type invariant in the parts that the steps change together.
Whole ==
    /\ kind \in Kinds /\ typed \in 0 .. MaxTyped /\ images \in 0 .. MaxImages
    /\ server \in SavedUpTo(MaxSends + 1)
Cached == query \in Queries(server.number) /\ (query.got # None <=> query.fetch = "read")
Mounted ==
    /\ page \in BOOLEAN /\ form \in Forms
    /\ (form.on => Shows(page, query)) /\ (~form.on => form = NoForm)
Held ==
    /\ upload \in Value \union {None} /\ confirming \in BOOLEAN
    /\ (upload # None \/ confirming => form.on)
Drafted == draft \in Value \union {None}
Sent ==
    /\ sends \in [Sends -> Posted(server.number)] /\ OneLive(sends)
    /\ \A i \in Sends : sends[i].live => form.on

\* An upload of a form that has a picker, with room for its image.
UploadFits == upload # None => kind # "composer" /\ images < MaxImages

\* A save whose value is being read again is that of a section, and was answered.
RereadIsSaved == \A i \in Sends : sends[i].stage = "reread" => kind = "section" /\ sends[i].ok

\* What was read while the form waits for it is not older than what it saved.
RereadIsLate ==
    \A i \in Sends :
        sends[i].live /\ sends[i].stage = "reread" /\ query.fetch = "read"
            => sends[i].number <= query.got.number

\* The saves that may still reach the server.
Open(requests) == {i \in Sends : requests[i].stage \in {"none", "sent", "deaf"}}

\* Every save of the server has used one of them up, or is the one of somebody else.
Counted ==
    server.number + Cardinality(Open(sends))
        <= MaxSends + (IF server.number > OthersAfter THEN 1 ELSE 0)

Parts == Whole /\ Cached /\ Mounted /\ Held /\ Drafted /\ Sent

IInv == Parts /\ UploadFits /\ RereadIsSaved /\ RereadIsLate /\ Counted

-----------------------------------------------------------------------------
\* At most one save can still answer the form.
LEMMA LivesAreFew ==
  ASSUME NEW r
  PROVE  OneLive(r) <=> Cardinality({i \in Sends : r[i].live /\ r[i].stage # "over"}) <= 1
<1> DEFINE S == {i \in Sends : r[i].live /\ r[i].stage # "over"}
<1>1. IsFiniteSet(S) /\ Cardinality(S) \in Nat
  <2>1. IsFiniteSet(Sends)
    BY FS_Interval, PanelFormsAssumption DEF Sends
  <2>2. QED BY <2>1, FS_Subset, FS_CardinalityType
<1>2. ASSUME OneLive(r) PROVE Cardinality(S) <= 1
  <2>1. CASE S = {}
    BY <2>1, FS_EmptySet
  <2>2. CASE S # {}
    <3>1. PICK i \in S : TRUE
      BY <2>2
    <3>2. S = {i}
      BY <3>1, <1>2 DEF OneLive
    <3>3. Cardinality({i}) = 1
      BY FS_Singleton
    <3> QED BY <3>2, <3>3
  <2> QED BY <2>1, <2>2
<1>3. ASSUME Cardinality(S) <= 1 PROVE OneLive(r)
  <2>1. S = {} \/ \E x : S = {x}
    BY <1>1, <1>3, FS_EmptySet, FS_Singleton
  <2> QED BY <2>1 DEF OneLive
<1> QED BY <1>2, <1>3

\* The parts are the type invariant.
LEMMA PartsAreTypes == TypeOK <=> Parts
<1>1. (Cardinality({i \in Sends : sends[i].live /\ sends[i].stage # "over"}) <= 1)
      <=> OneLive(sends)
  BY LivesAreFew
<1> QED
  BY <1>1 DEF TypeOK, Parts, Whole, Cached, Mounted, Held, Drafted, Sent, Saved, SavedUpTo,
              Queries, Posted, Stages, Forms

\* None is no value that was saved.
LEMMA NoneIsUnsaved == ASSUME NEW n \in Nat PROVE None \notin SavedUpTo(n)
  BY PanelFormsAssumption DEF SavedUpTo, Value

\* What was saved stays typed when the server counts on.
LEMMA MoreSaved ==
  ASSUME NEW n \in Nat, NEW m \in Nat, n <= m
  PROVE  /\ SavedUpTo(n) \subseteq SavedUpTo(m)
         /\ Queries(n) \subseteq Queries(m)
         /\ Posted(n) \subseteq Posted(m)
<1>1. 0 .. n \subseteq 0 .. m
  OBVIOUS
<1>2. SavedUpTo(n) \subseteq SavedUpTo(m)
  BY <1>1 DEF SavedUpTo
<1>3. Queries(n) \subseteq Queries(m)
  BY <1>2 DEF Queries
<1>4. Posted(n) \subseteq Posted(m)
  BY <1>1 DEF Posted
<1> QED BY <1>2, <1>3, <1>4

\* The empty value and the form that is not there.
LEMMA BlankIsValue == Blank \in Value /\ NoForm \in Forms /\ ~NoForm.on
  BY PanelFormsAssumption DEF Blank, Value, NoForm, Forms

\* The invariant holds at first.
LEMMA InitIInv == Init => IInv
<1> SUFFICES ASSUME Init PROVE IInv
  OBVIOUS
<1>1. server.number = 0 /\ server \in SavedUpTo(MaxSends + 1) /\ server \in SavedUpTo(0)
  BY BlankIsValue, PanelFormsAssumption DEF Init, SavedUpTo
<1>2. Unloaded \in Queries(0)
  BY DEF Unloaded, Queries
<1>3. Unsent \in Posted(0)
  BY BlankIsValue DEF Unsent, Posted, Stages
<1>4. Counted
  <2>1. Open(sends) = 1 .. MaxSends
    BY DEF Init, Open, Unsent, Sends
  <2>2. Cardinality(Open(sends)) = MaxSends
    BY <2>1, FS_Interval, PanelFormsAssumption
  <2> QED BY <1>1, <2>2, PanelFormsAssumption DEF Counted
<1>5. Whole
  BY <1>1, PanelFormsAssumption DEF Init, Whole
<1>6. Cached
  BY <1>1, <1>2 DEF Init, Cached, Unloaded
<1>7. Mounted /\ Held /\ Drafted
  BY BlankIsValue DEF Init, Mounted, Held, Drafted
<1>8. Sent
  BY <1>1, <1>3 DEF Init, Sent, OneLive, Unsent
<1>9. UploadFits /\ RereadIsSaved /\ RereadIsLate
  BY DEF Init, UploadFits, RereadIsSaved, RereadIsLate, Unsent
<1> QED BY <1>4, <1>5, <1>6, <1>7, <1>8, <1>9 DEF IInv, Parts


-----------------------------------------------------------------------------
\* The operators keep the types.

\* The values and forms that the steps make.
LEMMA BaseIsValue ==
  ASSUME NEW n \in Nat, NEW q \in Queries(n), Edits => q.data # None
  PROVE  Base(q) \in Value
  BY BlankIsValue DEF Base, Queries, SavedUpTo

LEMMA FreshIsForm ==
  ASSUME NEW base \in Value, NEW d \in Value \union {None}
  PROVE  Fresh(base, d) \in Forms /\ Fresh(base, d).on /\ Fresh(base, d).timer
<1> DEFINE value == IF d = None THEN base ELSE Restored(base, d)
           restored == kind # "composer" /\ d # None /\ (kind = "broadcast" \/ value # base)
<1>1. value \in Value /\ value.text \in 0 .. MaxTyped
  BY DEF Restored, Value
<1>2. restored \in BOOLEAN
  OBVIOUS
<1> HIDE DEF value, restored
<1>3. Fresh(base, d) = [on |-> TRUE, value |-> value, editor |-> value.text, timer |-> TRUE,
                       restored |-> restored]
  BY DEF Fresh, value, restored
<1> QED BY <1>1, <1>2, <1>3 DEF Forms

LEMMA StorableIsValue ==
  ASSUME NEW value \in Value PROVE Persisted(value) \in Value \union {None}
  BY PanelFormsAssumption DEF Persisted, Storable, Value

LEMMA DetachedIsPosted ==
  ASSUME NEW n \in Nat, NEW r \in [Sends -> Posted(n)]
  PROVE  /\ Detached(r) \in [Sends -> Posted(n)]
         /\ \A i \in Sends : /\ ~Detached(r)[i].live
                             /\ Detached(r)[i].stage = r[i].stage /\ Detached(r)[i].ok = r[i].ok
                             /\ Detached(r)[i].number = r[i].number
         /\ OneLive(Detached(r)) /\ Open(Detached(r)) = Open(r)
<1>1. \A i \in Sends : /\ ~Detached(r)[i].live
                       /\ Detached(r)[i].stage = r[i].stage /\ Detached(r)[i].ok = r[i].ok
                       /\ Detached(r)[i].number = r[i].number
  BY DEF Detached, Posted
<1>2. Detached(r) \in [Sends -> Posted(n)]
  BY DEF Detached, Posted
<1> QED BY <1>1, <1>2 DEF OneLive, Open

LEMMA OpenIsCounted ==
  ASSUME NEW r PROVE IsFiniteSet(Open(r)) /\ Cardinality(Open(r)) \in Nat
<1>1. IsFiniteSet(Sends)
  BY FS_Interval, PanelFormsAssumption DEF Sends
<1> QED BY <1>1, FS_Subset, FS_CardinalityType DEF Open

-----------------------------------------------------------------------------
\* The steps, by what they change.

\* A step that renders the page anew, whatever it makes of the query and the saves.
LEMMA RenderKeeps ==
  ASSUME IInv, NEW p \in BOOLEAN,
         NEW q \in Queries(server.number), q.got # None <=> q.fetch = "read",
         NEW d \in Value \union {None},
         NEW r \in [Sends -> Posted(server.number)], OneLive(r),
         \A i \in Sends :
            /\ r[i].live => sends[i].live
            /\ r[i].stage = "reread" => kind = "section" /\ r[i].ok
            /\ r[i].live /\ r[i].stage = "reread" /\ q.fetch = "read"
                  => r[i].number <= q.got.number,
         Open(r) = Open(sends),
         Render(p, q, d, r), UNCHANGED <<kind, typed, images, server>>
  PROVE  IInv'
<1>0. server.number \in Nat
  BY PanelFormsAssumption DEF IInv, Parts, Whole, SavedUpTo
<1> DEFINE stays == Stays(p, q)
           mine == IF stays THEN r ELSE Detached(r)
<1>1. page' = p /\ query' = q /\ draft' = d /\ sends' = mine
      /\ form' = (IF stays THEN form ELSE IF Shows(p, q) THEN Fresh(Base(q), d) ELSE NoForm)
      /\ upload' = (IF stays THEN upload ELSE None) /\ confirming' = (confirming /\ stays)
  BY DEF Render
<1>2. /\ mine \in [Sends -> Posted(server.number)] /\ OneLive(mine)
      /\ Open(mine) = Open(sends)
      /\ \A i \in Sends : /\ mine[i].live => stays /\ r[i].live
                          /\ mine[i].stage = r[i].stage /\ mine[i].ok = r[i].ok
                          /\ mine[i].number = r[i].number
  BY <1>0, DetachedIsPosted
<1>3. stays => form.on /\ Shows(p, q)
  BY DEF Stays
<1>4. Shows(p, q) => p /\ Base(q) \in Value
  BY <1>0, BaseIsValue DEF Shows
<1>5. form' \in Forms /\ (form'.on <=> Shows(p, q)) /\ (~form'.on => form' = NoForm)
  <2>1. CASE stays
    BY <1>1, <1>3, <2>1 DEF IInv, Parts, Mounted
  <2>2. CASE ~stays /\ Shows(p, q)
    BY <1>1, <1>4, <2>2, FreshIsForm
  <2>3. CASE ~stays /\ ~Shows(p, q)
    BY <1>1, <2>3, BlankIsValue
  <2> QED BY <2>1, <2>2, <2>3
<1>6. Whole' /\ Drafted'
  BY <1>1 DEF IInv, Parts, Whole, Drafted, SavedUpTo, Value
<1>7. Cached'
  BY <1>1 DEF Cached, Queries, SavedUpTo, Value
<1>8. Mounted'
  <2>1. Shows(p, q) = Shows(page, query)'
    BY <1>1 DEF Shows, Edits
  <2> QED BY <1>1, <1>5, <2>1 DEF Mounted, Forms, Value, NoForm, Blank
<1>9. Held'
  BY <1>1, <1>3, <1>5 DEF IInv, Parts, Held, Value
<1>10. Sent'
  <2>1. \A i \in Sends : sends'[i].live => form'.on
    BY <1>1, <1>2, <1>3, <1>5
  <2>2. OneLive(sends)' /\ sends' \in [Sends -> Posted(server.number)]
    BY <1>1, <1>2 DEF OneLive
  <2> QED BY <2>1, <2>2 DEF Sent, Posted, Value
<1>11. UploadFits'
  BY <1>1 DEF IInv, UploadFits
<1>12. RereadIsSaved' /\ RereadIsLate'
  BY <1>1, <1>2 DEF RereadIsSaved, RereadIsLate
<1>13. Counted'
  <2>1. Open(sends)' = Open(sends)
    BY <1>1, <1>2 DEF Open
  <2> QED BY <2>1 DEF IInv, Counted
<1> QED BY <1>6, <1>7, <1>8, <1>9, <1>10, <1>11, <1>12, <1>13 DEF IInv, Parts

\* A step that leaves the page, the server and the saved value that is shown alone.
LEMMA PageStays ==
  ASSUME IInv, UNCHANGED <<kind, server, page>>,
         typed' \in 0 .. MaxTyped, images' \in 0 .. MaxImages,
         NEW q \in Queries(server.number), q.got # None <=> q.fetch = "read",
         q.data = query.data, q.failed = query.failed, query' = q,
         form' \in Forms, form'.on = form.on, ~form.on => form' = form,
         upload' \in Value \union {None}, upload' # None => form.on, UploadFits',
         confirming' \in BOOLEAN, confirming' => form.on,
         draft' \in Value \union {None},
         NEW r \in [Sends -> Posted(server.number)], OneLive(r), sends' = r,
         \A i \in Sends :
            /\ r[i].live => form.on
            /\ r[i].stage = "reread" => kind = "section" /\ r[i].ok
            /\ r[i].live /\ r[i].stage = "reread" /\ q.fetch = "read"
                  => r[i].number <= q.got.number,
         Open(r) \subseteq Open(sends)
  PROVE  IInv'
<1>1. Whole' /\ Drafted'
  BY DEF IInv, Parts, Whole, Drafted, SavedUpTo, Value
<1>2. Cached'
  BY DEF Cached, Queries, SavedUpTo, Value
<1>3. Mounted'
  <2>1. Shows(page, query) = Shows(page, query)'
    BY DEF Shows, Edits
  <2> QED BY <2>1 DEF IInv, Parts, Mounted, Forms, Value, NoForm, Blank
<1>4. Held'
  BY DEF Held, Value
<1>5. Sent'
  BY DEF Sent, OneLive, Posted, Value
<1>6. RereadIsSaved' /\ RereadIsLate'
  BY DEF RereadIsSaved, RereadIsLate
<1>7. Counted'
  <2>1. /\ Cardinality(Open(r)) \in Nat /\ Cardinality(Open(sends)) \in Nat
        /\ Cardinality(Open(r)) <= Cardinality(Open(sends))
    BY OpenIsCounted, FS_Subset
  <2>2. Open(sends)' = Open(r)
    BY DEF Open
  <2>3. server.number \in Nat
    BY PanelFormsAssumption DEF IInv, Parts, Whole, SavedUpTo
  <2> QED BY <2>1, <2>2, <2>3, PanelFormsAssumption DEF IInv, Counted
<1> QED BY <1>1, <1>2, <1>3, <1>4, <1>5, <1>6, <1>7 DEF IInv, Parts

\* The page goes, with the form and the cache.
LEMMA GoneKeeps ==
  ASSUME IInv, NEW d \in Value \union {None}, Gone(d),
         NEW r \in [Sends -> Posted(server.number)], sends' = r,
         \A i \in Sends : ~r[i].live /\ r[i].stage # "reread",
         Open(r) = Open(sends)
  PROVE  IInv'
<1> USE DEF Gone
<1>1. Whole' /\ Drafted'
  BY DEF IInv, Parts, Whole, Drafted, SavedUpTo, Value
<1>2. Cached'
  <2>1. Unloaded \in Queries(server.number) /\ Unloaded.got = None /\ Unloaded.fetch = "none"
    BY DEF Unloaded, Queries
  <2> QED BY <2>1 DEF Cached, Queries, SavedUpTo, Value
<1>3. Mounted' /\ Held'
  BY BlankIsValue DEF Mounted, Held, Forms, Value, NoForm, Blank
<1>4. Sent' /\ RereadIsSaved' /\ RereadIsLate'
  BY DEF Sent, OneLive, Posted, Value, RereadIsSaved, RereadIsLate
<1>5. UploadFits'
  BY DEF UploadFits
<1>6. Counted'
  <2>1. Open(sends)' = Open(sends)
    BY DEF Open
  <2> QED BY <2>1 DEF IInv, Counted
<1> QED BY <1>1, <1>2, <1>3, <1>4, <1>5, <1>6 DEF IInv, Parts

\* What the step lemmas need of the state when a step leaves a part of it alone.
LEMMA StateIsTyped ==
  ASSUME IInv
  PROVE  /\ server.number \in Nat /\ kind \in Kinds /\ page \in BOOLEAN
         /\ typed \in 0 .. MaxTyped /\ images \in 0 .. MaxImages
         /\ query \in Queries(server.number) /\ (query.got # None <=> query.fetch = "read")
         /\ form \in Forms /\ (form.on => Shows(page, query)) /\ (~form.on => form = NoForm)
         /\ upload \in Value \union {None} /\ confirming \in BOOLEAN
         /\ (upload # None \/ confirming => form.on)
         /\ draft \in Value \union {None}
         /\ sends \in [Sends -> Posted(server.number)] /\ OneLive(sends)
         /\ \A i \in Sends :
               /\ sends[i].live => form.on
               /\ sends[i].stage = "reread" => kind = "section" /\ sends[i].ok
               /\ sends[i].live /\ sends[i].stage = "reread" /\ query.fetch = "read"
                     => sends[i].number <= query.got.number
         /\ UploadFits
  BY PanelFormsAssumption
  DEF IInv, Parts, Whole, Cached, Mounted, Held, Drafted, Sent, SavedUpTo,
      RereadIsSaved, RereadIsLate

-----------------------------------------------------------------------------
\* The query.

LEMMA FetchingIsQuery ==
  ASSUME NEW n \in Nat, NEW q \in Queries(n)
  PROVE  /\ Fetching(q) \in Queries(n) /\ Fetching(q).got = None /\ Fetching(q).fetch = "sent"
         /\ Fetching(q).data = q.data /\ Fetching(q).failed = q.failed
  BY DEF Fetching, Queries

LEMMA InvalidatedIsQuery ==
  ASSUME NEW n \in Nat, NEW q \in Queries(n), q.got # None <=> q.fetch = "read"
  PROVE  /\ Invalidated(q) \in Queries(n)
         /\ (Invalidated(q).got # None <=> Invalidated(q).fetch = "read")
         /\ Invalidated(q).data = q.data /\ Invalidated(q).failed = q.failed
         /\ page /\ q.data # None => Invalidated(q).fetch = "sent"
         /\ ~(page /\ (q.data # None \/ q.fetch = "none"))
               => Invalidated(q).fetch = q.fetch /\ Invalidated(q).got = q.got
<1>1. CASE page /\ (q.data # None \/ q.fetch = "none")
  <2> DEFINE f == Fetching(q)
  <2>1. Invalidated(q) = [f EXCEPT !.invalid = TRUE]
    BY <1>1 DEF Invalidated
  <2>2. f \in Queries(n) /\ f.got = None /\ f.fetch = "sent"
        /\ f.data = q.data /\ f.failed = q.failed
    BY FetchingIsQuery
  <2> HIDE DEF f
  <2>3. [f EXCEPT !.invalid = TRUE] \in Queries(n)
    BY <2>2 DEF Queries
  <2>4. /\ Invalidated(q).got = None /\ Invalidated(q).fetch = "sent"
        /\ Invalidated(q).data = q.data /\ Invalidated(q).failed = q.failed
    BY <2>1, <2>2 DEF Queries
  <2> QED BY <1>1, <2>1, <2>3, <2>4
<1>2. CASE ~(page /\ (q.data # None \/ q.fetch = "none"))
  <2>1. Invalidated(q) = [q EXCEPT !.invalid = TRUE]
    BY <1>2 DEF Invalidated
  <2> QED BY <1>2, <2>1 DEF Queries
<1> QED BY <1>1, <1>2

LEMMA RereadIsPosted ==
  ASSUME IInv
  PROVE  /\ Reread \in [Sends -> Posted(server.number)] /\ OneLive(Reread)
         /\ \A i \in Sends : /\ Reread[i].stage # "reread" /\ Reread[i].live = sends[i].live
                             /\ Reread[i].ok = sends[i].ok
         /\ Open(Reread) = Open(sends)
<1> USE StateIsTyped DEF Reread
<1>1. \A i \in Sends :
         /\ Reread[i] \in Posted(server.number)
         /\ Reread[i].live = sends[i].live /\ Reread[i].ok = sends[i].ok
         /\ Reread[i].stage = IF sends[i].stage = "reread" THEN "over" ELSE sends[i].stage
  BY DEF Posted, Stages
<1>2. Reread \in [Sends -> Posted(server.number)]
  BY <1>1
<1> QED BY <1>1, <1>2 DEF OneLive, Open

\* The steps of the query.
LEMMA RefetchKeeps == ASSUME IInv, Refetch PROVE IInv'
  BY StateIsTyped, FetchingIsQuery, PageStays DEF Refetch, UploadFits

LEMMA ReadKeeps == ASSUME IInv, Read PROVE IInv'
<1> USE StateIsTyped
<1> DEFINE q == [query EXCEPT !.fetch = "read", !.got = server]
<1>1. server \in SavedUpTo(server.number) /\ server # None
  BY NoneIsUnsaved DEF IInv, Parts, Whole, SavedUpTo
<1>2. q \in Queries(server.number) /\ q.got = server /\ q.fetch = "read"
      /\ q.data = query.data /\ q.failed = query.failed
  BY <1>1 DEF Queries
<1>3. \A i \in Sends : sends[i].number <= q.got.number
  BY <1>2 DEF Posted
<1> HIDE DEF q
<1>4. query' = q
  BY DEF Read, q
<1> QED BY <1>1, <1>2, <1>3, <1>4, PageStays DEF Read, UploadFits

LEMMA FetchAnsweredKeeps == ASSUME IInv, FetchAnswered PROVE IInv'
<1> USE StateIsTyped
<1> DEFINE q == [Unloaded EXCEPT !.data = query.got]
<1>1. q \in Queries(server.number) /\ q.got = None /\ q.fetch = "none"
  BY DEF Unloaded, Queries
<1>2. DraftAfterReread \in Value \union {None}
  BY DEF DraftAfterReread
<1>3. Render(page, q, DraftAfterReread, Reread) /\ UNCHANGED <<kind, typed, images, server>>
  BY DEF FetchAnswered
<1> HIDE DEF q
<1> QED BY <1>1, <1>2, <1>3, RereadIsPosted, RenderKeeps

LEMMA FetchFailsKeeps == ASSUME IInv, FetchFails PROVE IInv'
<1> USE StateIsTyped
<1> DEFINE q == [query EXCEPT !.fetch = "none", !.got = None, !.failed = TRUE, !.invalid = TRUE]
<1>1. q \in Queries(server.number) /\ q.got = None /\ q.fetch = "none"
  BY DEF Queries
<1>2. DraftAfterReread \in Value \union {None}
  BY DEF DraftAfterReread
<1> QED BY <1>1, <1>2, RereadIsPosted, RenderKeeps DEF FetchFails

-----------------------------------------------------------------------------
\* The page.

\* Coming, leaving, and what ends the form or the draft.
LEMMA OpenPageKeeps == ASSUME IInv, OpenPage PROVE IInv'
<1> USE StateIsTyped
<1>1. PICK q \in {query, Fetching(query)} :
         Render(TRUE, q, draft, sends) /\ UNCHANGED <<kind, typed, images, server>>
  BY DEF OpenPage
<1>2. /\ q \in Queries(server.number) /\ (q.got # None <=> q.fetch = "read")
      /\ q.fetch = "read" => q = query
  BY FetchingIsQuery
<1> QED BY <1>1, <1>2, RenderKeeps

LEMMA LeaveKeeps == ASSUME IInv, LeavePage \/ LeaveSection PROVE IInv'
<1> USE StateIsTyped
<1>1. PICK d \in {None, draft} :
         Render(FALSE, query, d, sends) /\ UNCHANGED <<kind, typed, images, server>>
  BY DEF LeavePage, LeaveSection
<1> QED BY <1>1, RenderKeeps

LEMMA ReloadKeeps == ASSUME IInv, Reload PROVE IInv'
<1> USE StateIsTyped
<1>1. PICK d \in Value \union {None} : Gone(d)
  BY StorableIsValue DEF Reload, Forms
<1>2. \A i \in Sends :
         /\ sends'[i] \in Posted(server.number)
         /\ ~sends'[i].live /\ sends'[i].stage # "reread"
         /\ sends'[i].stage \in {"none", "sent", "deaf"}
               <=> sends[i].stage \in {"none", "sent", "deaf"}
  BY DEF Reload, Posted, Stages
<1>3. sends' \in [Sends -> Posted(server.number)]
  BY <1>2 DEF Reload
<1>4. Open(sends') = Open(sends)
  BY <1>2 DEF Open
<1>5. PICK r \in [Sends -> Posted(server.number)] : sends' = r
  BY <1>3
<1> QED BY <1>1, <1>2, <1>4, <1>5, GoneKeeps

LEMMA SessionEndsKeeps == ASSUME IInv, SessionEnds PROVE IInv'
<1> USE StateIsTyped
<1>1. PICK d \in {None, draft} : Gone(d)
  BY DEF SessionEnds
<1>2. sends' = Detached(Reread)
  BY DEF SessionEnds
<1> QED BY <1>1, <1>2, RereadIsPosted, DetachedIsPosted, GoneKeeps

LEMMA DraftExpiresKeeps == ASSUME IInv, DraftExpires PROVE IInv'
<1> USE StateIsTyped
<1>1. draft' \in Value \union {None}
  BY PanelFormsAssumption DEF DraftExpires, Value
<1> QED BY <1>1, PageStays DEF DraftExpires, UploadFits

-----------------------------------------------------------------------------
\* The fields of the form and its image.

LEMMA EnteredIsForm ==
  ASSUME form \in Forms, NEW value \in Value, NEW editor \in 0 .. MaxTyped,
         Entered(value, editor)
  PROVE  /\ form' \in Forms /\ form'.on = form.on /\ form'.timer
         /\ form'.value = value /\ form'.editor = editor
<1>1. form' = [form EXCEPT !.value = value, !.editor = editor, !.timer = TRUE]
  BY DEF Entered
<1> QED BY <1>1 DEF Forms

\* A step that changes nothing but the form, the counters of texts and images, the upload,
\* the dialog and the draft.
LEMMA FieldsKeep ==
  ASSUME IInv, UNCHANGED <<kind, server, query, page, sends>>,
         typed' \in 0 .. MaxTyped, images' \in 0 .. MaxImages,
         form' \in Forms, form.on, form'.on,
         upload' \in Value \union {None}, UploadFits',
         confirming' \in BOOLEAN, draft' \in Value \union {None}
  PROVE  IInv'
  BY StateIsTyped, PageStays

\* What the person does in the form.
LEMMA TypesKeep ==
  ASSUME IInv, TypeMessage \/ TypeInSection \/ TypeInTheme \/ TypeInBroadcast
  PROVE  IInv'
<1> USE StateIsTyped
<1>0. Types
  BY DEF TypeMessage, TypeInSection, TypeInTheme, TypeInBroadcast
<1>1. PICK text \in {0, typed + 1} :
         /\ text <= MaxTyped /\ typed' = IF text = 0 THEN typed ELSE text
         /\ Entered([form.value EXCEPT !.text = text], text)
  BY <1>0 DEF Types
<1>2. text \in 0 .. MaxTyped /\ typed' \in 0 .. MaxTyped
  BY <1>1, PanelFormsAssumption
<1>3. [form.value EXCEPT !.text = text] \in Value
  BY <1>2 DEF Forms, Value
<1>4. form' \in Forms /\ form'.on = form.on
  BY <1>1, <1>2, <1>3, EnteredIsForm
<1> QED BY <1>0, <1>2, <1>4, FieldsKeep DEF Types, UploadFits

LEMMA SavesDraftKeep == ASSUME IInv, SaveDraft \/ ResetDraft PROVE IInv'
<1> USE StateIsTyped
<1>1. CASE SaveDraft
  <2>1. draft' \in Value \union {None}
    BY <1>1, StorableIsValue DEF SaveDraft, Forms
  <2>2. form.on
    BY <1>1 DEF SaveDraft, NoForm
  <2>3. form' \in Forms /\ form'.on
    BY <1>1, <2>2 DEF SaveDraft, Forms
  <2> QED BY <1>1, <2>1, <2>2, <2>3, FieldsKeep DEF SaveDraft, UploadFits
<1>2. CASE ResetDraft
  <2>1. Base(query) \in Value
    BY <1>2, BaseIsValue DEF ResetDraft, Shows
  <2>2. form' \in Forms /\ form'.on
    BY <1>2, <2>1, FreshIsForm DEF ResetDraft
  <2> QED BY <1>2, <2>2, FieldsKeep DEF ResetDraft, UploadFits
<1> QED BY <1>1, <1>2

LEMMA FilesKeep == ASSUME IInv, PickFiles \/ DropFiles \/ RemoveImage PROVE IInv'
<1> USE StateIsTyped
<1>1. form.on
  BY DEF PickFiles, DropFiles, RemoveImage, NoForm, Blank
<1>2. CASE PickFiles
  <2>1. images' \in 0 .. MaxImages
    BY <1>2, PanelFormsAssumption DEF PickFiles
  <2>2. form' \in Forms /\ form'.on
    BY <1>1, <1>2, <2>1 DEF PickFiles, Forms, Value
  <2> QED BY <1>1, <1>2, <2>1, <2>2, FieldsKeep DEF PickFiles, UploadFits
<1>3. CASE DropFiles
  <2>1. form' \in Forms /\ form'.on
    BY <1>1, <1>3, PanelFormsAssumption DEF DropFiles, Forms, Value
  <2> QED BY <1>1, <1>3, <2>1, FieldsKeep DEF DropFiles, UploadFits
<1>4. CASE RemoveImage
  <2>1. [form.value EXCEPT !.photo = 0] \in Value /\ form.editor \in 0 .. MaxTyped
    BY PanelFormsAssumption DEF Forms, Value
  <2>2. form' \in Forms /\ form'.on = form.on
    BY <1>4, <2>1, EnteredIsForm DEF RemoveImage
  <2> QED BY <1>1, <1>4, <2>2, FieldsKeep DEF RemoveImage, UploadFits
<1> QED BY <1>2, <1>3, <1>4

LEMMA PickImageKeeps == ASSUME IInv, PickImage \/ UploadFails PROVE IInv'
<1> USE StateIsTyped
<1>1. form.on /\ upload' \in Value \union {None} /\ UploadFits'
  BY DEF PickImage, UploadFails, Forms, UploadFits
<1> QED BY <1>1, FieldsKeep DEF PickImage, UploadFails

\* Whatever the callback of an upload puts its image on.
LEMMA UploadedKeeps ==
  ASSUME IInv, Uploaded, NEW value \in Value, NEW editor \in 0 .. MaxTyped,
         Entered([value EXCEPT !.photo = images + 1], editor)
  PROVE  IInv'
<1> USE StateIsTyped
<1>1. form.on /\ images + 1 \in 0 .. MaxImages
  BY PanelFormsAssumption DEF Uploaded, UploadFits
<1>2. [value EXCEPT !.photo = images + 1] \in Value
  BY <1>1 DEF Value
<1>3. form' \in Forms /\ form'.on = form.on
  BY <1>2, EnteredIsForm
<1> QED BY <1>1, <1>3, FieldsKeep DEF Uploaded, UploadFits

LEMMA UploadsKeep ==
  ASSUME IInv, SectionImageUploaded \/ LogoUploaded \/ PhotoUploaded
  PROVE  IInv'
<1> USE StateIsTyped
<1>1. upload \in Value /\ upload.text \in 0 .. MaxTyped
      /\ form.value \in Value /\ form.editor \in 0 .. MaxTyped
  BY DEF SectionImageUploaded, LogoUploaded, PhotoUploaded, Uploaded, Forms, Value
<1> QED
  BY <1>1, UploadedKeeps DEF SectionImageUploaded, LogoUploaded, PhotoUploaded

-----------------------------------------------------------------------------
\* The saves.

\* A step that changes saves but reads nothing again, and may clear the form.
LEMMA SavesKeep ==
  ASSUME IInv, UNCHANGED <<kind, typed, images, server, query, page>>,
         form' \in Forms, form'.on = form.on, ~form.on => form' = form,
         upload' \in {upload, None}, confirming' \in BOOLEAN, confirming' => confirming,
         draft' \in Value \union {None},
         NEW r \in [Sends -> Posted(server.number)], OneLive(r), sends' = r,
         \A i \in Sends : r[i].live => form.on,
         \A i \in Sends : r[i].stage = "reread"
            => r[i] = sends[i] \/ (sends[i].stage = "reread" /\ ~r[i].live /\ r[i].ok),
         Open(r) \subseteq Open(sends)
  PROVE  IInv'
<1> USE StateIsTyped
<1>1. \A i \in Sends :
         /\ r[i].live => form.on
         /\ r[i].stage = "reread" => kind = "section" /\ r[i].ok
         /\ r[i].live /\ r[i].stage = "reread" /\ query.fetch = "read"
               => r[i].number <= query.got.number
  OBVIOUS
<1>2. /\ upload' \in Value \union {None} /\ (upload' # None => form.on) /\ UploadFits'
      /\ confirming' \in BOOLEAN /\ (confirming' => form.on)
  BY DEF UploadFits
<1>3. /\ query' = query /\ UNCHANGED <<kind, server, page>>
      /\ typed' \in 0 .. MaxTyped /\ images' \in 0 .. MaxImages
  OBVIOUS
<1> QED BY <1>1, <1>2, <1>3, PageStays

\* A save leaves.
LEMMA PostsKeep ==
  ASSUME IInv, SendMessage \/ SaveSection \/ SaveTheme \/ ConfirmBroadcast
  PROVE  IInv'
<1> USE StateIsTyped
<1>0. Posts
  BY DEF SendMessage, SaveSection, SaveTheme, ConfirmBroadcast
<1> DEFINE new == [Unsent EXCEPT !.stage = "sent", !.value = form.value, !.live = TRUE]
           old == Detached(sends)
<1>1. PICK i \in Sends : sends[i] = Unsent /\ sends' = [old EXCEPT ![i] = new]
  BY <1>0 DEF Posts
<1>2. /\ new \in Posted(server.number) /\ new.stage = "sent" /\ new.live
  <2>1. Unsent \in Posted(server.number)
    BY BlankIsValue DEF Unsent, Posted, Stages
  <2>2. form.value \in Value
    BY DEF Forms
  <2>3. \A u \in Posted(server.number), v \in Value :
           /\ [u EXCEPT !.stage = "sent", !.value = v, !.live = TRUE] \in Posted(server.number)
           /\ [u EXCEPT !.stage = "sent", !.value = v, !.live = TRUE].stage = "sent"
           /\ [u EXCEPT !.stage = "sent", !.value = v, !.live = TRUE].live
    BY DEF Posted, Stages
  <2> QED BY <2>1, <2>2, <2>3
<1>3. /\ old \in [Sends -> Posted(server.number)] /\ Open(old) = Open(sends)
      /\ \A j \in Sends : /\ ~old[j].live /\ old[j].stage = sends[j].stage
                          /\ old[j].ok = sends[j].ok
  BY DetachedIsPosted
<1> HIDE DEF new, old
<1>4. PICK r : r = [old EXCEPT ![i] = new]
  OBVIOUS
<1>5. r \in [Sends -> Posted(server.number)] /\ r[i] = new
      /\ \A j \in Sends \ {i} : r[j] = old[j]
  BY <1>2, <1>3, <1>4
<1>6. OneLive(r)
  BY <1>3, <1>5 DEF OneLive
<1>7. Open(r) \subseteq Open(sends)
  <2>1. sends[i].stage = "none"
    BY <1>1 DEF Unsent
  <2> QED BY <1>3, <1>5, <2>1 DEF Open
<1>8. \A j \in Sends : /\ r[j].live => form.on
                       /\ r[j].stage = "reread" => sends[j].stage = "reread" /\ ~r[j].live /\ r[j].ok
  BY <1>0, <1>2, <1>3, <1>5 DEF Posts
<1>9. UNCHANGED <<kind, typed, images, server, query, page, form, upload, confirming, draft>>
  BY <1>0 DEF Posts
<1> QED BY <1>1, <1>4, <1>5, <1>6, <1>7, <1>8, <1>9, SavesKeep

\* A step after which nothing in flight reports to the form any more.
LEMMA DetachedKeeps ==
  ASSUME IInv, UNCHANGED <<kind, typed, images, server, query, page>>,
         form' \in Forms, form.on, form'.on, upload' \in {upload, None},
         confirming' \in BOOLEAN, confirming' => confirming, draft' \in Value \union {None},
         sends' = Detached(sends)
  PROVE  IInv'
<1> USE StateIsTyped
<1> DEFINE r == Detached(sends)
<1>1. /\ r \in [Sends -> Posted(server.number)] /\ OneLive(r) /\ Open(r) \subseteq Open(sends)
      /\ \A i \in Sends : ~r[i].live /\ r[i].stage = sends[i].stage /\ r[i].ok = sends[i].ok
  BY DetachedIsPosted
<1>2. sends' = r
  OBVIOUS
<1> HIDE DEF r
<1> QED BY <1>1, <1>2, SavesKeep

LEMMA ClearBroadcastKeeps == ASSUME IInv, ClearBroadcast PROVE IInv'
<1> USE StateIsTyped
<1>1. form' \in Forms /\ form'.on
  BY BlankIsValue, FreshIsForm DEF ClearBroadcast
<1> QED BY <1>1, DetachedKeeps DEF ClearBroadcast

LEMMA DialogKeeps == ASSUME IInv, SubmitBroadcast \/ CancelBroadcast PROVE IInv'
<1> USE StateIsTyped
<1>1. CASE SubmitBroadcast
  BY <1>1, FieldsKeep DEF SubmitBroadcast, UploadFits
<1>2. CASE CancelBroadcast
  BY <1>2, DetachedKeeps DEF CancelBroadcast
<1> QED BY <1>1, <1>2

\* A save that goes on to a stage from which it does not reach the server any more.
LEMMA SaveGoesOn ==
  ASSUME IInv, NEW i \in Sends, NEW n, NEW r \in [Sends -> Posted(n)],
         r[i].stage \in {"stored", "reread", "over"}, sends[i].stage # "none",
         r[i].live => sends[i].live /\ sends[i].stage # "over",
         \A j \in Sends \ {i} : r[j] = sends[j]
  PROVE  /\ OneLive(r) /\ \A j \in Sends : r[j].live => sends[j].live
         /\ Open(r) = Open(sends) \ {i}
<1>1. OneLive(sends)
  BY StateIsTyped
<1>2. OneLive(r)
  BY <1>1 DEF OneLive
<1>3. Open(r) = Open(sends) \ {i}
  BY DEF Open
<1> QED BY <1>2, <1>3

LEMMA SucceededIsPosted ==
  ASSUME IInv, NEW i \in Sends, sends[i].stage = "stored", NEW stage \in {"reread", "over"},
         NEW r, r = Succeeded(i, stage)
  PROVE  /\ r \in [Sends -> Posted(server.number)] /\ OneLive(r)
         /\ r[i].stage = stage /\ r[i].ok /\ r[i].live = sends[i].live
         /\ \A j \in Sends \ {i} : r[j] = sends[j]
         /\ \A j \in Sends : r[j].live => sends[j].live
         /\ Open(r) = Open(sends)
<1>1. sends \in [Sends -> Posted(server.number)]
  BY StateIsTyped
<1>2. PICK new : new = [sends[i] EXCEPT !.stage = stage, !.ok = TRUE]
  OBVIOUS
<1>3. /\ new \in Posted(server.number) /\ new.stage = stage /\ new.ok
      /\ new.live = sends[i].live
  BY <1>1, <1>2 DEF Posted, Stages
<1>4. r = [sends EXCEPT ![i] = new]
  BY <1>2 DEF Succeeded
<1>5. /\ r \in [Sends -> Posted(server.number)]
      /\ r[i] = new /\ (\A j \in Sends \ {i} : r[j] = sends[j])
  BY <1>1, <1>3, <1>4
<1>6. OneLive(r) /\ (\A j \in Sends : r[j].live => sends[j].live) /\ Open(r) = Open(sends) \ {i}
  BY <1>3, <1>5, SaveGoesOn
<1>7. i \notin Open(sends)
  BY DEF Open
<1> QED BY <1>3, <1>5, <1>6, <1>7

LEMMA ClearedIsForm == Cleared \in Forms /\ Cleared.on /\ Cleared.timer
<1>1. \A f \in Forms : /\ [f EXCEPT !.on = TRUE, !.timer = TRUE] \in Forms
                        /\ [f EXCEPT !.on = TRUE, !.timer = TRUE].on
                        /\ [f EXCEPT !.on = TRUE, !.timer = TRUE].timer
  BY DEF Forms
<1> QED BY <1>1, BlankIsValue DEF Cleared

\* The answers of the saves, by kind.
LEMMA MessageSentKeeps == ASSUME IInv, NEW i \in Sends, MessageSent(i) PROVE IInv'
<1> USE StateIsTyped
<1>1. PICK r : r = Succeeded(i, "over")
  OBVIOUS
<1>2. /\ r \in [Sends -> Posted(server.number)] /\ OneLive(r)
      /\ r[i].stage = "over" /\ \A j \in Sends \ {i} : r[j] = sends[j]
      /\ \A j \in Sends : r[j].live => form.on
      /\ Open(r) \subseteq Open(sends)
  BY <1>1, SucceededIsPosted DEF MessageSent
<1>3. form' \in Forms /\ form'.on = form.on /\ (~form.on => form' = form)
  BY ClearedIsForm DEF MessageSent
<1>4. sends' = r /\ UNCHANGED <<kind, typed, images, server, query, page, upload, confirming, draft>>
  BY <1>1 DEF MessageSent
<1> QED BY <1>2, <1>3, <1>4, SavesKeep

LEMMA BroadcastSentKeeps == ASSUME IInv, NEW i \in Sends, BroadcastSent(i) PROVE IInv'
<1> USE StateIsTyped
<1>1. PICK r : r = Succeeded(i, "over")
  OBVIOUS
<1>2. /\ r \in [Sends -> Posted(server.number)] /\ OneLive(r)
      /\ r[i].stage = "over" /\ (\A j \in Sends \ {i} : r[j] = sends[j])
      /\ (\A j \in Sends : r[j].live => form.on)
      /\ Open(r) \subseteq Open(sends)
  BY <1>1, SucceededIsPosted DEF BroadcastSent
<1>3. UNCHANGED <<kind, typed, images, server, query, page>>
  BY DEF BroadcastSent
<1>4. CASE ~sends[i].live
  <2>1. sends' = r /\ UNCHANGED <<form, upload, confirming, draft>>
    BY <1>1, <1>4 DEF BroadcastSent
  <2> QED BY <1>2, <1>3, <2>1, SavesKeep
<1>5. CASE sends[i].live
  <2>1. PICK s : s = Detached(r)
    OBVIOUS
  <2>2. /\ s \in [Sends -> Posted(server.number)] /\ OneLive(s)
        /\ \A j \in Sends : ~s[j].live /\ s[j].stage = r[j].stage /\ s[j].ok = r[j].ok
        /\ Open(s) = Open(r)
    BY <1>2, <2>1, DetachedIsPosted
  <2>3. \A j \in Sends : s[j].stage = "reread" => sends[j].stage = "reread" /\ s[j].ok
    BY <1>2, <2>2
  <2>4. /\ form' = Cleared /\ upload' = None /\ confirming' = FALSE /\ draft' = None
        /\ sends' = s
    BY <1>1, <1>5, <2>1 DEF BroadcastSent
  <2>5. form.on
    BY <1>5
  <2> QED BY <1>2, <1>3, <2>2, <2>3, <2>4, <2>5, ClearedIsForm, SavesKeep
<1> QED BY <1>4, <1>5

LEMMA SendFailsKeeps == ASSUME IInv, NEW i \in Sends, SendFails(i) PROVE IInv'
<1>1. sends \in [Sends -> Posted(server.number)] /\ sends[i].stage \in {"sent", "stored", "deaf"}
  BY StateIsTyped DEF SendFails
<1>2. PICK new : new = [sends[i] EXCEPT !.stage = "over", !.live = FALSE]
  OBVIOUS
<1>3. new \in Posted(server.number) /\ new.stage = "over" /\ ~new.live
  BY <1>1, <1>2 DEF Posted, Stages
<1>4. PICK r : r = [sends EXCEPT ![i] = new]
  OBVIOUS
<1>5. /\ r \in [Sends -> Posted(server.number)]
      /\ r[i] = new /\ (\A j \in Sends \ {i} : r[j] = sends[j])
  BY <1>1, <1>3, <1>4
<1>6. OneLive(r) /\ (\A j \in Sends : r[j].live => sends[j].live) /\ Open(r) = Open(sends) \ {i}
  BY <1>1, <1>3, <1>5, SaveGoesOn
<1>7. /\ UNCHANGED <<kind, typed, images, server, query, page, form, upload, confirming, draft>>
      /\ sends' = r
  BY <1>2, <1>4 DEF SendFails
<1> QED BY <1>3, <1>5, <1>6, <1>7, StateIsTyped, SavesKeep

LEMMA SectionSavedKeeps == ASSUME IInv, NEW i \in Sends, SectionSaved(i) PROVE IInv'
<1> USE StateIsTyped
<1> DEFINE stage == IF page THEN "reread" ELSE "over"
<1>1. stage \in {"reread", "over"}
  OBVIOUS
<1>2. PICK r : r = Succeeded(i, stage)
  OBVIOUS
<1>3. /\ r \in [Sends -> Posted(server.number)] /\ OneLive(r)
      /\ r[i].stage = stage /\ r[i].ok /\ r[i].live = sends[i].live
      /\ (\A j \in Sends \ {i} : r[j] = sends[j])
      /\ (\A j \in Sends : r[j].live => sends[j].live)
      /\ Open(r) = Open(sends)
  BY <1>1, <1>2, SucceededIsPosted DEF SectionSaved
<1>4. PICK q : q = Invalidated(query)
  OBVIOUS
<1>5. /\ q \in Queries(server.number) /\ (q.got # None <=> q.fetch = "read")
      /\ q.data = query.data /\ q.failed = query.failed
      /\ page /\ query.data # None => q.fetch = "sent"
      /\ q.fetch = "read" => query.fetch = "read" /\ q.got = query.got
  <2>1. /\ q \in Queries(server.number) /\ (q.got # None <=> q.fetch = "read")
        /\ q.data = query.data /\ q.failed = query.failed
        /\ page /\ query.data # None => q.fetch = "sent"
    BY <1>4, InvalidatedIsQuery
  <2>2. q.fetch = "read" => query.fetch = "read" /\ q.got = query.got
    <3>1. CASE page /\ (query.data # None \/ query.fetch = "none")
      BY <1>4, <3>1, FetchingIsQuery DEF Invalidated, Queries, Fetching
    <3>2. CASE ~(page /\ (query.data # None \/ query.fetch = "none"))
      BY <1>4, <3>2, InvalidatedIsQuery
    <3> QED BY <3>1, <3>2
  <2> QED BY <2>1, <2>2
<1>6. kind = "section" /\ query' = q /\ sends' = r
      /\ UNCHANGED <<kind, typed, images, server, page, form, upload, confirming, draft>>
  BY <1>2, <1>4 DEF SectionSaved
<1>7. \A j \in Sends :
         /\ r[j].live => form.on
         /\ r[j].stage = "reread" => kind = "section" /\ r[j].ok
  BY <1>3, <1>6
<1>8. ASSUME NEW j \in Sends, r[j].live, q.fetch = "read", r[j].stage = "reread"
      PROVE  r[j].number <= q.got.number
  <2>1. page /\ query.data # None
    BY <1>6, <1>7, <1>8 DEF Shows, Edits
  <2> QED BY <1>5, <1>8, <2>1
<1>9. UploadFits' /\ Open(r) \subseteq Open(sends)
  BY <1>3, <1>6 DEF UploadFits
<1> HIDE DEF stage
<1> QED BY <1>3, <1>5, <1>6, <1>7, <1>8, <1>9, PageStays

LEMMA ThemeSavedKeeps == ASSUME IInv, NEW i \in Sends, ThemeSaved(i) PROVE IInv'
<1> USE StateIsTyped
<1>1. PICK r : r = Succeeded(i, "over")
  OBVIOUS
<1>2. /\ r \in [Sends -> Posted(server.number)] /\ OneLive(r)
      /\ r[i].stage = "over" /\ (\A j \in Sends \ {i} : r[j] = sends[j])
      /\ (\A j \in Sends : r[j].live => sends[j].live)
      /\ Open(r) = Open(sends)
  BY <1>1, SucceededIsPosted DEF ThemeSaved
<1>3. PICK d : d = [value |-> sends[i].value, number |-> sends[i].number]
  OBVIOUS
<1>4. d \in SavedUpTo(server.number)
  BY <1>3 DEF SavedUpTo, Posted
<1>5. PICK q : q = [query EXCEPT !.data = d, !.failed = FALSE, !.invalid = FALSE]
  OBVIOUS
<1>6. q \in Queries(server.number) /\ q.got = query.got /\ q.fetch = query.fetch
  BY <1>4, <1>5 DEF Queries
<1>7. Render(page, q, None, r) /\ UNCHANGED <<kind, typed, images, server>>
  BY <1>1, <1>3, <1>5 DEF ThemeSaved
<1>8. \A j \in Sends : r[j].stage = "reread" => r[j] = sends[j]
  BY <1>2
<1>9. \A j \in Sends :
         /\ r[j].live => sends[j].live
         /\ r[j].stage = "reread" => kind = "section" /\ r[j].ok
         /\ r[j].live /\ r[j].stage = "reread" /\ q.fetch = "read"
               => r[j].number <= q.got.number
  BY <1>2, <1>6, <1>8
<1> QED BY <1>2, <1>6, <1>7, <1>9, RenderKeeps

\* The server saves once more.
LEMMA ServerGoesOn ==
  ASSUME IInv, UNCHANGED <<kind, images, query, page, form, upload, confirming, draft>>,
         typed' \in 0 .. MaxTyped, server' \in SavedUpTo(MaxSends + 1),
         server'.number = server.number + 1,
         NEW r \in [Sends -> Posted(server.number + 1)], OneLive(r), sends' = r,
         \A i \in Sends : r[i].live => sends[i].live,
         \A i \in Sends : r[i].stage = "reread" => r[i] = sends[i],
         Counted'
  PROVE  IInv'
<1> USE StateIsTyped
<1>1. Whole' /\ Drafted'
  BY DEF Whole, Drafted, SavedUpTo, Value
<1>2. Cached'
  <2>1. query \in Queries(server'.number)
    BY MoreSaved
  <2> QED BY <2>1 DEF Cached, Queries, SavedUpTo, Value
<1>3. Mounted'
  BY DEF Mounted, Forms, Value, NoForm, Blank, Shows, Edits
<1>4. Held'
  BY DEF Held, Value
<1>5. Sent'
  BY DEF Sent, OneLive, Posted, Value
<1>6. UploadFits' /\ RereadIsSaved' /\ RereadIsLate'
  BY DEF UploadFits, RereadIsSaved, RereadIsLate
<1> QED BY <1>1, <1>2, <1>3, <1>4, <1>5, <1>6 DEF IInv, Parts

\* The server.
LEMMA StoreKeeps == ASSUME IInv, NEW i \in Sends, Store(i) PROVE IInv'
<1>1. /\ sends \in [Sends -> Posted(server.number)] /\ sends[i].stage \in {"sent", "deaf"}
      /\ server \in SavedUpTo(MaxSends + 1) /\ server.number \in Nat /\ typed \in 0 .. MaxTyped
      /\ sends \in [Sends -> Posted(server.number + 1)]
  BY StateIsTyped, MoreSaved DEF Store, IInv, Parts, Whole
<1>2. PICK new : new = [sends[i] EXCEPT
                           !.stage = IF sends[i].stage = "sent" THEN "stored" ELSE "over",
                           !.number = server.number + 1]
  OBVIOUS
<1>3. /\ new \in Posted(server.number + 1) /\ new.stage \in {"stored", "over"}
      /\ new.live = sends[i].live
  <2>1. PICK stage \in {"stored", "over"} : stage = IF sends[i].stage = "sent" THEN "stored" ELSE "over"
    OBVIOUS
  <2>2. PICK n \in Nat : n = server.number + 1
    BY <1>1
  <2>3. new = [sends[i] EXCEPT !.stage = stage, !.number = n]
    BY <1>2, <2>1, <2>2
  <2>4. sends[i] \in Posted(n) /\ n \in 0 .. n
    BY <1>1, <2>2
  <2> QED BY <2>2, <2>3, <2>4 DEF Posted, Stages
<1>4. PICK r : r = [sends EXCEPT ![i] = new]
  OBVIOUS
<1>5. /\ r \in [Sends -> Posted(server.number + 1)]
      /\ r[i] = new /\ (\A j \in Sends \ {i} : r[j] = sends[j])
  BY <1>1, <1>3, <1>4
<1>6. OneLive(r) /\ (\A j \in Sends : r[j].live => sends[j].live) /\ Open(r) = Open(sends) \ {i}
  BY <1>1, <1>3, <1>5, SaveGoesOn
<1>7. sends' = r /\ UNCHANGED <<kind, typed, images, query, page, form, upload, confirming, draft>>
  BY <1>2, <1>4 DEF Store
<1>8. \A j \in Sends : r[j].stage = "reread" => r[j] = sends[j]
  BY <1>3, <1>5
<1>9. server'.number = server.number + 1 /\ server'.value \in Value
      /\ server' = [value |-> server'.value, number |-> server.number + 1]
  BY <1>1, BlankIsValue DEF Store, Posted
<1>10. /\ Cardinality(Open(sends)) \in Nat /\ Cardinality(Open(sends)) >= 1
       /\ Cardinality(Open(r)) = Cardinality(Open(sends)) - 1
  <2>1. i \in Open(sends) /\ IsFiniteSet(Open(sends)) /\ Cardinality(Open(sends)) \in Nat
    BY <1>1, OpenIsCounted DEF Open
  <2>2. Cardinality(Open(r)) = Cardinality(Open(sends)) - 1 /\ Cardinality(Open(r)) \in Nat
    BY <1>6, <2>1, FS_RemoveElement, OpenIsCounted
  <2> QED BY <2>1, <2>2
<1>11. server.number + 1 <= MaxSends + 1 /\ Counted'
  <2>1. server.number + Cardinality(Open(sends))
           <= MaxSends + (IF server.number > OthersAfter THEN 1 ELSE 0)
    BY DEF IInv, Counted
  <2>2. Open(sends)' = Open(r)
    BY <1>7 DEF Open
  <2> QED BY <1>1, <1>9, <1>10, <2>1, <2>2, PanelFormsAssumption DEF Counted
<1>12. server' \in SavedUpTo(MaxSends + 1)
  BY <1>1, <1>9, <1>11, PanelFormsAssumption DEF SavedUpTo
<1>13. typed' \in 0 .. MaxTyped
  BY <1>1, <1>7
<1> QED BY <1>5, <1>6, <1>7, <1>8, <1>9, <1>11, <1>12, <1>13, ServerGoesOn

LEMMA OtherSavesKeeps == ASSUME IInv, OtherSaves PROVE IInv'
<1>1. /\ sends \in [Sends -> Posted(server.number + 1)] /\ OneLive(sends)
      /\ server \in SavedUpTo(MaxSends + 1) /\ server.number \in Nat /\ typed \in 0 .. MaxTyped
  BY StateIsTyped, MoreSaved DEF IInv, Parts, Whole
<1>2. PICK text \in {0, typed + 1} :
         /\ text <= MaxTyped /\ typed' = (IF text = 0 THEN typed ELSE text)
         /\ server' = [value |-> [server.value EXCEPT !.text = text], number |-> server.number + 1]
  BY DEF OtherSaves
<1>3. text \in 0 .. MaxTyped /\ typed' \in 0 .. MaxTyped
  BY <1>1, <1>2, PanelFormsAssumption
<1>4. [server.value EXCEPT !.text = text] \in Value
  BY <1>1, <1>3 DEF SavedUpTo, Value
<1>5. /\ server.number = OthersAfter /\ sends' = sends
      /\ UNCHANGED <<kind, images, query, page, form, upload, confirming, draft>>
  BY DEF OtherSaves
<1>6. server.number + 1 <= MaxSends + 1 /\ Counted'
  <2>1. server.number + Cardinality(Open(sends)) <= MaxSends
    BY <1>1, <1>5, PanelFormsAssumption DEF IInv, Counted
  <2>2. Open(sends)' = Open(sends) /\ Cardinality(Open(sends)) \in Nat
    BY <1>5, OpenIsCounted DEF Open
  <2> QED BY <1>1, <1>2, <1>5, <2>1, <2>2, PanelFormsAssumption DEF Counted
<1>7. server' \in SavedUpTo(MaxSends + 1) /\ server'.number = server.number + 1
  BY <1>1, <1>2, <1>4, <1>6, PanelFormsAssumption DEF SavedUpTo
<1> QED BY <1>1, <1>3, <1>5, <1>6, <1>7, ServerGoesOn


-----------------------------------------------------------------------------
(* The invariant, and the types. *)

\* The invariant holds in every step.
LEMMA NextIInv == IInv /\ [Next]_vars => IInv'
<1> SUFFICES ASSUME IInv, [Next]_vars PROVE IInv'
  OBVIOUS
<1>1. CASE UNCHANGED vars
  BY <1>1, StateIsTyped, PageStays DEF vars, UploadFits
<1>2. CASE Page
  BY <1>2, OpenPageKeeps, LeaveKeeps, ReloadKeeps, SessionEndsKeeps, DraftExpiresKeeps DEF Page
<1>3. CASE Query
  BY <1>3, RefetchKeeps, ReadKeeps, FetchAnsweredKeeps, FetchFailsKeeps DEF Query
<1>4. CASE Fields
  BY <1>4, TypesKeep, SavesDraftKeep, ClearBroadcastKeeps, FilesKeep, PickImageKeeps, UploadsKeep
  DEF Fields
<1>5. CASE Requests
  BY <1>5, PostsKeep, DialogKeeps, StoreKeeps, MessageSentKeeps, BroadcastSentKeeps,
     SectionSavedKeeps, ThemeSavedKeeps, SendFailsKeeps DEF Requests
<1>6. CASE OtherSaves
  BY <1>6, OtherSavesKeeps
<1> QED BY <1>1, <1>2, <1>3, <1>4, <1>5, <1>6 DEF Next

LEMMA AlwaysIInv == Spec => []IInv
<1> QED BY InitIInv, NextIInv, PTL DEF Spec

\* Every reachable state of a form is well typed: it is mounted only where it can be shown,
\* nothing in flight reports to a form that is gone, at most one save does to one that is
\* there, and the counter of the server stays within the saves that were made.
THEOREM FormsTypeCorrect == Spec => []TypeOK
<1>1. IInv => TypeOK
  BY PartsAreTypes DEF IInv
<1> QED BY <1>1, AlwaysIInv, PTL

-----------------------------------------------------------------------------
(* What is sent is what is shown. *)

\* A step that mounts the form anew, keeps it, or takes it away.
LEMMA RenderShows ==
  ASSUME IInv, SendsWhatIsShown, NEW p, NEW q, NEW d, NEW r, Render(p, q, d, r), kind' = kind
  PROVE  SendsWhatIsShown'
<1>1. \A base, e : Fresh(base, e).editor = Fresh(base, e).value.text
  BY DEF Fresh
<1> QED BY <1>1 DEF Render, SendsWhatIsShown, NoForm

LEMMA EnteredShows ==
  ASSUME form \in Forms, NEW value, NEW editor, Entered(value, editor), editor = value.text
  PROVE  form'.editor = form'.value.text
  BY DEF Entered, Forms

\* No step lets the editor and the form differ.
LEMMA NextShows == IInv /\ SendsWhatIsShown /\ [Next]_vars => SendsWhatIsShown'
<1> SUFFICES ASSUME IInv, SendsWhatIsShown, [Next]_vars PROVE SendsWhatIsShown'
  OBVIOUS
<1> USE StateIsTyped
<1>1. CASE UNCHANGED <<kind, form>>
  BY <1>1 DEF SendsWhatIsShown
<1>2. CASE OpenPage \/ LeavePage \/ LeaveSection \/ FetchAnswered \/ FetchFails
           \/ \E i \in Sends : ThemeSaved(i)
  BY <1>2, RenderShows
  DEF OpenPage, LeavePage, LeaveSection, FetchAnswered, FetchFails, ThemeSaved
<1>3. CASE Reload \/ SessionEnds
  <2>1. form' = NoForm
    BY <1>3 DEF Reload, SessionEnds, Gone
  <2> QED BY <2>1, BlankIsValue DEF SendsWhatIsShown
<1>4. CASE TypeMessage \/ TypeInSection \/ TypeInTheme \/ TypeInBroadcast
  <2>1. kind' = kind /\ \E text : Entered([form.value EXCEPT !.text = text], text)
    BY <1>4 DEF TypeMessage, TypeInSection, TypeInTheme, TypeInBroadcast, Types
  <2>2. \A text : [form.value EXCEPT !.text = text].text = text
    BY DEF Forms, Value
  <2> QED BY <2>1, <2>2, EnteredShows DEF SendsWhatIsShown
<1>5. CASE SaveDraft
  BY <1>5 DEF SaveDraft, SendsWhatIsShown, Forms, NoForm
<1>6. CASE ResetDraft \/ ClearBroadcast
  BY <1>6 DEF ResetDraft, ClearBroadcast, Fresh, SendsWhatIsShown
<1>7. CASE PickFiles \/ DropFiles
  BY <1>7 DEF PickFiles, DropFiles, SendsWhatIsShown, Forms, Value, NoForm
<1>8. CASE RemoveImage \/ PhotoUploaded
  <2>1. PICK photo : Entered([form.value EXCEPT !.photo = photo], form.editor)
    BY <1>8 DEF RemoveImage, PhotoUploaded
  <2>2. [form.value EXCEPT !.photo = photo].text = form.value.text
    BY DEF Forms, Value
  <2>3. kind' = kind /\ form.on /\ kind # "section"
    BY <1>8 DEF RemoveImage, PhotoUploaded, Uploaded
  <2> QED BY <2>1, <2>2, <2>3, EnteredShows DEF SendsWhatIsShown
<1>9. CASE SectionImageUploaded
  BY <1>9 DEF SectionImageUploaded, Uploaded, SendsWhatIsShown
<1>10. CASE LogoUploaded
  <2>1. upload \in Value /\ kind' = kind
    BY <1>10 DEF LogoUploaded, Uploaded
  <2>2. [upload EXCEPT !.photo = images + 1].text = upload.text
    BY <2>1 DEF Value
  <2> QED BY <1>10, <2>1, <2>2, EnteredShows DEF LogoUploaded, SendsWhatIsShown
<1>11. CASE \E i \in Sends : MessageSent(i) \/ BroadcastSent(i)
  <2>1. kind' = kind /\ (form' = form \/ form' = Cleared)
    BY <1>11 DEF MessageSent, BroadcastSent
  <2>2. Cleared.editor = Cleared.value.text
    BY DEF Cleared, NoForm, Blank
  <2> QED BY <2>1, <2>2 DEF SendsWhatIsShown
<1>12. CASE \/ DraftExpires \/ Refetch \/ Read \/ PickImage \/ UploadFails
            \/ SendMessage \/ SaveSection \/ SaveTheme \/ ConfirmBroadcast
            \/ SubmitBroadcast \/ CancelBroadcast \/ OtherSaves
            \/ \E i \in Sends : Store(i) \/ SectionSaved(i) \/ SendFails(i)
  <2>1. UNCHANGED <<kind, form>>
    BY <1>12 DEF DraftExpires, Refetch, Read, PickImage, UploadFails, SendMessage, SaveSection,
                 SaveTheme, ConfirmBroadcast, Posts, SubmitBroadcast, CancelBroadcast,
                 OtherSaves, Store, SectionSaved, SendFails
  <2> QED BY <1>1, <2>1
<1> QED
  BY <1>1, <1>2, <1>3, <1>4, <1>5, <1>6, <1>7, <1>8, <1>9, <1>10, <1>11, <1>12
  DEF Next, Page, Query, Fields, Requests, vars

\* SendsWhatIsShown: the editor of a composer, of the theme and of a broadcast follows every
\* reset, restored draft, upload and answer, so what goes out is what is on the screen.
THEOREM AlwaysSendsWhatIsShown == Spec => []SendsWhatIsShown
<1>1. Init => SendsWhatIsShown
  BY BlankIsValue DEF Init, SendsWhatIsShown
<1> QED BY <1>1, NextShows, AlwaysIInv, PTL DEF Spec


-----------------------------------------------------------------------------
(* What is stored is what is shown. *)

\* What would be stored of a value depends on the form and on the saved value only.
LEMMA PersistedStays ==
  ASSUME kind' = kind, Edits => query'.data.value = query.data.value,
         form'.value = form.value
  PROVE  Persisted(form.value)' = Persisted(form.value)
  BY DEF Persisted, isEmpty, Storable, isBroadcastEmpty, Base, Edits

\* Files are never stored.
LEMMA PersistedText ==
  ASSUME kind = "composer", NEW v \in Value, NEW w \in Value, v.text = w.text
  PROVE  Persisted(v) = Persisted(w)
<1>1. [v EXCEPT !.photo = 0] = [w EXCEPT !.photo = 0]
  BY DEF Value
<1>2. isEmpty(v) = isEmpty(w)
  BY DEF isEmpty
<1> QED BY <1>1, <1>2 DEF Persisted, Storable

\* A step that keeps the draft, and what it stands for.
LEMMA StoredStays ==
  ASSUME StoredAsShown, kind' = kind, draft' = draft,
         Edits => query'.data.value = query.data.value,
         form'.on /\ ~form'.timer => form.on /\ ~form.timer /\ form'.value = form.value,
         \A i \in Sends : sends[i].ok => sends'[i].ok
  PROVE  StoredAsShown'
<1>1. CASE ~form'.on \/ form'.timer
  BY <1>1 DEF StoredAsShown
<1>2. CASE form'.on /\ ~form'.timer
  <2>1. \/ draft = Persisted(form.value)
        \/ Edits /\ draft = None /\ \E i \in Sends : sends[i].ok
    BY <1>2 DEF StoredAsShown
  <2>2. Persisted(form.value)' = Persisted(form.value)
    BY <1>2, PersistedStays
  <2>3. \/ draft' = Persisted(form.value)'
        \/ Edits' /\ draft' = None /\ \E i \in Sends : sends'[i].ok
    BY <2>1, <2>2 DEF Edits
  <2> QED BY <2>3 DEF StoredAsShown
<1> QED BY <1>1, <1>2

\* A page that is rendered with the same form keeps the draft, or an answer dropped it.
LEMMA RenderStored ==
  ASSUME IInv, StoredAsShown, kind' = kind, NEW p, NEW q, NEW d, NEW n \in Nat,
         NEW r \in [Sends -> Posted(n)], Render(p, q, d, r),
         Stays(p, q) => d = draft \/ (d = None /\ Edits /\ \E i \in Sends : r[i].ok),
         \A i \in Sends : sends[i].ok => r[i].ok
  PROVE  StoredAsShown'
<1>1. CASE ~Stays(p, q)
  <2>1. \A base, e : Fresh(base, e).timer
    BY DEF Fresh
  <2>2. form'.on => form'.timer
    BY <1>1, <2>1, BlankIsValue DEF Render
  <2> QED BY <2>2 DEF StoredAsShown
<1>2. CASE Stays(p, q)
  <2>1. form' = form /\ query' = q /\ draft' = d /\ sends' = r
    BY <1>2 DEF Render
  <2>2. Edits => q.data.value = query.data.value
    BY <1>2 DEF Stays, Base
  <2>3. CASE d = draft
    BY <2>1, <2>2, <2>3, StoredStays
  <2>4. CASE d = None /\ Edits /\ \E i \in Sends : r[i].ok
    <3>1. Edits' /\ draft' = None /\ \E i \in Sends : sends'[i].ok
      BY <2>1, <2>4 DEF Edits
    <3> QED BY <3>1 DEF StoredAsShown
  <2> QED BY <1>2, <2>3, <2>4
<1> QED BY <1>1, <1>2

LEMMA RenderingStores ==
  ASSUME IInv, StoredAsShown,
         \/ OpenPage \/ LeavePage \/ LeaveSection \/ FetchAnswered \/ FetchFails
         \/ \E i \in Sends : ThemeSaved(i)
  PROVE  StoredAsShown'
<1> USE StateIsTyped
<1>1. CASE OpenPage
  BY <1>1, RenderStored DEF OpenPage
<1>2. CASE LeavePage \/ LeaveSection
  <2>1. PICK d : Render(FALSE, query, d, sends) /\ kind' = kind
    BY <1>2 DEF LeavePage, LeaveSection
  <2>2. ~Stays(FALSE, query)
    BY DEF Stays, Shows
  <2> QED BY <2>1, <2>2, RenderStored
<1>3. CASE FetchAnswered \/ FetchFails
  <2>1. PICK q : Render(page, q, DraftAfterReread, Reread) /\ kind' = kind
    BY <1>3 DEF FetchAnswered, FetchFails
  <2>2. \/ DraftAfterReread = draft
        \/ DraftAfterReread = None /\ Edits /\ \E i \in Sends : Reread[i].ok
    BY RereadIsPosted DEF DraftAfterReread, Edits
  <2> QED BY <2>1, <2>2, RereadIsPosted, RenderStored
<1>4. ASSUME NEW i \in Sends, ThemeSaved(i) PROVE StoredAsShown'
  <2>1. PICK r : r = Succeeded(i, "over")
    OBVIOUS
  <2>2. /\ r \in [Sends -> Posted(server.number)]
        /\ r[i].ok /\ \A j \in Sends \ {i} : r[j] = sends[j]
    <3>1. sends[i].stage = "stored"
      BY <1>4 DEF ThemeSaved
    <3> QED BY <2>1, <3>1, SucceededIsPosted
  <2>3. PICK q : Render(page, q, None, r) /\ kind' = kind /\ Edits
    BY <1>4, <2>1 DEF ThemeSaved, Edits
  <2>4. (\E j \in Sends : r[j].ok) /\ \A j \in Sends : sends[j].ok => r[j].ok
    BY <2>2
  <2> QED BY <2>2, <2>3, <2>4, RenderStored
<1> QED BY <1>1, <1>2, <1>3, <1>4

\* The steps of the form itself.
LEMMA FieldsStore ==
  ASSUME IInv, StoredAsShown, Fields
  PROVE  StoredAsShown'
<1> USE StateIsTyped
<1>1. CASE TypeMessage \/ TypeInSection \/ TypeInTheme \/ TypeInBroadcast \/ RemoveImage
           \/ SectionImageUploaded \/ LogoUploaded \/ PhotoUploaded
  <2>1. \E value, editor : Entered(value, editor)
    BY <1>1 DEF TypeMessage, TypeInSection, TypeInTheme, TypeInBroadcast, Types, RemoveImage,
                SectionImageUploaded, LogoUploaded, PhotoUploaded
  <2>2. form'.timer
    BY <2>1 DEF Entered, Forms
  <2> QED BY <2>2 DEF StoredAsShown
<1>2. CASE SaveDraft
  <2>1. /\ form'.value = form.value /\ draft' = Persisted(form.value)
        /\ UNCHANGED <<kind, query>>
    BY <1>2 DEF SaveDraft, Forms
  <2>2. Persisted(form.value)' = Persisted(form.value)
    BY <2>1, PersistedStays
  <2> QED BY <2>1, <2>2 DEF StoredAsShown
<1>3. CASE ResetDraft \/ ClearBroadcast
  <2>1. form'.timer
    BY <1>3 DEF ResetDraft, ClearBroadcast, Fresh
  <2> QED BY <2>1 DEF StoredAsShown
<1>4. CASE PickFiles \/ DropFiles
  <2>1. PICK photo \in 0 .. MaxImages : form' = [form EXCEPT !.value.photo = photo]
    BY <1>4, PanelFormsAssumption DEF PickFiles, DropFiles
  <2>2. /\ UNCHANGED <<kind, query, draft, sends>> /\ kind = "composer"
        /\ form'.on = form.on /\ form'.timer = form.timer
    BY <1>4, <2>1 DEF PickFiles, DropFiles, Forms
  <2>3. /\ form'.value \in Value /\ form.value \in Value /\ form'.value.text = form.value.text
    BY <2>1 DEF Forms, Value
  <2>4. Persisted(form.value)' = Persisted(form.value)
    <3>1. PICK w \in Value : w = form'.value
      BY <2>3
    <3>2. Persisted(w) = Persisted(form.value)
      BY <2>2, <2>3, <3>1, PersistedText
    <3>3. Persisted(form.value)' = Persisted(w)
      BY <2>2, <3>1 DEF Persisted, isEmpty, Storable, isBroadcastEmpty, Base, Edits
    <3> QED BY <3>2, <3>3
  <2> QED BY <2>2, <2>4 DEF StoredAsShown, Edits
<1>5. CASE PickImage \/ UploadFails
  BY <1>5, StoredStays DEF PickImage, UploadFails
<1> QED BY <1>1, <1>2, <1>3, <1>4, <1>5 DEF Fields

LEMMA RequestsStore ==
  ASSUME IInv, StoredAsShown,
         \/ SendMessage \/ SaveSection \/ SaveTheme
         \/ SubmitBroadcast \/ ConfirmBroadcast \/ CancelBroadcast
         \/ \E i \in Sends : Store(i) \/ MessageSent(i) \/ BroadcastSent(i)
                                \/ SectionSaved(i) \/ SendFails(i)
  PROVE  StoredAsShown'
<1> USE StateIsTyped
<1>1. CASE SubmitBroadcast
  BY <1>1, StoredStays DEF SubmitBroadcast
<1>2. CASE SendMessage \/ SaveSection \/ SaveTheme \/ ConfirmBroadcast \/ CancelBroadcast
  <2>1. UNCHANGED <<kind, query, form, draft>>
    BY <1>2 DEF SendMessage, SaveSection, SaveTheme, ConfirmBroadcast, CancelBroadcast, Posts
  <2>2. \A j \in Sends : sends[j].ok => sends'[j].ok
    <3>1. CASE CancelBroadcast
      BY <3>1, DetachedIsPosted DEF CancelBroadcast
    <3>2. CASE Posts
      <4>1. PICK i, new : i \in Sends /\ sends[i] = Unsent /\ sends' = [Detached(sends) EXCEPT ![i] = new]
        BY <3>2 DEF Posts
      <4>2. \A j \in Sends \ {i} : sends'[j] = Detached(sends)[j]
        BY <4>1, DetachedIsPosted
      <4>3. ~sends[i].ok
        BY <4>1 DEF Unsent
      <4> QED BY <4>2, <4>3, DetachedIsPosted
    <3> QED
      BY <1>2, <3>1, <3>2 DEF SendMessage, SaveSection, SaveTheme, ConfirmBroadcast
  <2> QED BY <2>1, <2>2, StoredStays
<1>3. ASSUME NEW i \in Sends, Store(i) \/ SendFails(i) PROVE StoredAsShown'
  <2>1. UNCHANGED <<kind, query, form, draft>>
    BY <1>3 DEF Store, SendFails
  <2>2. \A j \in Sends : sends[j].ok => sends'[j].ok
    BY <1>3 DEF Store, SendFails, Posted
  <2> QED BY <2>1, <2>2, StoredStays
<1>4. ASSUME NEW i \in Sends, NEW stage \in {"reread", "over"}, sends[i].stage = "stored"
      PROVE  \A j \in Sends : sends[j].ok => Succeeded(i, stage)[j].ok
  <2>1. PICK r : r = Succeeded(i, stage)
    OBVIOUS
  <2>2. r[i].ok /\ \A j \in Sends \ {i} : r[j] = sends[j]
    BY <1>4, <2>1, SucceededIsPosted
  <2> QED BY <2>1, <2>2
<1>5. ASSUME NEW i \in Sends, SectionSaved(i) PROVE StoredAsShown'
  <2>1. UNCHANGED <<kind, form, draft>> /\ query'.data = query.data
    BY <1>5, InvalidatedIsQuery DEF SectionSaved
  <2>2. \A j \in Sends : sends[j].ok => sends'[j].ok
    BY <1>4, <1>5 DEF SectionSaved
  <2> QED BY <2>1, <2>2, StoredStays
<1>6. ASSUME NEW i \in Sends, MessageSent(i) \/ BroadcastSent(i) PROVE StoredAsShown'
  <2>1. CASE sends[i].live
    <3>1. form' = Cleared
      BY <1>6, <2>1 DEF MessageSent, BroadcastSent
    <3> QED BY <3>1, ClearedIsForm DEF StoredAsShown
  <2>2. CASE ~sends[i].live
    <3>1. UNCHANGED <<kind, form, draft, query>>
      BY <1>6, <2>2 DEF MessageSent, BroadcastSent
    <3>2. \A j \in Sends : sends[j].ok => sends'[j].ok
      BY <1>4, <1>6, <2>2 DEF MessageSent, BroadcastSent
    <3> QED BY <3>1, <3>2, StoredStays
  <2> QED BY <2>1, <2>2
<1> QED BY <1>1, <1>2, <1>3, <1>5, <1>6

\* No step leaves a draft that the form does not show.
LEMMA NextStores == IInv /\ StoredAsShown /\ [Next]_vars => StoredAsShown'
<1> SUFFICES ASSUME IInv, StoredAsShown, [Next]_vars PROVE StoredAsShown'
  OBVIOUS
<1>1. CASE UNCHANGED vars \/ Refetch \/ Read \/ OtherSaves
  <2>1. UNCHANGED <<kind, form, draft, sends>> /\ query'.data = query.data
    BY <1>1, StateIsTyped DEF vars, Refetch, Fetching, Read, OtherSaves, Queries
  <2> QED BY <2>1, StoredStays
<1>2. CASE Reload \/ SessionEnds
  <2>1. form' = NoForm
    BY <1>2 DEF Reload, SessionEnds, Gone
  <2> QED BY <2>1, BlankIsValue DEF StoredAsShown
<1>3. CASE DraftExpires
  BY <1>3 DEF DraftExpires, StoredAsShown
<1> QED
  BY <1>1, <1>2, <1>3, RenderingStores, FieldsStore, RequestsStore
  DEF Next, Page, Query, Requests

\* StoredAsShown: what is older than the delay of the saver is in localStorage, and a draft
\* that was sent, reset or answered does not come back while the form is there.
THEOREM AlwaysStoredAsShown == Spec => []StoredAsShown
<1>1. Init => StoredAsShown
  BY BlankIsValue DEF Init, StoredAsShown
<1> QED BY <1>1, NextStores, AlwaysIInv, PTL DEF Spec


-----------------------------------------------------------------------------
(* A section shows what it saved. *)

\* Only the answer to a reading, or the end of the form, ends a save that waits for one.
LEMMA RereadWaits ==
  ASSUME IInv, [Next]_vars, ~FetchAnswered, form'.on,
         NEW i \in Sends, sends[i].stage = "reread", sends[i].live
  PROVE  sends'[i].stage # "over"
<1> USE StateIsTyped
<1>0. kind = "section" /\ form.on /\ Detached(sends)[i].stage = sends[i].stage
  BY DetachedIsPosted
<1>1. CASE sends'[i].stage = sends[i].stage
  BY <1>1
<1>2. CASE FetchFails
  <2>1. PICK q : q = [query EXCEPT !.fetch = "none", !.got = None, !.failed = TRUE, !.invalid = TRUE]
    OBVIOUS
  <2>2. q.failed /\ Render(page, q, DraftAfterReread, Reread)
    BY <1>2, <2>1 DEF FetchFails, Queries
  <2>3. ~Shows(page, q)
    BY <1>0, <2>2 DEF Shows, Edits
  <2> QED BY <2>2, <2>3, BlankIsValue DEF Render, Stays
<1>3. CASE Reload \/ SessionEnds
  BY <1>3, BlankIsValue DEF Reload, SessionEnds, Gone
<1>4. CASE OpenPage \/ LeavePage \/ LeaveSection
  <2>1. PICK p, q, d : Render(p, q, d, sends)
    BY <1>4 DEF OpenPage, LeavePage, LeaveSection
  <2> QED BY <1>0, <1>1, <2>1 DEF Render
<1>5. CASE UNCHANGED sends
  BY <1>5
<1>6. CASE CancelBroadcast
  BY <1>0, <1>6 DEF CancelBroadcast
<1>7. CASE Posts
  BY <1>7 DEF Posts, Pending
<1>8. ASSUME NEW k \in Sends, k # i, Store(k) \/ SectionSaved(k) \/ SendFails(k)
      PROVE  sends'[i] = sends[i]
  <2>1. PICK new : sends' = [sends EXCEPT ![k] = new]
    BY <1>8 DEF Store, SectionSaved, SendFails, Succeeded
  <2> QED BY <1>8, <2>1
<1>9. ASSUME NEW k \in Sends, Store(k) \/ SectionSaved(k) \/ SendFails(k) PROVE k # i
  BY <1>9 DEF Store, SectionSaved, SendFails
<1>10. CASE Page
  <2>1. DraftExpires => UNCHANGED sends
    BY DEF DraftExpires
  <2> QED BY <1>3, <1>4, <1>5, <1>10, <2>1 DEF Page
<1>11. CASE Query \/ OtherSaves
  <2>1. Refetch \/ Read \/ OtherSaves => UNCHANGED sends
    BY DEF Refetch, Read, OtherSaves
  <2> QED BY <1>2, <1>5, <1>11, <2>1 DEF Query
<1>12. CASE Fields
  BY <1>0, <1>5, <1>12
  DEF Fields, TypeMessage, TypeInSection, TypeInTheme, TypeInBroadcast, Types, SaveDraft,
      ResetDraft, ClearBroadcast, PickFiles, DropFiles, PickImage, SectionImageUploaded,
      LogoUploaded, PhotoUploaded, Uploaded, UploadFails, RemoveImage
<1>13. CASE Requests
  <2>1. SendMessage \/ SaveSection \/ SaveTheme \/ ConfirmBroadcast => Posts
    BY DEF SendMessage, SaveSection, SaveTheme, ConfirmBroadcast
  <2>2. SubmitBroadcast => UNCHANGED sends
    BY DEF SubmitBroadcast
  <2>3. ASSUME NEW k \in Sends PROVE ~(MessageSent(k) \/ BroadcastSent(k) \/ ThemeSaved(k))
    BY <1>0 DEF MessageSent, BroadcastSent, ThemeSaved
  <2> QED BY <1>5, <1>6, <1>7, <1>8, <1>9, <1>13, <2>1, <2>2, <2>3 DEF Requests
<1> QED
  BY <1>5, <1>10, <1>11, <1>12, <1>13 DEF Next, vars

\* ShowsWhatItSaved: when a section says that it was saved, the value it shows was read at
\* or after that save, whatever readings and saves were on their way.
THEOREM AlwaysShowsWhatItSaved == Spec => ShowsWhatItSaved
<1> DEFINE Shown ==
      \A i \in Sends :
          (sends[i].stage = "reread" /\ sends[i].live /\ sends'[i].stage = "over" /\ form'.on)
              => query'.data.number >= sends[i].number
<1>1. IInv /\ [Next]_vars => Shown
  <2> SUFFICES ASSUME IInv, [Next]_vars, NEW i \in Sends, sends[i].stage = "reread",
                      sends[i].live, sends'[i].stage = "over", form'.on
               PROVE  query'.data.number >= sends[i].number
    OBVIOUS
  <2>1. FetchAnswered
    BY RereadWaits
  <2>2. query.fetch = "read" /\ query'.data = query.got
    BY <2>1 DEF FetchAnswered, Render, Unloaded
  <2>3. sends[i].number <= query.got.number /\ sends[i].number \in Int /\ query.got.number \in Int
    BY <2>2, StateIsTyped DEF Queries, SavedUpTo, Posted
  <2> QED BY <2>2, <2>3
<1>2. IInv /\ [Next]_vars => [Shown]_vars
  BY <1>1
<1> QED BY <1>2, AlwaysIInv, PTL DEF Spec, ShowsWhatItSaved


=============================================================================
