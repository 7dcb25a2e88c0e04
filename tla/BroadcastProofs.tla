--------------------------- MODULE BroadcastProofs ---------------------------
(***************************************************************************)
(* Mailings, for any number of administrators, mailings and recipients.    *)
(* The inductive invariant ties the row of a mailing to its task: a task   *)
(* runs for a SENDING row only, its locals never fall behind the counters, *)
(* and the recipients written to are those it has tried.                   *)
(***************************************************************************)
EXTENDS Broadcast, FiniteSetTheorems, TLAPS

\* How the row, the locals and the recipients of one mailing belong together.
RowFits(b) ==
    /\ status[b] = None => /\ task[b] = "none" /\ inbox[b] = {}
                           /\ ok[b] = 0 /\ bad[b] = 0
                           /\ delivered[b] = 0 /\ failed[b] = 0
    /\ task[b] # "none" => status[b] = "SENDING"
    /\ status[b] = "DONE" =>
          delivered[b] = ok[b] /\ failed[b] = bad[b] /\ ok[b] + bad[b] = total[b]
    /\ ok[b] + bad[b] <= total[b]
    /\ delivered[b] <= ok[b] /\ failed[b] <= bad[b]
    /\ task[b] = "loading" => ok[b] = 0 /\ bad[b] = 0 /\ inbox[b] = {}
    /\ task[b] \in {"sending", "sent"} => inbox[b] \subseteq 1 .. Tried(b)

\* Only one mailing is let in, and a stopped process runs nothing.
Admission ==
    /\ \A b, c \in Broadcasts : status[b] = "SENDING" /\ status[c] = "SENDING" => b = c
    /\ inserting # None => \A b \in Broadcasts : status[b] # "SENDING"
    /\ ~up => /\ \A b \in Broadcasts : task[b] = "none"
              /\ inserting = None /\ creating = {}

IInv == TypeOK /\ Admission /\ \A b \in Broadcasts : RowFits(b)

\* Each delivery the task counts reached a recipient of its own.
Counted == \A b \in Broadcasts : ok[b] <= Cardinality(inbox[b])

LEMMA InitIInv == Init => IInv
  BY BroadcastAssumption DEF Init, IInv, TypeOK, Admission, RowFits, Broadcasts, Tried, Statuses

\* Requests that are still to insert their row touch no mailing.
LEMMA RequestKeeps ==
  ASSUME IInv, NEW a \in Admins, ListRecipients(a) \/ Refuse(a) \/ Insert(a)
  PROVE  IInv'
  BY BroadcastAssumption DEF IInv, TypeOK, Admission, RowFits, ListRecipients, Refuse, Insert,
     Sending, Tried, rows, locals

LEMMA CommitKeeps ==
  ASSUME IInv, NEW a \in Admins, CommitAndStart(a)
  PROVE  IInv'
<1>1. PICK b \in Broadcasts, n \in 1 .. MaxRecipients :
         /\ status[b] = None
         /\ status' = [status EXCEPT ![b] = "SENDING"]
         /\ total' = [total EXCEPT ![b] = n]
         /\ task' = [task EXCEPT ![b] = "loading"]
  BY DEF CommitAndStart
<1>2. inserting = a /\ inserting' = None /\ creating' = creating \ {a}
      /\ UNCHANGED <<delivered, failed, ok, bad, inbox, up>>
  BY DEF CommitAndStart
<1>3. TypeOK'
  BY <1>1, <1>2, BroadcastAssumption DEF IInv, TypeOK, Statuses
<1>4. Admission'
  BY <1>1, <1>2, BroadcastAssumption DEF IInv, TypeOK, Admission
<1>5. ASSUME NEW c \in Broadcasts PROVE RowFits(c)'
  <2>1. CASE c = b
    BY <1>1, <1>2, <2>1, BroadcastAssumption DEF IInv, TypeOK, RowFits, Tried, Statuses
  <2>2. CASE c # b
    BY <1>1, <1>2, <2>2 DEF IInv, TypeOK, RowFits, Tried
  <2>3. QED BY <2>1, <2>2
<1>6. QED BY <1>3, <1>4, <1>5 DEF IInv

\* A step of a mailing's task leaves the requests and the other mailings alone.
Others(b) ==
    /\ UNCHANGED <<total, inserting, creating, up>>
    /\ \A c \in Broadcasts \ {b} :
          UNCHANGED <<status[c], delivered[c], failed[c], task[c], ok[c], bad[c], inbox[c]>>

LEMMA SendIsLocal ==
  ASSUME IInv, NEW b \in Broadcasts, Send(b)
  PROVE  Others(b)
  BY DEF IInv, TypeOK, Others, Send, Load, SendNext, PauseAndSave, Complete, Abort, Delivers,
     Refused, Breaks, Arrives, SaveProgress, GoesTo, rows

\* The counters that a save writes are within bounds, and those of the task.
LEMMA CountersFit ==
  ASSUME IInv, NEW b \in Broadcasts, SaveProgress(b) \/ UNCHANGED <<delivered, failed>>
  PROVE  /\ delivered' \in [Broadcasts -> 0 .. MaxRecipients]
         /\ failed' \in [Broadcasts -> 0 .. MaxRecipients]
         /\ delivered'[b] <= ok[b] /\ failed'[b] <= bad[b]
         /\ SaveProgress(b) => delivered'[b] = ok[b] /\ failed'[b] = bad[b]
<1>1. /\ delivered \in [Broadcasts -> 0 .. MaxRecipients] /\ delivered[b] <= ok[b]
      /\ failed \in [Broadcasts -> 0 .. MaxRecipients] /\ failed[b] <= bad[b]
      /\ ok[b] \in 0 .. MaxRecipients /\ bad[b] \in 0 .. MaxRecipients
  BY DEF IInv, TypeOK, RowFits
<1>2. CASE SaveProgress(b)
  BY <1>1, <1>2, BroadcastAssumption DEF SaveProgress
<1>3. CASE UNCHANGED <<delivered, failed>> /\ ~SaveProgress(b)
  BY <1>1, <1>3
<1>4. QED BY <1>2, <1>3

\* What a step of the task does to its own mailing.
LEMMA SendKeepsRow ==
  ASSUME IInv, NEW b \in Broadcasts, Send(b)
  PROVE  TypeOK' /\ RowFits(b)'
<1> USE BroadcastAssumption DEF IInv, TypeOK, RowFits, Tried, GoesTo, Statuses
<1>1. CASE Load(b)
  BY <1>1 DEF Load, rows
<1>2. CASE SendNext(b) /\ Delivers(b)
  BY <1>2 DEF SendNext, Delivers, Arrives, rows
<1>3. CASE SendNext(b) /\ Refused(b)
  BY <1>3 DEF SendNext, Refused, Arrives, rows
<1>4. CASE SendNext(b) /\ Breaks(b)
  BY <1>4 DEF SendNext, Breaks, Arrives, rows
<1>5. CASE PauseAndSave(b)
  <2>1. SaveProgress(b) \/ UNCHANGED <<delivered, failed>>
    BY <1>5 DEF PauseAndSave
  <2>2. task[b] = "sent" /\ (GoesTo(b, "sending") \/ GoesTo(b, "failing"))
        /\ UNCHANGED <<status, total, inserting, creating, ok, bad, inbox, up>>
    BY <1>5 DEF PauseAndSave
  <2>3. TypeOK' BY <2>1, <2>2, CountersFit
  <2>4. QED BY <2>1, <2>2, <2>3, CountersFit
<1>6. CASE Complete(b)
  <2>1. \/ SaveProgress(b) /\ status' = [status EXCEPT ![b] = "DONE"] /\ GoesTo(b, "none")
        \/ GoesTo(b, "failing") /\ UNCHANGED <<status, delivered, failed>>
    BY <1>6 DEF Complete
  <2>2. task[b] = "sending" /\ ok[b] + bad[b] = total[b]
        /\ UNCHANGED <<total, inserting, creating, ok, bad, inbox, up>>
    BY <1>6 DEF Complete
  <2>3. TypeOK' BY <2>1, <2>2, CountersFit
  <2>4. QED BY <2>1, <2>2, <2>3, CountersFit
<1>7. CASE Abort(b)
  <2>1. \/ SaveProgress(b) /\ status' = [status EXCEPT ![b] = "INTERRUPTED"]
        \/ UNCHANGED <<status, delivered, failed>>
    BY <1>7 DEF Abort
  <2>2. task[b] = "failing" /\ GoesTo(b, "none")
        /\ UNCHANGED <<total, inserting, creating, ok, bad, inbox, up>>
    BY <1>7 DEF Abort
  <2>3. TypeOK' BY <2>1, <2>2, CountersFit
  <2>4. QED BY <2>1, <2>2, <2>3, CountersFit
<1>8. QED BY <1>1, <1>2, <1>3, <1>4, <1>5, <1>6, <1>7 DEF Send, SendNext

LEMMA SendKeeps ==
  ASSUME IInv, NEW b \in Broadcasts, Send(b)
  PROVE  IInv'
<1>1. Others(b) BY SendIsLocal
<1>2. TypeOK' /\ RowFits(b)' BY SendKeepsRow
<1>3. ASSUME NEW c \in Broadcasts \ {b} PROVE RowFits(c)'
  BY <1>1, <1>3 DEF IInv, RowFits, Others, Tried
<1>4. task[b] # "none" /\ (status'[b] = status[b] \/ status'[b] # "SENDING")
  BY DEF Send, Load, SendNext, PauseAndSave, Complete, Abort, Delivers, Refused, Breaks, rows,
     IInv, TypeOK
<1>5. Admission'
  BY <1>1, <1>4 DEF IInv, Admission, Others
<1>6. QED BY <1>2, <1>3, <1>5 DEF IInv

LEMMA ProcessKeeps ==
  ASSUME IInv, Crash \/ Start
  PROVE  IInv'
<1>1. CASE Crash
  BY <1>1 DEF IInv, TypeOK, Admission, RowFits, Crash, Tried, rows
<1>2. CASE Start
  BY <1>2, BroadcastAssumption DEF IInv, TypeOK, Admission, RowFits, Start, Tried, Sending,
     Statuses, locals
<1>3. QED BY <1>1, <1>2

LEMMA NextIInv == IInv /\ [Next]_vars => IInv'
<1> SUFFICES ASSUME IInv, [Next]_vars PROVE IInv'
  OBVIOUS
<1>1. CASE UNCHANGED vars
  BY <1>1 DEF vars, rows, locals, IInv, TypeOK, Admission, RowFits, Tried
<1>2. CASE Next
  BY <1>2, RequestKeeps, CommitKeeps, SendKeeps, ProcessKeeps DEF Next
<1>3. QED BY <1>1, <1>2

LEMMA AlwaysIInv == Spec => []IInv
  BY InitIInv, NextIInv, PTL DEF Spec

(***************************************************************************)
(* Every reachable state of the mailings is well typed.                    *)
(***************************************************************************)
THEOREM BroadcastTypeCorrect == Spec => []TypeOK
<1>1. IInv => TypeOK BY DEF IInv
<1>2. QED BY <1>1, AlwaysIInv, PTL

(***************************************************************************)
(* However many administrators press the button at once, at most one row   *)
(* is SENDING, and a task writes for that row only.                        *)
(***************************************************************************)
THEOREM AlwaysOneAtATime == Spec => []OneAtATime
<1>1. IInv => OneAtATime
  BY DEF IInv, Admission, RowFits, OneAtATime, Sending
<1>2. QED BY <1>1, AlwaysIInv, PTL

(***************************************************************************)
(* The recipient that is next has not been written to, after any mixture   *)
(* of refusals and timeouts: nobody gets a mailing twice.                  *)
(***************************************************************************)
THEOREM AlwaysWrittenOnce == Spec => []WrittenOnce
<1>1. IInv => WrittenOnce
  BY DEF IInv, TypeOK, RowFits, WrittenOnce, Tried
<1>2. QED BY <1>1, AlwaysIInv, PTL

\* A delivery adds a recipient that was not there.
LEMMA NextCounted == IInv /\ Counted /\ [Next]_vars => Counted'
<1> SUFFICES ASSUME IInv, Counted, [Next]_vars, NEW c \in Broadcasts
             PROVE  ok'[c] <= Cardinality(inbox'[c])
  BY DEF Counted
<1>1. IsFiniteSet(inbox[c]) /\ Cardinality(inbox[c]) \in Nat
      /\ ok[c] \in Nat /\ ok[c] <= Cardinality(inbox[c])
  <2>1. inbox[c] \subseteq 1 .. MaxRecipients /\ ok[c] \in Nat
    BY BroadcastAssumption DEF IInv, TypeOK
  <2>2. IsFiniteSet(1 .. MaxRecipients)
    BY FS_Interval, BroadcastAssumption
  <2>3. IsFiniteSet(inbox[c])
    BY <2>1, <2>2, FS_Subset
  <2>4. QED BY <2>1, <2>3, FS_CardinalityType DEF Counted
<1>2. CASE UNCHANGED <<ok[c], inbox[c]>>
  BY <1>1, <1>2
<1>3. ASSUME NEW b \in Broadcasts, SendNext(b) PROVE ok'[c] <= Cardinality(inbox'[c])
  <2>1. CASE b # c
    <3>1. UNCHANGED <<ok[c], inbox[c]>>
      BY <1>3, <2>1, SendIsLocal DEF Others, Send
    <3>2. QED BY <3>1, <1>2
  <2>2. CASE b = c
    <3>1. Tried(c) + 1 \notin inbox[c]
      BY <1>3, <2>2 DEF SendNext, IInv, TypeOK, RowFits, Tried
    <3>2. Cardinality(inbox[c] \union {Tried(c) + 1}) = Cardinality(inbox[c]) + 1
      BY <3>1, <1>1, FS_AddElement
    <3>3. inbox'[c] = inbox[c] \union {Tried(c) + 1} \/ inbox'[c] = inbox[c]
      BY <1>3, <2>2 DEF SendNext, Delivers, Refused, Breaks, Arrives, IInv, TypeOK
    <3>4. CASE Delivers(c)
      <4>1. inbox'[c] = inbox[c] \union {Tried(c) + 1} /\ ok'[c] = ok[c] + 1
        BY <3>4 DEF Delivers, Arrives, IInv, TypeOK
      <4>2. QED BY <4>1, <3>2, <1>1
    <3>5. CASE Refused(c) \/ Breaks(c)
      <4>1. ok'[c] = ok[c] BY <3>5 DEF Refused, Breaks
      <4>2. CASE inbox'[c] = inbox[c]
        BY <4>1, <4>2, <1>1
      <4>3. CASE inbox'[c] = inbox[c] \union {Tried(c) + 1}
        <5>1. Cardinality(inbox'[c]) = Cardinality(inbox[c]) + 1
          BY <4>3, <3>2
        <5>2. QED BY <5>1, <4>1, <1>1
      <4>4. QED BY <4>2, <4>3, <3>3
    <3>6. QED BY <1>3, <2>2, <3>4, <3>5 DEF SendNext
  <2>3. QED BY <2>1, <2>2
<1>4. CASE \E b \in Broadcasts : Load(b) \/ PauseAndSave(b) \/ Complete(b) \/ Abort(b)
  BY <1>2, <1>4 DEF Load, PauseAndSave, Complete, Abort
<1>5. CASE \E a \in Admins : ListRecipients(a) \/ Refuse(a) \/ Insert(a) \/ CommitAndStart(a)
  BY <1>2, <1>5 DEF ListRecipients, Refuse, Insert, CommitAndStart, locals
<1>6. CASE Crash \/ Start
  BY <1>2, <1>6 DEF Crash, Start, locals
<1>7. CASE UNCHANGED vars
  BY <1>2, <1>7 DEF vars, locals
<1>8. QED BY <1>3, <1>4, <1>5, <1>6, <1>7 DEF Next, Send

LEMMA AlwaysCounted == Spec => []Counted
<1>1. Init => Counted
  BY FS_EmptySet DEF Init, Counted
<1>2. QED BY <1>1, NextCounted, AlwaysIInv, PTL DEF Spec

(***************************************************************************)
(* The history tells the truth: at least as many recipients as delivered   *)
(* got the mailing, and DONE means that everybody was tried.               *)
(***************************************************************************)
THEOREM CountersAlwaysHonest == Spec => []CountersHonest
<1>1. IInv /\ Counted => CountersHonest
  <2> SUFFICES ASSUME IInv, Counted, NEW b \in Broadcasts
               PROVE  /\ delivered[b] <= Cardinality(inbox[b])
                      /\ delivered[b] + failed[b] <= total[b]
                      /\ status[b] = "DONE" => delivered[b] + failed[b] = total[b]
    BY DEF CountersHonest
  <2>1. delivered[b] \in Nat /\ failed[b] \in Nat /\ ok[b] \in Nat /\ bad[b] \in Nat
        /\ total[b] \in Nat /\ RowFits(b)
    BY BroadcastAssumption DEF IInv, TypeOK
  <2>2. IsFiniteSet(inbox[b])
    <3>1. inbox[b] \subseteq 1 .. MaxRecipients
      BY BroadcastAssumption DEF IInv, TypeOK
    <3>2. IsFiniteSet(1 .. MaxRecipients)
      BY FS_Interval, BroadcastAssumption
    <3>3. QED BY <3>1, <3>2, FS_Subset
  <2>3. Cardinality(inbox[b]) \in Nat /\ ok[b] <= Cardinality(inbox[b])
    BY <2>2, FS_CardinalityType DEF Counted
  <2>4. QED BY <2>1, <2>3 DEF RowFits
<1>2. QED BY <1>1, AlwaysIInv, AlwaysCounted, PTL

(***************************************************************************)
(* A finished mailing keeps its outcome and its counters, over restarts.   *)
(***************************************************************************)
THEOREM OutcomeAlwaysFinal == Spec => OutcomeIsFinal
<1>1. ASSUME IInv, [Next]_vars, NEW b \in Broadcasts, status[b] \in {"DONE", "INTERRUPTED"}
      PROVE  UNCHANGED <<status[b], delivered[b], failed[b]>>
  <2>1. task[b] = "none" /\ status[b] # None
    BY <1>1, BroadcastAssumption DEF IInv, RowFits, TypeOK, Statuses
  <2>2. CASE UNCHANGED vars
    BY <2>2 DEF vars, rows
  <2>3. CASE \E c \in Broadcasts : Send(c)
    <3>1. PICK c \in Broadcasts : Send(c) BY <2>3
    <3>2. c # b
      BY <2>1, <3>1 DEF Send, Load, SendNext, PauseAndSave, Complete, Abort
    <3>3. QED BY <1>1, <3>1, <3>2, SendIsLocal DEF Others
  <2>4. CASE \E a \in Admins : CommitAndStart(a)
    BY <1>1, <2>1, <2>4 DEF CommitAndStart, IInv, TypeOK
  <2>5. CASE \E a \in Admins : ListRecipients(a) \/ Refuse(a) \/ Insert(a)
    BY <2>5 DEF ListRecipients, Refuse, Insert, rows
  <2>6. CASE Crash \/ Start
    BY <1>1, <2>6 DEF Crash, Start, Sending, rows
  <2>7. QED BY <1>1, <2>2, <2>3, <2>4, <2>5, <2>6 DEF Next
<1>2. IInv /\ [Next]_vars =>
        [\A b \in Broadcasts : status[b] \in {"DONE", "INTERRUPTED"} =>
            UNCHANGED <<status[b], delivered[b], failed[b]>>]_vars
  BY <1>1
<1>3. QED BY <1>2, AlwaysIInv, PTL DEF Spec, OutcomeIsFinal
==============================================================================
