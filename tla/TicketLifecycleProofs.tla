------------------------ MODULE TicketLifecycleProofs ------------------------
(***************************************************************************)
(* The row lock protects a transition.  The inductive invariant IInv says  *)
(* what each request in flight carries (WellFormed), that a request past   *)
(* SELECT ... FOR UPDATE is the one that holds the row, and that what it   *)
(* read there is still in the row (SnapshotHolds); it is proved one step   *)
(* of a request at a time.                                                 *)
(***************************************************************************)
EXTENDS TicketLifecycle, TLAPS

USE DEF StaffOps, ClientOps

LEMMA IdleIsRequest == Idle \in Requests
  BY LifecycleAssumption DEF Idle, Requests, Instants

LEMMA InitTypeOK == Init => TypeOK
  BY IdleIsRequest, LifecycleAssumption DEF Init, TypeOK, Instants

LEMMA FinishType ==
    ASSUME TypeOK, NEW p \in Procs, Finish(p)
    PROVE  req' \in [Procs -> Requests]
  BY IdleIsRequest DEF TypeOK, Finish

LEMMA GoesOnType ==
    ASSUME TypeOK, NEW p \in Procs,
           NEW phase \in {"started", "checked", "sent", "locked", "committed"}, GoesOn(p, phase)
    PROVE  req' \in [Procs -> Requests]
  <1>1. req[p] \in Requests
    BY DEF TypeOK
  <1>2. [req[p] EXCEPT !.pc = phase] \in Requests
    BY <1>1 DEF Requests
  <1> QED BY <1>2 DEF TypeOK, GoesOn

LEMMA CheckType ==
    ASSUME TypeOK, NEW p \in Procs, NEW ok \in BOOLEAN, Check(p, ok)
    PROVE  TypeOK'
  <1>1. req' \in [Procs -> Requests]
    BY FinishType, GoesOnType DEF Check
  <1> QED BY <1>1 DEF Check, TypeOK, tables

LEMMA LockType ==
    ASSUME TypeOK, NEW p \in Procs, NEW ok \in BOOLEAN, Lock(p, ok),
           req[p].ticket \in Tickets
    PROVE  TypeOK'
  <1>1. req' \in [Procs -> Requests]
    <2>1. CASE ok
      <3>1. req[p] \in Requests /\ status[req[p].ticket] \in Status \union {None} /\ now \in Instants
        BY DEF TypeOK
      <3>2. [req[p] EXCEPT !.pc = "locked", !.seen = status[req[p].ticket], !.stamp = now]
               \in Requests
        BY <3>1 DEF Requests
      <3> QED BY <2>1, <3>2 DEF Lock, TypeOK
    <2>2. CASE ~ok
      BY <2>2, FinishType DEF Lock
    <2> QED BY <2>1, <2>2
  <1>2. rowLock' \in [Tickets -> Procs \union {None}]
    BY DEF Lock, TypeOK
  <1> QED BY <1>1, <1>2 DEF Lock, TypeOK, tables

LEMMA RecordType ==
    ASSUME TypeOK, NEW t \in Tickets, NEW from \in Status \union {None}, NEW to \in Status,
           NEW by \in Staff \union Clients \union {None}, Record(t, from, to, by)
    PROVE  history' \in [Tickets -> Seq(Changes)]
  <1>1. [from |-> from, to |-> to, by |-> by] \in Changes
    BY DEF Changes
  <1> QED BY <1>1 DEF Record, TypeOK

LEMMA PostType ==
    ASSUME TypeOK, NEW t \in Tickets, NEW sender \in {"CLIENT", "STAFF", "SYSTEM"},
           NEW mid \in Messages \union {None}, Post(t, sender, mid)
    PROVE  messages' \in [Tickets -> Seq(ChatMessages)]
  <1>1. [sender |-> sender, mid |-> mid] \in ChatMessages
    BY DEF ChatMessages
  <1> QED BY <1>1 DEF Post, TypeOK

LEMMA CommitType ==
    ASSUME TypeOK, NEW p \in Procs, Commit(p)
    PROVE  /\ rowLock' \in [Tickets -> Procs \union {None}]
           /\ commits' \in Nat
           /\ now' \in Instants
  <1>1. rowLock' \in [Tickets -> Procs \union {None}]
    BY DEF Commit, TypeOK
  <1>2. commits' \in Nat /\ now' \in Instants
    BY DEF Commit, TypeOK
  <1> QED BY <1>1, <1>2

LEMMA BeginType ==
    ASSUME TypeOK, NEW p \in Procs, NEW op \in StaffOps \union ClientOps \union {"create"},
           NEW user \in Staff \union Clients, NEW role \in UserRoles, NEW t \in Tickets,
           NEW arg \in Status \union Ratings \union Messages \union {None},
           Begin(p, op, user, role, t, arg)
    PROVE  TypeOK'
  <1>1. req' \in [Procs -> Requests]
    BY IdleIsRequest DEF Begin, TypeOK, Requests, Idle
  <1> QED BY <1>1 DEF Begin, TypeOK, tables

-----------------------------------------------------------------------------
IInv ==
    /\ TypeOK
    /\ \A p \in Procs : WellFormed(p)
    /\ SnapshotHolds

LEMMA InitIInv == Init => IInv
  BY InitTypeOK DEF Init, IInv, Idle, WellFormed, SnapshotHolds, Snapshot

\* A step of p leaves the requests of others alone, changes a ticket's row only
\* while p holds it or inserts it, and takes no row away from another request.
LeavesOthers(p) ==
    /\ \A q \in Procs \ {p} : req'[q] = req[q]
    /\ now' = now
    /\ \A t \in Tickets :
          /\ \/ UNCHANGED <<status[t], closedAt[t], client[t]>>
             \/ rowLock[t] = p /\ status[t] # None
             \/ status[t] = None /\ p = Bot
          /\ status[t] # None => status'[t] # None
          /\ \A q \in Procs \ {p} : rowLock[t] = q => rowLock'[t] = q

\* A request keeps what it relies on while another request takes such a step.
LEMMA OthersKept ==
    ASSUME IInv, NEW p \in Procs, NEW q \in Procs, q # p, LeavesOthers(p)
    PROVE  WellFormed(q)' /\ Snapshot(q)'
  <1>0. WellFormed(q) /\ Snapshot(q) /\ TypeOK
    BY DEF IInv, SnapshotHolds
  <1>1. CASE req[q].pc = "idle"
    BY <1>1 DEF WellFormed, Snapshot, LeavesOthers
  <1>2. CASE req[q].pc # "idle"
    <2> DEFINE t == req[q].ticket
    <2>1. t \in Tickets /\ (status[t] = None => q = Bot)
      BY <1>0, <1>2 DEF WellFormed
    <2>2. status'[t] = None <=> status[t] = None
      BY <2>1 DEF LeavesOthers
    <2>3. WellFormed(q)'
      BY <1>0, <1>2, <2>1, <2>2 DEF WellFormed, LeavesOthers
    <2>4. ASSUME req[q].pc = "locked" PROVE UNCHANGED <<status[t], closedAt[t], client[t], rowLock[t]>>
      <3>1. rowLock[t] = q
        BY <1>0, <2>4 DEF Snapshot
      <3> QED BY <2>1, <3>1 DEF LeavesOthers
    <2>5. Snapshot(q)'
      BY <1>0, <2>4 DEF Snapshot, LeavesOthers
    <2> QED BY <2>3, <2>5
  <1> QED BY <1>1, <1>2

-----------------------------------------------------------------------------
\* Facts about one request, spelled out once for the steps below.
LEMMA RequestTypes ==
    ASSUME IInv, NEW p \in Procs
    PROVE  /\ req[p] \in Requests
           /\ req[p].pc # "idle" =>
                 /\ req[p].ticket \in Tickets
                 /\ req[p].op \in StaffOps \union ClientOps \union {"create"}
                 /\ req[p].op \in StaffOps =>
                       p \in ApiSlots /\ req[p].user \in Staff /\ req[p].role \in StaffRoles
                 /\ req[p].op \notin StaffOps => p = Bot /\ req[p].user \in Clients
                 /\ req[p].op = "change" => req[p].arg \in Status
                 /\ req[p].op = "rate" => req[p].arg \in Ratings
                 /\ req[p].op = "message" => req[p].arg \in Messages
                 /\ (req[p].op = "create") <=> (status[req[p].ticket] = None)
                 /\ req[p].stamp \in Instants /\ req[p].stamp <= now
  <1>1. req[p] \in Requests
    BY DEF IInv, TypeOK
  <1>2. req[p].op \in StaffOps \union ClientOps \union {"create", None} /\ req[p].stamp \in Instants
    BY <1>1 DEF Requests
  <1> QED BY <1>1, <1>2 DEF IInv, WellFormed

LEMMA CommitCreateType ==
    ASSUME IInv, NEW p \in Procs, CommitCreate(p) PROVE TypeOK'
  <1>1. TypeOK /\ req[p].ticket \in Tickets /\ req[p].user \in Clients
    BY RequestTypes DEF IInv, CommitCreate, At
  <1>2. req' \in [Procs -> Requests]
    BY <1>1, FinishType DEF CommitCreate
  <1>3. history' \in [Tickets -> Seq(Changes)]
    BY <1>1, RecordType DEF CommitCreate, Status
  <1>4. /\ rowLock' \in [Tickets -> Procs \union {None}]
        /\ commits' \in Nat /\ now' \in Instants
    BY <1>1, CommitType DEF CommitCreate
  <1>5. /\ status' \in [Tickets -> Status \union {None}]
        /\ client' \in [Tickets -> Clients \union {None}]
        /\ activeTicket' \in [Clients -> Tickets \union {None}]
    BY <1>1 DEF CommitCreate, TypeOK, Status
  <1> QED BY <1>1, <1>2, <1>3, <1>4, <1>5 DEF CommitCreate, TypeOK

LEMMA ApplyTransitionType ==
    ASSUME IInv, NEW p \in Procs, NEW target \in Status, req[p].pc = "locked",
           req[p].seen = "NEW" => req[p].user \in Staff, ApplyTransition(p, target)
    PROVE  TypeOK'
  <1>1. /\ TypeOK
        /\ req[p].ticket \in Tickets
        /\ req[p].seen \in Status \union {None}
        /\ req[p].user \in Staff \union Clients \union {None}
        /\ req[p].stamp \in Instants
    BY RequestTypes DEF IInv, Requests
  <1>2. req' \in [Procs -> Requests]
    BY <1>1, GoesOnType DEF ApplyTransition
  <1>3. history' \in [Tickets -> Seq(Changes)]
    BY <1>1, RecordType DEF ApplyTransition
  <1>4. /\ rowLock' \in [Tickets -> Procs \union {None}]
        /\ commits' \in Nat /\ now' \in Instants
    BY <1>1, CommitType DEF ApplyTransition
  <1>5. AssigneeAfter(p, target) \in Staff \union {None}
    BY <1>1 DEF AssigneeAfter, TypeOK
  <1>6. ClosedAtAfter(p, target) \in Instants \union {None}
    BY <1>1 DEF ClosedAtAfter, TypeOK
  <1>7. /\ status' \in [Tickets -> Status \union {None}]
        /\ assignee' \in [Tickets -> Staff \union {None}]
        /\ closedAt' \in [Tickets -> Instants \union {None}]
    BY <1>1, <1>5, <1>6 DEF ApplyTransition, TypeOK
  <1> QED BY <1>1, <1>2, <1>3, <1>4, <1>7 DEF ApplyTransition, TypeOK

LEMMA CommitReplyType ==
    ASSUME IInv, NEW p \in Procs, CommitReply(p) PROVE TypeOK'
  <1>1. /\ TypeOK
        /\ req[p].ticket \in Tickets /\ req[p].user \in Staff
        /\ req[p].seen \in Status \union {None} /\ req[p].stamp \in Instants
    BY RequestTypes DEF IInv, CommitReply, At, Requests
  <1>2. req' \in [Procs -> Requests]
    BY <1>1, FinishType DEF CommitReply
  <1>3. messages' \in [Tickets -> Seq(ChatMessages)]
    BY <1>1, PostType DEF CommitReply
  <1>4. /\ rowLock' \in [Tickets -> Procs \union {None}]
        /\ commits' \in Nat /\ now' \in Instants
    BY <1>1, CommitType DEF CommitReply
  <1>5. staffSeenAt' \in [Tickets -> Instants \union {None}]
    BY <1>1 DEF CommitReply, TypeOK
  <1>6. /\ status' \in [Tickets -> Status \union {None}]
        /\ assignee' \in [Tickets -> Staff \union {None}]
        /\ history' \in [Tickets -> Seq(Changes)]
    <2> DEFINE next == StatusAfterStaffMessage(req[p].seen)
    <2>1. CASE next # None
      <3>1. next \in Status
        BY <2>1 DEF StatusAfterStaffMessage, Status
      <3>2. history' \in [Tickets -> Seq(Changes)]
        <4>1. Record(req[p].ticket, req[p].seen, next, None)
          BY <2>1 DEF CommitReply
        <4> QED BY <1>1, <3>1, <4>1, RecordType
      <3>3. /\ status' = [status EXCEPT ![req[p].ticket] = next]
            /\ assignee' = [assignee EXCEPT ![req[p].ticket] = req[p].user]
        BY <2>1 DEF CommitReply
      <3> QED BY <1>1, <3>1, <3>2, <3>3 DEF TypeOK
    <2>2. CASE next = None
      BY <1>1, <2>2 DEF CommitReply, TypeOK
    <2> QED BY <2>1, <2>2
  <1> QED BY <1>1, <1>2, <1>3, <1>4, <1>5, <1>6 DEF CommitReply, TypeOK

LEMMA CommitMessageType ==
    ASSUME IInv, NEW p \in Procs, CommitMessage(p) PROVE TypeOK'
  <1>1. /\ TypeOK
        /\ req[p].ticket \in Tickets /\ req[p].user \in Clients /\ req[p].arg \in Messages
        /\ req[p].seen \in Status \union {None} /\ req[p].stamp \in Instants
    BY RequestTypes DEF IInv, CommitMessage, At, Requests
  <1>2. req' \in [Procs -> Requests]
    BY <1>1, FinishType DEF CommitMessage
  <1>3. messages' \in [Tickets -> Seq(ChatMessages)]
    BY <1>1, PostType DEF CommitMessage
  <1>4. /\ rowLock' \in [Tickets -> Procs \union {None}]
        /\ commits' \in Nat /\ now' \in Instants
    BY <1>1, CommitType DEF CommitMessage
  <1>5. /\ lastClientMessageAt' \in [Tickets -> Instants \union {None}]
        /\ activeTicket' \in [Clients -> Tickets \union {None}]
    BY <1>1 DEF CommitMessage, TypeOK
  <1>6. /\ status' \in [Tickets -> Status \union {None}]
        /\ history' \in [Tickets -> Seq(Changes)]
    <2> DEFINE next == StatusAfterClientMessage(req[p].seen)
    <2>1. CASE next # None
      <3>1. next \in Status
        BY <2>1 DEF StatusAfterClientMessage, Status
      <3>2. history' \in [Tickets -> Seq(Changes)]
        <4>1. Record(req[p].ticket, req[p].seen, next, None)
          BY <2>1 DEF CommitMessage
        <4> QED BY <1>1, <3>1, <4>1, RecordType
      <3>3. status' = [status EXCEPT ![req[p].ticket] = next]
        BY <2>1 DEF CommitMessage
      <3> QED BY <1>1, <3>1, <3>2, <3>3 DEF TypeOK
    <2>2. CASE next = None
      BY <1>1, <2>2 DEF CommitMessage, TypeOK
    <2> QED BY <2>1, <2>2
  <1> QED BY <1>1, <1>2, <1>3, <1>4, <1>5, <1>6 DEF CommitMessage, TypeOK

-----------------------------------------------------------------------------
\* What is left to show of a step of p.
LEMMA Preserved ==
    ASSUME IInv, NEW p \in Procs, TypeOK', LeavesOthers(p), WellFormed(p)', Snapshot(p)'
    PROVE  IInv'
  BY OthersKept DEF IInv, SnapshotHolds

LEMMA FinishKeeps ==
    ASSUME TypeOK, NEW p \in Procs, Finish(p)
    PROVE  /\ WellFormed(p)' /\ Snapshot(p)'
           /\ \A q \in Procs \ {p} : req'[q] = req[q]
  <1>1. req'[p].pc = "idle"
    BY DEF Finish, Idle, TypeOK
  <1> QED BY <1>1 DEF Finish, TypeOK, WellFormed, Snapshot

LEMMA CommitLeavesRows ==
    ASSUME TypeOK, NEW p \in Procs, Commit(p)
    PROVE  /\ now' = now
           /\ \A t \in Tickets : \A q \in Procs \ {p} : rowLock[t] = q => rowLock'[t] = q
  BY DEF Commit, TypeOK

LEMMA GoesOnKeeps ==
    ASSUME IInv, NEW p \in Procs, NEW phase \in {"started", "checked", "sent", "committed"},
           req[p].pc # "idle", GoesOn(p, phase), UNCHANGED now,
           status'[req[p].ticket] = None <=> status[req[p].ticket] = None
    PROVE  /\ WellFormed(p)' /\ Snapshot(p)'
           /\ \A q \in Procs \ {p} : req'[q] = req[q]
  <1>1. req \in [Procs -> Requests] /\ WellFormed(p)
    BY DEF IInv, TypeOK
  <1>2. req' = [req EXCEPT ![p] = [req[p] EXCEPT !.pc = phase]]
    BY DEF GoesOn
  <1>3. req'[p] = [req[p] EXCEPT !.pc = phase] /\ \A q \in Procs \ {p} : req'[q] = req[q]
    BY <1>1, <1>2
  <1>4. /\ req'[p].pc = phase /\ req'[p].op = req[p].op /\ req'[p].ticket = req[p].ticket
        /\ req'[p].user = req[p].user /\ req'[p].role = req[p].role
        /\ req'[p].arg = req[p].arg /\ req'[p].stamp = req[p].stamp
    BY <1>1, <1>3 DEF Requests
  <1>5. WellFormed(p)'
    BY <1>1, <1>4 DEF WellFormed
  <1>6. Snapshot(p)'
    BY <1>4 DEF Snapshot
  <1> QED BY <1>3, <1>5, <1>6

LEMMA CheckKeeps ==
    ASSUME IInv, NEW p \in Procs, NEW ok \in BOOLEAN, req[p].pc # "idle", Check(p, ok)
    PROVE  IInv'
  <1>1. TypeOK'
    BY CheckType DEF IInv
  <1>2. WellFormed(p)' /\ Snapshot(p)' /\ \A q \in Procs \ {p} : req'[q] = req[q]
    BY GoesOnKeeps, FinishKeeps DEF Check, IInv, tables
  <1>3. LeavesOthers(p)
    BY <1>2 DEF LeavesOthers, Check, tables
  <1> QED BY <1>1, <1>2, <1>3, Preserved

\* A locked request, given that what it was refused for does not hold.
LEMMA LockKeeps ==
    ASSUME IInv, NEW p \in Procs, NEW ok \in BOOLEAN, req[p].pc # "idle",
           req[p].op # "create", Lock(p, ok),
           LET t == req[p].ticket IN
           ok => /\ req[p].op = "change" => <<<<status[t], req[p].arg>>, req[p].role>> \in PersonTransitions
                 /\ req[p].op = "reopen" => CanClientReopen(status[t], closedAt[t], now)
                 /\ req[p].op \in {"reopen", "message"} => client[t] = req[p].user
                 /\ req[p].op = "message" => IsOpen(status[t])
    PROVE  IInv'
  <1> DEFINE t == req[p].ticket
  <1>1. t \in Tickets /\ TypeOK /\ WellFormed(p)
    BY DEF IInv, WellFormed
  <1>2. TypeOK'
    BY <1>1, LockType DEF IInv
  <1>3. CASE ok
    <2>1. req' = [req EXCEPT ![p] = [req[p] EXCEPT !.pc = "locked", !.seen = status[t], !.stamp = now]]
      BY <1>3 DEF Lock
    <2>2. /\ req'[p] = [req[p] EXCEPT !.pc = "locked", !.seen = status[t], !.stamp = now]
          /\ \A q \in Procs \ {p} : req'[q] = req[q]
      BY <1>1, <2>1 DEF TypeOK
    <2>3. /\ req'[p].pc = "locked" /\ req'[p].op = req[p].op /\ req'[p].ticket = t
          /\ req'[p].user = req[p].user /\ req'[p].role = req[p].role
          /\ req'[p].arg = req[p].arg /\ req'[p].stamp = now /\ req'[p].seen = status[t]
      BY <1>1, <2>2 DEF TypeOK, Requests
    <2>4. UNCHANGED <<status, closedAt, client, now>> /\ rowLock' = [rowLock EXCEPT ![t] = p]
      BY <1>3 DEF Lock, tables
    <2>5. WellFormed(p)'
      BY <1>1, <2>3, <2>4 DEF WellFormed, TypeOK, Instants
    <2>6. Snapshot(p)'
      BY <1>1, <1>3, <2>3, <2>4 DEF Snapshot, TypeOK
    <2>7. rowLock[t] = None
      BY DEF Lock, RowFree
    <2>8. LeavesOthers(p)
      BY <1>1, <2>2, <2>4, <2>7, LifecycleAssumption DEF LeavesOthers, TypeOK
    <2> QED BY <1>2, <2>5, <2>6, <2>8, Preserved
  <1>4. CASE ~ok
    <2>1. Finish(p) /\ UNCHANGED <<status, closedAt, client, now, rowLock>>
      BY <1>4 DEF Lock, tables
    <2>2. LeavesOthers(p)
      BY <1>1, <2>1, FinishKeeps DEF LeavesOthers
    <2> QED BY <1>1, <1>2, <2>1, <2>2, FinishKeeps, Preserved
  <1> QED BY <1>3, <1>4

-----------------------------------------------------------------------------
\* A request that commits holds the row, so it changes what nobody else relies on.
LEMMA HolderLeavesOthers ==
    ASSUME IInv, NEW p \in Procs, req[p].pc = "locked", req[p].op # "create", Commit(p),
           \A q \in Procs \ {p} : req'[q] = req[q],
           UNCHANGED client, NEW s \in Status,
           status' = [status EXCEPT ![req[p].ticket] = s],
           \A t \in Tickets : t # req[p].ticket => UNCHANGED closedAt[t]
    PROVE  LeavesOthers(p)
  <1>1. TypeOK /\ req[p].ticket \in Tickets /\ status[req[p].ticket] # None
    BY RequestTypes DEF IInv
  <1>2. rowLock[req[p].ticket] = p
    BY DEF IInv, SnapshotHolds, Snapshot
  <1>3. \A t \in Tickets \ {req[p].ticket} : UNCHANGED <<status[t], closedAt[t], client[t]>>
    BY <1>1 DEF TypeOK
  <1>4. \A t \in Tickets : status[t] # None => status'[t] # None
    BY <1>1, NoneIsNoStatus DEF TypeOK
  <1> QED BY <1>1, <1>2, <1>3, <1>4, CommitLeavesRows DEF LeavesOthers

LEMMA ApplyTransitionKeeps ==
    ASSUME IInv, NEW p \in Procs, NEW target \in Status, req[p].pc = "locked",
           req[p].op # "create", req[p].seen = "NEW" => req[p].user \in Staff,
           ApplyTransition(p, target)
    PROVE  IInv'
  <1>1. TypeOK'
    BY ApplyTransitionType
  <1>2. req[p].ticket \in Tickets /\ TypeOK /\ status[req[p].ticket] # None
    BY RequestTypes DEF IInv
  <1>3. status'[req[p].ticket] # None
    BY <1>2, NoneIsNoStatus DEF ApplyTransition, TypeOK
  <1>4. WellFormed(p)' /\ Snapshot(p)' /\ \A q \in Procs \ {p} : req'[q] = req[q]
    <2>1. GoesOn(p, "committed") /\ UNCHANGED now
      BY DEF ApplyTransition, Commit
    <2>2. status'[req[p].ticket] = None <=> status[req[p].ticket] = None
      BY <1>2, <1>3
    <2> QED BY <2>1, <2>2, GoesOnKeeps
  <1>5. \A t \in Tickets : t # req[p].ticket => UNCHANGED closedAt[t]
    BY <1>2 DEF ApplyTransition, TypeOK
  <1>6. LeavesOthers(p)
    BY <1>4, <1>5, HolderLeavesOthers DEF ApplyTransition
  <1> QED BY <1>1, <1>4, <1>6, Preserved

\* A change of staff or a reopening starts from the status it is allowed on.
LEMMA ChangeSource ==
    ASSUME IInv, NEW p \in Procs, req[p].pc = "locked"
    PROVE  /\ req[p].op = "change" => req[p].arg \in Status /\ req[p].user \in Staff
           /\ req[p].op = "reopen" => req[p].seen = "CLOSED"
  BY RequestTypes DEF IInv, SnapshotHolds, Snapshot, CanClientReopen

LEMMA CommitCreateKeeps ==
    ASSUME IInv, NEW p \in Procs, CommitCreate(p) PROVE IInv'
  <1>1. TypeOK /\ req[p].ticket \in Tickets /\ status[req[p].ticket] = None /\ p = Bot
    BY RequestTypes DEF IInv, CommitCreate, At
  <1>2. Finish(p) /\ Commit(p)
    BY DEF CommitCreate
  <1>3. \A t \in Tickets :
           /\ t # req[p].ticket => UNCHANGED <<status[t], closedAt[t], client[t]>>
           /\ status[t] # None => status'[t] # None
    BY <1>1, NoneIsNoStatus DEF CommitCreate, TypeOK, Status
  <1>4. /\ \A q \in Procs \ {p} : req'[q] = req[q]
        /\ now' = now
        /\ \A t \in Tickets : \A q \in Procs \ {p} : rowLock[t] = q => rowLock'[t] = q
    BY <1>1, <1>2, FinishKeeps, CommitLeavesRows
  <1>5. LeavesOthers(p)
    BY <1>1, <1>3, <1>4 DEF LeavesOthers
  <1> QED BY <1>1, <1>2, <1>5, CommitCreateType, FinishKeeps, Preserved

LEMMA CommitReplyKeeps ==
    ASSUME IInv, NEW p \in Procs, CommitReply(p) PROVE IInv'
  <1>1. /\ TypeOK /\ Finish(p) /\ Commit(p) /\ UNCHANGED <<client, closedAt>>
        /\ req[p].pc = "locked" /\ req[p].op # "create"
        /\ req[p].ticket \in Tickets /\ status[req[p].ticket] \in Status
    BY RequestTypes DEF IInv, TypeOK, CommitReply, At
  <1>2. PICK s \in Status : status' = [status EXCEPT ![req[p].ticket] = s]
    <2> DEFINE next == StatusAfterStaffMessage(req[p].seen)
    <2>1. CASE next # None
      <3>1. next \in Status /\ status' = [status EXCEPT ![req[p].ticket] = next]
        BY <2>1 DEF CommitReply, StatusAfterStaffMessage, Status
      <3> QED BY <3>1
    <2>2. CASE next = None
      <3>1. status' = [status EXCEPT ![req[p].ticket] = status[req[p].ticket]]
        BY <1>1, <2>2 DEF CommitReply, TypeOK
      <3> QED BY <1>1, <3>1
    <2> QED BY <2>1, <2>2
  <1>3. LeavesOthers(p)
    BY <1>1, <1>2, FinishKeeps, HolderLeavesOthers
  <1> QED BY <1>1, <1>3, CommitReplyType, FinishKeeps, Preserved

LEMMA CommitMessageKeeps ==
    ASSUME IInv, NEW p \in Procs, CommitMessage(p) PROVE IInv'
  <1>1. /\ TypeOK /\ Finish(p) /\ Commit(p) /\ UNCHANGED <<client, closedAt>>
        /\ req[p].pc = "locked" /\ req[p].op # "create"
        /\ req[p].ticket \in Tickets /\ status[req[p].ticket] \in Status
    BY RequestTypes DEF IInv, TypeOK, CommitMessage, At
  <1>2. PICK s \in Status : status' = [status EXCEPT ![req[p].ticket] = s]
    <2> DEFINE next == StatusAfterClientMessage(req[p].seen)
    <2>1. CASE next # None
      <3>1. next \in Status /\ status' = [status EXCEPT ![req[p].ticket] = next]
        BY <2>1 DEF CommitMessage, StatusAfterClientMessage, Status
      <3> QED BY <3>1
    <2>2. CASE next = None
      <3>1. status' = [status EXCEPT ![req[p].ticket] = status[req[p].ticket]]
        BY <1>1, <2>2 DEF CommitMessage, TypeOK
      <3> QED BY <1>1, <3>1
    <2> QED BY <2>1, <2>2
  <1>3. LeavesOthers(p)
    BY <1>1, <1>2, FinishKeeps, HolderLeavesOthers
  <1> QED BY <1>1, <1>3, CommitMessageType, FinishKeeps, Preserved

\* The commits that touch neither status, closing time nor owner of a ticket.
LEMMA QuietFinishKeeps ==
    ASSUME IInv, NEW p \in Procs, TypeOK', Finish(p), UNCHANGED <<status, closedAt, client, now>>,
           \A t \in Tickets : \A q \in Procs \ {p} : rowLock[t] = q => rowLock'[t] = q
    PROVE  IInv'
  <1>1. WellFormed(p)' /\ Snapshot(p)' /\ \A q \in Procs \ {p} : req'[q] = req[q]
    BY FinishKeeps DEF IInv
  <1>2. LeavesOthers(p)
    BY <1>1 DEF LeavesOthers
  <1> QED BY <1>1, <1>2, Preserved

LEMMA SmallCommitKeeps ==
    ASSUME IInv, NEW p \in Procs,
           NotifyClient(p) \/ CommitRate(p) \/ CommitActivate(p) \/ CommitRead(p)
    PROVE  IInv'
  <1> USE DEF At
  <1>0. TypeOK
    BY DEF IInv
  <1>1. CASE NotifyClient(p)
    <2>1. req[p].ticket \in Tickets
      BY <1>1, RequestTypes DEF NotifyClient
    <2>2. messages' \in [Tickets -> Seq(ChatMessages)]
      BY <1>0, <1>1, <2>1, PostType DEF NotifyClient, TypeOK
    <2>3. req' \in [Procs -> Requests]
      BY <1>0, <1>1, FinishType DEF NotifyClient
    <2>4. TypeOK'
      BY <1>0, <1>1, <2>2, <2>3 DEF NotifyClient, TypeOK
    <2> QED BY <1>1, <2>4, QuietFinishKeeps DEF NotifyClient
  <1>2. CASE CommitRate(p)
    <2>1. req[p].ticket \in Tickets /\ req[p].arg \in Ratings /\ Finish(p) /\ Commit(p)
      BY <1>2, RequestTypes DEF CommitRate
    <2>2. rating' \in [Tickets -> Ratings \union {None}]
      BY <1>0, <1>2, <2>1 DEF CommitRate, TypeOK
    <2>3. TypeOK'
      BY <1>0, <1>2, <2>1, <2>2, FinishType, CommitType DEF CommitRate, TypeOK
    <2> QED BY <1>0, <1>2, <2>1, <2>3, QuietFinishKeeps, CommitLeavesRows DEF CommitRate
  <1>3. CASE CommitActivate(p)
    <2>1. req[p].ticket \in Tickets /\ req[p].user \in Clients /\ Finish(p) /\ Commit(p)
      BY <1>3, RequestTypes DEF CommitActivate
    <2>2. activeTicket' \in [Clients -> Tickets \union {None}]
      BY <1>0, <1>3, <2>1 DEF CommitActivate, TypeOK
    <2>3. TypeOK'
      BY <1>0, <1>3, <2>1, <2>2, FinishType, CommitType DEF CommitActivate, TypeOK
    <2> QED BY <1>0, <1>3, <2>1, <2>3, QuietFinishKeeps, CommitLeavesRows DEF CommitActivate
  <1>4. CASE CommitRead(p)
    <2>1. req[p].ticket \in Tickets /\ req[p].stamp \in Instants /\ Finish(p) /\ Commit(p)
      BY <1>4, RequestTypes DEF CommitRead
    <2>2. staffSeenAt' \in [Tickets -> Instants \union {None}]
      BY <1>0, <1>4, <2>1 DEF CommitRead, TypeOK
    <2>3. TypeOK'
      BY <1>0, <1>4, <2>1, <2>2, FinishType, CommitType DEF CommitRead, TypeOK
    <2> QED BY <1>0, <1>4, <2>1, <2>3, QuietFinishKeeps, CommitLeavesRows DEF CommitRead
  <1> QED BY <1>1, <1>2, <1>3, <1>4

-----------------------------------------------------------------------------
LEMMA BeginKeeps ==
    ASSUME IInv, NEW p \in Procs, BeginByStaff(p) \/ BeginByClient(p) \/ BeginCreate(p)
    PROVE  IInv'
  <1>1. PICK op \in StaffOps \union ClientOps \union {"create"}, user \in Staff \union Clients,
             role \in UserRoles, t \in Tickets,
             arg \in Status \union Ratings \union Messages \union {None} :
          /\ Begin(p, op, user, role, t, arg)
          /\ op = "create" <=> status[t] = None
          /\ op \in StaffOps => p \in ApiSlots /\ user \in Staff /\ role \in StaffRoles
          /\ op \notin StaffOps => p = Bot /\ user \in Clients
          /\ op = "change" => arg \in Status
          /\ op = "rate" => arg \in Ratings
          /\ op = "message" => arg \in Messages
    <2>1. CASE BeginByStaff(p)
      BY <2>1 DEF BeginByStaff, Registered, ArgsOf, UserRoles
    <2>2. CASE BeginByClient(p)
      BY <2>2 DEF BeginByClient, Registered, ArgsOf, UserRoles
    <2>3. CASE BeginCreate(p)
      BY <2>3 DEF BeginCreate, Registered, ArgsOf, UserRoles
    <2> QED BY <2>1, <2>2, <2>3
  <1>2. TypeOK /\ TypeOK'
    BY <1>1, BeginType DEF IInv
  <1>3. /\ req'[p] = [Idle EXCEPT !.pc = "started", !.op = op, !.user = user, !.role = role,
                                 !.ticket = t, !.arg = arg]
        /\ \A q \in Procs \ {p} : req'[q] = req[q]
    BY <1>1, <1>2 DEF Begin, TypeOK
  <1>4. /\ req'[p].pc = "started" /\ req'[p].op = op /\ req'[p].user = user
        /\ req'[p].role = role /\ req'[p].ticket = t /\ req'[p].arg = arg /\ req'[p].stamp = 0
    BY <1>3 DEF Idle
  <1>5. UNCHANGED <<status, closedAt, client, rowLock, now>>
    BY <1>1 DEF Begin, tables
  <1>6. WellFormed(p)'
    <2>1. 0 <= now
      BY <1>2 DEF TypeOK, Instants
    <2> QED BY <1>1, <1>4, <1>5, <2>1, LifecycleAssumption DEF WellFormed
  <1>7. Snapshot(p)'
    BY <1>4 DEF Snapshot
  <1>8. LeavesOthers(p)
    BY <1>3, <1>5 DEF LeavesOthers
  <1> QED BY <1>2, <1>6, <1>7, <1>8, Preserved

LEMMA OwnFieldsKeep ==
    ASSUME IInv, NEW p \in Procs, ReopenThenActivate(p) \/ StampRead(p)
    PROVE  IInv'
  <1>1. TypeOK /\ req[p] \in Requests /\ WellFormed(p) /\ now \in Instants
    BY DEF IInv, TypeOK
  <1>2. UNCHANGED <<tables, rowLock, now, commits>>
    BY DEF ReopenThenActivate, StampRead
  <1>3. CASE ReopenThenActivate(p)
    <2>1. req' = [req EXCEPT ![p] = [req[p] EXCEPT !.op = "activate", !.pc = "started"]]
      BY <1>3 DEF ReopenThenActivate
    <2>2. [req[p] EXCEPT !.op = "activate", !.pc = "started"] \in Requests
      BY <1>1 DEF Requests
    <2>3. /\ req'[p] = [req[p] EXCEPT !.op = "activate", !.pc = "started"]
          /\ \A q \in Procs \ {p} : req'[q] = req[q]
      BY <1>1, <2>1 DEF TypeOK
    <2>4. TypeOK'
      BY <1>1, <1>2, <2>1, <2>2 DEF TypeOK, tables
    <2>5. /\ req'[p].pc = "started" /\ req'[p].op = "activate" /\ req'[p].ticket = req[p].ticket
          /\ req'[p].user = req[p].user /\ req'[p].stamp = req[p].stamp
      BY <1>1, <2>3 DEF Requests
    <2>6. WellFormed(p)'
      BY <1>1, <1>2, <1>3, <2>5 DEF WellFormed, ReopenThenActivate, At, tables
    <2>7. Snapshot(p)'
      BY <1>1, <2>3 DEF Snapshot, Requests
    <2>8. LeavesOthers(p)
      BY <1>2, <2>3 DEF LeavesOthers, tables
    <2> QED BY <2>4, <2>6, <2>7, <2>8, Preserved
  <1>4. CASE StampRead(p)
    <2>1. req' = [req EXCEPT ![p] = [req[p] EXCEPT !.pc = "checked", !.stamp = now]]
      BY <1>4 DEF StampRead
    <2>2. [req[p] EXCEPT !.pc = "checked", !.stamp = now] \in Requests
      BY <1>1 DEF Requests
    <2>3. /\ req'[p] = [req[p] EXCEPT !.pc = "checked", !.stamp = now]
          /\ \A q \in Procs \ {p} : req'[q] = req[q]
      BY <1>1, <2>1 DEF TypeOK
    <2>4. TypeOK'
      BY <1>1, <1>2, <2>1, <2>2 DEF TypeOK, tables
    <2>5. /\ req'[p].pc = "checked" /\ req'[p].op = "read" /\ req'[p].ticket = req[p].ticket
          /\ req'[p].user = req[p].user /\ req'[p].role = req[p].role /\ req'[p].stamp = now
      <3>1. req[p].op = "read"
        BY <1>4 DEF StampRead, At
      <3> QED BY <1>1, <2>3, <3>1 DEF Requests
    <2>6. now' = now /\ status' = status /\ now <= now
      BY <1>1, <1>2, LifecycleAssumption DEF Instants, tables
    <2>7. /\ req[p].ticket \in Tickets /\ status[req[p].ticket] # None /\ p \in ApiSlots
           /\ req[p].user \in Staff /\ req[p].role \in StaffRoles
      BY <1>1, <1>4 DEF WellFormed, StampRead, At
    <2>8. WellFormed(p)'
      BY <2>5, <2>6, <2>7 DEF WellFormed
    <2>9. Snapshot(p)'
      BY <1>1, <2>3 DEF Snapshot, Requests
    <2>10. LeavesOthers(p)
      BY <1>2, <2>3 DEF LeavesOthers, tables
    <2> QED BY <2>4, <2>8, <2>9, <2>10, Preserved
  <1> QED BY <1>3, <1>4

LEMMA SendReplyKeeps ==
    ASSUME IInv, NEW p \in Procs, SendReply(p) PROVE IInv'
  <1>1. TypeOK /\ UNCHANGED <<tables, rowLock, now, commits>> /\ req[p].pc # "idle"
    BY DEF IInv, SendReply, At
  <1>2. /\ req' \in [Procs -> Requests]
        /\ WellFormed(p)' /\ Snapshot(p)' /\ \A q \in Procs \ {p} : req'[q] = req[q]
    BY <1>1, GoesOnKeeps, FinishKeeps, GoesOnType, FinishType DEF SendReply, tables
  <1>3. TypeOK'
    BY <1>1, <1>2 DEF TypeOK, tables
  <1>4. LeavesOthers(p)
    BY <1>1, <1>2 DEF LeavesOthers, tables
  <1> QED BY <1>2, <1>3, <1>4, Preserved

LEMMA LocksKeep ==
    ASSUME IInv, NEW p \in Procs,
           LockForChange(p) \/ LockForReopen(p) \/ LockForReply(p) \/ LockForMessage(p)
    PROVE  IInv'
  <1> USE DEF At
  <1>1. CASE LockForChange(p)
    BY <1>1, LockKeeps DEF LockForChange, TransitionAllowed
  <1>2. CASE LockForReopen(p)
    BY <1>2, LockKeeps DEF LockForReopen, TransitionAllowed, Owns
  <1>3. CASE LockForReply(p)
    BY <1>3, LockKeeps DEF LockForReply
  <1>4. CASE LockForMessage(p)
    BY <1>4, LockKeeps DEF LockForMessage, Owns
  <1> QED BY <1>1, <1>2, <1>3, <1>4

LEMMA ChecksKeep ==
    ASSUME IInv, NEW p \in Procs,
           CheckRate(p) \/ CheckReply(p) \/ CheckDuplicate(p) \/ CheckActivate(p)
    PROVE  IInv'
  <1> USE DEF At
  <1>1. CASE CheckRate(p)
    BY <1>1, CheckKeeps DEF CheckRate, Owns, CanRate
  <1>2. CASE CheckReply(p)
    <2> DEFINE ok == IsOpen(status[req[p].ticket])
    <2>1. ok \in BOOLEAN
      BY DEF IsOpen
    <2>2. Check(p, ok) /\ req[p].pc # "idle"
      BY <1>2 DEF CheckReply
    <2> HIDE DEF ok
    <2> QED BY <2>1, <2>2, CheckKeeps
  <1>3. CASE CheckDuplicate(p)
    BY <1>3, CheckKeeps DEF CheckDuplicate, Stored
  <1>4. CASE CheckActivate(p)
    BY <1>4, CheckKeeps DEF CheckActivate, Owns, IsOpen
  <1> QED BY <1>1, <1>2, <1>3, <1>4

LEMMA TransitionsKeep ==
    ASSUME IInv, NEW p \in Procs, CommitChange(p) \/ CommitReopen(p)
    PROVE  IInv'
  <1>1. CASE CommitChange(p)
    <2>1. req[p].pc = "locked" /\ req[p].op = "change" /\ ApplyTransition(p, req[p].arg)
      BY <1>1 DEF CommitChange, At
    <2> QED BY <2>1, ChangeSource, ApplyTransitionKeeps
  <1>2. CASE CommitReopen(p)
    <2>1. req[p].pc = "locked" /\ req[p].op = "reopen" /\ ApplyTransition(p, "IN_PROGRESS")
      BY <1>2 DEF CommitReopen, At
    <2>2. req[p].seen = "CLOSED"
      BY <2>1, ChangeSource
    <2> QED BY <2>1, <2>2, ApplyTransitionKeeps DEF Status
  <1> QED BY <1>1, <1>2

LEMMA StepKeeps ==
    ASSUME IInv, NEW p \in Procs, Step(p) PROVE IInv'
  BY CommitCreateKeeps, LocksKeep, ChecksKeep, TransitionsKeep, SmallCommitKeeps, OwnFieldsKeep,
     SendReplyKeeps, CommitReplyKeeps, CommitMessageKeeps DEF Step

LEMMA RestartKeeps == IInv /\ Restart => IInv'
  <1> SUFFICES ASSUME IInv, Restart PROVE IInv'
    OBVIOUS
  <1>1. TypeOK'
    BY IdleIsRequest DEF IInv, TypeOK, Restart, tables
  <1>2. \A p \in Procs : req'[p].pc = "idle"
    BY DEF Restart, Idle
  <1> QED BY <1>1, <1>2 DEF IInv, WellFormed, SnapshotHolds, Snapshot

LEMMA TickKeeps == IInv /\ Tick => IInv'
  <1> SUFFICES ASSUME IInv, Tick PROVE IInv'
    OBVIOUS
  <1>1. TypeOK'
    BY LifecycleAssumption DEF IInv, TypeOK, Tick, tables, Instants
  <1>2. \A p \in Procs : WellFormed(p)'
    <2> SUFFICES ASSUME NEW p \in Procs PROVE WellFormed(p)'
      OBVIOUS
    <2>1. req[p].stamp \in Nat /\ now \in Nat /\ WellFormed(p)
      BY LifecycleAssumption DEF IInv, TypeOK, Requests, Instants
    <2> QED BY <2>1 DEF WellFormed, Tick, tables
  <1>3. SnapshotHolds'
    BY DEF IInv, SnapshotHolds, Snapshot, Tick, tables
  <1> QED BY <1>1, <1>2, <1>3 DEF IInv

LEMMA StutterKeeps == IInv /\ UNCHANGED vars => IInv'
  <1> SUFFICES ASSUME IInv, UNCHANGED vars PROVE IInv'
    OBVIOUS
  <1>1. TypeOK'
    BY DEF IInv, TypeOK, vars, tables
  <1>2. \A p \in Procs : WellFormed(p)'
    BY DEF IInv, WellFormed, vars, tables
  <1>3. SnapshotHolds'
    BY DEF IInv, SnapshotHolds, Snapshot, vars, tables
  <1> QED BY <1>1, <1>2, <1>3 DEF IInv

LEMMA NextKeeps == IInv /\ [Next]_vars => IInv'
  BY BeginKeeps, StepKeeps, RestartKeeps, TickKeeps, StutterKeeps DEF Next

LEMMA AlwaysIInv == Spec => []IInv
  BY InitIInv, NextKeeps, PTL DEF Spec

\* Every table, lock and request stays within its type, whatever the constants.
THEOREM TypeCorrect == Spec => []TypeOK
  <1>1. IInv => TypeOK
    BY DEF IInv
  <1> QED BY <1>1, AlwaysIInv, PTL

\* What a request decided on under the row lock still holds when it commits.
THEOREM SnapshotsHold == Spec => []SnapshotHolds
  <1>1. IInv => SnapshotHolds
    BY DEF IInv
  <1> QED BY <1>1, AlwaysIInv, PTL

-----------------------------------------------------------------------------
(***************************************************************************)
(* What concurrency cannot do to a ticket.  Every step either leaves its   *)
(* status, assignee, closing time and history alone or is one Move along   *)
(* an edge of the status graph (NextMoves); the rest follows from Moves.   *)
(***************************************************************************)

Edges == {<<None, "NEW">>, <<"WAITING_CLIENT", "IN_PROGRESS">>, <<"CLOSED", "IN_PROGRESS">>,
          <<"REJECTED", "IN_PROGRESS">>} \union StaffTransitions

Done == {"CLOSED", "REJECTED"}

\* Ticket t goes to a status: made by someone, led from then on, closed at.
Move(t, to, by, leader, at) ==
    /\ <<status[t], to>> \in Edges
    /\ status' = [status EXCEPT ![t] = to]
    /\ history' = [history EXCEPT ![t] =
                     Append(@, [from |-> status[t], to |-> to, by |-> by])]
    /\ assignee' = [assignee EXCEPT ![t] =
                      IF status[t] = "NEW" /\ to = "IN_PROGRESS" THEN leader ELSE @]
    /\ closedAt' = [closedAt EXCEPT ![t] =
                      IF to \in Done THEN at ELSE IF status[t] \in Done THEN None ELSE @]
    /\ by \in Staff \union Clients \union {None}
    /\ status[t] = "NEW" /\ to = "IN_PROGRESS" => leader \in Staff
    /\ at \in Instants /\ at <= now
    /\ UNCHANGED now

SomeMove ==
    \E t \in Tickets, to \in Status, by \in Staff \union Clients \union {None},
       leader \in Staff \union Clients, at \in Instants : Move(t, to, by, leader, at)

Still == UNCHANGED <<status, assignee, closedAt, history>> /\ (now' = now \/ now' = now + 1)

LEMMA PersonEdges ==
    ASSUME NEW from, NEW to, NEW role, <<<<from, to>>, role>> \in PersonTransitions
    PROVE  <<from, to>> \in Edges
  BY DEF PersonTransitions, ReopenTransitions, StaffTransitions, StaffRoles, Edges

LEMMA TransitionMoves ==
    ASSUME IInv, NEW p \in Procs, NEW target \in Status, req[p].pc = "locked",
           req[p].op \in {"change", "reopen"},
           <<req[p].seen, target>> \in Edges,
           req[p].seen = "NEW" => req[p].user \in Staff,
           ApplyTransition(p, target)
    PROVE  SomeMove
  <1> DEFINE r == req[p]
             t == req[p].ticket
  <1>1. /\ t \in Tickets /\ r.user \in Staff \union Clients
        /\ r.stamp \in Instants /\ r.stamp <= now /\ TypeOK
    BY RequestTypes DEF IInv
  <1>2. r.seen = status[t]
    BY DEF IInv, SnapshotHolds, Snapshot
  <1>3. history' = [history EXCEPT ![t] =
                      Append(@, [from |-> status[t], to |-> target, by |-> r.user])]
    BY <1>2 DEF ApplyTransition, Record
  <1>4. AssigneeAfter(p, target) =
          IF status[t] = "NEW" /\ target = "IN_PROGRESS" THEN r.user ELSE assignee[t]
    BY <1>2 DEF AssigneeAfter
  <1>5. ClosedAtAfter(p, target) =
          IF target \in Done THEN r.stamp ELSE IF status[t] \in Done THEN None ELSE closedAt[t]
    BY <1>2, NoneIsNoStatus DEF ClosedAtAfter, Done, Edges, StaffTransitions, Status
  <1>6. assignee' = [assignee EXCEPT ![t] =
                       IF status[t] = "NEW" /\ target = "IN_PROGRESS" THEN r.user ELSE @]
    BY <1>1, <1>4 DEF ApplyTransition, TypeOK
  <1>7. closedAt' = [closedAt EXCEPT ![t] =
                       IF target \in Done THEN r.stamp ELSE IF status[t] \in Done THEN None ELSE @]
    BY <1>1, <1>5 DEF ApplyTransition, TypeOK
  <1>8. status' = [status EXCEPT ![t] = target] /\ UNCHANGED now
    BY DEF ApplyTransition, Commit
  <1>9. Move(t, target, r.user, r.user, r.stamp)
    BY <1>1, <1>2, <1>3, <1>6, <1>7, <1>8 DEF Move
  <1> QED BY <1>1, <1>9 DEF SomeMove

LEMMA CreateMoves ==
    ASSUME IInv, NEW p \in Procs, CommitCreate(p) PROVE SomeMove
  <1> DEFINE r == req[p]
             t == req[p].ticket
  <1>0. TypeOK
    BY DEF IInv
  <1>1. t \in Tickets /\ r.user \in Clients /\ status[t] = None /\ now \in Instants
    <2>1. req[p].op = "create" /\ req[p].pc = "started"
      BY DEF CommitCreate, At
    <2>2. now \in Instants
      BY <1>0 DEF TypeOK
    <2> QED BY <2>1, <2>2, RequestTypes
  <1>2. history' = [history EXCEPT ![t] =
                      Append(@, [from |-> status[t], to |-> "NEW", by |-> r.user])]
    BY <1>1 DEF CommitCreate, Record
  <1>3. /\ status' = [status EXCEPT ![t] = "NEW"]
        /\ UNCHANGED <<assignee, closedAt, now>>
    BY DEF CommitCreate, Commit
  <1>4. None \notin Done /\ None # "NEW"
    BY NoneIsNoStatus DEF Done, Status
  <1>5. Move(t, "NEW", r.user, r.user, now)
    BY <1>0, <1>1, <1>2, <1>3, <1>4, LifecycleAssumption DEF Move, Edges, Done, TypeOK, Instants
  <1> QED BY <1>1, <1>5 DEF SomeMove, Status

LEMMA ReplyMoves ==
    ASSUME IInv, NEW p \in Procs, CommitReply(p) PROVE SomeMove \/ Still
  <1> DEFINE r == req[p]
             t == req[p].ticket
             next == StatusAfterStaffMessage(req[p].seen)
  <1>0. TypeOK
    BY DEF IInv
  <1>1. /\ t \in Tickets /\ r.user \in Staff /\ now \in Instants
        /\ UNCHANGED <<closedAt, now>>
    <2>1. req[p].op = "reply" /\ req[p].pc = "locked"
      BY DEF CommitReply, At
    <2>2. now \in Instants
      BY <1>0 DEF TypeOK
    <2>3. UNCHANGED <<closedAt, now>>
      BY DEF CommitReply, Commit
    <2> QED BY <2>1, <2>2, <2>3, RequestTypes
  <1>2. r.seen = status[t]
    BY DEF IInv, SnapshotHolds, Snapshot, CommitReply, At
  <1>3. CASE next # None
    <2>1. status[t] = "NEW" /\ next = "IN_PROGRESS"
      BY <1>2, <1>3 DEF StatusAfterStaffMessage
    <2>2. /\ status' = [status EXCEPT ![t] = "IN_PROGRESS"]
          /\ assignee' = [assignee EXCEPT ![t] = r.user]
          /\ Record(t, r.seen, next, None)
      BY <1>3, <2>1 DEF CommitReply
    <2>3. history' = [history EXCEPT ![t] =
                        Append(@, [from |-> status[t], to |-> "IN_PROGRESS", by |-> None])]
      BY <1>2, <2>1, <2>2 DEF Record
    <2>4. Move(t, "IN_PROGRESS", None, r.user, now)
      BY <1>0, <1>1, <2>1, <2>2, <2>3, LifecycleAssumption
      DEF Move, Edges, StaffTransitions, Done, TypeOK, Instants
    <2> QED BY <1>1, <2>4 DEF SomeMove, Status
  <1>4. CASE next = None
    BY <1>1, <1>4 DEF CommitReply, Still
  <1> QED BY <1>3, <1>4

LEMMA MessageMoves ==
    ASSUME IInv, NEW p \in Procs, CommitMessage(p) PROVE SomeMove \/ Still
  <1> DEFINE r == req[p]
             t == req[p].ticket
             next == StatusAfterClientMessage(req[p].seen)
  <1>0. TypeOK
    BY DEF IInv
  <1>1. /\ t \in Tickets /\ r.user \in Clients /\ now \in Instants
        /\ UNCHANGED <<assignee, closedAt, now>>
    <2>1. req[p].op = "message" /\ req[p].pc = "locked"
      BY DEF CommitMessage, At
    <2>2. now \in Instants
      BY <1>0 DEF TypeOK
    <2>3. UNCHANGED <<assignee, closedAt, now>>
      BY DEF CommitMessage, Commit
    <2> QED BY <2>1, <2>2, <2>3, RequestTypes
  <1>2. r.seen = status[t]
    BY DEF IInv, SnapshotHolds, Snapshot, CommitMessage, At
  <1>3. CASE next # None
    <2>1. status[t] = "WAITING_CLIENT" /\ next = "IN_PROGRESS"
      BY <1>2, <1>3 DEF StatusAfterClientMessage
    <2>2. status' = [status EXCEPT ![t] = "IN_PROGRESS"] /\ Record(t, r.seen, next, None)
      BY <1>3, <2>1 DEF CommitMessage
    <2>3. history' = [history EXCEPT ![t] =
                        Append(@, [from |-> status[t], to |-> "IN_PROGRESS", by |-> None])]
      BY <1>2, <2>1, <2>2 DEF Record
    <2>4. Move(t, "IN_PROGRESS", None, r.user, now)
      BY <1>0, <1>1, <2>1, <2>2, <2>3, LifecycleAssumption DEF Move, Edges, Done, TypeOK, Instants
    <2> QED BY <1>1, <2>4 DEF SomeMove, Status
  <1>4. CASE next = None
    BY <1>1, <1>4 DEF CommitMessage, Still
  <1> QED BY <1>3, <1>4

LEMMA StepMoves ==
    ASSUME IInv, NEW p \in Procs, Step(p) PROVE SomeMove \/ Still
  <1>1. CASE CommitCreate(p)
    BY <1>1, CreateMoves
  <1>2. CASE CommitChange(p)
    <2>1. /\ req[p].pc = "locked" /\ req[p].op = "change" /\ ApplyTransition(p, req[p].arg)
          /\ req[p].arg \in Status /\ req[p].user \in Staff
      BY <1>2, ChangeSource DEF CommitChange, At
    <2>2. <<req[p].seen, req[p].arg>> \in Edges
      BY <2>1, PersonEdges DEF IInv, SnapshotHolds, Snapshot
    <2> QED BY <2>1, <2>2, TransitionMoves
  <1>3. CASE CommitReopen(p)
    <2>1. /\ req[p].pc = "locked" /\ req[p].op = "reopen" /\ ApplyTransition(p, "IN_PROGRESS")
          /\ req[p].seen = "CLOSED"
      BY <1>3, ChangeSource DEF CommitReopen, At
    <2>2. <<req[p].seen, "IN_PROGRESS">> \in Edges
      BY <2>1 DEF Edges
    <2> QED BY <2>1, <2>2, TransitionMoves DEF Status
  <1>4. CASE CommitReply(p)
    BY <1>4, ReplyMoves
  <1>5. CASE CommitMessage(p)
    BY <1>5, MessageMoves
  <1>6. CASE \/ LockForChange(p) \/ LockForReopen(p) \/ LockForReply(p) \/ LockForMessage(p)
             \/ CheckRate(p) \/ CheckReply(p) \/ CheckDuplicate(p) \/ CheckActivate(p)
             \/ ReopenThenActivate(p) \/ StampRead(p) \/ SendReply(p)
    <2>1. UNCHANGED <<tables, now>>
      BY <1>6 DEF LockForChange, LockForReopen, LockForReply, LockForMessage, Lock, CheckRate,
                  CheckReply, CheckDuplicate, CheckActivate, Check, ReopenThenActivate,
                  StampRead, SendReply
    <2> QED BY <2>1 DEF tables, Still
  <1>7. CASE NotifyClient(p) \/ CommitRate(p) \/ CommitActivate(p) \/ CommitRead(p)
    BY <1>7 DEF NotifyClient, CommitRate, CommitActivate, CommitRead, Commit, Still
  <1> QED BY <1>1, <1>2, <1>3, <1>4, <1>5, <1>6, <1>7 DEF Step

LEMMA NextMoves == IInv /\ [Next]_vars => SomeMove \/ Still
  <1> SUFFICES ASSUME IInv, [Next]_vars PROVE SomeMove \/ Still
    OBVIOUS
  <1>1. CASE \E p \in Procs : Step(p)
    BY <1>1, StepMoves
  <1>2. CASE \E p \in Procs : BeginByStaff(p) \/ BeginByClient(p) \/ BeginCreate(p)
    <2>1. UNCHANGED <<tables, now>>
      BY <1>2 DEF BeginByStaff, BeginByClient, BeginCreate, Begin
    <2> QED BY <2>1 DEF tables, Still
  <1>3. CASE Restart \/ Tick \/ UNCHANGED vars
    BY <1>3 DEF Restart, Tick, vars, tables, Still
  <1> QED BY <1>1, <1>2, <1>3 DEF Next

-----------------------------------------------------------------------------
\* What a move does to the ticket it is made on, and to all others.
LEMMA MoveEffect ==
    ASSUME IInv, NEW t \in Tickets, NEW to \in Status, NEW by, NEW leader, NEW at,
           Move(t, to, by, leader, at)
    PROVE  /\ status'[t] = to
           /\ history'[t] = Append(history[t], [from |-> status[t], to |-> to, by |-> by])
           /\ assignee'[t] =
                 IF status[t] = "NEW" /\ to = "IN_PROGRESS" THEN leader ELSE assignee[t]
           /\ closedAt'[t] =
                 IF to \in Done THEN at ELSE IF status[t] \in Done THEN None ELSE closedAt[t]
           /\ \A u \in Tickets \ {t} : UNCHANGED <<status[u], history[u], assignee[u], closedAt[u]>>
  <1>1. TypeOK
    BY DEF IInv
  <1>2. status'[t] = to /\ \A u \in Tickets \ {t} : UNCHANGED status[u]
    BY <1>1 DEF Move, TypeOK
  <1>3. /\ history'[t] = Append(history[t], [from |-> status[t], to |-> to, by |-> by])
        /\ \A u \in Tickets \ {t} : UNCHANGED history[u]
    BY <1>1 DEF Move, TypeOK
  <1>4. /\ assignee'[t] =
              IF status[t] = "NEW" /\ to = "IN_PROGRESS" THEN leader ELSE assignee[t]
        /\ \A u \in Tickets \ {t} : UNCHANGED assignee[u]
    BY <1>1 DEF Move, TypeOK
  <1>5. /\ closedAt'[t] =
              IF to \in Done THEN at ELSE IF status[t] \in Done THEN None ELSE closedAt[t]
        /\ \A u \in Tickets \ {t} : UNCHANGED closedAt[u]
    BY <1>1 DEF Move, TypeOK
  <1> QED BY <1>2, <1>3, <1>4, <1>5

\* The invariants below, one ticket at a time.
HistoryOf(t) ==
    /\ status[t] = LastStatus(t)
    /\ \A i \in DOMAIN history[t] :
          history[t][i].from = IF i = 1 THEN None ELSE history[t][i - 1].to

LEMMA HistoryInit == Init => HistoryTellsStatus
  BY DEF Init, HistoryTellsStatus, LastStatus

LEMMA HistoryOfStill ==
    ASSUME IInv, NEW t \in Tickets, HistoryOf(t), UNCHANGED <<status[t], history[t]>>
    PROVE  HistoryOf(t)'
  BY DEF HistoryOf, LastStatus

LEMMA HistoryOfMove ==
    ASSUME IInv, NEW t \in Tickets, NEW to \in Status, NEW by \in Staff \union Clients \union {None},
           HistoryOf(t), status'[t] = to,
           history'[t] = Append(history[t], [from |-> status[t], to |-> to, by |-> by])
    PROVE  HistoryOf(t)'
  <1> DEFINE h == history[t]
             c == [from |-> status[t], to |-> to, by |-> by]
  <1>1. h \in Seq(Changes) /\ c \in Changes
    BY DEF IInv, TypeOK, Changes
  <1>2. /\ Len(history'[t]) = Len(h) + 1 /\ Len(h) \in Nat
        /\ DOMAIN history'[t] = 1 .. Len(h) + 1
        /\ history'[t][Len(h) + 1] = c
        /\ \A i \in 1 .. Len(h) : history'[t][i] = h[i]
    BY <1>1
  <1>3. history'[t] # <<>> /\ c.to = to /\ c.from = status[t]
    BY <1>2
  <1>4. status'[t] = LastStatus(t)'
    BY <1>2, <1>3 DEF LastStatus
  <1>5. status[t] = IF Len(h) = 0 THEN None ELSE h[Len(h)].to
    BY <1>1 DEF HistoryOf, LastStatus
  <1>6. ASSUME NEW i \in 1 .. Len(h) + 1
        PROVE  history'[t][i].from = IF i = 1 THEN None ELSE history'[t][i - 1].to
    <2>1. CASE i = Len(h) + 1
      BY <1>2, <1>3, <1>5, <2>1
    <2>2. CASE i \in 1 .. Len(h)
      <3>1. h[i].from = IF i = 1 THEN None ELSE h[i - 1].to
        BY <1>1, <2>2 DEF HistoryOf
      <3> QED BY <1>2, <2>2, <3>1
    <2> QED BY <1>2, <2>1, <2>2
  <1> QED BY <1>2, <1>4, <1>6 DEF HistoryOf

LEMMA HistoryNext == IInv /\ HistoryTellsStatus /\ [Next]_vars => HistoryTellsStatus'
  <1> SUFFICES ASSUME IInv, HistoryTellsStatus, [Next]_vars, NEW u \in Tickets PROVE HistoryOf(u)'
    BY DEF HistoryTellsStatus, HistoryOf
  <1>1. HistoryOf(u)
    BY DEF HistoryTellsStatus, HistoryOf
  <1>2. CASE Still
    BY <1>1, <1>2, HistoryOfStill DEF Still
  <1>3. CASE SomeMove
    <2>1. PICK t \in Tickets, to \in Status, by \in Staff \union Clients \union {None},
               leader \in Staff \union Clients, at \in Instants : Move(t, to, by, leader, at)
      BY <1>3 DEF SomeMove
    <2>2. CASE u = t
      <3>1. /\ status'[u] = to
            /\ history'[u] = Append(history[u], [from |-> status[u], to |-> to, by |-> by])
        BY <2>1, <2>2, MoveEffect
      <3> QED BY <1>1, <3>1, HistoryOfMove
    <2>3. CASE u # t
      BY <1>1, <2>1, <2>3, MoveEffect, HistoryOfStill
    <2> QED BY <2>2, <2>3
  <1> QED BY <1>2, <1>3, NextMoves

\* The history of a ticket is a path of the status graph that ends in its status.
THEOREM HistoryAlwaysTells == Spec => []HistoryTellsStatus
  BY HistoryInit, HistoryNext, AlwaysIInv, PTL DEF Spec

-----------------------------------------------------------------------------
LEMMA ClosedAtInit == Init => ClosedAtTellsClosed
  BY NoneIsNoStatus DEF Init, ClosedAtTellsClosed, Closed, Status

LEMMA ClosedAtNext == IInv /\ ClosedAtTellsClosed /\ [Next]_vars => ClosedAtTellsClosed'
  <1> SUFFICES ASSUME IInv, ClosedAtTellsClosed, [Next]_vars, NEW u \in Tickets
               PROVE  /\ (closedAt'[u] # None) <=> (status'[u] \in Done)
                      /\ closedAt'[u] # None => closedAt'[u] <= now'
    BY DEF ClosedAtTellsClosed, Closed, Done
  <1>1. /\ (closedAt[u] # None) <=> (status[u] \in Done)
        /\ closedAt[u] # None => closedAt[u] <= now
        /\ closedAt[u] \in Instants \union {None} /\ now \in Instants
    BY DEF ClosedAtTellsClosed, Closed, Done, IInv, TypeOK
  <1>2. CASE Still
    BY <1>1, <1>2, LifecycleAssumption DEF Still, Instants
  <1>3. CASE SomeMove
    <2>1. PICK t \in Tickets, to \in Status, by \in Staff \union Clients \union {None},
               leader \in Staff \union Clients, at \in Instants : Move(t, to, by, leader, at)
      BY <1>3 DEF SomeMove
    <2>2. now' = now /\ at <= now /\ at # None
      BY <2>1, LifecycleAssumption DEF Move, Instants
    <2>3. CASE u = t
      <3>1. /\ status'[u] = to
            /\ closedAt'[u] =
                  IF to \in Done THEN at ELSE IF status[u] \in Done THEN None ELSE closedAt[u]
        BY <2>1, <2>3, MoveEffect
      <3> QED BY <1>1, <2>2, <3>1
    <2>4. CASE u # t
      BY <1>1, <2>1, <2>2, <2>4, MoveEffect
    <2> QED BY <2>3, <2>4
  <1> QED BY <1>2, <1>3, NextMoves

\* closed_at tells when a ticket was closed exactly while it is closed.
THEOREM ClosedAtAlwaysTells == Spec => []ClosedAtTellsClosed
  BY ClosedAtInit, ClosedAtNext, AlwaysIInv, PTL DEF Spec

-----------------------------------------------------------------------------
\* ReactedOnce of one ticket, strengthened: nobody reacted to a new ticket yet.
ReactionOf(t) ==
    /\ status[t] \in {None, "NEW"} => Reactions(t) = {}
    /\ \A i, j \in Reactions(t) : i = j
    /\ (assignee[t] # None) <=> \E i \in Reactions(t) : history[t][i].to = "IN_PROGRESS"

ReactionInv == \A t \in Tickets : ReactionOf(t)

LEMMA ReactionInit == Init => ReactionInv
  BY DEF Init, ReactionInv, ReactionOf, Reactions

LEMMA ReactionOfStill ==
    ASSUME IInv, NEW t \in Tickets, ReactionOf(t), UNCHANGED <<status[t], history[t], assignee[t]>>
    PROVE  ReactionOf(t)'
  BY DEF ReactionOf, Reactions

LEMMA EdgeFacts ==
    ASSUME NEW from, NEW to, <<from, to>> \in Edges
    PROVE  /\ to # None /\ to \in Status
           /\ to = "NEW" <=> from = None
           /\ from = "NEW" => to \in {"IN_PROGRESS", "REJECTED"}
  BY NoneIsNoStatus DEF Edges, StaffTransitions, Status

LEMMA ReactionOfMove ==
    ASSUME IInv, NEW t \in Tickets, NEW to \in Status, NEW by \in Staff \union Clients \union {None},
           NEW leader, ReactionOf(t), <<status[t], to>> \in Edges, status'[t] = to,
           status[t] = "NEW" /\ to = "IN_PROGRESS" => leader \in Staff,
           history'[t] = Append(history[t], [from |-> status[t], to |-> to, by |-> by]),
           assignee'[t] = IF status[t] = "NEW" /\ to = "IN_PROGRESS" THEN leader ELSE assignee[t]
    PROVE  ReactionOf(t)'
  <1> DEFINE h == history[t]
             c == [from |-> status[t], to |-> to, by |-> by]
             n == Len(history[t]) + 1
  <1>1. h \in Seq(Changes) /\ c \in Changes
    BY DEF IInv, TypeOK, Changes
  <1>2. /\ n \in Nat /\ n \notin DOMAIN h /\ DOMAIN history'[t] = DOMAIN h \union {n}
        /\ history'[t][n] = c
        /\ \A i \in DOMAIN h : history'[t][i] = h[i]
    BY <1>1
  <1>3. c.from = status[t] /\ c.to = to
    OBVIOUS
  <1> HIDE DEF c, n, h
  <1>4. CASE status[t] = "NEW"
    <2>1. Reactions(t) = {} /\ assignee[t] = None
      BY <1>4 DEF ReactionOf
    <2>2. Reactions(t)' = {n}
      BY <1>2, <1>3, <1>4, <2>1 DEF Reactions, h
    <2>3. to \in {"IN_PROGRESS", "REJECTED"} /\ status'[t] \notin {None, "NEW"}
      BY <1>4, EdgeFacts, NoneIsNoStatus DEF Status
    <2>4. (assignee'[t] # None) <=> (to = "IN_PROGRESS")
      BY <1>4, <2>1, LifecycleAssumption
    <2> QED BY <1>2, <1>3, <2>2, <2>3, <2>4 DEF ReactionOf
  <1>5. CASE status[t] # "NEW"
    <2>1. Reactions(t)' = Reactions(t)
      BY <1>2, <1>3, <1>5 DEF Reactions, h
    <2>2. assignee'[t] = assignee[t]
      BY <1>5
    <2>3. \A i \in Reactions(t) : history'[t][i] = history[t][i]
      BY <1>2 DEF Reactions, h
    <2>4. status'[t] \in {None, "NEW"} => status[t] = None
      BY EdgeFacts
    <2> QED BY <2>1, <2>2, <2>3, <2>4 DEF ReactionOf
  <1> QED BY <1>4, <1>5

LEMMA ReactionNext == IInv /\ ReactionInv /\ [Next]_vars => ReactionInv'
  <1> SUFFICES ASSUME IInv, ReactionInv, [Next]_vars, NEW u \in Tickets PROVE ReactionOf(u)'
    BY DEF ReactionInv
  <1>1. ReactionOf(u)
    BY DEF ReactionInv
  <1>2. CASE Still
    BY <1>1, <1>2, ReactionOfStill DEF Still
  <1>3. CASE SomeMove
    <2>1. PICK t \in Tickets, to \in Status, by \in Staff \union Clients \union {None},
               leader \in Staff \union Clients, at \in Instants : Move(t, to, by, leader, at)
      BY <1>3 DEF SomeMove
    <2>2. CASE u = t
      <3>1. /\ status'[u] = to
            /\ history'[u] = Append(history[u], [from |-> status[u], to |-> to, by |-> by])
            /\ assignee'[u] =
                  IF status[u] = "NEW" /\ to = "IN_PROGRESS" THEN leader ELSE assignee[u]
        BY <2>1, <2>2, MoveEffect
      <3>2. /\ <<status[u], to>> \in Edges
            /\ status[u] = "NEW" /\ to = "IN_PROGRESS" => leader \in Staff
        BY <2>1, <2>2 DEF Move
      <3> QED BY <1>1, <3>1, <3>2, ReactionOfMove
    <2>3. CASE u # t
      BY <1>1, <2>1, <2>3, MoveEffect, ReactionOfStill
    <2> QED BY <2>2, <2>3
  <1> QED BY <1>2, <1>3, NextMoves

LEMMA AlwaysReactionInv == Spec => [](IInv /\ ReactionInv)
  BY ReactionInit, ReactionNext, AlwaysIInv, PTL DEF Spec

\* At most one change leaves NEW, and it names the assignee if it takes the ticket.
THEOREM AlwaysReactedOnce == Spec => []ReactedOnce
  <1>1. ReactionInv => ReactedOnce
    BY DEF ReactionInv, ReactionOf, ReactedOnce
  <1> QED BY <1>1, AlwaysReactionInv, PTL

LEMMA AssigneeNext ==
    IInv /\ ReactionInv /\ [Next]_vars =>
        \A t \in Tickets : assignee[t] # None => assignee'[t] = assignee[t]
  <1> SUFFICES ASSUME IInv, ReactionInv, [Next]_vars, NEW u \in Tickets, assignee[u] # None
               PROVE  assignee'[u] = assignee[u]
    OBVIOUS
  <1>1. status[u] # "NEW"
    BY DEF ReactionInv, ReactionOf
  <1>2. CASE Still
    BY <1>2 DEF Still
  <1>3. CASE SomeMove
    <2>1. PICK t \in Tickets, to \in Status, by \in Staff \union Clients \union {None},
               leader \in Staff \union Clients, at \in Instants : Move(t, to, by, leader, at)
      BY <1>3 DEF SomeMove
    <2> QED BY <1>1, <2>1, MoveEffect
  <1> QED BY <1>2, <1>3, NextMoves

\* The first assignee of a ticket is its last.
THEOREM AssigneeAlwaysKept == Spec => AssigneeKept
  <1>1. IInv /\ ReactionInv /\ [Next]_vars =>
          [\A t \in Tickets : assignee[t] # None => assignee'[t] = assignee[t]]_vars
    BY AssigneeNext
  <1> QED BY <1>1, AlwaysReactionInv, PTL DEF Spec, AssigneeKept

-----------------------------------------------------------------------------
LEMMA MoveImplementsContract ==
    ASSUME IInv, NEW t \in Tickets, NEW to \in Status, NEW by, NEW leader, NEW at \in Instants,
           Move(t, to, by, leader, at)
    PROVE  Contract!Next
  <1>1. TypeOK /\ <<status[t], to>> \in Edges /\ status' = [status EXCEPT ![t] = to]
    BY DEF IInv, Move
  <1>2. ~(status[t] = "NEW" /\ to = "IN_PROGRESS") => UNCHANGED assignee
    BY <1>1 DEF Move, TypeOK
  <1>3. to \notin Done /\ status[t] \notin Done => UNCHANGED closedAt
    BY <1>1 DEF Move, TypeOK
  <1>4. None \notin Done /\ None # "NEW" /\ None # "IN_PROGRESS" /\ None # "WAITING_CLIENT"
    BY NoneIsNoStatus DEF Done, Status
  <1>5. CASE status[t] = None /\ to = "NEW"
    <2>1. Contract!Register(t)
      BY <1>1, <1>2, <1>3, <1>4, <1>5 DEF Contract!Register, Contract!Move, Done
    <2> QED BY <2>1 DEF Contract!Next
  <1>6. CASE status[t] = "NEW" /\ to = "IN_PROGRESS"
    <2>1. leader \in Staff /\ assignee' = [assignee EXCEPT ![t] = leader]
      BY <1>6 DEF Move
    <2>2. Contract!Take(t, leader)
      BY <1>1, <1>3, <1>6, <2>1 DEF Contract!Take, Contract!Move, Done
    <2> QED BY <2>1, <2>2 DEF Contract!Next
  <1>7. CASE status[t] = "IN_PROGRESS" /\ to = "WAITING_CLIENT"
    <2>1. Contract!AskClient(t)
      BY <1>1, <1>2, <1>3, <1>7 DEF Contract!AskClient, Contract!Move, Done
    <2> QED BY <2>1 DEF Contract!Next
  <1>8. CASE status[t] = "WAITING_CLIENT" /\ to = "IN_PROGRESS"
    <2>1. Contract!ClientAnswers(t)
      BY <1>1, <1>2, <1>3, <1>8 DEF Contract!ClientAnswers, Contract!Move, Done
    <2> QED BY <2>1 DEF Contract!Next
  <1>9. CASE to \in Done
    <2>1. /\ closedAt' = [closedAt EXCEPT ![t] = at]
          /\ \/ to = "CLOSED" /\ status[t] \in {"IN_PROGRESS", "WAITING_CLIENT"}
             \/ to = "REJECTED" /\ status[t] \in {"NEW", "IN_PROGRESS", "WAITING_CLIENT"}
      BY <1>1, <1>9 DEF Move, Edges, StaffTransitions, Done
    <2>2. Contract!Finish(t, at)
      BY <1>1, <1>2, <1>9, <2>1 DEF Contract!Finish, Contract!Move, Done
    <2> QED BY <2>2 DEF Contract!Next
  <1>10. CASE status[t] \in Done /\ to = "IN_PROGRESS"
    <2>1. closedAt' = [closedAt EXCEPT ![t] = None]
      BY <1>10 DEF Move, Done
    <2>2. Contract!Reopen(t)
      BY <1>1, <1>2, <1>10, <2>1 DEF Contract!Reopen, Contract!Move, Done
    <2> QED BY <2>2 DEF Contract!Next
  <1> QED BY <1>1, <1>5, <1>6, <1>7, <1>8, <1>9, <1>10 DEF Edges, StaffTransitions, Done

\* The service with all its concurrency implements the lifecycle it promises.
THEOREM LifecycleImplementsContract == Spec => ImplementsContract
  <1>1. Init => Contract!Init
    BY DEF Init, Contract!Init
  <1>2. IInv /\ [Next]_vars => [Contract!Next]_(Contract!vars)
    <2> SUFFICES ASSUME IInv, [Next]_vars PROVE [Contract!Next]_(Contract!vars)
      OBVIOUS
    <2>1. CASE Still
      BY <2>1 DEF Still, Contract!vars
    <2>2. CASE SomeMove
      BY <2>2, MoveImplementsContract DEF SomeMove
    <2> QED BY <2>1, <2>2, NextMoves
  <1> QED BY <1>1, <1>2, AlwaysIInv, PTL DEF Spec, ImplementsContract, Contract!Spec

-----------------------------------------------------------------------------
(***************************************************************************)
(* What the client of a ticket relies on: the reopening window, the ticket *)
(* the free text goes to, and the chat.  The bot handles one update at a   *)
(* time, so what it checked about a message or a ticket still holds when   *)
(* it writes; staff writes the columns of the chat under the row lock or   *)
(* waits for it.                                                           *)
(***************************************************************************)

\* The steps that write no table.
Reads(p) ==
    \/ LockForChange(p) \/ LockForReopen(p) \/ LockForReply(p) \/ LockForMessage(p)
    \/ CheckRate(p) \/ CheckReply(p) \/ CheckDuplicate(p) \/ CheckActivate(p)
    \/ ReopenThenActivate(p) \/ StampRead(p) \/ SendReply(p)

Begins(p) == BeginByStaff(p) \/ BeginByClient(p) \/ BeginCreate(p)

LEMMA ReadsWriteNothing ==
    ASSUME NEW p \in Procs, Reads(p) \/ Begins(p) PROVE UNCHANGED <<tables, now>>
  BY DEF Reads, Begins, LockForChange, LockForReopen, LockForReply, LockForMessage, Lock,
         CheckRate, CheckReply, CheckDuplicate, CheckActivate, Check, ReopenThenActivate,
         StampRead, SendReply, BeginByStaff, BeginByClient, BeginCreate, Begin

\* A step of one request leaves the others alone.
LEMMA OthersStay ==
    ASSUME TypeOK, NEW p \in Procs, Step(p) \/ Begins(p)
    PROVE  \A q \in Procs \ {p} : req'[q] = req[q]
  <1> USE DEF TypeOK
  <1>1. CASE \/ CommitCreate(p) \/ CommitRate(p) \/ CommitActivate(p) \/ CommitRead(p)
             \/ CommitReply(p) \/ CommitMessage(p) \/ NotifyClient(p)
    BY <1>1 DEF CommitCreate, CommitRate, CommitActivate, CommitRead, CommitReply,
                CommitMessage, NotifyClient, Finish
  <1>2. CASE CommitChange(p) \/ CommitReopen(p)
    BY <1>2 DEF CommitChange, CommitReopen, ApplyTransition, GoesOn
  <1>3. CASE LockForChange(p) \/ LockForReopen(p) \/ LockForReply(p) \/ LockForMessage(p)
    BY <1>3 DEF LockForChange, LockForReopen, LockForReply, LockForMessage, Lock, Finish
  <1>4. CASE CheckRate(p) \/ CheckReply(p) \/ CheckDuplicate(p) \/ CheckActivate(p)
    BY <1>4 DEF CheckRate, CheckReply, CheckDuplicate, CheckActivate, Check, Finish, GoesOn
  <1>5. CASE ReopenThenActivate(p) \/ StampRead(p) \/ SendReply(p)
    BY <1>5 DEF ReopenThenActivate, StampRead, SendReply, Finish, GoesOn
  <1>6. CASE Begins(p)
    BY <1>6 DEF Begins, BeginByStaff, BeginByClient, BeginCreate, Begin
  <1> QED BY <1>1, <1>2, <1>3, <1>4, <1>5, <1>6 DEF Step

LEMMA FinishIdles ==
    ASSUME TypeOK, NEW p \in Procs, Finish(p) PROVE req'[p].pc = "idle"
  BY DEF TypeOK, Finish, Idle

LEMMA GoesOnSame ==
    ASSUME TypeOK, NEW p \in Procs, NEW phase, GoesOn(p, phase)
    PROVE  /\ req'[p].pc = phase /\ req'[p].op = req[p].op
           /\ req'[p].ticket = req[p].ticket /\ req'[p].user = req[p].user
           /\ req'[p].arg = req[p].arg
  <1>1. req[p] \in Requests /\ req'[p] = [req[p] EXCEPT !.pc = phase]
    BY DEF TypeOK, GoesOn
  <1> QED BY <1>1 DEF Requests

LEMMA LockSame ==
    ASSUME TypeOK, NEW p \in Procs, NEW ok, Lock(p, ok)
    PROVE  \/ req'[p].pc = "idle"
           \/ /\ ok /\ req'[p].pc = "locked" /\ req'[p].op = req[p].op /\ req'[p].stamp = now
              /\ req'[p].ticket = req[p].ticket /\ req'[p].user = req[p].user
              /\ req'[p].arg = req[p].arg
  <1>1. CASE ok
    <2>1. /\ req[p] \in Requests
          /\ req'[p] = [req[p] EXCEPT !.pc = "locked", !.seen = status[req[p].ticket],
                                      !.stamp = now]
      BY <1>1 DEF TypeOK, Lock
    <2> QED BY <1>1, <2>1 DEF Requests
  <1>2. CASE ~ok
    BY <1>2, FinishIdles DEF Lock
  <1> QED BY <1>1, <1>2

LEMMA CheckSame ==
    ASSUME TypeOK, NEW p \in Procs, NEW ok, Check(p, ok)
    PROVE  \/ req'[p].pc = "idle"
           \/ /\ ok /\ req'[p].pc = "checked" /\ req'[p].op = req[p].op
              /\ req'[p].ticket = req[p].ticket /\ req'[p].user = req[p].user
              /\ req'[p].arg = req[p].arg
  BY FinishIdles, GoesOnSame DEF Check

\* Where a request of the bot stands tells which check it has just passed.
Passed(p) ==
    LET r == req[p]
        n == req'[p]
    IN  /\ n.op = "activate" /\ n.pc = "checked" =>
              /\ Owns(p) /\ r.op = "activate" /\ r.pc = "started"
              /\ n.ticket = r.ticket /\ n.user = r.user
        /\ n.op = "message" /\ n.pc = "checked" =>
              ~Stored(r.arg) /\ r.op = "message" /\ r.pc = "started" /\ n.arg = r.arg
        /\ n.op = "message" /\ n.pc = "locked" =>
              /\ r.op = "message" /\ r.pc = "checked" /\ n.arg = r.arg /\ n.ticket = r.ticket
              /\ n.stamp = now

LEMMA StepPasses ==
    ASSUME IInv, NEW p \in Procs, Step(p) \/ Begins(p) PROVE Passed(p)
  <1>0. TypeOK /\ req[p] \in Requests
    BY DEF IInv, TypeOK
  <1>1. CASE \/ CommitCreate(p) \/ CommitRate(p) \/ CommitActivate(p) \/ CommitRead(p)
             \/ CommitReply(p) \/ CommitMessage(p) \/ NotifyClient(p)
    <2>1. req'[p].pc = "idle"
      BY <1>0, <1>1, FinishIdles DEF CommitCreate, CommitRate, CommitActivate, CommitRead,
                                     CommitReply, CommitMessage, NotifyClient
    <2> QED BY <2>1 DEF Passed
  <1>2. CASE CommitChange(p) \/ CommitReopen(p)
    <2>1. req'[p].pc = "committed"
      BY <1>0, <1>2, GoesOnSame DEF CommitChange, CommitReopen, ApplyTransition
    <2> QED BY <2>1 DEF Passed
  <1>3. CASE LockForChange(p) \/ LockForReopen(p) \/ LockForReply(p)
    <2>1. req[p].op # "message" /\ (req'[p].pc = "idle" \/ req'[p].op = req[p].op)
          /\ req'[p].pc \in {"idle", "locked"}
      BY <1>0, <1>3, LockSame DEF LockForChange, LockForReopen, LockForReply, At
    <2> QED BY <2>1 DEF Passed
  <1>4. CASE LockForMessage(p)
    <2>1. req[p].op = "message" /\ req[p].pc = "checked"
      BY <1>4 DEF LockForMessage, At
    <2>2. \/ req'[p].pc = "idle"
          \/ /\ req'[p].pc = "locked" /\ req'[p].op = req[p].op /\ req'[p].stamp = now
             /\ req'[p].ticket = req[p].ticket /\ req'[p].arg = req[p].arg
      BY <1>0, <1>4, LockSame DEF LockForMessage
    <2> QED BY <2>1, <2>2 DEF Passed
  <1>5. CASE CheckRate(p) \/ CheckReply(p)
    <2>1. req[p].op \in {"rate", "reply"} /\ (req'[p].pc = "idle" \/ req'[p].op = req[p].op)
      BY <1>0, <1>5, CheckSame DEF CheckRate, CheckReply, At
    <2> QED BY <2>1 DEF Passed
  <1>6. CASE CheckDuplicate(p)
    <2>1. req[p].op = "message" /\ req[p].pc = "started"
      BY <1>6 DEF CheckDuplicate, At
    <2>2. \/ req'[p].pc = "idle"
          \/ ~Stored(req[p].arg) /\ req'[p].pc = "checked" /\ req'[p].op = req[p].op
             /\ req'[p].arg = req[p].arg
      BY <1>0, <1>6, CheckSame DEF CheckDuplicate
    <2> QED BY <2>1, <2>2 DEF Passed
  <1>7. CASE CheckActivate(p)
    <2>1. req[p].op = "activate" /\ req[p].pc = "started"
      BY <1>7 DEF CheckActivate, At
    <2>2. \/ req'[p].pc = "idle"
          \/ /\ Owns(p) /\ req'[p].pc = "checked" /\ req'[p].op = req[p].op
             /\ req'[p].ticket = req[p].ticket /\ req'[p].user = req[p].user
      BY <1>0, <1>7, CheckSame DEF CheckActivate
    <2> QED BY <2>1, <2>2 DEF Passed
  <1>8. CASE ReopenThenActivate(p)
    <2>1. req'[p] = [req[p] EXCEPT !.op = "activate", !.pc = "started"]
      BY <1>0, <1>8 DEF ReopenThenActivate, TypeOK
    <2>2. req'[p].pc = "started"
      BY <1>0, <2>1 DEF Requests
    <2> QED BY <2>2 DEF Passed
  <1>9. CASE StampRead(p)
    <2>1. req[p].op = "read" /\ req'[p] = [req[p] EXCEPT !.pc = "checked", !.stamp = now]
      BY <1>0, <1>9 DEF StampRead, TypeOK, At
    <2>2. req'[p].op = "read"
      BY <1>0, <2>1 DEF Requests
    <2> QED BY <2>2 DEF Passed
  <1>10. CASE SendReply(p)
    <2>1. req'[p].pc \in {"idle", "sent"}
      BY <1>0, <1>10, GoesOnSame, FinishIdles DEF SendReply
    <2> QED BY <2>1 DEF Passed
  <1>11. CASE Begins(p)
    <2>1. PICK op, user, role, t, arg : Begin(p, op, user, role, t, arg)
      BY <1>11 DEF Begins, BeginByStaff, BeginByClient, BeginCreate
    <2>2. req'[p] = [Idle EXCEPT !.pc = "started", !.op = op, !.user = user, !.role = role,
                                 !.ticket = t, !.arg = arg]
      BY <1>0, <2>1 DEF Begin, TypeOK
    <2>3. req'[p].pc = "started"
      BY <2>2 DEF Idle
    <2> QED BY <2>3 DEF Passed
  <1> QED BY <1>1, <1>2, <1>3, <1>4, <1>5, <1>6, <1>7, <1>8, <1>9, <1>10, <1>11 DEF Step

\* What changes hands between two states, and by whom.
LEMMA NextCases ==
    ASSUME IInv, [Next]_vars
    PROVE  \/ \E p \in Procs : Step(p) \/ Begins(p)
           \/ Restart
           \/ Tick \/ UNCHANGED vars
  BY DEF Next, Begins

-----------------------------------------------------------------------------
\* The reopening window.

\* The row of a locked request changes by its own commit only.
LEMMA HolderWrites ==
    ASSUME IInv, NEW p \in Procs, NEW q \in Procs, req[p].pc = "locked", req[p].op = "reopen",
           Step(q) \/ Begins(q), status'[req[p].ticket] # status[req[p].ticket]
    PROVE  q = p /\ CommitReopen(p)
  <1> DEFINE t == req[p].ticket
  <1>1. TypeOK /\ t \in Tickets /\ rowLock[t] = p /\ status[t] = "CLOSED" /\ p = Bot
    BY RequestTypes DEF IInv, SnapshotHolds, Snapshot, CanClientReopen
  <1>2. p # None /\ p \notin ApiSlots
    BY <1>1, LifecycleAssumption
  <1>3. ~ (Reads(q) \/ Begins(q))
    BY ReadsWriteNothing DEF tables
  <1>4. ~ (NotifyClient(q) \/ CommitRate(q) \/ CommitActivate(q) \/ CommitRead(q))
    BY DEF NotifyClient, CommitRate, CommitActivate, CommitRead
  <1>5. CASE CommitCreate(q)
    <2>1. status[req[q].ticket] = None /\ req[q].ticket # t
      BY <1>1, <1>5, RequestTypes, NoneIsNoStatus DEF CommitCreate, At, Status
    <2> QED BY <1>1, <1>5, <2>1 DEF CommitCreate, TypeOK
  <1>6. CASE CommitReply(q) \/ CommitMessage(q) \/ CommitChange(q) \/ CommitReopen(q)
    <2>1. req[q].pc = "locked" /\ req[q].ticket \in Tickets /\ rowLock[req[q].ticket] = q
      BY <1>6, RequestTypes DEF IInv, SnapshotHolds, Snapshot, CommitReply, CommitMessage,
                                CommitChange, CommitReopen, At
    <2>2. req[q].ticket = t
      BY <1>1, <1>6, <2>1 DEF TypeOK, CommitReply, CommitMessage, CommitChange, CommitReopen,
                              ApplyTransition
    <2>3. q = p
      BY <1>1, <2>1, <2>2
    <2> QED BY <1>6, <2>3 DEF CommitReply, CommitMessage, CommitChange, At
  <1> QED BY <1>3, <1>4, <1>5, <1>6 DEF Step, Reads

(***************************************************************************)
(* The client's reopening is decided under the row lock, so at its commit  *)
(* the ticket is still closed by the same closing, whose window it was in. *)
(***************************************************************************)
THEOREM ClientAlwaysReopensInTime == Spec => ClientReopensInTime
  <1>1. ASSUME IInv, [Next]_vars, NEW t \in Tickets, NEW p \in Procs,
               At(p, "reopen", "locked"), req[p].ticket = t, status'[t] # status[t]
        PROVE  /\ status[t] = "CLOSED" /\ status'[t] = "IN_PROGRESS"
               /\ req[p].stamp - closedAt[t] <= ReopenWindow
    <2>1. /\ req[p].pc = "locked" /\ req[p].op = "reopen" /\ TypeOK
          /\ CanClientReopen(status[t], closedAt[t], req[p].stamp)
      BY <1>1 DEF IInv, SnapshotHolds, Snapshot, At
    <2>2. PICK q \in Procs : Step(q) \/ Begins(q)
      BY <1>1, NextCases DEF Restart, Tick, vars, tables
    <2>3. CommitReopen(p)
      BY <1>1, <2>1, <2>2, HolderWrites
    <2>4. status'[t] = "IN_PROGRESS"
      BY <1>1, <2>1, <2>3 DEF CommitReopen, ApplyTransition, TypeOK
    <2> QED BY <2>1, <2>4 DEF CanClientReopen
  <1>2. IInv /\ [Next]_vars =>
          [\A t \in Tickets, p \in Procs :
              At(p, "reopen", "locked") /\ req[p].ticket = t /\ status'[t] # status[t] =>
                 /\ status[t] = "CLOSED" /\ status'[t] = "IN_PROGRESS"
                 /\ req[p].stamp - closedAt[t] <= ReopenWindow]_vars
    BY <1>1
  <1> QED BY <1>2, AlwaysIInv, PTL DEF Spec, ClientReopensInTime

-----------------------------------------------------------------------------
\* The ticket that takes the client's free text.

OwnInv ==
    /\ \A t \in Tickets : status[t] = None => client[t] = None
    /\ ActiveTicketIsOwn
    /\ \A p \in Procs : At(p, "activate", "checked") => Owns(p)

LEMMA OwnInit == Init => OwnInv
  BY DEF Init, OwnInv, ActiveTicketIsOwn, At, Idle

\* No step takes a row back or gives it to another client.
LEMMA RowsStay ==
    ASSUME IInv, NEW p \in Procs, Step(p) \/ Begins(p)
    PROVE  /\ \A t \in Tickets : status'[t] = None => status[t] = None
           /\ \A t \in Tickets : status[t] # None => client'[t] = client[t]
  <1>0. TypeOK
    BY DEF IInv
  <1>1. CASE CommitCreate(p)
    <2>1. status[req[p].ticket] = None /\ "NEW" # None
      BY <1>1, RequestTypes, NoneIsNoStatus DEF CommitCreate, At, Status
    <2> QED BY <1>0, <1>1, <2>1 DEF CommitCreate, TypeOK
  <1>2. CASE CommitChange(p) \/ CommitReopen(p)
    <2>1. PICK s \in Status : ApplyTransition(p, s)
      BY <1>2, ChangeSource DEF CommitChange, CommitReopen, At, Status
    <2> QED BY <1>0, <2>1, NoneIsNoStatus DEF ApplyTransition, TypeOK
  <1>3. CASE CommitReply(p)
    BY <1>0, <1>3 DEF CommitReply, TypeOK
  <1>4. CASE CommitMessage(p)
    BY <1>0, <1>4 DEF CommitMessage, TypeOK
  <1>5. CASE NotifyClient(p) \/ CommitRate(p) \/ CommitActivate(p) \/ CommitRead(p)
    BY <1>5 DEF NotifyClient, CommitRate, CommitActivate, CommitRead
  <1>6. CASE Reads(p) \/ Begins(p)
    BY <1>6, ReadsWriteNothing DEF tables
  <1> QED BY <1>1, <1>2, <1>3, <1>4, <1>5, <1>6 DEF Step, Reads

\* Only a ticket of the client becomes the client's active one.
LEMMA ActiveMoves ==
    ASSUME IInv, OwnInv, NEW p \in Procs, Step(p) \/ Begins(p)
    PROVE  /\ \A t \in Tickets : status'[t] = None => client'[t] = None
           /\ \A c \in Clients : activeTicket'[c] # activeTicket[c] =>
                 activeTicket'[c] \in Tickets /\ client'[activeTicket'[c]] = c
  <1>0. TypeOK
    BY DEF IInv
  <1>1. CASE CommitCreate(p)
    <2>1. req[p].ticket \in Tickets /\ req[p].user \in Clients
      BY <1>1, RequestTypes DEF CommitCreate, At
    <2>2. client'[req[p].ticket] = req[p].user /\ status'[req[p].ticket] = "NEW"
      BY <1>0, <1>1, <2>1 DEF CommitCreate, TypeOK
    <2>3. \A t \in Tickets : t # req[p].ticket => client'[t] = client[t] /\ status'[t] = status[t]
      BY <1>0, <1>1, <2>1 DEF CommitCreate, TypeOK
    <2>4. activeTicket' = [activeTicket EXCEPT ![req[p].user] = req[p].ticket]
      BY <1>1 DEF CommitCreate
    <2>5. \A c \in Clients : activeTicket'[c] # activeTicket[c] =>
             c = req[p].user /\ activeTicket'[c] = req[p].ticket
      BY <1>0, <2>1, <2>4 DEF TypeOK
    <2>6. "NEW" # None
      BY NoneIsNoStatus DEF Status
    <2> QED BY <2>1, <2>2, <2>3, <2>5, <2>6 DEF OwnInv
  <1>2. CASE CommitMessage(p) \/ CommitActivate(p)
    <2>1. /\ req[p].ticket \in Tickets /\ req[p].user \in Clients
          /\ client[req[p].ticket] = req[p].user /\ UNCHANGED client
      BY <1>2, RequestTypes DEF CommitMessage, CommitActivate, At, OwnInv, Owns, IInv,
                                SnapshotHolds, Snapshot
    <2>2. activeTicket' = [activeTicket EXCEPT ![req[p].user] = req[p].ticket]
      BY <1>2 DEF CommitMessage, CommitActivate
    <2>3. \A c \in Clients : activeTicket'[c] # activeTicket[c] =>
             c = req[p].user /\ activeTicket'[c] = req[p].ticket
      BY <1>0, <2>1, <2>2 DEF TypeOK
    <2> QED BY <2>1, <2>3, RowsStay DEF OwnInv
  <1>3. CASE Reads(p) \/ Begins(p)
    BY <1>3, ReadsWriteNothing DEF tables, OwnInv
  <1>4. CASE \/ CommitChange(p) \/ CommitReopen(p) \/ CommitReply(p) \/ NotifyClient(p)
             \/ CommitRate(p) \/ CommitRead(p)
    <2>1. UNCHANGED <<client, activeTicket>>
      BY <1>4 DEF CommitChange, CommitReopen, ApplyTransition, CommitReply, NotifyClient,
                  CommitRate, CommitRead
    <2> QED BY <2>1, RowsStay DEF OwnInv
  <1> QED BY <1>1, <1>2, <1>3, <1>4 DEF Step, Reads

LEMMA OwnStep ==
    ASSUME IInv, OwnInv, NEW p \in Procs, Step(p) \/ Begins(p)
    PROVE  OwnInv'
  <1>0. TypeOK
    BY DEF IInv
  <1>1. ASSUME NEW c \in Clients, activeTicket'[c] # None
        PROVE  client'[activeTicket'[c]] = c
    <2>1. CASE activeTicket'[c] # activeTicket[c]
      BY <2>1, ActiveMoves
    <2>2. CASE activeTicket'[c] = activeTicket[c]
      <3>1. /\ activeTicket[c] \in Tickets /\ client[activeTicket[c]] = c /\ c # None
        BY <1>0, <1>1, <2>2, LifecycleAssumption DEF OwnInv, ActiveTicketIsOwn, TypeOK
      <3>2. status[activeTicket[c]] # None
        BY <3>1 DEF OwnInv
      <3> QED BY <2>2, <3>1, <3>2, RowsStay
    <2> QED BY <2>1, <2>2
  <1>2. ASSUME NEW q \in Procs, req'[q].op = "activate", req'[q].pc = "checked"
        PROVE  client'[req'[q].ticket] = req'[q].user
    <2>1. /\ req[q].ticket \in Tickets /\ status[req[q].ticket] # None
          /\ client[req[q].ticket] = req[q].user
          /\ req'[q].ticket = req[q].ticket /\ req'[q].user = req[q].user
      <3>1. CASE q = p
        <4>1. /\ Owns(q) /\ req[q].op = "activate" /\ req[q].pc = "started"
              /\ req'[q].ticket = req[q].ticket /\ req'[q].user = req[q].user
          BY <1>2, <3>1, StepPasses DEF Passed
        <4> QED BY <4>1, RequestTypes DEF Owns
      <3>2. CASE q # p
        <4>1. req'[q] = req[q]
          BY <1>0, <3>2, OthersStay
        <4>2. Owns(q)
          BY <1>2, <4>1 DEF OwnInv, At
        <4> QED BY <1>2, <4>1, <4>2, RequestTypes DEF Owns
      <3> QED BY <3>1, <3>2
    <2> QED BY <2>1, RowsStay
  <1> QED BY <1>1, <1>2, ActiveMoves DEF OwnInv, ActiveTicketIsOwn, At, Owns

LEMMA OwnNext == IInv /\ OwnInv /\ [Next]_vars => OwnInv'
  <1> SUFFICES ASSUME IInv, OwnInv, [Next]_vars PROVE OwnInv'
    OBVIOUS
  <1>1. CASE \E p \in Procs : Step(p) \/ Begins(p)
    BY <1>1, OwnStep
  <1>2. CASE Restart
    BY <1>2 DEF Restart, tables, OwnInv, ActiveTicketIsOwn, At, Idle
  <1>3. CASE Tick \/ UNCHANGED vars
    <2>1. UNCHANGED <<status, client, activeTicket, req>>
      BY <1>3 DEF Tick, vars, tables
    <2> QED BY <2>1 DEF OwnInv, ActiveTicketIsOwn, At, Owns
  <1> QED BY <1>1, <1>2, <1>3, NextCases

(***************************************************************************)
(* What a client writes without choosing a ticket never lands in another   *)
(* client's: the owner is checked when a ticket is chosen, and a ticket    *)
(* has one owner from its registration on.                                 *)
(***************************************************************************)
THEOREM ActiveTicketAlwaysOwn == Spec => []ActiveTicketIsOwn
  <1>1. OwnInv => ActiveTicketIsOwn
    BY DEF OwnInv
  <1> QED BY <1>1, OwnInit, OwnNext, InitIInv, NextKeeps, PTL DEF Spec

-----------------------------------------------------------------------------
\* A message of Max is stored once.

\* The message the bot is about to store is not stored yet.
NewToTheChat ==
    \A p \in Procs : req[p].op = "message" /\ req[p].pc \in {"checked", "locked"} =>
        ~Stored(req[p].arg)

OnceInv == MessageStoredOnce /\ NewToTheChat

LEMMA OnceInit == Init => OnceInv
  BY DEF Init, OnceInv, MessageStoredOnce, NewToTheChat, Idle

\* How the messages grow: by one of the client, or by one without an id of Max.
LEMMA MessagesGrow ==
    ASSUME IInv, NEW p \in Procs, Step(p) \/ Begins(p)
    PROVE  \/ UNCHANGED messages
           \/ CommitMessage(p)
           \/ \E t \in Tickets, sender \in {"STAFF", "SYSTEM"} : Post(t, sender, None)
  <1>1. CASE NotifyClient(p)
    <2>1. req[p].ticket \in Tickets
      BY <1>1, RequestTypes DEF NotifyClient, At
    <2> QED BY <1>1, <2>1 DEF NotifyClient
  <1>2. CASE CommitReply(p)
    <2>1. req[p].ticket \in Tickets
      BY <1>2, RequestTypes DEF CommitReply, At
    <2> QED BY <1>2, <2>1 DEF CommitReply
  <1>3. CASE Reads(p) \/ Begins(p)
    BY <1>3, ReadsWriteNothing DEF tables
  <1>4. CASE \/ CommitCreate(p) \/ CommitChange(p) \/ CommitReopen(p) \/ CommitRate(p)
             \/ CommitActivate(p) \/ CommitRead(p)
    BY <1>4 DEF CommitCreate, CommitChange, CommitReopen, ApplyTransition, CommitRate,
                CommitActivate, CommitRead
  <1> QED BY <1>1, <1>2, <1>3, <1>4 DEF Step, Reads

\* A message is put at the end of its ticket's.
LEMMA PostAppends ==
    ASSUME TypeOK, NEW t \in Tickets, NEW sender \in {"CLIENT", "STAFF", "SYSTEM"},
           NEW mid \in Messages \union {None}, Post(t, sender, mid)
    PROVE  LET n == Len(messages[t]) + 1 IN
           /\ n \in Nat /\ n \notin DOMAIN messages[t] /\ n = Len(messages'[t])
           /\ DOMAIN messages'[t] = DOMAIN messages[t] \union {n}
           /\ messages'[t][n].mid = mid /\ messages'[t][n].sender = sender
           /\ \A i \in DOMAIN messages[t] : messages'[t][i] = messages[t][i]
           /\ \A u \in Tickets \ {t} : messages'[u] = messages[u]
  <1> DEFINE c == [sender |-> sender, mid |-> mid]
  <1>1. messages[t] \in Seq(ChatMessages) /\ c \in ChatMessages
    BY DEF TypeOK, ChatMessages
  <1>2. /\ messages'[t] = Append(messages[t], c)
        /\ \A u \in Tickets \ {t} : messages'[u] = messages[u]
    BY DEF Post, TypeOK
  <1>3. c.mid = mid /\ c.sender = sender
    OBVIOUS
  <1> HIDE DEF c
  <1> QED BY <1>1, <1>2, <1>3

\* The message at a place of a ticket.
MessageAt(t, i, mid) == t \in Tickets /\ i \in DOMAIN messages[t] /\ messages[t][i].mid = mid

LEMMA PostPlaces ==
    ASSUME TypeOK, NEW t \in Tickets, NEW sender \in {"CLIENT", "STAFF", "SYSTEM"},
           NEW mid \in Messages \union {None}, Post(t, sender, mid),
           NEW u, NEW i, NEW m, MessageAt(u, i, m)'
    PROVE  \/ MessageAt(u, i, m)
           \/ u = t /\ i = Len(messages[t]) + 1 /\ m = mid
  BY PostAppends DEF MessageAt

LEMMA PostKeepsOnce ==
    ASSUME TypeOK, MessageStoredOnce, NEW t \in Tickets,
           NEW sender \in {"CLIENT", "STAFF", "SYSTEM"}, NEW mid \in Messages \union {None},
           Post(t, sender, mid), mid # None => ~Stored(mid)
    PROVE  MessageStoredOnce'
  <1> SUFFICES ASSUME NEW m, m # None, NEW u, NEW v, NEW i, NEW j,
                      MessageAt(u, i, m)', MessageAt(v, j, m)'
               PROVE  u = v /\ i = j
    BY DEF MessageStoredOnce, MessageAt
  <1>1. MessageAt(u, i, m) \/ (u = t /\ i = Len(messages[t]) + 1 /\ m = mid)
    BY PostPlaces
  <1>2. MessageAt(v, j, m) \/ (v = t /\ j = Len(messages[t]) + 1 /\ m = mid)
    BY PostPlaces
  <1>3. m = mid => ~MessageAt(u, i, m) /\ ~MessageAt(v, j, m)
    BY DEF Stored, MessageAt
  <1>4. MessageAt(u, i, m) /\ MessageAt(v, j, m) => u = v /\ i = j
    BY DEF MessageStoredOnce, MessageAt
  <1> QED BY <1>1, <1>2, <1>3, <1>4

LEMMA OnceStep ==
    ASSUME IInv, OnceInv, NEW p \in Procs, Step(p) \/ Begins(p)
    PROVE  OnceInv'
  <1>0. TypeOK /\ None \notin Messages
    BY LifecycleAssumption DEF IInv
  <1>1. CASE CommitMessage(p)
    <2>1. /\ req[p].ticket \in Tickets /\ req[p].arg \in Messages /\ p = Bot
          /\ ~Stored(req[p].arg) /\ Post(req[p].ticket, "CLIENT", req[p].arg)
      BY <1>1, RequestTypes DEF CommitMessage, At, OnceInv, NewToTheChat
    <2>2. MessageStoredOnce'
      BY <1>0, <2>1, PostKeepsOnce DEF OnceInv
    <2>3. req'[p].pc = "idle"
      BY <1>0, <1>1, FinishIdles DEF CommitMessage
    <2>4. ASSUME NEW q \in Procs, req'[q].op = "message", req'[q].pc \in {"checked", "locked"}
          PROVE  FALSE
      <3>1. q # p
        BY <2>3, <2>4
      <3>2. req'[q] = req[q]
        BY <1>0, <3>1, OthersStay
      <3> QED BY <2>1, <2>4, <3>1, <3>2, RequestTypes
    <2> QED BY <2>2, <2>4 DEF OnceInv, NewToTheChat
  <1>2. ASSUME ~CommitMessage(p) PROVE OnceInv'
    <2>1. MessageStoredOnce' /\ \A m \in Messages : Stored(m)' => Stored(m)
      <3>1. CASE UNCHANGED messages
        BY <3>1 DEF OnceInv, MessageStoredOnce, Stored
      <3>2. ASSUME NEW t \in Tickets, NEW sender \in {"STAFF", "SYSTEM"}, Post(t, sender, None)
            PROVE  MessageStoredOnce' /\ \A m \in Messages : Stored(m)' => Stored(m)
        <4>1. MessageStoredOnce'
          BY <1>0, <3>2, PostKeepsOnce DEF OnceInv
        <4>2. ASSUME NEW m \in Messages, Stored(m)' PROVE Stored(m)
          <5>1. PICK u \in Tickets : \E j \in DOMAIN messages'[u] : messages'[u][j].mid = m
            BY <4>2 DEF Stored
          <5>2. PICK i \in DOMAIN messages'[u] : messages'[u][i].mid = m
            BY <5>1
          <5>3. MessageAt(u, i, m)'
            BY <5>2 DEF MessageAt
          <5>4. MessageAt(u, i, m)
            BY <1>0, <3>2, <5>3, PostPlaces
          <5> QED BY <5>4 DEF MessageAt, Stored
        <4> QED BY <4>1, <4>2
      <3> QED BY <1>2, <3>1, <3>2, MessagesGrow
    <2>2. ASSUME NEW q \in Procs, req'[q].op = "message", req'[q].pc \in {"checked", "locked"}
          PROVE  ~Stored(req[q].arg)'
      <3>1. req'[q].arg = req[q].arg /\ req[q].arg \in Messages /\ ~Stored(req[q].arg)
        <4>1. CASE q = p
          <5>1. req'[q].arg = req[q].arg /\ req[q].op = "message"
                /\ ((req[q].pc = "started" /\ ~Stored(req[q].arg)) \/ req[q].pc = "checked")
            BY <2>2, <4>1, StepPasses DEF Passed
          <5> QED BY <5>1, RequestTypes DEF OnceInv, NewToTheChat
        <4>2. CASE q # p
          <5>1. req'[q] = req[q]
            BY <1>0, <4>2, OthersStay
          <5> QED BY <2>2, <5>1, RequestTypes DEF OnceInv, NewToTheChat
        <4> QED BY <4>1, <4>2
      <3>2. PICK m \in Messages : m = req[q].arg
        BY <3>1
      <3>3. ~Stored(m)'
        BY <2>1, <3>1, <3>2
      <3> QED BY <3>1, <3>2, <3>3 DEF Stored
    <2> QED BY <2>1, <2>2 DEF OnceInv, NewToTheChat
  <1> QED BY <1>1, <1>2

LEMMA OnceNext == IInv /\ OnceInv /\ [Next]_vars => OnceInv'
  <1> SUFFICES ASSUME IInv, OnceInv, [Next]_vars PROVE OnceInv'
    OBVIOUS
  <1>1. CASE \E p \in Procs : Step(p) \/ Begins(p)
    BY <1>1, OnceStep
  <1>2. CASE Restart
    BY <1>2 DEF Restart, tables, OnceInv, MessageStoredOnce, NewToTheChat, Idle
  <1>3. CASE Tick \/ UNCHANGED vars
    <2>1. UNCHANGED <<messages, req>>
      BY <1>3 DEF Tick, vars, tables
    <2> QED BY <2>1 DEF OnceInv, MessageStoredOnce, NewToTheChat, Stored
  <1> QED BY <1>1, <1>2, <1>3, NextCases

(***************************************************************************)
(* A message that Max delivers again is not stored again, although it is   *)
(* looked up without a lock: between the look-up and the INSERT no other   *)
(* update of the bot runs, and the panel stores messages without an id.    *)
(***************************************************************************)
THEOREM MessageAlwaysStoredOnce == Spec => []MessageStoredOnce
  <1>1. OnceInv => MessageStoredOnce
    BY DEF OnceInv
  <1> QED BY <1>1, OnceInit, OnceNext, InitIInv, NextKeeps, PTL DEF Spec

-----------------------------------------------------------------------------
\* A message of the client is heard.

\* The chat was never marked read at a later time than this.
ReadBy(t, time) == staffSeenAt[t] = None \/ staffSeenAt[t] <= time

SeenInv ==
    /\ \A t \in Tickets : ReadBy(t, now)
    /\ \A p \in Procs : At(p, "message", "locked") => ReadBy(req[p].ticket, req[p].stamp)

LEMMA SeenInit == Init => SeenInv
  BY DEF Init, SeenInv, ReadBy, At, Idle

\* A mark is no later than now, and waits for whoever holds the row.
LEMMA MarksWait ==
    ASSUME IInv, NEW p \in Procs, Step(p) \/ Begins(p), NEW t \in Tickets,
           staffSeenAt'[t] # staffSeenAt[t]
    PROVE  /\ staffSeenAt'[t] \in Instants /\ staffSeenAt'[t] <= now
           /\ \A q \in Procs \ {p} : rowLock[t] # q
  <1>0. TypeOK /\ None \notin Procs
    BY LifecycleAssumption DEF IInv
  <1>1. CASE CommitReply(p)
    <2>1. /\ req[p].ticket \in Tickets /\ req[p].stamp \in Instants /\ req[p].stamp <= now
          /\ rowLock[req[p].ticket] = p
      BY <1>1, RequestTypes DEF CommitReply, At, IInv, SnapshotHolds, Snapshot
    <2>2. staffSeenAt' = [staffSeenAt EXCEPT ![req[p].ticket] = req[p].stamp]
      BY <1>1 DEF CommitReply
    <2> QED BY <1>0, <2>1, <2>2 DEF TypeOK
  <1>2. CASE CommitRead(p)
    <2>1. /\ req[p].ticket \in Tickets /\ req[p].stamp \in Instants /\ req[p].stamp <= now
          /\ rowLock[req[p].ticket] = None
      BY <1>2, RequestTypes DEF CommitRead, At, RowFree
    <2>2. staffSeenAt' = [staffSeenAt EXCEPT ![req[p].ticket] = req[p].stamp]
      BY <1>2 DEF CommitRead
    <2> QED BY <1>0, <2>1, <2>2 DEF TypeOK
  <1>3. CASE Reads(p) \/ Begins(p)
    BY <1>3, ReadsWriteNothing DEF tables
  <1>4. CASE \/ CommitCreate(p) \/ CommitChange(p) \/ CommitReopen(p) \/ CommitRate(p)
             \/ CommitActivate(p) \/ CommitMessage(p) \/ NotifyClient(p)
    BY <1>4 DEF CommitCreate, CommitChange, CommitReopen, ApplyTransition, CommitRate,
                CommitActivate, CommitMessage, NotifyClient
  <1> QED BY <1>1, <1>2, <1>3, <1>4 DEF Step, Reads

LEMMA ClockStands ==
    ASSUME NEW p \in Procs, Step(p) \/ Begins(p) PROVE now' = now
  <1>1. CASE Reads(p) \/ Begins(p)
    BY <1>1, ReadsWriteNothing
  <1>2. CASE ~ (Reads(p) \/ Begins(p))
    BY <1>2 DEF Step, Reads, CommitCreate, CommitChange, CommitReopen, ApplyTransition,
                CommitRate, CommitActivate, CommitMessage, CommitReply, CommitRead,
                NotifyClient, Commit
  <1> QED BY <1>1, <1>2

LEMMA SeenStep ==
    ASSUME IInv, SeenInv, NEW p \in Procs, Step(p) \/ Begins(p)
    PROVE  SeenInv'
  <1>0. TypeOK /\ TypeOK' /\ now' = now
    BY NextKeeps, ClockStands DEF IInv, Next, Begins
  <1>1. ASSUME NEW t \in Tickets PROVE ReadBy(t, now)'
    BY <1>0, MarksWait DEF SeenInv, ReadBy
  <1>2. ASSUME NEW q \in Procs, req'[q].op = "message", req'[q].pc = "locked"
        PROVE  ReadBy(req[q].ticket, req[q].stamp)'
    <2>1. CASE q = p
      <3>1. req[q].op = "message" /\ req[q].pc = "checked" /\ req'[q].ticket = req[q].ticket
            /\ req'[q].stamp = now
        BY <1>2, <2>1, StepPasses DEF Passed
      <3>2. req'[q].ticket \in Tickets
        BY <3>1, RequestTypes
      <3> QED BY <1>0, <1>1, <3>1, <3>2 DEF ReadBy
    <2>2. CASE q # p
      <3>1. req'[q] = req[q]
        BY <1>0, <2>2, OthersStay
      <3>2. req[q].ticket \in Tickets /\ rowLock[req[q].ticket] = q
        BY <1>2, <3>1, RequestTypes DEF IInv, SnapshotHolds, Snapshot
      <3>3. staffSeenAt'[req[q].ticket] = staffSeenAt[req[q].ticket]
        BY <2>2, <3>2, MarksWait
      <3> QED BY <1>2, <3>1, <3>3 DEF SeenInv, ReadBy, At
    <2> QED BY <2>1, <2>2
  <1> QED BY <1>1, <1>2 DEF SeenInv, At

LEMMA SeenNext == IInv /\ SeenInv /\ [Next]_vars => SeenInv'
  <1> SUFFICES ASSUME IInv, SeenInv, [Next]_vars PROVE SeenInv'
    OBVIOUS
  <1>1. CASE \E p \in Procs : Step(p) \/ Begins(p)
    BY <1>1, SeenStep
  <1>2. CASE Restart
    BY <1>2 DEF Restart, tables, SeenInv, ReadBy, At, Idle
  <1>3. CASE Tick \/ UNCHANGED vars
    <2>1. UNCHANGED <<staffSeenAt, req>> /\ (now' = now \/ now' = now + 1)
      BY <1>3 DEF Tick, vars, tables
    <2>2. now \in Nat /\ \A t \in Tickets : staffSeenAt[t] \in Nat \union {None}
      BY LifecycleAssumption DEF IInv, TypeOK, Instants
    <2>3. \A t \in Tickets : ReadBy(t, now)'
      BY <2>1, <2>2 DEF SeenInv, ReadBy
    <2> QED BY <2>1, <2>3 DEF SeenInv, ReadBy, At
  <1> QED BY <1>1, <1>2, <1>3, NextCases

\* Only the commit of the client's message posts one as the client.
LEMMA ClientPosts ==
    ASSUME IInv, [Next]_vars, NEW t \in Tickets, Posted(t, "CLIENT")
    PROVE  \E p \in Procs : CommitMessage(p) /\ req[p].ticket = t
  <1>0. TypeOK
    BY DEF IInv
  <1>1. PICK p \in Procs : Step(p) \/ Begins(p)
    BY NextCases DEF Posted, Restart, Tick, vars, tables
  <1>2. ASSUME NEW u \in Tickets, NEW sender \in {"STAFF", "SYSTEM"}, Post(u, sender, None)
        PROVE  FALSE
    <2>1. /\ messages'[u][Len(messages'[u])].sender = sender
          /\ t # u => messages'[t] = messages[t]
      BY <1>0, <1>2, PostAppends
    <2> QED BY <2>1 DEF Posted
  <1>3. CommitMessage(p)
    BY <1>1, <1>2, MessagesGrow DEF Posted
  <1>4. req[p].ticket = t
    BY <1>0, <1>3 DEF CommitMessage, Post, Posted, TypeOK
  <1> QED BY <1>3, <1>4

\* The client's message finds the row as its request locked it, and the marks older.
LEMMA ClientWrites ==
    ASSUME IInv, SeenInv, [Next]_vars, NEW t \in Tickets, Posted(t, "CLIENT")
    PROVE  \E p \in Procs :
             /\ CommitMessage(p) /\ req[p].ticket = t /\ req[p].seen = status[t]
             /\ IsOpen(status[t])
             /\ req[p].stamp \in Nat /\ ReadBy(t, req[p].stamp)
             /\ lastClientMessageAt'[t] = req[p].stamp /\ staffSeenAt'[t] = staffSeenAt[t]
  <1>0. TypeOK
    BY DEF IInv
  <1>1. PICK p \in Procs : CommitMessage(p) /\ req[p].ticket = t
    BY ClientPosts
  <1>2. /\ IsOpen(status[t]) /\ req[p].seen = status[t]
        /\ req[p].stamp \in Instants /\ ReadBy(t, req[p].stamp)
    BY <1>1, RequestTypes DEF CommitMessage, At, IInv, SnapshotHolds, Snapshot, SeenInv
  <1>3. lastClientMessageAt'[t] = req[p].stamp /\ staffSeenAt'[t] = staffSeenAt[t]
    BY <1>0, <1>1 DEF CommitMessage, TypeOK
  <1> QED BY <1>1, <1>2, <1>3, LifecycleAssumption DEF Instants

(***************************************************************************)
(* What the client writes reaches an open ticket: no colleague closes it   *)
(* between the check and the INSERT.                                       *)
(***************************************************************************)
THEOREM ClientAlwaysHeard == Spec => ClientIsHeard
  <1>1. ASSUME IInv, SeenInv, [Next]_vars, NEW t \in Tickets, Posted(t, "CLIENT")
        PROVE  IsOpen(status[t]) /\ status'[t] \in {"NEW", "IN_PROGRESS"}
    <2>0. TypeOK
      BY <1>1 DEF IInv
    <2>1. PICK p \in Procs : /\ CommitMessage(p) /\ req[p].ticket = t /\ req[p].seen = status[t]
                             /\ IsOpen(status[t])
      BY <1>1, ClientWrites
    <2> DEFINE next == StatusAfterClientMessage(req[p].seen)
    <2>2. CASE status[t] = "WAITING_CLIENT"
      <3>1. next = "IN_PROGRESS" /\ next # None
        BY <2>1, <2>2, NoneIsNoStatus DEF StatusAfterClientMessage, Status
      <3>2. status' = [status EXCEPT ![t] = "IN_PROGRESS"]
        BY <2>1, <3>1 DEF CommitMessage
      <3> QED BY <2>0, <2>1, <3>2 DEF TypeOK
    <2>3. CASE status[t] # "WAITING_CLIENT"
      <3>1. status' = status
        BY <2>1, <2>3 DEF CommitMessage, StatusAfterClientMessage
      <3> QED BY <2>1, <2>3, <3>1 DEF IsOpen, OpenStatuses
    <2> QED BY <2>2, <2>3
  <1>2. IInv /\ SeenInv /\ [Next]_vars =>
          [\A t \in Tickets : Posted(t, "CLIENT") =>
              IsOpen(status[t]) /\ status'[t] \in {"NEW", "IN_PROGRESS"}]_vars
    BY <1>1
  <1> QED BY <1>2, SeenInit, SeenNext, InitIInv, NextKeeps, PTL DEF Spec, ClientIsHeard

(***************************************************************************)
(* No mark that was taken before the message hides it, in whatever order   *)
(* the two are stored: the message takes its time under the row's lock,    *)
(* when every mark that is stored is in the past.                          *)
(***************************************************************************)
THEOREM MessageAlwaysUnread == Spec => MessageIsUnread
  <1>1. ASSUME IInv, SeenInv, [Next]_vars, NEW t \in Tickets, Posted(t, "CLIENT")
        PROVE  \/ IsUnread(lastClientMessageAt'[t], staffSeenAt'[t])
               \/ staffSeenAt'[t] = lastClientMessageAt'[t]
    <2>1. PICK p \in Procs :
             /\ req[p].stamp \in Nat /\ ReadBy(t, req[p].stamp)
             /\ lastClientMessageAt'[t] = req[p].stamp /\ staffSeenAt'[t] = staffSeenAt[t]
      BY <1>1, ClientWrites
    <2>2. req[p].stamp # None /\ staffSeenAt[t] \in Nat \union {None}
      BY <1>1, <2>1, LifecycleAssumption DEF IInv, TypeOK, Instants
    <2> QED BY <2>1, <2>2 DEF ReadBy, IsUnread
  <1>2. IInv /\ SeenInv /\ [Next]_vars =>
          [\A t \in Tickets : Posted(t, "CLIENT") =>
              \/ IsUnread(lastClientMessageAt'[t], staffSeenAt'[t])
              \/ staffSeenAt'[t] = lastClientMessageAt'[t]]_vars
    BY <1>1
  <1> QED BY <1>2, SeenInit, SeenNext, InitIInv, NextKeeps, PTL DEF Spec, MessageIsUnread

=============================================================================
