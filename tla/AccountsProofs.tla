----------------------------- MODULE AccountsProofs -----------------------------
(***************************************************************************)
(* Theorems of Accounts, for any users, updates and sockets.  An update    *)
(* changes a row long after it was allowed, so the invariant carries what  *)
(* was checked with the request (Allowed), and a socket enters the         *)
(* registry long after its handshake, so it also speaks of the handshakes  *)
(* (HandshakesAreCut).                                                     *)
(***************************************************************************)
EXTENDS Accounts, TLAPS

-----------------------------------------------------------------------------
\* Types.

Authed(r) == r.pc \in {"authed", "loaded"} => r.admin \in Users /\ r.target \in Users

Allowed == \A a \in Slots : Authed(req[a]) /\ (req[a].pc = "loaded" => MayUpdate(req[a]))

LEMMA IdleIsRequest == Idle \in Requests
BY DEF Idle, Requests

\* What an update makes of the columns has their types.
LEMMA NewTyped ==
    ASSUME NEW r \in Requests
    PROVE  /\ NewRole(r) \in Roles \union {None}
           /\ NewBlocked(r) \in BOOLEAN \union {None}
BY DEF NewRole, NewBlocked, Requests

\* A column that changes was asked for.
LEMMA ChangeWasAsked ==
    ASSUME NEW r \in Requests
    PROVE  /\ NewRole(r) # r.seenRole => NewRole(r) = r.role /\ r.role \in Roles
           /\ NewBlocked(r) # r.seenBlocked =>
                 NewBlocked(r) = r.blocked /\ r.blocked \in BOOLEAN
BY DEF NewRole, NewBlocked, Requests

LEMMA LoadedTyped ==
    ASSUME NEW r \in Requests, NEW sr \in Roles \union {None}, NEW sb \in BOOLEAN \union {None}
    PROVE  [r EXCEPT !.pc = "loaded", !.seenRole = sr, !.seenBlocked = sb] \in Requests
BY DEF Requests

LEMMA TypeInit == Init => TypeOK /\ Allowed
BY IdleIsRequest DEF Init, TypeOK, Allowed, Authed, Idle, Closed

Inv0 == TypeOK /\ Allowed

LEMMA TypeStep == Inv0 /\ [Next]_vars => Inv0'
<1> SUFFICES ASSUME Inv0, [Next]_vars PROVE Inv0'
  OBVIOUS
<1> USE DEF Inv0, TypeOK
<1>1. ASSUME NEW u \in Users, Sync(u) PROVE Inv0'
  <2>1. role' \in [Users -> Roles \union {None}]
    BY <1>1 DEF Sync, Roles
  <2>2. UNCHANGED <<blocked, config, req, socket, late>>
    BY <1>1 DEF Sync
  <2>3. QED BY <2>1, <2>2 DEF Allowed, MayUpdate
<1>2. ASSUME NEW a \in Slots, Authorize(a) PROVE Inv0'
  <2>1. PICK admin, target \in Users, r \in Roles \union {None}, b \in BOOLEAN \union {None} :
          /\ IsAdmin(admin) /\ role[target] # None
          /\ req' = [req EXCEPT ![a] =
                       [Idle EXCEPT !.pc = "authed", !.admin = admin, !.target = target,
                                    !.role = r, !.blocked = b]]
    BY <1>2, Zenon DEF Authorize
  <2>2. req'[a] \in Requests /\ req'[a].pc = "authed" /\ Authed(req'[a])
    BY <2>1, IdleIsRequest DEF Idle, Requests, Authed
  <2>3. req' \in [Slots -> Requests] /\ \A c \in Slots : c # a => req'[c] = req[c]
    BY <2>1, <2>2
  <2>4. Allowed'
    BY <1>2, <2>2, <2>3 DEF Authorize, Allowed, MayUpdate
  <2>5. QED BY <1>2, <2>3, <2>4 DEF Authorize, users
<1>3. ASSUME NEW a \in Slots, Load(a) PROVE Inv0'
  <2>1. CASE MayUpdate(req[a])
    <3> DEFINE own == req[a].target = req[a].admin
               sr == IF own THEN "ADMIN" ELSE role[req[a].target]
               sb == IF own THEN FALSE ELSE blocked[req[a].target]
    <3>0. sr \in Roles \union {None} /\ sb \in BOOLEAN \union {None}
      BY <1>3 DEF Load, Allowed, Authed, Roles
    <3>1. req' = [req EXCEPT ![a].pc = "loaded", ![a].seenRole = sr, ![a].seenBlocked = sb]
      BY <1>3, <2>1 DEF Load
    <3> HIDE DEF own, sr, sb
    <3>2. /\ req'[a] \in Requests
          /\ req'[a].admin = req[a].admin /\ req'[a].target = req[a].target
          /\ req'[a].role = req[a].role /\ req'[a].blocked = req[a].blocked
      <4>1. req'[a] = [req[a] EXCEPT !.pc = "loaded", !.seenRole = sr, !.seenBlocked = sb]
        BY <3>1
      <4>2. req[a] \in Requests
        OBVIOUS
      <4>3. [req[a] EXCEPT !.pc = "loaded", !.seenRole = sr, !.seenBlocked = sb] \in Requests
        BY <3>0, <4>2, LoadedTyped
      <4>4. req'[a] \in Requests
        BY <4>1, <4>3
      <4>5. req'[a].admin = req[a].admin /\ req'[a].target = req[a].target
        BY <4>1, <4>2 DEF Requests
      <4>6. req'[a].role = req[a].role /\ req'[a].blocked = req[a].blocked
        BY <4>1, <4>2 DEF Requests
      <4>7. QED BY <4>4, <4>5, <4>6
    <3>3. Authed(req'[a]) /\ MayUpdate(req'[a])
      BY <1>3, <2>1, <3>2 DEF Load, Allowed, Authed, MayUpdate, LosesAdmin
    <3>4. req' \in [Slots -> Requests] /\ \A c \in Slots : c # a => req'[c] = req[c]
      BY <3>1, <3>2
    <3>5. Allowed'
      BY <1>3, <3>3, <3>4 DEF Load, Allowed, MayUpdate
    <3>6. QED BY <1>3, <3>4, <3>5 DEF Load, users
  <2>2. CASE ~MayUpdate(req[a])
    <3>1. req' = [req EXCEPT ![a] = Idle]
      BY <1>3, <2>2 DEF Load
    <3>2. req' \in [Slots -> Requests] /\ Allowed'
      BY <1>3, <3>1, IdleIsRequest DEF Load, Allowed, Authed, MayUpdate, Idle
    <3>3. QED BY <1>3, <3>2 DEF Load, users
  <2>3. QED BY <2>1, <2>2
<1>4. ASSUME NEW a \in Slots, Commit(a) PROVE Inv0'
  <2>1. req[a] \in Requests
    OBVIOUS
  <2>2. role' \in [Users -> Roles \union {None}] /\ blocked' \in [Users -> BOOLEAN]
    BY <1>4, <2>1, NewTyped, ChangeWasAsked DEF Commit, Write
  <2>3. late' \subseteq {k \in Sockets : socket'[k] # Closed}
    BY <1>4 DEF Commit, Write, Handshakes, Closed
  <2>4. req' = [req EXCEPT ![a] =
                  [Idle EXCEPT !.pc = "committed", !.target = req[a].target,
                               !.role = NewRole(req[a]), !.blocked = NewBlocked(req[a])]]
    BY <1>4 DEF Commit
  <2>5. req'[a] \in Requests /\ req'[a].pc = "committed"
    BY <2>1, <2>4, NewTyped DEF Idle, Requests
  <2>6. req' \in [Slots -> Requests] /\ \A c \in Slots : c # a => req'[c] = req[c]
    BY <2>4, <2>5
  <2>7. Allowed'
    BY <1>4, <2>5, <2>6 DEF Commit, Allowed, Authed, MayUpdate
  <2>8. QED BY <1>4, <2>2, <2>3, <2>6, <2>7 DEF Commit
<1>5. ASSUME NEW a \in Slots, Answer(a) PROVE Inv0'
  <2>1. req' \in [Slots -> Requests] /\ Allowed'
    BY <1>5, IdleIsRequest DEF Answer, Allowed, Authed, MayUpdate, Idle
  <2>2. /\ socket' \in [Sockets -> {Closed} \union [pc : {"authed", "open"}, user : Users]]
        /\ late' \subseteq {k \in Sockets : socket'[k] # Closed}
    BY <1>5 DEF Answer, CloseUser
  <2>3. QED BY <1>5, <2>1, <2>2 DEF Answer, users
<1>6. ASSUME NEW k \in Sockets, Handshake(k) \/ Connect(k) \/ Disconnect(k) PROVE Inv0'
  <2>1. socket[k] # Closed => socket[k].user \in Users
    OBVIOUS
  <2>2. /\ socket' \in [Sockets -> {Closed} \union [pc : {"authed", "open"}, user : Users]]
        /\ late' \subseteq {c \in Sockets : socket'[c] # Closed}
    BY <1>6, <2>1 DEF Handshake, Connect, Disconnect, Closed
  <2>3. UNCHANGED <<role, blocked, config, req>>
    BY <1>6 DEF Handshake, Connect, Disconnect, users
  <2>4. QED BY <2>2, <2>3 DEF Allowed, MayUpdate
<1>7. ASSUME Restart PROVE Inv0'
  BY <1>7, IdleIsRequest DEF Restart, users, Allowed, Authed, MayUpdate, Idle
<1>8. ASSUME UNCHANGED vars PROVE Inv0'
  BY <1>8 DEF vars, users, Allowed, MayUpdate
<1>9. QED BY <1>1, <1>2, <1>3, <1>4, <1>5, <1>6, <1>7, <1>8 DEF Next

-----------------------------------------------------------------------------
(***************************************************************************)
(* The columns of every user, the updates and the sockets have the types   *)
(* of their tables, whatever is updated while somebody signs in.           *)
(***************************************************************************)
THEOREM AccountsTypeCorrect == Spec => []TypeOK
<1>1. Init => Inv0
  BY TypeInit DEF Inv0
<1>2. Inv0 => TypeOK
  BY DEF Inv0
<1>3. QED BY <1>1, <1>2, TypeStep, PTL DEF Spec

-----------------------------------------------------------------------------
\* The rows of users: only a sign-in and the commit of an update write them.

LEMMA RowsMove ==
    ASSUME Inv0, [Next]_vars
    PROVE  \/ UNCHANGED users
           \/ \E u \in Users : Sync(u)
           \/ \E a \in Slots : Commit(a)
<1>1. ASSUME NEW a \in Slots, Authorize(a) \/ Load(a) \/ Answer(a) PROVE UNCHANGED users
  BY <1>1 DEF Authorize, Load, Answer
<1>2. ASSUME NEW k \in Sockets, Handshake(k) \/ Connect(k) \/ Disconnect(k)
      PROVE  UNCHANGED users
  BY <1>2 DEF Handshake, Connect, Disconnect
<1>3. Restart \/ UNCHANGED vars => UNCHANGED users
  BY DEF Restart, vars
<1>4. QED BY <1>1, <1>2, <1>3 DEF Next

\* A sign-in takes no role away that opens the panel.
LEMMA SyncOnlyRaises ==
    ASSUME Inv0, NEW u \in Users, Sync(u), NEW v \in Users
    PROVE  (IsAdmin(v) => IsAdmin(v)') /\ (IsStaff(v) => IsStaff(v)')
<1>1. blocked'[v] = blocked[v]
  BY DEF Sync
<1>2. role[v] \in {"ADMIN", "MANAGER"} => role'[v] \in {role[v], "ADMIN"}
  BY AccountsAssumption DEF Inv0, TypeOK, Sync, Roles
<1>3. QED BY <1>1, <1>2 DEF IsAdmin, IsStaff

\* The commit of an update changes its target's row only.
LEMMA CommitLeavesOthers ==
    ASSUME Inv0, NEW a \in Slots, Commit(a), NEW v \in Users, v # req[a].target
    PROVE  role'[v] = role[v] /\ blocked'[v] = blocked[v]
BY DEF Inv0, TypeOK, Commit, Write

\* What the commit of an update does to the row of its target.
LEMMA CommitWrites ==
    ASSUME Inv0, NEW a \in Slots, Commit(a)
    PROVE  LET r == req[a] IN
           /\ r.target \in Users
           /\ role'[r.target] # role[r.target] =>
                 role'[r.target] = NewRole(r) /\ NewRole(r) = r.role /\ r.role \in Roles
           /\ blocked'[r.target] # blocked[r.target] =>
                 blocked'[r.target] = NewBlocked(r) /\ NewBlocked(r) = r.blocked
<1>1. req[a] \in Requests /\ req[a].target \in Users
  BY DEF Inv0, TypeOK, Allowed, Authed, Commit
<1>2. role'[req[a].target] = IF NewRole(req[a]) # req[a].seenRole
                             THEN NewRole(req[a]) ELSE role[req[a].target]
  BY <1>1 DEF Inv0, TypeOK, Commit, Write
<1>3. blocked'[req[a].target] = IF NewBlocked(req[a]) # req[a].seenBlocked
                                THEN NewBlocked(req[a]) ELSE blocked[req[a].target]
  BY <1>1 DEF Inv0, TypeOK, Commit, Write
<1>4. QED BY <1>1, <1>2, <1>3, ChangeWasAsked

\* An update that may not cost the rights of an administrator costs none.
LEMMA CommitKeepsAdmin ==
    ASSUME Inv0, NEW a \in Slots, Commit(a), ~LosesAdmin(req[a]), NEW v \in Users, IsAdmin(v)
    PROVE  IsAdmin(v)'
<1>1. CASE v # req[a].target
  BY <1>1, CommitLeavesOthers DEF IsAdmin
<1>2. CASE v = req[a].target
  <2>1. role'[v] = "ADMIN"
    <3>1. req[a].role \in {None, "ADMIN"} /\ role[v] = "ADMIN"
      BY DEF LosesAdmin, IsAdmin
    <3>2. role'[v] # role[v] => role'[v] = req[a].role /\ req[a].role \in Roles
      BY <1>2, CommitWrites
    <3>3. QED BY <3>1, <3>2, AccountsAssumption
  <2>2. blocked'[v] \in BOOLEAN /\ blocked[v] = FALSE
    BY TypeStep DEF Inv0, TypeOK, IsAdmin, Next
  <2>3. blocked'[v] = FALSE
    BY <1>2, <2>2, CommitWrites DEF LosesAdmin
  <2>4. QED BY <2>1, <2>3 DEF IsAdmin
<1>3. QED BY <1>1, <1>2

(***************************************************************************)
(* An administrator of the configuration keeps the rights through every    *)
(* step that keeps the name in the configuration: what was checked of an   *)
(* update when it was loaded still holds when it commits, since only a     *)
(* restart changes the configuration and it forgets the updates.           *)
(***************************************************************************)
THEOREM ConfiguredAdminAlwaysStays == Spec => ConfiguredAdminStays
<1>1. ASSUME Inv0, [Next]_vars, NEW u \in config \intersect config', IsAdmin(u)
      PROVE  IsAdmin(u)'
  <2>1. u \in Users
    BY <1>1 DEF Inv0, TypeOK
  <2>2. CASE UNCHANGED users
    BY <1>1, <2>2 DEF users, IsAdmin
  <2>3. CASE \E v \in Users : Sync(v)
    BY <1>1, <2>1, <2>3, SyncOnlyRaises
  <2>4. ASSUME NEW a \in Slots, Commit(a) PROVE IsAdmin(u)'
    <3>1. CASE u # req[a].target
      BY <1>1, <2>1, <2>4, <3>1, CommitLeavesOthers DEF IsAdmin
    <3>2. CASE u = req[a].target
      <4>1. ~LosesAdmin(req[a])
        BY <1>1, <2>4, <3>2 DEF Inv0, Allowed, MayUpdate, Commit
      <4>2. QED BY <1>1, <2>1, <2>4, <4>1, CommitKeepsAdmin
    <3>3. QED BY <3>1, <3>2
  <2>5. QED BY <1>1, <2>2, <2>3, <2>4, RowsMove
<1>2. Inv0 /\ [Next]_vars =>
        [\A u \in config \intersect config' : IsAdmin(u) => IsAdmin(u)']_vars
  BY <1>1
<1>3. Init => Inv0
  BY TypeInit DEF Inv0
<1>4. QED BY <1>2, <1>3, TypeStep, PTL DEF Spec, ConfiguredAdminStays

(***************************************************************************)
(* The system loses its last administrator only by an update whose author  *)
(* is no administrator any more at its commit: as long as the author still *)
(* is one, nobody's rights but those of another are taken.                 *)
(***************************************************************************)
THEOREM LastAdminAlwaysByRace == Spec => LastAdminGoesByRaceOnly
<1>1. ASSUME Inv0, [Next]_vars, SomeAdmin, ~SomeAdmin'
      PROVE  \E a \in Slots : req[a].pc = "loaded" /\ ~IsAdmin(req[a].admin)
  <2>1. PICK v \in Users : IsAdmin(v)
    BY <1>1 DEF SomeAdmin
  <2>2. \A w \in Users : ~IsAdmin(w)'
    BY <1>1 DEF SomeAdmin
  <2>3. ~UNCHANGED users
    BY <2>1, <2>2 DEF users, IsAdmin
  <2>4. ~ \E u \in Users : Sync(u)
    BY <1>1, <2>1, <2>2, SyncOnlyRaises
  <2>5. PICK a \in Slots : Commit(a)
    BY <1>1, <2>3, <2>4, RowsMove
  <2>6. LosesAdmin(req[a])
    BY <1>1, <2>1, <2>2, <2>5, CommitKeepsAdmin
  <2>7. /\ req[a].pc = "loaded" /\ req[a].admin \in Users
        /\ req[a].target # req[a].admin
    BY <1>1, <2>5, <2>6 DEF Inv0, Allowed, Authed, MayUpdate, Commit
  <2>8. ~IsAdmin(req[a].admin)
    <3>1. PICK w \in Users : w = req[a].admin
      BY <2>7
    <3>2. role'[w] = role[w] /\ blocked'[w] = blocked[w] /\ ~IsAdmin(w)'
      BY <1>1, <2>2, <2>5, <2>7, <3>1, CommitLeavesOthers
    <3>3. ~IsAdmin(w)
      BY <3>2 DEF IsAdmin
    <3>4. QED BY <3>1, <3>3
  <2>9. QED BY <2>7, <2>8
<1>2. Inv0 /\ [Next]_vars =>
        [SomeAdmin /\ ~SomeAdmin' =>
            \E a \in Slots : req[a].pc = "loaded" /\ ~IsAdmin(req[a].admin)]_vars
  BY <1>1
<1>3. Init => Inv0
  BY TypeInit DEF Inv0
<1>4. QED BY <1>2, <1>3, TypeStep, PTL DEF Spec, LastAdminGoesByRaceOnly

-----------------------------------------------------------------------------
\* The sockets of users who lost the panel.

\* A handshake whose user lost the panel after its check is late.
HandshakesAreCut ==
    \A k \in Sockets : socket[k].pc = "authed" /\ ~IsStaff(socket[k].user) => k \in late

IInv == Inv0 /\ HandshakesAreCut /\ RemovedAreCut

Covered(k) ==
    \/ k \in late
    \/ \E a \in Slots :
          req[a].pc = "committed" /\ req[a].target = socket[k].user /\ Removes(req[a])

\* Both invariants follow when the sockets and their users are left alone, none stops
\* being late, and no request is over.
LEMMA CutStays ==
    ASSUME Inv0, HandshakesAreCut, RemovedAreCut, UNCHANGED socket, late \subseteq late',
           \A u \in Users : IsStaff(u) => IsStaff(u)',
           \A a \in Slots : req[a].pc = "committed" => req'[a] = req[a]
    PROVE  HandshakesAreCut' /\ RemovedAreCut'
<1>1. \A k \in Sockets : socket[k].pc \in {"authed", "open"} => socket[k].user \in Users
  BY DEF Inv0, TypeOK, Closed
<1>2. HandshakesAreCut'
  BY <1>1 DEF HandshakesAreCut
<1>3. RemovedAreCut'
  <2>1. SUFFICES ASSUME NEW k \in Sockets, socket[k].pc = "open", ~IsStaff(socket[k].user)
                 PROVE  Covered(k)'
    BY <1>1 DEF RemovedAreCut, Covered
  <2>2. CASE k \in late
    BY <2>2 DEF Covered
  <2>3. ASSUME NEW a \in Slots, req[a].pc = "committed", req[a].target = socket[k].user,
               Removes(req[a])
        PROVE  Covered(k)'
    BY <2>3 DEF Covered
  <2>4. QED BY <2>1, <2>2, <2>3 DEF RemovedAreCut
<1>4. QED BY <1>2, <1>3

\* Whoever loses the panel by an update loses it by one that closes the sockets.
LEMMA LossRemoves ==
    ASSUME Inv0, NEW a \in Slots, Commit(a), NEW u \in Users, u = req[a].target,
           IsStaff(u), ~IsStaff(u)'
    PROVE  Removes(req[a])
<1>1. role[u] \in {"MANAGER", "ADMIN"} /\ blocked[u] = FALSE /\ blocked'[u] \in BOOLEAN
  BY TypeStep DEF IsStaff, Inv0, TypeOK, Next
<1>2. role'[u] \notin {"MANAGER", "ADMIN"} \/ blocked'[u] = TRUE
  BY <1>1 DEF IsStaff
<1>3. CASE blocked'[u] = TRUE
  BY <1>1, <1>3, CommitWrites DEF Removes
<1>4. CASE role'[u] \notin {"MANAGER", "ADMIN"}
  <2>1. NewRole(req[a]) = role'[u] /\ role'[u] \in Roles
    BY <1>1, <1>4, CommitWrites
  <2>2. QED BY <1>4, <2>1 DEF Removes, Roles
<1>5. QED BY <1>2, <1>3, <1>4

LEMMA CommitCuts ==
    ASSUME Inv0, HandshakesAreCut, RemovedAreCut, NEW a \in Slots, Commit(a)
    PROVE  HandshakesAreCut' /\ RemovedAreCut'
<1>0. PICK u \in Users : u = req[a].target
  BY CommitWrites
<1>1. /\ UNCHANGED socket /\ late \subseteq late'
      /\ Removes(req[a]) => Handshakes(u) \subseteq late'
  BY <1>0 DEF Commit, Write
<1>2. \A c \in Slots : req[c].pc = "committed" => req'[c] = req[c]
  BY DEF Inv0, TypeOK, Commit
<1>3. CASE IsStaff(u) => IsStaff(u)'
  <2>1. \A v \in Users : v # u => (IsStaff(v) => IsStaff(v)')
    BY <1>0, CommitLeavesOthers DEF IsStaff
  <2>2. \A v \in Users : IsStaff(v) => IsStaff(v)'
    BY <1>3, <2>1
  <2>3. QED BY <1>1, <1>2, <2>2, CutStays
<1>4. CASE IsStaff(u) /\ ~IsStaff(u)'
  <2>1. Removes(req[a])
    BY <1>0, <1>4, LossRemoves
  <2>2. /\ req'[a].pc = "committed" /\ req'[a].target = u
        /\ req'[a].role = NewRole(req[a]) /\ req'[a].blocked = NewBlocked(req[a])
        /\ req'[a].seenRole = None /\ req'[a].seenBlocked = None
    BY <1>0 DEF Inv0, TypeOK, Commit, Idle
  <2>3. NewRole(req'[a]) = NewRole(req[a])
    BY <2>2 DEF NewRole
  <2>4. NewBlocked(req'[a]) = NewBlocked(req[a])
    BY <2>2, Zenon DEF NewBlocked
  <2>5. Removes(req'[a])
    BY <2>1, <2>3, <2>4 DEF Removes
  <2>6. ASSUME NEW k \in Sockets, socket[k].user = u, socket[k].pc = "open"
        PROVE  Covered(k)'
    BY <1>1, <2>2, <2>5, <2>6 DEF Covered
  <2>7. ASSUME NEW k \in Sockets, socket[k].user = u, socket[k].pc = "authed"
        PROVE  k \in late'
    <3>1. socket[k] = [pc |-> "authed", user |-> u]
      BY <2>7 DEF Inv0, TypeOK, Closed
    <3>2. QED BY <1>1, <2>1, <3>1 DEF Handshakes
  <2>8. \A v \in Users : v # u => (IsStaff(v) <=> IsStaff(v)')
    BY <1>0, CommitLeavesOthers DEF IsStaff
  <2>9. \A k \in Sockets : socket[k].pc \in {"authed", "open"} => socket[k].user \in Users
    BY DEF Inv0, TypeOK, Closed
  <2>10. HandshakesAreCut'
    BY <1>1, <2>7, <2>8, <2>9 DEF HandshakesAreCut
  <2>11. ASSUME NEW k \in Sockets, socket[k].pc = "open", ~IsStaff(socket[k].user)',
                socket[k].user # u
         PROVE  Covered(k)'
    <3>1. Covered(k)
      BY <1>1, <2>8, <2>9, <2>11 DEF RemovedAreCut, Covered
    <3>2. CASE k \in late
      BY <1>1, <3>2 DEF Covered
    <3>3. ASSUME NEW c \in Slots, req[c].pc = "committed", req[c].target = socket[k].user,
                 Removes(req[c])
          PROVE  Covered(k)'
      BY <1>1, <1>2, <3>3 DEF Covered
    <3>4. QED BY <3>1, <3>2, <3>3 DEF Covered
  <2>12. RemovedAreCut'
    BY <1>1, <2>6, <2>11 DEF RemovedAreCut, Covered
  <2>13. QED BY <2>10, <2>12
<1>5. QED BY <1>3, <1>4

\* The request that took the rights away goes only when it has closed the sockets.
LEMMA AnswerCuts ==
    ASSUME Inv0, HandshakesAreCut, RemovedAreCut, NEW a \in Slots, Answer(a)
    PROVE  HandshakesAreCut' /\ RemovedAreCut'
<1>1. CASE ~Removes(req[a])
  <2>1. UNCHANGED <<users, socket, late>> /\ \A c \in Slots : c # a => req'[c] = req[c]
    BY <1>1 DEF Inv0, TypeOK, Answer
  <2>2. HandshakesAreCut'
    BY <2>1 DEF HandshakesAreCut, IsStaff, users
  <2>3. ASSUME NEW k \in Sockets, Covered(k) PROVE Covered(k)'
    BY <1>1, <2>1, <2>3 DEF Covered
  <2>4. RemovedAreCut'
    BY <2>1, <2>3 DEF RemovedAreCut, Covered, IsStaff, users
  <2>5. QED BY <2>2, <2>4
<1>2. CASE Removes(req[a])
  <2> DEFINE u == req[a].target
  <2>1. /\ socket' = [k \in Sockets |-> IF k \in SocketsOf(u) THEN Closed ELSE socket[k]]
        /\ late' = late \ SocketsOf(u)
        /\ UNCHANGED users /\ \A c \in Slots : c # a => req'[c] = req[c]
    BY <1>2 DEF Inv0, TypeOK, Answer, CloseUser
  <2>2. \A k \in Sockets : socket'[k].pc \in {"authed", "open"} =>
            k \notin SocketsOf(u) /\ socket'[k] = socket[k]
    BY <2>1 DEF Closed
  <2>3. \A k \in Sockets : socket[k].pc = "open" /\ socket[k].user = u => k \in SocketsOf(u)
    BY DEF Inv0, TypeOK, Closed, SocketsOf
  <2>4. HandshakesAreCut'
    BY <2>1, <2>2 DEF HandshakesAreCut, IsStaff, users
  <2>5. ASSUME NEW k \in Sockets, socket'[k].pc = "open", Covered(k) PROVE Covered(k)'
    <3>1. k \notin SocketsOf(u) /\ socket'[k] = socket[k] /\ socket[k].user # u
      BY <2>2, <2>3, <2>5
    <3>2. CASE k \in late
      BY <2>1, <3>1, <3>2 DEF Covered
    <3>3. ASSUME NEW c \in Slots, req[c].pc = "committed", req[c].target = socket[k].user,
                 Removes(req[c])
          PROVE  Covered(k)'
      BY <2>1, <3>1, <3>3 DEF Covered
    <3>4. QED BY <2>5, <3>2, <3>3 DEF Covered
  <2>6. RemovedAreCut'
    BY <2>1, <2>2, <2>5 DEF RemovedAreCut, Covered, IsStaff, users
  <2>7. QED BY <2>4, <2>6
<1>3. QED BY <1>1, <1>2

LEMMA SocketCuts ==
    ASSUME Inv0, HandshakesAreCut, RemovedAreCut, NEW c \in Sockets,
           Handshake(c) \/ Connect(c) \/ Disconnect(c)
    PROVE  HandshakesAreCut' /\ RemovedAreCut'
<1>1. UNCHANGED <<users, req>> /\ \A k \in Sockets : k # c => socket'[k] = socket[k]
  BY DEF Inv0, TypeOK, Handshake, Connect, Disconnect
<1>2. \A k \in Sockets : k # c => (k \in late <=> k \in late')
  BY DEF Handshake, Connect, Disconnect
<1>3. socket'[c].pc = "authed" => IsStaff(socket[c].user)'
  BY DEF Inv0, TypeOK, Handshake, Connect, Disconnect, Closed, IsStaff, users
<1>4. socket'[c].pc = "open" =>
        socket[c].pc = "authed" /\ socket'[c].user = socket[c].user /\ UNCHANGED late
  BY DEF Inv0, TypeOK, Handshake, Connect, Disconnect, Closed
<1>5. HandshakesAreCut'
  BY <1>1, <1>2, <1>3 DEF HandshakesAreCut, IsStaff, users
<1>6. RemovedAreCut'
  BY <1>1, <1>2, <1>4 DEF RemovedAreCut, HandshakesAreCut, IsStaff, users
<1>7. QED BY <1>5, <1>6

LEMMA CutStep == IInv /\ [Next]_vars => IInv'
<1> SUFFICES ASSUME IInv, [Next]_vars PROVE HandshakesAreCut' /\ RemovedAreCut'
  BY TypeStep DEF IInv
<1> USE DEF IInv
<1>1. ASSUME NEW u \in Users, Sync(u) PROVE HandshakesAreCut' /\ RemovedAreCut'
  <2>1. \A v \in Users : IsStaff(v) => IsStaff(v)'
    BY <1>1, SyncOnlyRaises
  <2>2. QED BY <1>1, <2>1, CutStays DEF Sync
<1>2. ASSUME NEW a \in Slots, Authorize(a) \/ Load(a) PROVE HandshakesAreCut' /\ RemovedAreCut'
  <2>1. UNCHANGED <<users, socket, late>>
    BY <1>2 DEF Authorize, Load
  <2>2. \A c \in Slots : req[c].pc = "committed" => req'[c] = req[c]
    BY <1>2 DEF Inv0, TypeOK, Authorize, Load
  <2>3. QED BY <2>1, <2>2, CutStays DEF IsStaff, users
<1>3. ASSUME Restart PROVE HandshakesAreCut' /\ RemovedAreCut'
  BY <1>3 DEF Restart, Closed, HandshakesAreCut, RemovedAreCut
<1>4. ASSUME UNCHANGED vars PROVE HandshakesAreCut' /\ RemovedAreCut'
  BY <1>4, CutStays DEF vars, users, IsStaff
<1>5. QED BY <1>1, <1>2, <1>3, <1>4, CommitCuts, AnswerCuts, SocketCuts DEF Next

(***************************************************************************)
(* Nobody who lost the panel keeps a socket in the registry unnoticed: the *)
(* request that took the rights away is still to close it, or the socket   *)
(* was in its handshake at that commit.                                    *)
(***************************************************************************)
THEOREM RemovedAlwaysCut == Spec => []RemovedAreCut
<1>1. Init => IInv
  BY TypeInit DEF Inv0, Init, IInv, HandshakesAreCut, RemovedAreCut, Closed
<1>2. IInv => RemovedAreCut
  BY DEF IInv
<1>3. QED BY <1>1, <1>2, CutStep, PTL DEF Spec

=============================================================================
