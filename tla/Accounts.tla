------------------------------- MODULE Accounts -------------------------------
(***************************************************************************)
(* Roles and access: UserService.update_by_admin and sync_from_max over    *)
(* the users table, and the panel's WebSockets in ConnectionManager.  An   *)
(* update reads without a lock and is cut at its awaits, so two            *)
(* administrators, or an administrator and a handshake, may interleave.    *)
(* Users are never deleted; which of them hold a token is left open.       *)
(***************************************************************************)


CONSTANTS
    Users,
    Slots,    \* PATCH /admin/users/{id} in flight at once
    Sockets,  \* WebSockets of the panels
    None

Roles == {"CLIENT", "MANAGER", "ADMIN"}

ASSUME AccountsAssumption == None \notin Users \union Roles

VARIABLES
    role,     \* users.role; None until the user is first seen
    blocked,  \* users.is_blocked
    config,   \* ADMIN_MAX_USER_IDS of the running process
    req,      \* the updates in flight
    socket,   \* the handshakes and the entries of the connection manager
    late      \* history: sockets past their check when their user lost the panel

users == <<role, blocked>>
vars == <<users, config, req, socket, late>>

Idle == [pc |-> "idle", admin |-> None, target |-> None, role |-> None, blocked |-> None,
         seenRole |-> None, seenBlocked |-> None]

\* What the body may ask for; None leaves the column alone.
Requests ==
    [pc : {"idle", "authed", "loaded", "committed"}, admin : Users \union {None},
     target : Users \union {None}, role : Roles \union {None},
     blocked : BOOLEAN \union {None}, seenRole : Roles \union {None},
     seenBlocked : BOOLEAN \union {None}]

Closed == [pc |-> "none", user |-> None]

TypeOK ==
    /\ role \in [Users -> Roles \union {None}]
    /\ blocked \in [Users -> BOOLEAN]
    /\ config \subseteq Users
    /\ req \in [Slots -> Requests]
    /\ socket \in [Sockets -> {Closed} \union [pc : {"authed", "open"}, user : Users]]
    /\ late \subseteq {k \in Sockets : socket[k] # Closed}

Init ==
    /\ role = [u \in Users |-> None]
    /\ blocked = [u \in Users |-> FALSE]
    /\ config \in SUBSET Users
    /\ req = [a \in Slots |-> Idle]
    /\ socket = [k \in Sockets |-> Closed]
    /\ late = {}

IsAdmin(u) == role[u] = "ADMIN" /\ ~blocked[u]

\* get_user_by_token and require_staff let the user in.
IsStaff(u) == role[u] \in {"MANAGER", "ADMIN"} /\ ~blocked[u]

-----------------------------------------------------------------------------
\* Signing in and writing to the bot.

\* sync_from_max: the configuration only ever raises a role, and lifts no block.
Sync(u) ==
    /\ role' = [role EXCEPT ![u] =
                  IF u \in config THEN "ADMIN" ELSE IF @ = None THEN "CLIENT" ELSE @]
    /\ UNCHANGED <<blocked, config, req, socket, late>>

-----------------------------------------------------------------------------
\* PATCH /admin/users/{id}.

Authorize(a) ==
    /\ req[a].pc = "idle"
    /\ \E admin, target \in Users, r \in Roles \union {None}, b \in BOOLEAN \union {None} :
          /\ IsAdmin(admin) /\ role[target] # None
          /\ req' = [req EXCEPT ![a] =
                       [Idle EXCEPT !.pc = "authed", !.admin = admin, !.target = target,
                                    !.role = r, !.blocked = b]]
    /\ UNCHANGED <<users, config, socket, late>>

LosesAdmin(r) == r.role \notin {None, "ADMIN"} \/ r.blocked = TRUE

\* Fault: administrators may take their own rights away.
MayUpdateSelf(r) == LosesAdmin(r) => r.target \notin config

\* Fault: an administrator of the configuration is like any other.
MayUpdateConfigured(r) == LosesAdmin(r) => r.target # r.admin

MayUpdate(r) == LosesAdmin(r) => r.target # r.admin /\ r.target \notin config

\* get_by_id and the checks.  The administrator's own row is in the session since
\* the request was authorized and is not read again.
Load(a) ==
    LET r == req[a]
        own == r.target = r.admin
    IN  /\ r.pc = "authed"
        /\ IF MayUpdate(r)
           THEN req' = [req EXCEPT
                          ![a].pc = "loaded",
                          ![a].seenRole = IF own THEN "ADMIN" ELSE role[r.target],
                          ![a].seenBlocked = IF own THEN FALSE ELSE blocked[r.target]]
           ELSE req' = [req EXCEPT ![a] = Idle]
        /\ UNCHANGED <<users, config, socket, late>>

\* The values of the object in the session.
NewRole(r) == IF r.role = None THEN r.seenRole ELSE r.role

\* Fault: a field that is not in the body is written as well.
NewBlockedAsAsked(r) == r.blocked

NewBlocked(r) == IF r.blocked = None THEN r.seenBlocked ELSE r.blocked

Removes(r) == NewBlocked(r) = TRUE \/ NewRole(r) = "CLIENT"

Handshakes(u) == {k \in Sockets : socket[k] = [pc |-> "authed", user |-> u]}

SocketsOf(u) == {k \in Sockets : socket[k] = [pc |-> "open", user |-> u]}

\* The UPDATE holds only the columns whose values differ from those read.
Write(a) ==
    LET r == req[a] IN
    /\ role' = [role EXCEPT ![r.target] = IF NewRole(r) # r.seenRole THEN NewRole(r) ELSE @]
    /\ blocked' = [blocked EXCEPT ![r.target] =
                     IF NewBlocked(r) # r.seenBlocked THEN NewBlocked(r) ELSE @]
    /\ late' = IF Removes(r) THEN late \union Handshakes(r.target) ELSE late

\* close_user takes every socket of the user out of the registry at once.
CloseUser(u) ==
    /\ socket' = [k \in Sockets |-> IF k \in SocketsOf(u) THEN Closed ELSE socket[k]]
    /\ late' = late \ SocketsOf(u)

\* Fault: the sockets are closed before the commit.
CommitAfterClosing(a) ==
    LET r == req[a] IN
    /\ \/ /\ r.pc = "loaded"
          /\ IF Removes(r) THEN CloseUser(r.target) ELSE UNCHANGED <<socket, late>>
          /\ req' = [req EXCEPT ![a].pc = "committed"]
          /\ UNCHANGED users
       \/ /\ r.pc = "committed"
          /\ Write(a)
          /\ req' = [req EXCEPT ![a] = Idle]
          /\ UNCHANGED socket
    /\ UNCHANGED config

Commit(a) ==
    LET r == req[a] IN
    /\ r.pc = "loaded"
    /\ Write(a)
    /\ req' = [req EXCEPT ![a] =
                 [Idle EXCEPT !.pc = "committed", !.target = r.target,
                              !.role = NewRole(r), !.blocked = NewBlocked(r)]]
    /\ UNCHANGED <<config, socket>>

Answer(a) ==
    LET r == req[a] IN
    /\ r.pc = "committed"
    /\ IF Removes(r) THEN CloseUser(r.target) ELSE UNCHANGED <<socket, late>>
    /\ req' = [req EXCEPT ![a] = Idle]
    /\ UNCHANGED <<users, config>>

-----------------------------------------------------------------------------
\* The WebSocket endpoint.

\* The token is checked; a refusal closes the socket at once.
Handshake(k) ==
    /\ socket[k] = Closed
    /\ \E u \in Users :
          /\ IsStaff(u)
          /\ socket' = [socket EXCEPT ![k] = [pc |-> "authed", user |-> u]]
    /\ UNCHANGED <<users, config, req, late>>

\* After db.close and accept, connect puts the socket into the registry.
Connect(k) ==
    /\ socket[k].pc = "authed"
    /\ socket' = [socket EXCEPT ![k].pc = "open"]
    /\ UNCHANGED <<users, config, req, late>>

\* The panel is closed or its connection breaks: the finally of the endpoint, or a
\* broadcast that failed.
Disconnect(k) ==
    /\ socket[k].pc \in {"authed", "open"}
    /\ socket' = [socket EXCEPT ![k] = Closed]
    /\ late' = late \ {k}
    /\ UNCHANGED <<users, config, req>>

-----------------------------------------------------------------------------
\* A deploy restarts the process, maybe with another configuration.
Restart ==
    /\ config' \in SUBSET Users
    /\ req' = [a \in Slots |-> Idle]
    /\ socket' = [k \in Sockets |-> Closed]
    /\ late' = {}
    /\ UNCHANGED users

Next ==
    \/ \E u \in Users : Sync(u)
    \/ \E a \in Slots : Authorize(a) \/ Load(a) \/ Commit(a) \/ Answer(a)
    \/ \E k \in Sockets : Handshake(k) \/ Connect(k) \/ Disconnect(k)
    \/ Restart

Spec == Init /\ [][Next]_vars

-----------------------------------------------------------------------------
SomeAdmin == \E u \in Users : IsAdmin(u)

(***************************************************************************)
(* The rule about oneself keeps an administrator as long as those who act  *)
(* still are: the last one only goes by the hand of an administrator who   *)
(* lost the rights while the request was under way.                        *)
(***************************************************************************)
LastAdminGoesByRaceOnly ==
    [][SomeAdmin /\ ~SomeAdmin' =>
          \E a \in Slots : req[a].pc = "loaded" /\ ~IsAdmin(req[a].admin)]_vars

\* An administrator of the configuration stays one, whoever updates what meanwhile.
ConfiguredAdminStays ==
    [][\A u \in config \intersect config' : IsAdmin(u) => IsAdmin(u)']_vars

(***************************************************************************)
(* A socket in the registry whose user lost the panel is about to be       *)
(* closed by the request that took it away; only a handshake that had      *)
(* passed its check at that moment slips through.                          *)
(***************************************************************************)
RemovedAreCut ==
    \A k \in Sockets :
        socket[k].pc = "open" /\ ~IsStaff(socket[k].user) =>
            \/ k \in late
            \/ \E a \in Slots :
                  req[a].pc = "committed" /\ req[a].target = socket[k].user /\ Removes(req[a])

==============================================================================
