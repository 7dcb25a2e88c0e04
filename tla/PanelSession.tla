----------------------------- MODULE PanelSession -----------------------------
(***************************************************************************)
(* The session of one tab of the panel: the token in localStorage, the     *)
(* cached answer of GET /me, the sign-in of the browser and of Max, the    *)
(* 401s of requests that are still in flight, and the routes a role opens. *)
(* The server keeps which tokens it accepts; roles are changed by          *)
(* administrators at any moment, so an answer may tell any role.           *)
(***************************************************************************)
EXTENDS Naturals

CONSTANTS
    Users,
    Tokens,     \* bound: sign-ins that are answered
    MaxSignIns, \* bound: sign-ins that are out at once
    Start,      \* "tickets" when a ticket is named at the start, or None
    None

ASSUME PanelSessionAssumption ==
    /\ None \notin Users \union Tokens /\ Tokens # {} /\ Start \in {"tickets", None}
    /\ MaxSignIns \in Nat \ {0}

Roles == {"CLIENT", "MANAGER", "ADMIN"}
Paths == {"login", "home", "client", "tickets", "dashboard"}

VARIABLES
    owner,   \* server: whose token it is, None until it is issued
    alive,   \* server: the tokens it accepts
    inMax,   \* the panel is a mini-app of Max, else a page in a browser
    token,   \* session-store
    me,      \* the query ['me']
    asked,   \* the token that a request for /me carries, None without one
    login,   \* the sign-in of what is mounted: "idle", "pending", "failed", "forbidden"
    left,    \* the sign-ins that are out and whose form is no longer mounted
    calls,   \* the tokens of the other requests in flight
    leaving, \* POST /auth/logout in flight
    path,    \* the address
    over     \* history: a sign-in was answered over another session of this tab, and
             \* nothing has cleared the cache since

server == <<owner, alive, inMax>>
store == <<token, me, asked, calls, over>>
signIn == <<login, left>>
vars == <<server, store, signIn, leaving, path>>

NoUser == [user |-> None, role |-> None]
Unknown == [data |-> NoUser, error |-> "none"]

\* The query after an answer about a user, with the role of that moment.
Known(u) == {[data |-> [user |-> u, role |-> r], error |-> "none"] : r \in Roles}

\* Tokens are random strings: which one is issued next tells nothing.
Fresh(ks) == CHOOSE k \in ks : TRUE
Unissued == {k \in Tokens : owner[k] = None}

isStaff(r) == r \in {"MANAGER", "ADMIN"}
isAdmin(r) == r = "ADMIN"

-----------------------------------------------------------------------------
\* Fault: nobody looks at the error of the sign-in in Max.
GateForgetsLogin ==
    IF token # None /\ me.data # NoUser THEN "ready"
    ELSE IF me.error = "forbidden" THEN "blocked"
    ELSE IF token # None /\ me.error = "failed" THEN "error"
    ELSE IF token = None /\ ~inMax THEN "unauthenticated" ELSE "loading"

\* resolveSessionState.  A dropped token shows no error: it is on its way out.
Gate ==
    LET known == token # None /\ me.data # NoUser
        forbidden == me.error = "forbidden" \/ (inMax /\ login = "forbidden")
        failed == \/ token # None /\ me.error = "failed"
                  \/ token = None /\ inMax /\ login = "failed"
    IN  CASE known -> "ready"
          [] ~known /\ forbidden -> "blocked"
          [] ~known /\ ~forbidden /\ failed -> "error"
          [] ~known /\ ~forbidden /\ ~failed ->
                IF token = None /\ ~inMax THEN "unauthenticated" ELSE "loading"

\* SessionGate is above every route but the login page.
Gated == path # "login"

SignedIn == IF Gated /\ Gate = "ready" THEN me.data.user ELSE None

\* Fault: the staff all start from the dashboard.
HomePathForStaff(r) == IF isStaff(r) THEN "dashboard" ELSE "client"

\* homePathFor.
HomePath(r) == IF isAdmin(r) THEN "dashboard" ELSE IF isStaff(r) THEN "tickets" ELSE "client"

\* The guards of the router.
Allowed(p, r) ==
    \/ p = "dashboard" /\ isStaff(r) /\ isAdmin(r)
    \/ p = "tickets" /\ isStaff(r)
    \/ p = "client" /\ r = "CLIENT"

\* The page the person sees, if any.
Section ==
    IF Gated /\ Gate = "ready" /\ Allowed(path, me.data.role) THEN path ELSE "none"

TypeOK ==
    /\ owner \in [Tokens -> Users \union {None}]
    /\ alive \subseteq {k \in Tokens : owner[k] # None}
    /\ inMax \in BOOLEAN
    /\ token \in Tokens \union {None} /\ (token # None => owner[token] # None)
    /\ me.data \in [user : Users, role : Roles] \union {NoUser}
    /\ me.error \in {"none", "forbidden", "failed"}
    /\ asked \in {k \in Tokens : owner[k] # None} \union {None}
    /\ (asked # None => token # None) /\ over \in BOOLEAN
    /\ login \in {"idle", "pending", "failed", "forbidden"} /\ left \in 0 .. MaxSignIns
    /\ calls \subseteq Tokens /\ leaving \in BOOLEAN /\ path \in Paths

\* A tab that is opened: nobody is signed in, or a token is in localStorage.
Init ==
    /\ inMax \in BOOLEAN
    /\ \/ owner = [k \in Tokens |-> None] /\ alive = {} /\ token = None
       \/ \E u \in Users :
             /\ owner = [k \in Tokens |-> IF k = Fresh(Tokens) THEN u ELSE None]
             /\ alive = {Fresh(Tokens)} /\ token = Fresh(Tokens)
    /\ me = Unknown /\ asked = None /\ calls = {} /\ over = FALSE
    /\ login = "idle" /\ left = 0 /\ leaving = FALSE
    /\ path \in Paths

-----------------------------------------------------------------------------
\* Fault: the request for /me goes on to the cache of the next session.
ForgetKeepsRequest ==
    /\ token' = None /\ me' = Unknown /\ asked' = asked /\ over' = FALSE

\* handleUnauthorized and signOut: the token and the cache go.  Requests in
\* flight are not aborted, and their answers still pass the middleware.
Forget ==
    /\ token' = None /\ me' = Unknown /\ asked' = None /\ over' = FALSE

\* Once the cache is gone, /me is an ordinary request of those still out.
Asking == IF asked = None THEN {} ELSE {asked}

\* useLoginByMax, started by the gate.
LoginByMax ==
    /\ inMax /\ Gated /\ token = None /\ login = "idle"
    /\ login' = "pending"
    /\ UNCHANGED <<server, store, left, leaving, path>>

\* DevLoginForm.  Its buttons wait for the answer, those of the next form do not.
DevLogin ==
    /\ ~inMax /\ path = "login" /\ token = None /\ login # "pending"
    /\ left < MaxSignIns
    /\ login' = "pending"
    /\ UNCHANGED <<server, store, left, leaving, path>>

\* The form goes with its page; a sign-in that is out goes on.
FormGoes ==
    /\ login' = "idle"
    /\ left' = IF login = "pending" THEN left + 1 ELSE left

\* The server issues a token; startSession sets the user before it, and clears nothing.
StartSession ==
    /\ Unissued # {}
    /\ \E u \in Users :
          /\ owner' = [owner EXCEPT ![Fresh(Unissued)] = u]
          /\ me' \in Known(u)
    /\ alive' = alive \union {Fresh(Unissued)} /\ token' = Fresh(Unissued)
    /\ over' = (token # None)
    /\ UNCHANGED <<inMax, asked, calls, leaving>>

\* The form navigates; the gate is where it is.
LoginAnswered ==
    /\ login = "pending"
    /\ StartSession
    /\ login' = "idle"
    /\ path' = IF inMax THEN path ELSE "home"
    /\ UNCHANGED left

\* No connection, a 5xx, a rejected initData; or 403 for a blocked user.
LoginFailed ==
    /\ login = "pending"
    /\ login' \in {"failed", "forbidden"}
    /\ UNCHANGED <<server, store, left, leaving, path>>

\* onSuccess of the mutation runs without its form, onSuccess of mutate does not.
LeftAnswered ==
    /\ left > 0
    /\ StartSession
    /\ left' = left - 1
    /\ UNCHANGED <<login, path>>

LeftFailed ==
    /\ left > 0
    /\ left' = left - 1
    /\ UNCHANGED <<server, store, login, leaving, path>>

-----------------------------------------------------------------------------
\* The query of the user: on mount, by the retry button, or when it is stale.  Without
\* data it forgets its error.
AskMe ==
    /\ Gated /\ token # None /\ asked = None
    /\ asked' = token
    /\ me' = IF me.data = NoUser THEN Unknown ELSE me
    /\ UNCHANGED <<server, token, calls, over, signIn, leaving, path>>

MeAnswered ==
    /\ asked \in alive
    /\ me' \in Known(owner[asked])
    /\ asked' = None
    /\ UNCHANGED <<server, token, calls, over, signIn, leaving, path>>

\* 403 of a blocked user, or no answer after the retries; the data stays.
MeFailed ==
    /\ asked # None
    /\ \E error \in {"forbidden", "failed"} : me' = [me EXCEPT !.error = error]
    /\ asked' = None
    /\ UNCHANGED <<server, token, calls, over, signIn, leaving, path>>

\* Any other request of the pages.
Call ==
    /\ SignedIn # None /\ token \notin calls
    /\ calls' = calls \union {token}
    /\ UNCHANGED <<server, token, me, asked, over, signIn, leaving, path>>

CallAnswered(k) ==
    /\ k \in calls
    /\ calls' = calls \ {k}
    /\ UNCHANGED <<server, token, me, asked, over, signIn, leaving, path>>

\* The middleware sees a 401 to a request that carried a token: whichever token.
\* "calls" does not count: others that carried it may still be out.
Rejected(k) ==
    /\ k \notin alive
    /\ \/ k = asked /\ calls' = calls
       \/ k \in calls /\ calls' \in {calls \union Asking, (calls \ {k}) \union Asking}
    /\ Forget
    /\ UNCHANGED <<server, signIn, leaving, path>>

\* "Повторить".
Retry ==
    /\ Gated /\ Gate = "error" /\ token = None
    /\ login' = "idle"
    /\ UNCHANGED <<server, store, left, leaving, path>>

\* "Выйти" of the gate: the token is of no use, so the server is not asked.
SignOut ==
    /\ Gated /\ ~inMax /\ Gate \in {"blocked", "error"}
    /\ Forget /\ calls' = calls \union Asking
    /\ UNCHANGED <<server, signIn, leaving, path>>

\* LogoutButton, not shown in Max.  The request may not reach the server.
Logout ==
    /\ SignedIn # None /\ ~inMax /\ ~leaving
    /\ leaving' = TRUE
    /\ alive' \in {alive, alive \ {token}}
    /\ UNCHANGED <<owner, inMax, store, signIn, path>>

\* onSettled, also when the server could not be asked.
LogoutSettled ==
    /\ leaving
    /\ Forget /\ calls' = calls \union Asking
    /\ leaving' = FALSE /\ path' = "login"
    /\ UNCHANGED <<server, signIn>>

-----------------------------------------------------------------------------
\* The routes.

\* The gate sends who is not signed in to the login page, and that page back.
ToLogin ==
    /\ Gated /\ Gate = "unauthenticated"
    /\ path' = "login"
    /\ UNCHANGED <<server, store, signIn, leaving>>

FromLogin ==
    /\ path = "login" /\ (inMax \/ token # None)
    /\ path' = "home" /\ FormGoes
    /\ UNCHANGED <<server, store, leaving>>

\* RoleRedirect; a ticket of the start parameter is for the staff only.
RoleRedirect ==
    /\ path = "home" /\ Gate = "ready"
    /\ path' \in {HomePath(me.data.role)}
                    \union (IF isStaff(me.data.role) /\ Start # None THEN {Start} ELSE {})
    /\ UNCHANGED <<server, store, signIn, leaving>>

\* RequireRole.
RequireRole ==
    /\ path \notin {"login", "home"} /\ Gate = "ready" /\ ~Allowed(path, me.data.role)
    /\ path' = "home"
    /\ UNCHANGED <<server, store, signIn, leaving>>

\* A link of the page that is shown, or the buttons of the history between pages.
Visit ==
    /\ Section # "none"
    /\ path' \in Paths \ {"login", path}
    /\ UNCHANGED <<server, store, signIn, leaving>>

\* The history of the browser also leads from the login page and back to it.
BackOrForward ==
    /\ ~inMax
    /\ \/ path = "login" /\ path' \in Paths \ {"login"}
       \/ Section # "none" /\ path' = "login"
    /\ FormGoes
    /\ UNCHANGED <<server, store, leaving>>

-----------------------------------------------------------------------------
\* The tab is loaded again: what is not in localStorage is lost.
Reload ==
    /\ me' = Unknown /\ asked' = None /\ calls' = {} /\ over' = FALSE
    /\ login' = "idle" /\ left' = 0 /\ leaving' = FALSE
    /\ UNCHANGED <<server, token, path>>

\* A token expires or is revoked from elsewhere.
Expire(k) ==
    /\ k \in alive
    /\ alive' = alive \ {k}
    /\ UNCHANGED <<owner, inMax, store, signIn, leaving, path>>

Redirect == ToLogin \/ FromLogin \/ RoleRedirect \/ RequireRole

Next ==
    \/ LoginByMax \/ DevLogin \/ LoginAnswered \/ LoginFailed \/ LeftAnswered \/ LeftFailed
    \/ AskMe \/ MeAnswered \/ MeFailed
    \/ Call \/ \E k \in Tokens : CallAnswered(k) \/ Rejected(k) \/ Expire(k)
    \/ Retry \/ SignOut \/ Logout \/ LogoutSettled
    \/ Redirect \/ Visit \/ BackOrForward \/ Reload

Spec == Init /\ [][Next]_vars

\* Requests are answered, effects run, and the page renders its redirects.
Fairness ==
    /\ WF_vars(LoginByMax) /\ WF_vars(LoginAnswered \/ LoginFailed)
    /\ WF_vars(me = Unknown /\ AskMe)
    /\ WF_vars(MeAnswered \/ MeFailed \/ (\E k \in {asked} : Rejected(k)))
    /\ WF_vars(Redirect)

FairSpec == Spec /\ Fairness

-----------------------------------------------------------------------------
(* Properties. *)

\* The user that the pages are shown to is the owner of the token that their requests
\* carry: a late answer of the session before never gets into the cache of this one.  It
\* may when a sign-in of a form that was left is answered over another session (over).
MeIsOwner ==
    token # None /\ me.data # NoUser /\ ~over => owner[token] = me.data.user

\* What the pages are promised: they are handed from one person to another only where a
\* sign-in was left behind with its form, and has been answered or still may be.
Contract == INSTANCE SessionContract
    WITH user <- SignedIn, mixed <- (over \/ left > 0)

PagesKeepTheirUser == Contract!Spec

\* The splash does not stay, with a token that the server has dropped too: it ends in a
\* page, the login page, or a message, unless the tab is loaded again for ever.
GateSettles ==
    \/ []<><<Reload>>_vars
    \/ (Gate = "loading") ~> (Gate # "loading")

\* Home, the guards of the routes and the sections agree: whoever comes home is shown a
\* section, whatever role they have got meanwhile, and is not sent round in circles.
EveryoneLands ==
    (path = "home" /\ Gate = "ready") ~> (Section # "none" \/ Gate # "ready")
==============================================================================
