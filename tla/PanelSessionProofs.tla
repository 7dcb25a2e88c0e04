-------------------------- MODULE PanelSessionProofs --------------------------
(***************************************************************************)
(* The session of the panel, for any number of users and sign-ins: whoever *)
(* the pages are shown to owns the token, and goes before somebody else    *)
(* comes, unless a sign-in was left behind with its form.  The inductive   *)
(* invariant adds where a sign-in may be under way: in Max only behind the *)
(* gate while there is no token, in a browser only on the login page.      *)
(***************************************************************************)
EXTENDS PanelSession, TLAPS

SignsInApart ==
    /\ inMax => left = 0 /\ ~leaving /\ (login = "pending" => token = None /\ path # "login")
    /\ ~inMax /\ login = "pending" => path = "login" /\ left < MaxSignIns

\* Nothing is over a session that is not there, and until then /me asks for this one.
OverIsSeen == (over => token # None) /\ (~over => asked \in {None, token})

IInv == TypeOK /\ MeIsOwner /\ SignsInApart /\ OverIsSeen

\* The pages are shown exactly when the token and the user are there.
LEMMA ReadyIsKnown == Gate = "ready" <=> (token # None /\ me.data # NoUser)
<1>1. CASE token # None /\ me.data # NoUser
  BY <1>1 DEF Gate
<1>2. CASE ~(token # None /\ me.data # NoUser)
  <2> DEFINE forbidden == me.error = "forbidden" \/ (inMax /\ login = "forbidden")
             failed == \/ token # None /\ me.error = "failed"
                       \/ token = None /\ inMax /\ login = "failed"
  <2>1. CASE forbidden
    BY <1>2, <2>1 DEF Gate
  <2>2. CASE ~forbidden /\ failed
    BY <1>2, <2>2 DEF Gate
  <2>3. CASE ~forbidden /\ ~failed
    BY <1>2, <2>3 DEF Gate
  <2>4. QED BY <2>1, <2>2, <2>3
<1>3. QED BY <1>1, <1>2

\* In Max the gate sends nobody to the login page.
LEMMA NobodyIsHere == Gate = "unauthenticated" => ~inMax
<1> DEFINE known == token # None /\ me.data # NoUser
           forbidden == me.error = "forbidden" \/ (inMax /\ login = "forbidden")
           failed == \/ token # None /\ me.error = "failed"
                     \/ token = None /\ inMax /\ login = "failed"
<1>1. CASE known
  BY <1>1 DEF Gate
<1>2. CASE ~known /\ forbidden
  BY <1>2 DEF Gate
<1>3. CASE ~known /\ ~forbidden /\ failed
  BY <1>3 DEF Gate
<1>4. CASE ~known /\ ~forbidden /\ ~failed
  BY <1>4 DEF Gate
<1>5. QED BY <1>1, <1>2, <1>3, <1>4

LEMMA UnknownIsNobody == Unknown.data = NoUser /\ Unknown.error = "none"
  BY DEF Unknown

LEMMA KnownIs ==
  ASSUME NEW u, NEW x \in Known(u)
  PROVE  x.data.user = u /\ x.data \in [user : {u}, role : Roles] /\ x.error = "none"
  BY DEF Known

LEMMA FreshIs == ASSUME NEW S, S # {} PROVE Fresh(S) \in S
  BY DEF Fresh

LEMMA InitIInv == Init => IInv
<1> SUFFICES ASSUME Init PROVE IInv
  OBVIOUS
<1>1. me.data = NoUser /\ me.error = "none"
  BY UnknownIsNobody DEF Init
<1>2. owner \in [Tokens -> Users \union {None}] /\ alive \subseteq {k \in Tokens : owner[k] # None}
      /\ token \in Tokens \union {None} /\ (token # None => owner[token] # None)
  <2>1. CASE owner = [k \in Tokens |-> None] /\ alive = {} /\ token = None
    BY <2>1
  <2>2. ASSUME NEW u \in Users, owner = [k \in Tokens |-> IF k = Fresh(Tokens) THEN u ELSE None],
               alive = {Fresh(Tokens)}, token = Fresh(Tokens)
        PROVE  /\ owner \in [Tokens -> Users \union {None}]
               /\ alive \subseteq {k \in Tokens : owner[k] # None}
               /\ token \in Tokens \union {None} /\ (token # None => owner[token] # None)
    BY <2>2, FreshIs, PanelSessionAssumption
  <2>3. QED BY <2>1, <2>2 DEF Init
<1>3. left \in 0 .. MaxSignIns /\ left = 0
  BY PanelSessionAssumption DEF Init
<1>4. inMax \in BOOLEAN /\ leaving \in BOOLEAN /\ over \in BOOLEAN /\ ~over /\ ~leaving
  BY DEF Init
<1>5. asked = None /\ calls = {} /\ login = "idle" /\ path \in Paths
  BY DEF Init
<1>6. TypeOK
  BY <1>1, <1>2, <1>3, <1>4, <1>5, PanelSessionAssumption DEF TypeOK
<1>7. MeIsOwner /\ SignsInApart /\ OverIsSeen
  BY <1>1, <1>3, <1>4, <1>5 DEF MeIsOwner, SignsInApart, OverIsSeen
<1>8. QED BY <1>6, <1>7 DEF IInv

\* The steps that bring nobody: the routes, what is asked, what fails or is thrown away.
LEMMA QuietKeeps ==
  ASSUME IInv,
         \/ LoginByMax \/ DevLogin \/ LoginFailed \/ LeftFailed \/ AskMe \/ MeFailed \/ Call
         \/ (\E k \in Tokens : CallAnswered(k) \/ Expire(k))
         \/ Retry \/ Logout \/ Visit \/ Reload
  PROVE  IInv'
<1> USE PanelSessionAssumption
    DEF IInv, TypeOK, MeIsOwner, SignsInApart, OverIsSeen, server, store, signIn
<1>1. CASE LoginByMax \/ DevLogin
  BY <1>1 DEF LoginByMax, DevLogin, Gated
<1>2. CASE LoginFailed
  BY <1>2 DEF LoginFailed
<1>3. CASE LeftFailed
  BY <1>3 DEF LeftFailed
<1>4. CASE AskMe
  <2>1. me'.data = me.data /\ me'.error \in {"none", "forbidden", "failed"}
    BY <1>4, UnknownIsNobody DEF AskMe
  <2>2. token \in Tokens /\ owner[token] # None
    BY <1>4 DEF AskMe
  <2>3. QED BY <1>4, <2>1, <2>2 DEF AskMe
<1>5. CASE MeFailed
  <2>1. me'.data = me.data /\ me'.error \in {"forbidden", "failed"}
    BY <1>5 DEF MeFailed
  <2>2. QED BY <1>5, <2>1 DEF MeFailed
<1>6. CASE Call
  <2>1. token \in Tokens
    BY <1>6, ReadyIsKnown DEF Call, SignedIn
  <2>2. QED BY <1>6, <2>1 DEF Call
<1>7. CASE \E k \in Tokens : CallAnswered(k) \/ Expire(k)
  BY <1>7 DEF CallAnswered, Expire
<1>8. CASE Retry \/ Logout
  <2>1. CASE Retry
    BY <2>1 DEF Retry
  <2>2. CASE Logout
    <3>1. /\ alive' \subseteq alive /\ leaving' \in BOOLEAN /\ ~inMax
          /\ UNCHANGED <<owner, inMax, store, signIn, path>>
      BY <2>2 DEF Logout
    <3>2. QED BY <3>1
  <2>3. QED BY <1>8, <2>1, <2>2
<1>9. CASE Visit
  <2>1. path # "login" /\ path' \in Paths \ {"login"}
    BY <1>9 DEF Visit, Section, Gated
  <2>2. QED BY <1>9, <2>1 DEF Visit
<1>10. CASE Reload
  <2>1. left' \in 0 .. MaxSignIns /\ left' = 0 /\ 0 < MaxSignIns
    BY <1>10 DEF Reload
  <2>2. /\ me'.data = NoUser /\ me'.error = "none" /\ asked' = None /\ calls' = {}
        /\ over' \in BOOLEAN /\ ~over' /\ leaving' \in BOOLEAN /\ ~leaving'
        /\ login' = "idle"
    BY <1>10, UnknownIsNobody DEF Reload
  <2>3. UNCHANGED <<server, token, path>>
    BY <1>10 DEF Reload
  <2>4. TypeOK'
    BY <2>1, <2>2, <2>3
  <2>5. (MeIsOwner /\ SignsInApart /\ OverIsSeen)'
    BY <2>1, <2>2, <2>3
  <2>6. QED BY <2>4, <2>5
<1>11. QED
  BY <1>1, <1>2, <1>3, <1>4, <1>5, <1>6, <1>7, <1>8, <1>9, <1>10

\* The steps that may take the form away count the sign-in that is out.
LEMMA RouteKeeps ==
  ASSUME IInv, Redirect \/ BackOrForward
  PROVE  IInv'
<1> USE PanelSessionAssumption
    DEF IInv, TypeOK, MeIsOwner, SignsInApart, OverIsSeen, server, store, signIn
<1>1. path' \in Paths
  BY DEF Redirect, ToLogin, FromLogin, RoleRedirect, RequireRole, BackOrForward, HomePath, Paths
<1>2. CASE ToLogin \/ RoleRedirect \/ RequireRole
  <2>1. /\ path # "login" /\ UNCHANGED <<server, store, signIn, leaving>>
        /\ inMax => path' # "login"
    BY <1>2, NobodyIsHere DEF ToLogin, RoleRedirect, RequireRole, Gated, HomePath
  <2>2. QED BY <1>1, <2>1
<1>3. CASE FromLogin \/ BackOrForward
  <2>1. FormGoes /\ UNCHANGED <<server, store, leaving>>
        /\ (inMax => path = "login" /\ path' = "home")
    BY <1>3 DEF FromLogin, BackOrForward
  <2>2. (login = "pending" /\ ~inMax => left' = left + 1) /\ (login # "pending" => left' = left)
        /\ login' = "idle"
    BY <2>1 DEF FormGoes
  <2>3. login = "pending" => ~inMax
    BY <2>1
  <2>4. left' \in 0 .. MaxSignIns /\ (inMax => left' = 0)
    BY <2>2, <2>3
  <2>5. TypeOK'
    BY <1>1, <2>1, <2>2, <2>4
  <2>6. (MeIsOwner /\ SignsInApart /\ OverIsSeen)'
    BY <2>1, <2>2, <2>4
  <2>7. QED BY <2>5, <2>6
<1>4. QED BY <1>2, <1>3 DEF Redirect

\* Whoever forgets the session has no token and no user left.
LEMMA ForgetKeeps ==
  ASSUME IInv, SignOut \/ LogoutSettled \/ (\E k \in Tokens : Rejected(k))
  PROVE  IInv'
<1>1. Forget /\ UNCHANGED <<owner, alive, inMax, login, left>> /\ path' \in {path, "login"}
  BY DEF SignOut, LogoutSettled, Rejected, server, signIn
<1>2. Asking \subseteq Tokens
  BY DEF Asking, IInv, TypeOK
<1>3. calls' \subseteq Tokens
  BY <1>2 DEF SignOut, LogoutSettled, Rejected, IInv, TypeOK
<1>4. leaving' \in BOOLEAN /\ path' \in Paths
  BY DEF SignOut, LogoutSettled, Rejected, Paths, IInv, TypeOK
<1>5. token' = None /\ asked' = None /\ me'.data = NoUser /\ me'.error = "none"
  BY <1>1, UnknownIsNobody DEF Forget
<1>6. over' \in BOOLEAN /\ ~over'
  BY <1>1 DEF Forget
<1>7. TypeOK'
  BY <1>1, <1>3, <1>4, <1>5, <1>6 DEF IInv, TypeOK
<1>8. (MeIsOwner /\ OverIsSeen)'
  BY <1>5, <1>6 DEF MeIsOwner, OverIsSeen
<1>9. SignsInApart'
  <2>1. SignOut \/ (\E k \in Tokens : Rejected(k)) => leaving' = leaving /\ path' = path
    BY DEF SignOut, Rejected
  <2>2. LogoutSettled => leaving /\ path' = "login" /\ ~leaving'
    BY DEF LogoutSettled
  <2>3. QED BY <1>1, <1>5, <2>1, <2>2 DEF IInv, TypeOK, SignsInApart
<1>10. QED BY <1>7, <1>8, <1>9 DEF IInv

\* startSession brings the owner of the token it sets.
LEMMA Starts ==
  ASSUME IInv, StartSession
  PROVE  \E k \in Tokens, u \in Users :
           /\ owner[k] = None /\ owner' = [owner EXCEPT ![k] = u]
           /\ alive' = alive \union {k} /\ token' = k
           /\ me'.data.user = u /\ me'.data \in [user : Users, role : Roles] /\ me'.error = "none"
           /\ over' = (token # None)
<1>1. Fresh(Unissued) \in Tokens /\ owner[Fresh(Unissued)] = None
  BY FreshIs DEF StartSession, Unissued
<1>2. PICK u \in Users : owner' = [owner EXCEPT ![Fresh(Unissued)] = u] /\ me' \in Known(u)
  BY DEF StartSession
<1>3. me'.data.user = u /\ me'.data \in [user : Users, role : Roles] /\ me'.error = "none"
  BY <1>2, KnownIs
<1>4. QED BY <1>1, <1>2, <1>3 DEF StartSession

\* The answers that bring a user bring the owner of the token, unless they come over
\* another session.
LEMMA AnswerKeeps ==
  ASSUME IInv, LoginAnswered \/ LeftAnswered \/ MeAnswered
  PROVE  IInv'
<1> USE PanelSessionAssumption DEF IInv, TypeOK, MeIsOwner, SignsInApart, OverIsSeen
<1>1. CASE LoginAnswered \/ LeftAnswered
  <2>1. PICK k \in Tokens, u \in Users :
          /\ owner[k] = None /\ owner' = [owner EXCEPT ![k] = u]
          /\ alive' = alive \union {k} /\ token' = k
          /\ me'.data.user = u /\ me'.data \in [user : Users, role : Roles] /\ me'.error = "none"
          /\ over' = (token # None)
    BY <1>1, Starts DEF LoginAnswered, LeftAnswered
  <2>2. UNCHANGED <<inMax, asked, calls, leaving>>
    BY <1>1 DEF LoginAnswered, LeftAnswered, StartSession
  <2>3. /\ owner' \in [Tokens -> Users \union {None}]
        /\ \A t \in Tokens : owner[t] # None => owner'[t] # None
        /\ owner'[k] = u /\ u # None /\ k # None
    BY <2>1
  <2>4. /\ login' \in {"idle", "pending", "failed", "forbidden"} /\ left' \in 0 .. MaxSignIns
        /\ path' \in Paths /\ SignsInApart'
    <3>1. CASE LoginAnswered
      BY <2>2, <3>1 DEF LoginAnswered, Paths
    <3>2. CASE LeftAnswered
      BY <2>2, <3>2 DEF LeftAnswered
    <3>3. QED BY <1>1, <3>1, <3>2
  <2>5. token = None => asked = None
    OBVIOUS
  <2>6. alive' \subseteq {t \in Tokens : owner'[t] # None}
    BY <2>1, <2>3
  <2>7. MeIsOwner' /\ OverIsSeen'
    BY <2>1, <2>2, <2>3, <2>5
  <2>8. TypeOK'
    BY <2>1, <2>2, <2>3, <2>4, <2>6
  <2>9. QED BY <2>4, <2>7, <2>8
<1>2. CASE MeAnswered
  <2>1. asked \in Tokens /\ owner[asked] \in Users /\ token # None
    BY <1>2 DEF MeAnswered
  <2>2. /\ me'.data.user = owner[asked] /\ me'.data \in [user : Users, role : Roles]
        /\ me'.error = "none"
    BY <1>2, <2>1, KnownIs DEF MeAnswered
  <2>3. asked' = None /\ UNCHANGED <<server, token, calls, over, signIn, leaving, path>>
    BY <1>2 DEF MeAnswered
  <2>4. QED BY <2>1, <2>2, <2>3 DEF server, signIn
<1>3. QED BY <1>1, <1>2

LEMMA NextIInv == IInv /\ [Next]_vars => IInv'
<1>1. IInv /\ UNCHANGED vars => IInv'
  BY DEF IInv, TypeOK, MeIsOwner, SignsInApart, OverIsSeen, vars, server, store, signIn
<1>2. IInv /\ Next => IInv'
  BY QuietKeeps, RouteKeeps, ForgetKeeps, AnswerKeeps DEF Next
<1>3. QED BY <1>1, <1>2

\* The inductive invariant of the session.
THEOREM Inductive == Spec => []IInv
<1>1. QED BY InitIInv, NextIInv, PTL DEF Spec

\* Every reachable state of the session is well typed.
THEOREM SessionTypeCorrect == Spec => []TypeOK
<1>1. IInv => TypeOK
  BY DEF IInv
<1>2. QED BY <1>1, Inductive, PTL

\* No answer to GET /me and no sign-in leaves the cache with another user than the
\* token's, as long as no sign-in is answered over another session.
THEOREM MeAlwaysOwner == Spec => []MeIsOwner
<1>1. IInv => MeIsOwner
  BY DEF IInv
<1>2. QED BY <1>1, Inductive, PTL

\* Whom the pages are shown to.
WhoIsShown ==
    /\ SignedIn \in Users \union {None}
    /\ SignedIn # None => /\ Gated /\ token # None /\ me.data # NoUser
                          /\ SignedIn = me.data.user

LEMMA WhoIsSignedIn == IInv => WhoIsShown
<1> SUFFICES ASSUME IInv PROVE WhoIsShown
  OBVIOUS
<1> USE DEF WhoIsShown
<1>1. CASE Gated /\ Gate = "ready"
  BY <1>1, ReadyIsKnown DEF SignedIn, IInv, TypeOK
<1>2. CASE ~(Gated /\ Gate = "ready")
  BY <1>2 DEF SignedIn
<1>3. QED BY <1>1, <1>2

Mixed == over \/ left > 0

\* While the pages are shown to somebody, no sign-in is left behind.
LEMMA NoneIsLeft ==
  ASSUME IInv, [Next]_vars, SignedIn # None, ~Mixed
  PROVE  ~Mixed'
<1>0. /\ path # "login" /\ token # None /\ ~over /\ left = 0
      /\ login = "pending" => FALSE
  BY WhoIsSignedIn DEF WhoIsShown, Gated, Mixed, IInv, TypeOK, SignsInApart
<1>1. CASE LoginAnswered \/ LoginFailed \/ LeftAnswered \/ LeftFailed
  BY <1>0, <1>1 DEF LoginAnswered, LoginFailed, LeftAnswered, LeftFailed
<1>2. CASE SignOut \/ LogoutSettled \/ (\E k \in Tokens : Rejected(k))
  BY <1>0, <1>2 DEF SignOut, LogoutSettled, Rejected, Forget, signIn, Mixed
<1>3. CASE LoginByMax \/ DevLogin \/ Call \/ Retry \/ Logout \/ Visit
             \/ ToLogin \/ RoleRedirect \/ RequireRole \/ AskMe \/ MeAnswered \/ MeFailed
  BY <1>0, <1>3 DEF LoginByMax, DevLogin, Call, Retry, Logout, Visit, ToLogin, RoleRedirect,
     RequireRole, AskMe, MeAnswered, MeFailed, store, signIn, Mixed
<1>4. CASE (\E k \in Tokens : CallAnswered(k) \/ Expire(k)) \/ UNCHANGED vars
  BY <1>0, <1>4 DEF CallAnswered, Expire, vars, store, signIn, Mixed
<1>5. CASE FromLogin \/ BackOrForward
  BY <1>0, <1>5 DEF FromLogin, BackOrForward, FormGoes, store, Mixed
<1>6. CASE Reload
  BY <1>6 DEF Reload, Mixed
<1>7. QED
  BY <1>1, <1>2, <1>3, <1>4, <1>5, <1>6 DEF Next, Redirect

\* Whoever is shown stays or goes, unless a sign-in that was left behind is out or came
\* over this session: the token that is known stays the same, and so does its user.
LEMMA ShownStays ==
  ASSUME IInv, [Next]_vars, SignedIn # None, ~Mixed'
  PROVE  token' # None /\ me'.data # NoUser => me'.data.user = me.data.user
<1>0. token # None /\ me.data # NoUser /\ ~over'
  BY WhoIsSignedIn DEF WhoIsShown, Mixed
<1>1. CASE LoginAnswered \/ LeftAnswered
  BY <1>0, <1>1 DEF LoginAnswered, LeftAnswered, StartSession
<1>2. CASE SignOut \/ LogoutSettled \/ (\E k \in Tokens : Rejected(k))
  BY <1>2 DEF SignOut, LogoutSettled, Rejected, Forget
<1>3. CASE LoginByMax \/ DevLogin \/ LoginFailed \/ LeftFailed \/ Call \/ Retry \/ Logout \/ Visit
             \/ Redirect \/ BackOrForward
  BY <1>3 DEF LoginByMax, DevLogin, LoginFailed, LeftFailed, Call, Retry, Logout, Visit,
     Redirect, ToLogin, FromLogin, RoleRedirect, RequireRole, BackOrForward, store
<1>4. CASE (\E k \in Tokens : CallAnswered(k) \/ Expire(k)) \/ UNCHANGED vars
  BY <1>4 DEF CallAnswered, Expire, vars, store
<1>5. CASE AskMe
  BY <1>0, <1>5 DEF AskMe
<1>6. CASE MeFailed
  BY <1>6 DEF MeFailed
<1>7. CASE MeAnswered
  <2>1. asked = token /\ ~over
    BY <1>0, <1>7, PanelSessionAssumption DEF MeAnswered, OverIsSeen, IInv, TypeOK
  <2>2. owner[token] = me.data.user
    BY <1>0, <2>1 DEF IInv, MeIsOwner
  <2>3. me'.data.user = owner[asked]
    BY <1>7, KnownIs DEF MeAnswered
  <2>4. QED BY <2>1, <2>2, <2>3
<1>8. CASE Reload
  BY <1>8, UnknownIsNobody DEF Reload
<1>9. QED
  BY <1>1, <1>2, <1>3, <1>4, <1>5, <1>6, <1>7, <1>8 DEF Next

(***************************************************************************)
(* The session implements its contract: the pages are handed from one      *)
(* person to another only by what a sign-in that was left behind brings,   *)
(* and nothing is left behind while they are shown to somebody.            *)
(***************************************************************************)
THEOREM SessionImplementsContract == Spec => PagesKeepTheirUser
<1>0. IInv' => WhoIsShown'
  BY WhoIsSignedIn, PTL
<1>1. Init => Contract!Init
  <2>1. Init => SignedIn = None /\ ~Mixed
    BY ReadyIsKnown DEF Init, Unknown, SignedIn, Mixed
  <2>2. QED BY <2>1 DEF Contract!Init, Mixed
<1>2. IInv /\ IInv' /\ [Next]_vars => [Contract!Next]_<<SignedIn, Mixed>>
  <2> SUFFICES ASSUME IInv, IInv', [Next]_vars PROVE [Contract!Next]_<<SignedIn, Mixed>>
    OBVIOUS
  <2>0. Mixed \in BOOLEAN /\ Mixed' \in BOOLEAN
    BY DEF Mixed
  <2>1. SignedIn \in Users \union {None} /\ SignedIn' \in Users \union {None}
    BY <1>0, WhoIsSignedIn DEF WhoIsShown
  <2>2. CASE SignedIn = None
    BY <2>0, <2>1, <2>2 DEF Contract!Next, Contract!Come, Contract!WalkAway, Mixed
  <2>3. CASE SignedIn # None /\ SignedIn' = None
    <3>1. Mixed' => Mixed
      BY <2>3, NoneIsLeft
    <3>2. QED BY <2>3, <3>1 DEF Contract!Next, Contract!Go, Mixed
  <2>4. CASE SignedIn # None /\ SignedIn' # None /\ Mixed'
    <3>1. Mixed
      BY <2>4, NoneIsLeft
    <3>2. QED BY <2>1, <2>4, <3>1 DEF Contract!Next, Contract!StartOver, Mixed
  <2>5. CASE SignedIn # None /\ SignedIn' # None /\ ~Mixed'
    <3>1. SignedIn' = SignedIn
      BY <1>0, <2>5, ShownStays, WhoIsSignedIn DEF WhoIsShown
    <3>2. CASE Mixed
      BY <2>5, <3>1, <3>2 DEF Contract!Next, Contract!Settle, Mixed
    <3>3. CASE ~Mixed
      BY <2>0, <2>5, <3>1, <3>3
    <3>4. QED BY <3>2, <3>3
  <2>6. QED BY <2>2, <2>3, <2>4, <2>5
<1>3. QED
  BY <1>1, <1>2, Inductive, PTL DEF Spec, PagesKeepTheirUser, Contract!Spec, Mixed
==============================================================================
