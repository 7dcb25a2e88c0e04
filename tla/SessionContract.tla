---------------------------- MODULE SessionContract ----------------------------
(***************************************************************************)
(* What the pages of the panel are promised by its session: they are shown *)
(* to one person from the sign-in on, and go before another one comes.     *)
(* One case is excepted: a sign-in that the person walked away from starts *)
(* its session whenever it is answered, over whoever is there by then.     *)
(* While the pages are shown to somebody nothing new of that kind begins.  *)
(***************************************************************************)

CONSTANTS Users, None

VARIABLES
    user,  \* whom the pages are shown to
    mixed  \* a sign-in that was walked away from is out, or came over another session

Init == user \in Users \union {None} /\ mixed = FALSE

Come == user = None /\ user' \in Users /\ mixed' \in BOOLEAN
Go == user # None /\ user' = None /\ (mixed' => mixed)
Settle == user # None /\ user' = user /\ mixed /\ ~mixed'
StartOver == user # None /\ user' \in Users /\ mixed /\ mixed'
WalkAway == user = None /\ user' = None /\ mixed' \in BOOLEAN

Next == Come \/ Go \/ Settle \/ StartOver \/ WalkAway

Spec == Init /\ [][Next]_<<user, mixed>>
==============================================================================
