------------------------------ MODULE Broadcast ------------------------------
(***************************************************************************)
(* Mailings to residents: BroadcastService over the broadcasts table.  An  *)
(* administrator's POST inserts the row and starts a background task; the  *)
(* task writes to one recipient after another.  The recipients live in the *)
(* task's memory only, so a restart ends the mailing.                      *)
(***************************************************************************)
EXTENDS Integers, FiniteSets

CONSTANTS
    Admins,         \* POST /admin/broadcasts in flight, one per administrator
    MaxBroadcasts,  \* bound: rows the table may get
    MaxRecipients,  \* bound: clients a mailing may go to
    SaveEvery,      \* PROGRESS_SAVE_EVERY
    None

Statuses == {"SENDING", "DONE", "INTERRUPTED"}

ASSUME BroadcastAssumption ==
    /\ MaxBroadcasts \in Nat /\ MaxRecipients \in Nat
    /\ SaveEvery \in Nat \ {0}
    /\ None \notin Admins \union Statuses

Broadcasts == 1 .. MaxBroadcasts

VARIABLES
    \* the columns of broadcasts; status is None until the row is committed
    status, total, delivered, failed,
    inserting,  \* the request whose INSERT is not committed yet
    creating,   \* the requests that have found somebody to write to
    task,       \* where run_broadcast of a mailing stands
    ok, bad,    \* its locals: recipients delivered to, and failed
    inbox,      \* the recipients that Max really wrote to
    up          \* the process serves requests

rows == <<status, total, delivered, failed>>
locals == <<task, ok, bad>>
vars == <<rows, inserting, creating, locals, inbox, up>>

TypeOK ==
    /\ status \in [Broadcasts -> Statuses \union {None}]
    /\ total \in [Broadcasts -> 0 .. MaxRecipients]
    /\ delivered \in [Broadcasts -> 0 .. MaxRecipients]
    /\ failed \in [Broadcasts -> 0 .. MaxRecipients]
    /\ inserting \in Admins \union {None}
    /\ creating \subseteq Admins
    /\ task \in [Broadcasts -> {"none", "loading", "sending", "sent", "failing"}]
    /\ ok \in [Broadcasts -> 0 .. MaxRecipients]
    /\ bad \in [Broadcasts -> 0 .. MaxRecipients]
    /\ inbox \in [Broadcasts -> SUBSET (1 .. MaxRecipients)]
    /\ up \in BOOLEAN

Init ==
    /\ status = [b \in Broadcasts |-> None]
    /\ total = [b \in Broadcasts |-> 0]
    /\ delivered = [b \in Broadcasts |-> 0]
    /\ failed = [b \in Broadcasts |-> 0]
    /\ inserting = None
    /\ creating = {}
    /\ task = [b \in Broadcasts |-> "none"]
    /\ ok = [b \in Broadcasts |-> 0]
    /\ bad = [b \in Broadcasts |-> 0]
    /\ inbox = [b \in Broadcasts |-> {}]
    /\ up = TRUE

-----------------------------------------------------------------------------
\* POST /admin/broadcasts.

\* The buildings and the photo are fine and there is somebody to write to.
ListRecipients(a) ==
    /\ up
    /\ a \notin creating
    /\ creating' = creating \union {a}
    /\ UNCHANGED <<rows, inserting, locals, inbox, up>>

\* Answered: 409, or 400 and 502 when the photo fails.
Refuse(a) ==
    /\ a \in creating /\ inserting # a
    /\ creating' = creating \ {a}
    /\ UNCHANGED <<rows, inserting, locals, inbox, up>>

Sending == {b \in Broadcasts : status[b] = "SENDING"}

\* Fault: no unique index over the rows being sent.
InsertUnguarded(a) ==
    /\ a \in creating /\ inserting = None
    /\ inserting' = a
    /\ UNCHANGED <<rows, creating, locals, inbox, up>>

\* The flush.  The unique index makes it wait for another uncommitted row, and
\* refuses it (Refuse) beside one that is being sent.
Insert(a) ==
    /\ a \in creating /\ inserting = None
    /\ Sending = {}
    /\ inserting' = a
    /\ UNCHANGED <<rows, creating, locals, inbox, up>>

\* The commit, and run_in_background in the same step of the event loop.
CommitAndStart(a) ==
    /\ inserting = a
    /\ \E b \in Broadcasts, n \in 1 .. MaxRecipients :
          /\ status[b] = None
          /\ \A c \in Broadcasts : c < b => status[c] # None
          /\ status' = [status EXCEPT ![b] = "SENDING"]
          /\ total' = [total EXCEPT ![b] = n]
          /\ task' = [task EXCEPT ![b] = "loading"]
    /\ inserting' = None
    /\ creating' = creating \ {a}
    /\ UNCHANGED <<delivered, failed, ok, bad, inbox, up>>

-----------------------------------------------------------------------------
\* BroadcastService.send.

GoesTo(b, phase) == task' = [task EXCEPT ![b] = phase]

\* save_progress: the task's locals go to the row.
SaveProgress(b) ==
    /\ delivered' = [delivered EXCEPT ![b] = ok[b]]
    /\ failed' = [failed EXCEPT ![b] = bad[b]]

\* get_by_id and _outgoing_files, outside the try: an error ends the task.
Load(b) ==
    /\ task[b] = "loading"
    /\ GoesTo(b, "sending") \/ GoesTo(b, "none")
    /\ UNCHANGED <<rows, inserting, creating, ok, bad, inbox, up>>

\* The loop's index.
Tried(b) == ok[b] + bad[b]

Arrives(b) == inbox' = [inbox EXCEPT ![b] = @ \union {Tried(b) + 1}]

Delivers(b) ==
    /\ Arrives(b)
    /\ ok' = [ok EXCEPT ![b] = @ + 1]
    /\ GoesTo(b, "sent")
    /\ UNCHANGED bad

\* Fault: a recipient whose message failed is tried again.
RefusedAndRetried(b) ==
    /\ Arrives(b) \/ UNCHANGED inbox
    /\ GoesTo(b, "sent")
    /\ UNCHANGED <<ok, bad>>

\* MessengerException; after a timeout Max may have delivered all the same.
Refused(b) ==
    /\ Arrives(b) \/ UNCHANGED inbox
    /\ bad' = [bad EXCEPT ![b] = @ + 1]
    /\ GoesTo(b, "sent")
    /\ UNCHANGED ok

\* Any other exception.
Breaks(b) ==
    /\ Arrives(b) \/ UNCHANGED inbox
    /\ GoesTo(b, "failing")
    /\ UNCHANGED <<ok, bad>>

SendNext(b) ==
    /\ task[b] = "sending" /\ Tried(b) < total[b]
    /\ Delivers(b) \/ Refused(b) \/ Breaks(b)
    /\ UNCHANGED <<rows, inserting, creating, up>>

\* The pause that keeps to Max's rate, then the counters when they are due.
PauseAndSave(b) ==
    /\ task[b] = "sent"
    /\ IF Tried(b) % SaveEvery = 0
       THEN \/ SaveProgress(b) /\ GoesTo(b, "sending")
            \/ UNCHANGED <<delivered, failed>> /\ GoesTo(b, "failing")
       ELSE UNCHANGED <<delivered, failed>> /\ GoesTo(b, "sending")
    /\ UNCHANGED <<status, total, inserting, creating, ok, bad, inbox, up>>

\* Fault: the counters of the last recipients are not written.
CompleteWithoutCounters(b) ==
    /\ task[b] = "sending" /\ Tried(b) = total[b]
    /\ status' = [status EXCEPT ![b] = "DONE"]
    /\ GoesTo(b, "none")
    /\ UNCHANGED <<total, delivered, failed, inserting, creating, ok, bad, inbox, up>>

\* The last counters and DONE in one transaction.
Complete(b) ==
    /\ task[b] = "sending" /\ Tried(b) = total[b]
    /\ \/ /\ SaveProgress(b)
          /\ status' = [status EXCEPT ![b] = "DONE"]
          /\ GoesTo(b, "none")
       \/ /\ GoesTo(b, "failing")
          /\ UNCHANGED <<status, delivered, failed>>
    /\ UNCHANGED <<total, inserting, creating, ok, bad, inbox, up>>

\* except Exception; it may fail too, then the task dies with its row SENDING.
Abort(b) ==
    /\ task[b] = "failing"
    /\ GoesTo(b, "none")
    /\ \/ SaveProgress(b) /\ status' = [status EXCEPT ![b] = "INTERRUPTED"]
       \/ UNCHANGED <<status, delivered, failed>>
    /\ UNCHANGED <<total, inserting, creating, ok, bad, inbox, up>>

-----------------------------------------------------------------------------
\* The process.

Crash ==
    /\ up
    /\ up' = FALSE
    /\ task' = [b \in Broadcasts |-> "none"]
    /\ inserting' = None
    /\ creating' = {}
    /\ UNCHANGED <<rows, ok, bad, inbox>>

\* Fault: every row is marked, not only those being sent.
StartMarksAll ==
    /\ ~up
    /\ up' = TRUE
    /\ status' = [b \in Broadcasts |-> IF status[b] = None THEN None ELSE "INTERRUPTED"]
    /\ UNCHANGED <<total, delivered, failed, inserting, creating, locals, inbox>>

\* lifespan: interrupt_stale_broadcasts before the first request is served.
Start ==
    /\ ~up
    /\ up' = TRUE
    /\ status' = [b \in Broadcasts |-> IF b \in Sending THEN "INTERRUPTED" ELSE status[b]]
    /\ UNCHANGED <<total, delivered, failed, inserting, creating, locals, inbox>>

Send(b) == Load(b) \/ SendNext(b) \/ PauseAndSave(b) \/ Complete(b) \/ Abort(b)

Next ==
    \/ \E a \in Admins : ListRecipients(a) \/ Refuse(a) \/ Insert(a) \/ CommitAndStart(a)
    \/ \E b \in Broadcasts : Send(b)
    \/ Crash
    \/ Start

Spec == Init /\ [][Next]_vars

\* The event loop runs the task on; Max and PostgreSQL answer, with an error at worst.
Fairness == \A b \in Broadcasts : WF_vars(Send(b))

FairSpec == Spec /\ Fairness

-----------------------------------------------------------------------------
(***************************************************************************)
(* At most one mailing is under way, however many administrators press the *)
(* button: one row is SENDING, and no task writes for a row that is not.   *)
(***************************************************************************)
OneAtATime ==
    /\ \A b, c \in Sending : b = c
    /\ \A b \in Broadcasts : task[b] # "none" => b \in Sending

(***************************************************************************)
(* What the history shows was really sent: Max wrote to at least the       *)
(* delivered ones, and a finished mailing tried everybody.                 *)
(***************************************************************************)
CountersHonest ==
    \A b \in Broadcasts :
        /\ delivered[b] <= Cardinality(inbox[b])
        /\ delivered[b] + failed[b] <= total[b]
        /\ status[b] = "DONE" => delivered[b] + failed[b] = total[b]

\* Nobody gets a mailing twice: the next recipient has not been written to.
WrittenOnce ==
    \A b \in Broadcasts : task[b] = "sending" => Tried(b) + 1 \notin inbox[b]

\* The outcome in the history never changes.
OutcomeIsFinal ==
    [][\A b \in Broadcasts : status[b] \in {"DONE", "INTERRUPTED"} =>
          UNCHANGED <<status[b], delivered[b], failed[b]>>]_vars

\* Liveness: a started task comes to its end, whatever fails on the way.
TaskEnds == \A b \in Broadcasts : task[b] # "none" ~> task[b] = "none"

\* docs/data-model.md: a mailing that fails with an unexpected error is INTERRUPTED,
\* so while the process serves, a SENDING row has its task.
SendingHasTask ==
    up => \A b \in Sending : task[b] # "none"
==============================================================================
