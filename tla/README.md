# Formal model of the support service

TLA+ modules, TLC configurations and TLAPS proofs about the ticket service of a
housing company: residents write to a bot in the Max messenger, staff answers in a
web panel, a FastAPI backend with PostgreSQL stands between them.  Every
definition of a module is translated from the code under `src/`; `PROJECT.json`
names the lines.

## 1. The system and its parts

One backend process (`src/backend/src/main.py`) serves the REST API, the panel's
WebSockets, the bot's updates and the background tasks in one asyncio event loop.
State lives in PostgreSQL (isolation READ COMMITTED) and, where noted, in the
memory of that process.  Coroutines interleave at every `await`.  The bot handles
its updates one at a time; panel requests run concurrently with it and with each
other.

| Component | State | Operations | What is hard | What makes it correct |
|---|---|---|---|---|
| Ticket rules (`ticket_rules.py`) | none | which status follows which for whom, reopening window, rating, system transitions | the window's boundary | the status diagram of the documentation |
| Ticket lifecycle (`status_service`, `message_service`, `client_ticket_service`, `ticket_service`) | `tickets`, `status_changes`, `messages`, `users.active_ticket_id` | change, reopen, rate, reply, client message, activate, mark read, create | decisions before a row lock, updates delivered twice, restarts between send and commit | history, assignee and closing time agree with the status; no decision on stale data; messages stored once |
| Status card and notifications (`notification_service`) | `status_message_max_id` | send and edit the card, status messages | edits in the wrong order, an id stored later than the ticket | the card shows the last status |
| Client chat (`bot/handlers/chat.py`, `resolution.py`, `question.py`) | the dialogue in memory | route a free message to a ticket, buttons | the choice made after the ticket was closed | a message is stored in the ticket that was chosen or refused with a word |
| Request form (`request_form.py`) | the dialogue in memory | step forward and back, confirm | restart forgets the dialogue | only complete requests are created |
| Mailings (`broadcast_service`) | `broadcasts`; counters of the task in memory | create, send, save, recover at start | several administrators, failures of Max and the database, crashes | one at a time, honest counters, nobody written to twice, final outcome |
| Accounts (`user_service`, `auth_service`) | `users`, tokens, the configured administrators | sign in, update role and block | two administrators act on each other | an administrator remains, the configured ones above all |
| Panel sockets (`ws/router.py`, `ws_manager.py`) | registry in memory | handshake, register, close, broadcast | removal of rights during a handshake | who lost the panel has no open socket |
| Events (`events.py`) and the open ticket of a panel (`StaffRealtime.tsx`, `reconnecting-socket.ts`, the query cache) | cached answers in the browser, the socket, its retry timer | publish after the commit, apply an event, read again, reconnect | events lost and reordered, readings that are out when an event comes | what the page was told to read again it shows; the chat holds each message once |
| Session of a panel (`session-store`, `SessionGate`, `api-session`, the routes) | token in `localStorage`, cached `/me`, the address | sign in by Max or by name, sign out, 401, redirects by role | answers of the session before, changes of role under the routes | the pages belong to the owner of the token; no splash for ever |
| Desk of a ticket (`StatusActions`, `pending-close`, `use-mark-read`) | dialogs, the close that waits, the time of the last mark | take, reject, close, undo, mark read | the ticket is left while something waits | a close is sent once or not at all; opening reads |
| Forms of the panel (`Composer`, `SectionEditor`, `AppearancePage`, `BroadcastPage`, `shared/lib/drafts`) | the form, its draft in `localStorage`, uploads and saves in flight | type, upload, save, send, reset, leave, reload | answers that meet a form that has changed | the draft is what is on the screen, what is sent is what is seen |
| Directories (`category_service`, `building_service`, `DirectoryCard`) | `categories`, `buildings`, the cached list | create, rename, enable, reorder | nothing is locked; a move is shown before it is answered | between 1 and 29 enabled, the order that was asked for, a card that shows the server's list |
| Insights (`insights_service`) | cache and running request in memory | read, refresh | several dashboards at once | one request to the model per period |
| Files (`file_service`, storage provider) | `files`, the storage | store, attach | a failed commit after the write | attached once |
| Content blocks, dashboard, users page, lists of tickets, messenger provider | single rows, none, cached answers, cached answers, none | replace, aggregate, show, show, call Max | - | - |

The parts meet in these places: the bot and the REST handlers call the ticket
services; a status change goes on to the notifications after its commit and to the
events in the background; a change of rights goes on to the registry of sockets
after its commit; mailings are tasks of the event loop that a restart forgets and
the start repairs.  A panel is a single-threaded page: its handlers, effects and answers
run one at a time, in any order the network and the person give.  Its pages share the
query cache, the token, `localStorage` and the pending close.

## 2. The modules

| Module | Models | In short |
|---|---|---|
| `TicketRules` | `services/ticket_rules.py`, `core/constants.py` | pure operators |
| `TicketContract` | the documented lifecycle | abstract specification: status diagram, one assignee, closing time |
| `TicketLifecycle` | the four ticket services over the tables | one action per piece of a handler between two awaits |
| `TicketLifecycleProofs` | - | theorems of `TicketLifecycle`, among them the refinement of `TicketContract` |
| `Broadcast` | `BroadcastService`, its repository, the start of the process | one action per await of the task |
| `BroadcastProofs` | - | theorems of `Broadcast` |
| `Accounts` | `UserService`, the dependencies, the WebSocket endpoint and `ConnectionManager` | updates against sign-ins, handshakes and deploys |
| `AccountsProofs` | - | theorems of `Accounts` |
| `PanelRealtime` | socket, events and cached queries of one ticket on one panel | one action per callback, answer, or event |
| `PanelRealtimeProofs` | - | theorems of `PanelRealtime` |
| `SessionContract` | what the pages are promised by the session | abstract specification: somebody comes, goes, and only then another one comes, but for a sign-in that was left behind |
| `PanelSession` | one tab: token, `/me`, sign-in, routes | one action per effect, answer, click or redirect |
| `PanelSessionProofs` | - | theorems of `PanelSession`, among them the refinement of `SessionContract` |
| `TicketDesk` | the buttons of a ticket, the delayed close, the read mark | extends `TicketRules` for the transitions a button offers |
| `TicketDeskProofs` | - | theorems of `TicketDesk` |
| `PanelForms` | composer, sections, theme, broadcast with drafts, uploads and saves | one machine for the four kinds, each with its own rules where they differ |
| `PanelFormsProofs` | - | theorems of `PanelForms` |
| `Directory` | `CategoryService` and the card of the panel | one action per statement of the service, per handler of the card |
| `DirectoryProofs` | - | theorems of `Directory` and of the order of its table |
| `MC...` | - | symmetry sets for TLC |

### TicketLifecycle

A request is a record in `req` with a program counter: `started`, `checked` (it has
read rows without a lock), `sent` (Max took the message), `locked` (`SELECT ... FOR
UPDATE` returned) and `committed`.  `rowLock[t]` is the request whose transaction
holds the row of ticket `t`.  The actions follow the handlers:

| Code | Actions |
|---|---|
| `StatusService.change_by_staff` | `LockForChange`, `CommitChange`, then `NotifyClient` in its own transaction |
| `StatusService.reopen_by_client` and `handle_resolved_no` | `LockForReopen`, `CommitReopen`, `ReopenThenActivate`, `CheckActivate`, `CommitActivate` |
| `StatusService.rate` | `CheckRate`, `CommitRate`: no lock |
| `MessageService.send_staff_message` | `CheckReply`, `SendReply`, `LockForReply`, `CommitReply` |
| `MessageService.add_client_message` | `CheckDuplicate`, `LockForMessage`, `CommitMessage` |
| `ClientTicketService._create_ticket` | `CommitCreate` |
| `TicketService.mark_read` | `StampRead`, `CommitRead` |
| the process | `Restart` at any moment: requests are forgotten, locks freed, uncommitted work lost |

`messages` remembers who wrote and which Max id the message has, `history` the rows
of `status_changes`.  Time is a counter; `ReopenWindow` and `MaxTime` are constants.

What the abstraction leaves out, and why it may:

- A transaction that is refused under its lock frees the row in the same step: no
  other request can tell the moments apart.
- The stamp of a locked request is taken with the lock; the code takes it a few
  lines later without an await on anything another request changes.
- The UPDATE and the COMMIT of a handler are one step: the row is locked between.
- `history` and `messages` are in the order of the commits.  The code orders them by
  `created_at`, the start of the transaction, which may differ; see the hazards.
- Client messages without a Max id, files, phones, residences and texts.
- Each panel request may come from any member of staff in any staff role: a role can
  change between two requests.

### Broadcast

A row is `None` until its INSERT commits.  `inserting` is the request that holds the
partial unique index over SENDING rows: another INSERT waits for it and is then
refused.  `task` is where `run_broadcast` stands, `ok` and `bad` its locals, `inbox`
the recipients that Max really wrote to, which the process cannot see after a
timeout.  Every await of the task may fail; `Abort` is the `except` branch, which may
fail as well.  `Crash` forgets the tasks, `Start` is `interrupt_stale_broadcasts`.

### Accounts

An update is authorized (`Authorize`), reads its target and checks (`Load`), writes
the columns that differ from what it read (`Commit`: this is what the ORM's UPDATE
holds) and then closes sockets (`Answer`).  A handshake is checked (`Handshake`) and
enters the registry after two awaits (`Connect`).  `Sync` is `sync_from_max`, taken
as one step.  Which users hold a token is left open, so any known user may act.
`close_user` takes a user's sockets out of the registry without an await in between;
the closing frames that follow change nothing here.  `late` is a history variable.

### PanelRealtime

A query of TanStack Query is a record: its data, its request (`sent` until the server
reads, `read` until the answer is in), its error and whether it is invalidated.
`Invalidated`, `Joined`, `Written` and `Mounted` say what the library does and are marked
external; the rules that matter are that an invalidation cancels a request that is out,
except the very first one, which is joined, and that an answer replaces the data whole.
Events are a set: each is sent by a task of its own, so any may arrive next, and a socket
that drops takes the rest with it.  `due` is history: how far each query has been told to
go while it was on the page with data.  The server is reduced to a number of messages and
a version of the ticket.

### PanelSession

`owner` and `alive` are the server's tokens, `calls` the tokens of requests in flight, so
that an answer 401 may belong to a session that is gone.  A sign-in belongs to the form or
the gate that is mounted (`login`): its buttons wait for the answer, but the form goes with
its page (`FormGoes`), the next one starts anew, and the sign-in that is out goes on
(`left`) and starts its session whenever it is answered (`LeftAnswered`).  `over` is
history: a session was started over another one and nothing has cleared the cache since.
Administrators change roles at any moment, so each answer about a user tells any role.  `Gate` is
`resolveSessionState`, `Section` what the shell shows at `path`, `Redirect` the three
components that navigate.  `SignedIn` is the user of the pages and is mapped to `user` of
`SessionContract`.  In Max a tab signs in by itself, in a browser a person does.

### TicketDesk

The status and the role behind a button are chosen anew at each press: colleagues move
the ticket at any moment, and the server decides by `TicketRules`.  `closes` is the
history of every close; `pending`, `timers` and `failure` are the module-level state of
`pending-close.ts`.  The unread messages are those from before the opening and those
after it.

### PanelForms

One form at a time, of any of the four kinds.  A text is a number that was never typed
before, 0 is the blank one: whoever typed it, a text is known wherever it turns up.  The
image stands for the photo, the logo or the files.  A form that starts from a saved value
is keyed by it, so `Render` mounts it anew when another value is cached, and everything
in flight then reports to nobody (`Detached`).  A save goes `sent`, `stored`, for a
section `reread`, and `over`; `deaf` is one whose page was reloaded.

### Directory

A request of the service holds what its session has read (`seen`), since the ORM writes
only the columns that differ from that.  None of the reads locks.  The other
administrator has no card here: what that card shows is the server's list.  A connection
may be lost at any stage: the card is told of an error, and a request that has reached the
server goes on there for nobody (`Fails`, then `OtherIsDone`).  `since` is history: the
lists the server had since the card was last told to read, and a reading already on its
way then that the telling does not replace (`Told`).

Ids count up, and no category is ever deleted, so the table is filled once: `SpareId` lets
a creation start only while every creation on its way finds an id.  From one category of
three, two creations can be on their way at once; they may both pass the count, overshoot
the limit, and share a `sort_order`.

## 3. The runs

All runs name every bound in their cfg.  Deadlock checking is off where the system may
come to rest - the bounds are used up, nobody starts a request - and on in
`dr_directory`, where a page can always be opened or left.

| Run | Instance | Question |
|---|---|---|
| `lc_safety` | 1 ticket, 1 client, 2 staff, 2 panel requests beside the bot, clock 0..1, 5 transactions | all interleavings of three requests over one row, with restarts: `SnapshotHolds`, `HistoryTellsStatus`, `ReactedOnce`, `AssigneeKept`, `ClientIsHeard`, `MessageIsUnread`, and the refinement `ImplementsContract` |
| `lc_two` | 2 tickets, 2 clients, 1 staff, 1 panel request beside the bot, clock 0..1, 5 transactions | `ActiveTicketIsOwn`, `MessageStoredOnce`, `ClosedAtTellsClosed`, `ClientReopensInTime` with a window of length 0 running out |
| `bc_safety` | 2 administrators, 2 mailings, 3 recipients, counters saved every 2 | `OneAtATime`, `CountersHonest`, `WrittenOnce`, `OutcomeIsFinal`, and under fairness `TaskEnds` |
| `ac_safety` | 2 users, 2 updates, 1 socket | `RemovedAreCut`, `LastAdminGoesByRaceOnly`, `ConfiguredAdminStays` |
| `rt_safety` | the messages and the detail of a ticket, 2 messages, 1 change, 1 break | `ChatIsTrue`, `ShowsWhatItIsOwed` |
| `ss_session` | 2 users, 3 tokens, 2 sign-ins out at once, a panel opened at a ticket | `MeIsOwner`, the refinement `PagesKeepTheirUser`, and under fairness `GateSettles`, `EveryoneLands` |
| `dk_desk` | 2 tickets, 2 closes | `TimerIsOfPending`, `OpeningReads`, `ClosesOnce`, and under fairness `EveryCloseEnds` |
| `fm_forms` | each of the four forms, 2 texts, 1 image, 2 requests, another save after the first | `StoredAsShown`, `SendsWhatIsShown`, `ShowsWhatItSaved` |
| `dr_directory` | 1 to 3 categories at the start and room for 3, 3 titles, 2 requests at once, 2 in all, a limit of 2 | `ShowsWhatItChanged`, `RulesBreakByRaceOnly`, `OrderIsAsked` |

Why the bounds are enough to mean something: a ticket's row couples requests only
through its lock, so three requests give every pairwise race and one bystander; five
transactions are create, take, end, reopen and one more.  Three recipients with a save
every two give a save in the middle and a last partial one; two mailings give the
admission race and a mailing after an ended one.  Two users and two updates are what it
takes to demote each other.  Two messages can be swapped, one break loses an event and
brings the rereading.  Three tokens are a session that ends and two sign-ins that are out
at once, two users tell whose answer it is.  Two closes are the one that waits and the one that replaces it.
Two texts are one that is on its way and one that is typed after it; two requests are a
save and the next.  Three categories with a limit of two have a full directory, one that
can be switched, and an order to disagree about; two requests are one race.  What must
hold for larger values is proved (below) where the prover reaches.

Fairness.  `Broadcast` assumes weak fairness of each task's next step only: the event loop
resumes every ready coroutine, Max and PostgreSQL answer (an error is an answer), and
nothing takes turns with the task.  `PanelSession`
assumes weak fairness of the effects (the sign-in of Max, the question for `/me` of a gate
that knows nothing yet, the redirects) and that a request is answered or fails, so that a
tab without a network gets it back at last; `TicketDesk` that the timer fires and
that a request is answered or fails.  Nothing is assumed of users, of the clock, of
restarts, or of the order of answers; `GateSettles` excepts a tab that is reloaded for
ever.  Nothing is claimed of the liveness of `TicketLifecycle`: a request locks one row and
holds no other, so that none waits for ever would only restate that PostgreSQL is fair.

### Where the documentation and the code disagree

Each is a run that TLC ends with a counterexample.

| Run | Said | Done |
|---|---|---|
| `lc_late_reply` | `docs/product.md:64`: one can only write to an open ticket | the reply is checked before it goes through Max, and not again under the lock |
| `bc_stuck` | `docs/data-model.md:218`: a mailing that fails is INTERRUPTED | a failure before the `try`, or inside `except`, leaves SENDING until the next restart, and every new mailing is refused |
| `fm_upload` | `RichTextField.tsx:189`: the form remounts the field, so its initial value is enough | `ImagePicker.tsx:44` calls the `onChange` of the render in which the file was picked; `SectionEditor.tsx:182` spreads that render's draft, so the text typed during the upload leaves the draft and stays in the editor |

Seen while modelling and not given a run: the rating is checked without a lock and may
land on a ticket in progress (`docs/ticket-lifecycle.md:61`); two administrators who
demote each other at once both succeed (`docs/architecture.md:160`;
`LastAdminGoesByRaceOnly` says that only this race does it); a handshake that passed its
check before a demotion enters the registry after `close_user`
(`docs/architecture.md:168`; `RemovedAreCut` excepts it); a message that was sent after
its ticket was left stays as a draft (`docs/architecture.md`, "Черновики"); the limit of 29
and the last enabled category are counted without a lock, so two requests at once pass the
limit or leave the bot nothing to offer (`docs/product.md:85`; `RulesBreakByRaceOnly` says
that only a request overtaken since its count does it); a mark whose time was taken after
that of a message (`ticket_service.py:87`), and whose UPDATE waits for the row until the
message is stored, hides it: the badge of `docs/data-model.md:112` is out for a message
that nobody may have seen (`MessageIsUnread` speaks of the moment the message is stored,
and says that no earlier mark hides it).

Two more are seen in the panel and contradict no document.  A sign-in by name whose form
was left (back from the login page, then the gate's new form, `DevLoginForm.tsx:11,33`)
is answered over the session of the second one, and `use-start-session.ts:11` puts the
user into a cache that holds the pages of the other: `PagesKeepTheirUser` and `MeIsOwner`
except what such a sign-in brings (`over`, `left`), and nothing else.  And `refresh`
(`use-directory.ts:39-43`) joins the first reading of the list, and only marks the list of
a page that was left, a mark that a reading already on its way clears with its answer: the
card may then show, without an error, a list from before the change it has just been told
of, until it is read again for another reason.  `ShowsWhatItChanged` allows exactly that
reading beside the lists the server had since.

## 4. The theorems

Proved by TLAPS for every value of the constants that satisfies the named assumptions
of the modules (`LifecycleAssumption`, `BroadcastAssumption`, `PanelRealtimeAssumption`
and so on): the bounds are any natural numbers, the sets any sets, with `None` outside of
them and clients not being staff.

**`TicketLifecycleProofs`**, types and snapshots - `TypeCorrect`, `SnapshotsHold`.  The inductive invariant is
`IInv == TypeOK /\ (\A p : WellFormed(p)) /\ SnapshotHolds`.  `SnapshotHolds` alone is
not inductive: that a request's snapshot survives the steps of others needs that every
change of a row is made by the request that holds it, or that inserts it, and the latter
is known from `WellFormed` (only `create` works on a row that is not there, and only the
bot creates).  The lemma `LeavesOthers` says this of each step.

**`TicketLifecycleProofs`**, status and history - `HistoryAlwaysTells`, `ClosedAtAlwaysTells`,
`AlwaysReactedOnce`, `AssigneeAlwaysKept`, `LifecycleImplementsContract`.  Lemma
`NextMoves`: from `IInv`, each step either leaves status, assignee, closing time and
history of all tickets alone (`Still`) or is one `Move` of one ticket along an edge of
the status graph.  Everything else is an induction over moves.  The reaction needs the
strengthening `ReactionInv`: a ticket in NEW has no reaction yet and no assignee, and
one that is past NEW never comes back to it because no edge leads there.  The refinement
maps every move to an action of `TicketContract` and every other step to a stutter.

**`TicketLifecycleProofs`**, the client - `ClientAlwaysReopensInTime`, `ActiveTicketAlwaysOwn`,
`MessageAlwaysStoredOnce`, `ClientAlwaysHeard`, `MessageAlwaysUnread`.  Lemma `StepPasses` says of a request of
the bot which check it has just passed, `OthersStay` that a step leaves the requests of
others alone.  A reopening commits on what it checked because only the holder of the row
writes it (`HolderWrites`).  The others are inductive with one fact more each: a ticket
has one owner from its registration on and a chosen ticket is the client's (`OwnInv`); the
message about to be stored is not there yet, which no other step disturbs because the bot
is serial and staff's messages have no Max id (`OnceInv`); and the chat was never marked
read later than the stamp of a message whose request holds the row (`SeenInv`).

**`AccountsProofs`** - `AccountsTypeCorrect`, `ConfiguredAdminAlwaysStays`,
`LastAdminAlwaysByRace`, `RemovedAlwaysCut`.  An update is checked long before it commits,
so `Allowed` carries the check with the request: it still holds, since only a restart
changes the configuration and a restart forgets the requests.  `CommitWrites` says that a
column only changes to what was asked for.  `RemovedAreCut` is inductive together with
the same statement about handshakes (`HandshakesAreCut`), and because whoever loses the
panel loses it by a commit that will close the sockets (`LossRemoves`).

**`BroadcastProofs`** - `BroadcastTypeCorrect`, `AlwaysOneAtATime`, `AlwaysWrittenOnce`,
`CountersAlwaysHonest`, `OutcomeAlwaysFinal`.  The invariant joins `Admission` (at most
one SENDING row; none beside an uncommitted one; nothing runs in a stopped process) with
`RowFits`, per mailing: a task runs for a SENDING row only, its counters never fall
behind the row's, `inbox` holds recipients it has tried.  `OneAtATime` needs both: it
fails to be inductive without the clause about `inserting`.  `CountersHonest` compares a
number with the size of a set, so `Counted` (`ok[b] <= Cardinality(inbox[b])`) is carried
separately; a delivery adds a recipient that `RowFits` says was not in it.

**`PanelRealtimeProofs`** - `PanelTypeCorrect`, `ChatAlwaysTrue`,
`AlwaysShowsWhatItIsOwed`.  The invariant is `Frame` (the types of everything but the
queries), `PostIsStored` (a mutation that is done names a stored message or version),
`OffShowsNothing` (nobody observes a query of a ticket before the shell is there) and,
per query, `Fits`: its data and the answer on its way are values the server has had, and
either the data covers what is due, or a request is out that will be read after the
event, or the query is in error.  `ShowsWhatItIsOwed` is not inductive alone because an
answer that was read too early may arrive: `Fits` says that such an answer was cancelled.
One lemma per operator of the cache (`Invalidated`, `Joined`, `Written`, ...) shows that
it keeps `Fits`; the steps only compose them.

**`PanelSessionProofs`** - `SessionTypeCorrect`, `MeAlwaysOwner`,
`SessionImplementsContract`.  `MeIsOwner` needs two more facts: an answer to `/me` that is
on its way belongs to the token in the store unless a session was started over another
one (`OverIsSeen`; `Forget` drops the others), and in Max, where no form is ever left, a
sign-in is only out while there is no token (`SignsInApart`).  The refinement follows
by saying whom the pages are shown to (`WhoIsShown`): while no such sign-in is
out or came over this session, no step changes them from one person to another
(`ShownStays`), and none leaves a sign-in behind while they are shown (`NoneIsLeft`).

**`TicketDeskProofs`** - `DeskTypeCorrect`, `TimerAlwaysOfPending`, `OpeningAlwaysReads`,
`EveryCloseOnce`.  The invariant adds `PendingIsKept` (the close that may be undone is
recorded as pending, and no other is) to `TimerIsOfPending`; `ClosesOnce` follows step by
step, since a close is sent from `pending` only.

**`PanelFormsProofs`** - `FormsTypeCorrect`, `AlwaysSendsWhatIsShown`,
`AlwaysStoredAsShown`, `AlwaysShowsWhatItSaved`.  The type invariant is split into the
parts that the steps change together (`Whole`, `Cached`, `Mounted`, `Held`, `Drafted`,
`Sent`).  It is not inductive alone.  That at most one save can still answer the form is
kept because a save leaves only when no other one is out.  The number of
images stays within its bound because an upload on its way has room for one: `UploadFits`.  The server counts the values it
stores, and that this stays within its bound needs `Counted`: each save that may still
reach it has its number reserved.  `ShowsWhatItSaved` needs `RereadIsSaved` and
`RereadIsLate`: what is read while a section waits for its own save was asked for after
the save was answered, because the reading that was out before was cancelled.  The other
two go step by step on top of the invariant.

**`DirectoryProofs`** - `DirectoryTypeCorrect`, `RulesAlwaysByRace`,
`OrderIsAlwaysAsked`, `AlwaysShowsWhatItChanged`.  The order of the table is defined by
choosing, for each place, the row with that many rows before it.  `RanksDiffer` and
`RanksCover` show that the choice exists and is unique (the ranks of n rows are n different
numbers below n), `OrderIsOnly` that a list which ranks the rows is the order; the largest
`sort_order` exists because the numbers are well founded.  The inductive invariant is
`Fits`: the rows that a session holds, a request names, or a list shows are in the table
(none is ever deleted), each check of a request still stands (`Passed`: what it has
counted, which row it has read, that a reorder names each row once), and no order is
larger than the number of rows, in the table or in what a session has read (`OrdersFit`),
so that a creation gets an order within the bound.  `RulesBreakByRaceOnly` compares the
count that `Passed` speaks of with the number at the commit: equal unless the request was
overtaken, and one commit adds or removes one category at most.  `OrderIsAsked` follows
from `RenumberedInOrder` (writing only the positions that differ from those read gives
every id the order of its place, whatever rows were created meanwhile) and, if none was,
from `RenumberedIsAsked`: the k-th id has exactly k - 1 rows before it.
`ShowsWhatItChanged` needs `Owed`: what has
been read, and what is shown unless it is marked as stale or a move is under way, is in
`since`; a page that holds a stale list reads again or shows an error.

Of the properties of the passing runs only liveness is model-checked alone:
`TaskEnds`, `GateSettles`, `EveryoneLands` and `EveryCloseEnds`, which
rest on fairness and ENABLED, out of the prover's reach.  The three runs that expect a
violation show counterexamples, and have no theorem.  No module uses recursive operators,
and no proof needs an induction over data: the one place that ranks a table counts sets.

## 5. Not modelled

- The bot's dialogues (`chat.py`, `request_form.py`): memory of one user, one update at a
  time.  What they start is in `TicketLifecycle`.
- The status card: its id is stored by a later transaction than the ticket.
- The cache of the insights, and the texts of the language model.
- Files: stored, attached once by the bot, which is serial.
- Dashboard, users page, list of tickets, timeline of the chat, card of the resident:
  rendering of cached answers.  What the dashboard assumes of the history is `ReactedOnce`.
- Buildings: the code of the categories without the order.
- Templates, layout, logging, the seed script.
- Max, PostgreSQL and TanStack Query are present through what the code sees of them.

## 6. Plan

1. `StatusCard`: `status_message_max_id` is stored after the ticket and read again for
   each edit.  Abstract specification: the card shows the last status (expected to fail
   where an edit overtakes another or finds no id).
2. `InsightsCache`: shared requests per period, forced refreshes that fail.
3. `ClientChat`: the dialogue that waits for the choice of a ticket while staff closes it.
