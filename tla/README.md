# A formal model of the boring stack

TLA+ modules that model the behaviour of this repository's Go server, TLC
configurations that check them on small instances, and TLAPS proofs of what
matters most for instances of any size. References of the form `app.go:148` are
to `internal/server/app.go`, `memory.go` to `internal/realtime/memory.go`,
`todos.sql.go` to `internal/db/todos.sql.go`.

## The system

Browsers load a page, send small commands (`POST /todos`, `POST
/todos/{id}/toggle`, `DELETE /todos/{id}`, `POST /demo/seed`, `POST
/jobs/snapshot`, `POST /demo/pulse`) and hold one SSE stream (`GET /stream`).
A command changes PostgreSQL in one transaction, then publishes a nudge on a bus;
every stream handler that hears the nudge reads the database and sends a complete
snapshot of the panels; the tab swaps it in. Nothing but the database is durable.

| component | state | operations | talks to |
|---|---|---|---|
| `realtime.MemoryBus` | map of channels under an `RWMutex`; per subscription a channel of 16, a `done` channel, a `sync.Once` | `Publish`, `Subscribe`, `unsubscribe` (from the stream's `defer` or from the watcher goroutine) | called by request handlers, jobs and streams |
| todo commands (`app.go:204-409`) | rows of `todos`, `app_events`, `river_job`; open transactions with their row locks; the pool's connections | create, toggle, delete, seed, enqueue, pulse | PostgreSQL, then the bus |
| live view (`app.go:140-202, 392-545`, `home.templ`) | where each handler is, what it has read, what is on the wire, what each tab shows | publish, stream, snapshot, answer, swap | bus, database, browser |
| `realtime.NATSBus` | connection, subscriptions | publish and flush, subscribe and flush, drain and close | NATS |
| `jobs.SnapshotWorker` and River | job rows with their attempts; what each worker does | fetch, count, insert an event, publish, write the outcome, rescue | database, bus |
| lifecycle (`cmd/server/main.go`) | context, server, River client, bus, pool | start, signal, shutdown, deferred calls | all of the above |
| migrations and readiness (`cmd/migrate`, `readyz`) | version tables, schema, rows | Goose, then River; `readyz` | database |
| the page (`ui/home.templ`, answers of `app.go:411-507`) | composer, three panels, requests under way | press, answer, swap, navigate | handlers, htmx, stream |
| pure functions | none | `writeSSE`, `validateTodoBody`, forwarded headers, configuration | – |

### What is hard about it, and what makes it correct

* **Bus.** Publishers range over a map that two goroutines per stream write.
  Correct: the map never changes under a range loop; `done` is closed once; a
  channel is in the map exactly while its stream lives; a publisher is never
  blocked by a stream; it offers its event to everyone who was registered.
* **Commands.** Requests overlap in the database, wait for row locks and for pool
  connections, fail at any statement, lose their client in the middle, and may be
  told of an error although they were committed. Correct: each command acts as
  one indivisible step with exactly one event; the events of a todo, in the order
  of their numbers, are a possible life of that todo; a job is there exactly when
  its event is; answers are true; every request ends.
* **Lifecycle and jobs.** SIGTERM, a failed step or a crash may come at any point;
  streams live as long as their clients, jobs are cut off and tried again.
  Correct: nothing is closed while it is used; a process that is told to stop
  comes to its end; a job that counts as completed has told the feed so.
* **Migrations.** Two migrators may run at once, each may be cut off between two
  transactions, and servers accept todos meanwhile. Correct: the version table
  tells what the database accepts; no accepted row stops a later migration; no
  constraint refuses what Go accepts; a server of a new database that says it is
  ready has all of the app's migrations.
* **Page.** Answers arrive when the elements they are for may be gone; buttons are
  pressed twice; bodies hold any line end. Correct: ids stay unique; what is shown
  is whole and agrees with itself; an error is the latest verdict; a form that only
  htmx sends makes one todo, unless a failure was reported; nobody else erases what
  is being typed.
* **Live view.** Events are dropped when a mailbox is full, snapshots are read in
  two queries without a transaction, streams break and reconnect, answers and
  snapshots reach a tab over different connections. Correct: no stream is ever
  left behind in silence; all tabs come to show every published change; no answer
  takes a tab back in time, and its stream only past an answer it shows.

## Modules

| module | models | role |
|---|---|---|
| `Fanout` | what `realtime.Bus` promises | abstract specification |
| `MemoryBus` | `memory.go`, one action per critical step of each goroutine | implements `Fanout` |
| `NATSBus` | `nats.go` over the client library and the server | breaks, reconnection, shutdown |
| `TodoLedger` | what the list and its feed promise | abstract specification |
| `TodoStore` | the commands of `app.go`, statement by statement | implements `TodoLedger` |
| `LiveView` | requests, streams and tabs over `Fanout` | composes with `Fanout` (EXTENDS) |
| `ServerLifecycle` | `cmd/server/main.go`, `jobs/snapshot.go`, and handlers as far as a shutdown is concerned | start-up, signal, exits, jobs |
| `Migrate` | `cmd/migrate/main.go`, the migrations, `readyz`, `validateTodoBody` | migrators, servers, one database |
| `Page` | the answers of `app.go` and the elements of `home.templ` in one tab | one tab and its server |
| `Framing` | `writeSSE` and what `EventSource` makes of it | operators, used by `Page` |
| `MemoryBusProofs`, `NATSBusProofs`, `LiveViewProofs`, `TodoLedgerProofs`, `TodoStoreProofs`, `ServerLifecycleProofs`, `MigrateProofs`, `PageProofs` | – | theorems |
| `MCNATSBus`, `MCTodoStore`, `MCLiveView`, `MCMigrate`, `MCPage` | – | instances and symmetry for TLC |

`LiveView` uses the bus only through `Fanout`'s actions (`LiveViewProofs!UsesTheBus`
proves `Spec => FanoutSpec`), and `MemoryBus` is proved
to implement `Fanout`, so what `LiveView` shows holds over the in-process bus. In the
same way `LiveView` sees a commit as one step that increments a counter, and
`TodoStore` shows that commits are indivisible. `ServerLifecycle`, `Migrate` and `Page`
look at parts that meet the others in one point only: `ServerLifecycle` sees a
handler as something that uses the pool and the bus, `Migrate` the creation of a
todo as an insert that constraints may refuse, and `Page` every read of the todos
as anything they may have become.

### MemoryBus

Threads are publishers (any request handler or job) and, for each subscription,
the stream handler and the watcher of `memory.go:63-69`. `readers`, `queued` and
`writer` are the `RWMutex`: a writer first claims it (`Lock`), which keeps new
readers out, then waits until `readers` is empty (`HoldsLock`); `Unlock` lets in
the readers that queued meanwhile, as Go's does. `closes` counts how often `done`
was closed, up to 2, so that a second close is a state and not a crash. A mailbox
is the number of its events: each is the same nudge, and a stream never looks
inside. `ContextAfter` is net/http's rule that a request's context ends when its
handler returns.

### NATSBus

The same interface over a server that several processes share. A connection is
two queues: `out`, the commands the server works off in order, and `inbox`, what
it sends back. `flush` is a ping whose pong comes after everything sent before it.
Publication and ping are two steps of the caller, so a break can come between:
the event is lost, the ping is kept for the next connection, and `Publish` returns
nil. While a connection is down, publications and pings are kept and subscriptions
are not; `Reconnect` renews all that exist before what was kept is sent. `GiveUp`
is the client library's end after sixty attempts, from which the program does not
recover. `Callback` is the `select` of `nats.go:60-66`, whose cases may be ready
together. `Drain` is the start of `Close`; its time limits are not counted, so
`CloseReturns` may come at any time, and a publication is refused or not while it
lasts. `since` and `heard` are history variables for the properties.

The client library and the server are not in the repository: they are modelled
from how `nats.go` uses them. The order of messages pending for one callback is
left out, as all are the same nudge. The buffer of a connection that is down is
unbounded here. `NATSBus` does not implement `Fanout`: an event may be lost between
processes, and a callback may put one into a channel whose stream has left. What it
keeps is `NothingUnheard`, which is what `NoSilentStaleness` of `LiveView` rests on,
as long as connections hold.

### TodoStore

One process per request. `Begin` takes a connection, the statements change
`touched`, `target`, `entry` and `job` (the transaction's private writes), and
`Commit` applies them at once. `RowFree` is PostgreSQL's row lock: under READ
COMMITTED an `UPDATE` or `DELETE` waits for the lock and then looks at the row as
committed. `nextEvent` is the `bigserial` of `app_events`; a number is consumed
whatever becomes of the insert. `StatementFails`, `BeginFails` and `CommitFails`
are the error paths. `Abandon` is a context or connection that ends under a
statement: the handler answers 500 and pgx discards the connection, but the
server's transaction (`orphan`) is still there with its locks, and if the commit
was already sent it may still take effect (`OrphanCommits`). The body of a todo is
one of the showcase items or "typed"; `Refuse` stands for every outcome of form
parsing and validation, and for River not being there.

The database starts as the migration leaves it, with some todos no event created;
the one event the migration inserts is about no todo and is left out.

### LiveView

`db` counts commits; a snapshot is a pair: how many commits the read of the todos
saw and how many the read of the feed saw. A request commits, publishes on its own
goroutine (`publishChange` drops the cancellation, so it always ends) and may
answer with a snapshot it reads after publishing. `CommitUnannounced` is the
commit whose handler was told of an error: it publishes nothing, and the commit is
recorded in `lost`. A stream joins the bus, reads, writes, and then reads and
writes once per event. `MayReturn` covers failed reads, writes to a client that is
gone, the end of the context and the shutdown of streams, which may come at any
time. A heartbeat changes nothing but may discover a gone client, which `MayReturn`
allows anyway. A tab has at most one open `EventSource`; when it breaks, the tab may
connect again while the old handler is still running. A page begins with the blank
snapshot, the oldest there is, so that whatever it shows later must have come from
its stream or an answer.

Requests are modelled as htmx 2.0.10 (the version that is vendored) treats them.
Every snapshot replaces the panels, and so the toggle and delete buttons in them;
htmx looks for the panels of an answer in the tree of the button that asked, and
when that button has been replaced (`lapsed`) finds none: the answer is dropped
(`DropAnswer`). The form is in the composer, which no snapshot replaces, and its
answers are always shown.

### ServerLifecycle

`proc` is what `main` has set up and does next, one action per call; `Exit` is a
crash or `must`, which runs no deferred call and keeps only the database, and
`Restart` the supervisor that starts the next process. `Deferred` is the reverse
order of the `defer` statements. `StreamsToldToStop` is the context that
`App.Shutdown` ends before `http.Server.Shutdown` waits for the handlers; a stream
sees it only in its `select`, and a client that reads no more (`Stall`) can hold it
in a write, as the server has no `WriteTimeout`. The two limits of ten seconds are
actions that may come at any time, and `StopsByItself` checks that they are not
needed. `work` is `SnapshotWorker.Work` of each job, one action per query or publish;
River itself is external: it fetches a job by marking it, writes the outcome, tries
again and rescues what a dead process left marked. The context given to River ends
with SIGTERM, so a job can be cut off between its event and its outcome and its
event comes twice: `CompletedIsRecorded` bounds the events by the attempts.

### Migrate

A migrator lists what is not in the version table and applies it one transaction at
a time. Nothing keeps two migrators apart: no session lock is asked for, and the
version table has no unique constraint. The schema is the set of the tables and
constraints there are. `Applies` says when PostgreSQL lets a migration through.
A body is a short sequence of letters, spaces, tabs and what no text of the database
may hold (a NUL, bytes that are not UTF-8). Go's `TrimSpace` and SQL's `trim` differ
then, and `validateTodoBody` lets pass what is no text (`IsText`): PostgreSQL refuses
that whatever the constraints say, and the handler answers 500. `NoConstraintRefuses`
is therefore about the constraints. `SeedAssumption` says that the texts `00001_init.sql` inserts are
ones the handlers would accept, as they are.

The model shows a race that no test reaches: a migrator that has listed the second
and third migration can, after another one has applied both, apply the second
*again*, which brings back the constraint that the third replaced, and then fails
at the third. `VersionsTellSchema` therefore speaks of what the constraints accept and
not of which they are; the schema is not what its version says, but behaves so.

### Page and Framing

The page is its composer (text being typed, error, how many todos its form has
created, whether the browser has posted it, whether htmx was told of a failure), its
panels, and how often each id is in it. A request remembers which
elements it belongs to: `gone` when its button was replaced, `stale` when the composer
it was to replace was. `Arrive` is htmx's treatment of an answer: errors replace
nothing, a target that was replaced takes nothing, out-of-band parts are looked up
in the tree of the button, and a press that was queued behind the request is sent
if the button still is there. Without htmx (before its script has run) the form is
posted by the browser, and the answer is a redirect to the page, whose URL may carry
the error; a page is loaded again from its URL or from the link to "/". A page read, an answer or a snapshot may show any state of the todos, and
the two queries of `viewModel` may see different ones.

A text is a sequence of tokens. `Streamed` is what the browser's `EventSource` makes of
what `writeSSE` wrote, for a body with every kind of line end, a space after one and
what looks like a field after another.

Three things the model shows that no document speaks of. A second press that waits
behind a refused submission is dropped with its form, even when the text was
corrected in between. And when `viewModel` fails after `writeCreateResponse` has
written the composer, the answer is a success with "Internal Server Error" behind the
composer (`createTodo`); the text stays in the page, the panels come with the stream.
And `createTodo` inserts before it asks who sent the form (`app.go:216-239`): a form
that the browser posts before the script has run is still in the page when it has, and
pressed again it is sent by htmx and creates a second todo, with no failure in between.
`OneTodoPerForm` is therefore about forms that only htmx sends.

htmx is vendored (`web/assets/vendor/htmx.min.js`, version 2.0.10, one minified line),
and its definitions stand for functions in that line: `issueAjaxRequest` (`he`),
`handleAjaxResponse` (`Mn`), `swap` (`_e`), `oobSwap` (`He`), `swapOuterHTML` (`ke`).

## Runs

| run | instance | shows |
|---|---|---|
| `bus` | 2 publishers, 2 streams, mailbox of 1 | `ClosedOnce`, `RegisteredWhileOpen`, `NoMutationDuringLoop`, `ImplementsFanout`, `PublishReturns`, `CancelReleases` |
| `nats` | 2 processes, 2 publishers, 1 stream, mailbox of 1, 2 breaks, one process shuts down | `OpenMeansRouted`, `NothingUnheard`, `AckedHasLeft`, `EndedIsForgotten` |
| `nats_live` | 2 processes, 1 publisher, 1 stream, 1 break, shutdown | `ServerForgets`, `EveryoneHears` |
| `store` | 3 requests of all six kinds, 2 todos, 2 connections | `AuditChain`, `JobIffEvent`, `AnswersAreTrue`, `ImplementsLedger` of overlapping transactions; `LastWord` follows from the last and is proved |
| `store_live` | 3 requests (toggle, delete), 1 todo, 2 connections | `RequestsFinish` |
| `store_seed` | 2 loads of a one-item plan | `SeedOnce` is violated |
| `live` | 2 requests, between them of any kind, 1 stream, mailbox of 1 | `NoSilentStaleness`, `StreamsCatchUp` |
| `live_screens` | a toggle or delete and another change, 1 tab that connects twice | `TabsConverge`, and `ScreenNeverGoesBack`, but for the stream going past an answer, although answers and old streams come late |
| `live_answers` | 2 creates, 2 tabs | `TabsConverge` is violated |
| `server` | 2 jobs for 1 worker with 2 attempts, 1 stream, a process that stops or exits once | `ClosedIsUnused`, `CompletedIsRecorded`, `StopsByItself`, `StopsInTime`, `JobsFinish` |
| `migrate` | 2 migrators cut off 3 times, all bodies of up to 3 characters with a limit of 2 | `VersionsTellSchema`, `NoConstraintRefuses`, `ReadyMeansMigrated`, `ComesToBeReady` |
| `page` | 1 todo, 2 requests of the tab under way | `EachPanelOnce`, `StatsTellRows`, `PanelsAreWhole`, `ErrorIsLatestVerdict`, `OneTodoPerForm`, `DraftIsTheirs` |

`TodoLedger` has no run of its own: `ImplementsLedger` checks it as an abstraction of
`TodoStore`, and its properties are proved.

**Bounds and why they are enough.** The mailbox holds 1 event instead of 16: two
publishers then overflow it, also while the stream is between its two reads; the
capacity occurs only in the comparison that drops. Two publishers and
two streams give every pair of lock holders, a writer waiting for a reader, a
reader queued behind a writer, and the last subscriber leaving while another
joins. Three requests on one row give a lock holder, a waiter and a latecomer;
with two connections one of them also waits for the pool. Requests, publishers
and subscriptions happen once each, so a behaviour ends; `Finished` lets it stutter
then, and deadlock is checked everywhere. `RoomFor` keeps creating requests from
outnumbering the ids that are left, `EventIds` has a number for every request,
and `MaxInFlight` bounds the snapshots on one wire, a longer write blocks.
One exit (`MaxExits`) makes a process die at every point of its life, and the next
one serve on; the last process is not stopped, or jobs might never be worked on.
With two jobs and one worker a job waits behind another that is cut off, and two
attempts are what it takes to see one used up. Three migrations and three cuts let a
migrator fail between any two transactions while the other is anywhere; bodies one
character above the limit decide every comparison of lengths. Two requests of a tab
are enough for one whose elements the other takes away, and a slot is used again, so
a third submission meets the late answer to the first; the todos are read as
arbitrary values, so one is enough for the numbers to be wrong.
Symmetry is used where requests, ids or whole tabs are interchangeable and no
liveness is checked.

**Fairness.** Goroutines that can run do run (weak fairness of handlers, publishers,
watchers). The NATS server and its client library run, and a broken connection comes
back or is given up. Acquiring a mutex is strongly fair: Go's mutexes hand over to a waiter.
The pool and PostgreSQL's lock queues serve in order, and requests are finitely
many, so weak fairness suffices there; PostgreSQL ends the transaction of a lost
client. In `ServerLifecycle` a stream that can both be woken and told to stop comes to
choose the latter (strong fairness: Go's `select` is random), a process that exits is
started again, and the time limits are assumed to run out only where a property says
so (`TimeLimits`). Migrators run, and one that failed is run again. A tab shows what has
arrived (weak fairness of `ShowStreamed` and of `ShowAnswer` or `DropAnswer` in
`LiveView`): its browser runs. A stream reads its channel in `NATSBus` (`Receive`) and
in `LiveView`, being a goroutine that can run; `MemoryBus` assumes not even that, so
that `PublishReturns` cannot rest on it. No fairness is assumed of what people do
(requests, leaving, typing), of a tab's connecting again, or of errors.

**Two places where the documentation says more than the code does.**

* *Loading the sample plan is idempotent* (README.md:102). `seedShowcase` lists the
  todos and inserts the items it did not see. Two overlapping loads both list
  before either commits, and nothing in the schema stops the second: the plan is
  there twice (`store_seed`). One after the other it is idempotent, which is what
  the integration test does.
* *Both tabs converge* (README.md:108). They do as long as only streams and the
  answers to toggles and deletes bring snapshots (`live_screens`): when a snapshot has
  come over the stream, the button of an answer that is still on its way is gone, and
  htmx drops the answer. But the answer to a create is also a snapshot, and the form
  it belongs to is still there. If it is rendered before another tab's commit and
  arrives after the stream's snapshot of it, the tab stays behind until the next
  change (`live_answers`). `ScreenNeverGoesBack` fails for the same reason there, and
  so is checked without creates.

## Proofs

The theorems hold for any sets of requests, todos, streams, tabs and jobs, any mailbox
capacity and pool size, any number of workers, migrators, attempts, breaks and exits and
any limit of a body's length, under the `ASSUME`s of the modules (numbers are
numbers, the markers are not ids, the seed texts are valid todos, tokens of different
kinds differ).

* **`MemoryBusProofs`**: `BusTypeCorrect`, `DoneClosedOnce`, `RegisteredExactly`,
  `LoopSeesOneMap` and `BusImplementsFanout`, for any publishers, subscriptions and
  capacity. The inductive invariant `BusInv` says who is inside the lock and that a
  thread that has changed the map met no readers (`Locking`), that only a publisher
  in its loop has channels to reach (`Loops`), and how far each subscription's two
  goroutines, its `sync.Once`, its `done` and its place in the map have come
  together (`Life`). Removing a channel maps to `Fanout`'s `Leave` because nobody is
  in a loop then, so nobody owes anything.
* **`NATSBusProofs`**: `NATSTypeCorrect`, `EndedAlwaysForgotten`,
  `AckedHasAlwaysLeft`, `StreamsAreRouted` and `NothingIsEverUnheard`, for any
  processes, callers, capacity and number of breaks.
  `EndedIsForgotten` needs what the client library knows of a subscription at every
  stage (`KnownRightly`): nothing before it is made and nothing on a connection closed
  for good, so that neither a renewal nor the end of a drain brings one back.
  The others need the order of the two queues of a connection, which is stated with
  `Has` (something of a kind is in the queue) and `Ahead` (everything of one kind is
  before everything of another). What a queue does, append, lose its head, get a
  renewal put in front, keeps such an order by the lemmas `HasAppend` to
  `AheadInFront`, which know nothing of the bus.
  `AckedHasLeft`: a publication is ahead of its ping, so the server that answers the
  ping has passed both, and a pong exists only then (`FlushInv`).
  `OpenMeansRouted`: a subscription's command is ahead of the ping that `Subscribe`
  waits for (`SubscribedInOrder`), and the server's table and the client's differ
  only by commands that are on their way (`Agreed`), also across a renewal.
  `NothingUnheard`: whatever step takes an event further, from the publisher's queue
  over the server to a stream's connection and channel, leaves it where the stream
  will find it (`Concerns`); a break is the one step that does not, and the property
  excludes the streams it cuts off.
* **`LiveViewProofs!NeverSilentlyStale`**: `Spec => []NoSilentStaleness`. The
  property says that a commit a registered stream has not read is one that it
  will read or hear of. It is nearly inductive: the invariant only adds the types
  and that a request which has not begun carries no commit number
  (`IdleIsUnversioned`). The step that matters is `Offer` to a full mailbox: the
  event is dropped, but a mailbox that is full is not empty, so the stream will
  read again, later than the commit.
* **`LiveViewProofs!ScreensGoForward`** and **`OpenTabsConverge`**: `ScreenNeverGoesBack` and
  `TabsConverge`, under the hypothesis that `Kinds` makes no request a create (what
  `ScreenNeverGoesBack` allows is in its text: the stream may bring what it read before
  the answer the tab shows; no answer ever takes a tab back). The
  hypothesis is the condition under which the code keeps them: with creates both are
  violated (`live_answers`). `FormlessTabsGoForward` and `FormlessTabsConverge` say the
  same tab by tab, for the tabs whose own requests are no creates, whatever the others
  do. The invariant `ScreenInv` orders everything that is on its way to a tab:
  the snapshots on the wire of the open stream grow and are not older than the screen
  (`StreamInv`), and an answer that is older than the screen belongs to a button that
  is gone (`RequestInv`), so htmx drops it.
* **`TodoLedgerProofs!LedgerIsTruthful`**: `LedgerSpec => [](LastWord /\ AuditChain
  /\ JobIffEvent)`. Inductive once event numbers are unique, an id without a row
  has no events, and the events of a todo have a newest one.
* **`TodoStoreProofs!Refinement`**: `Spec => ImplementsLedger`. The inductive
  invariant `StoreInv` says of every request where it may hold a transaction
  (`Placed`), that what it has prepared still is its command for the rows as
  committed (`Prepared`), that its event tells that command (`Told`), that no two
  transactions have changed one row (`Apart`) and that a prepared event is
  numbered after the events on its todo (`Numbers`). The last two need each
  other: a commit of another request leaves `Prepared` and `Numbers` alone
  because it is about other rows.
* **`TodoStoreProofs!FeedIsTruthful`**: `Spec => [](LastWord /\ AuditChain /\
  JobIffEvent)`. The ledger's inductive step is imported under the refinement
  mapping and carried along with `StoreInv`. `JobsAreAnnounced` is its third part
  for the run's property.
* **`TodoStoreProofs!AnswersTrue`**: `Spec => []AnswersAreTrue`. What a request was
  told is what the database says it did, although its transaction may outlive the
  request: `AnswersInv` says that an answer of success or of "not found" is given
  only by a request without a transaction (`Answered`, with `Placed` of `StoreInv`),
  so that nothing the orphan of another request does can make it untrue.
* **`ServerLifecycleProofs`**: `LifecycleTypeCorrect`, `CompletedIsAlwaysRecorded` and
  `ClosedIsAlwaysUnused`. Jobs and `main` each have an invariant. `JobTold` relates a
  job's events to its attempts: before its insert an attempt leaves fewer events than
  attempts, after it there is one, so a completed job has its event and, cut off as
  often as it may be, no more events than attempts. `MainInv` says where `main` must be for
  anything to run: no handler before the server listens or after `Shutdown` has
  returned nil, no job unless River has started or was left behind late, and the bus is
  closed only after both. `late` (River's jobs did not end in time) is the exception
  that `ClosedIsUnused` states.
* **`MigrateProofs`**: `MigrateTypeCorrect`, `VersionsAlwaysTellSchema`,
  `NoConstraintEverRefuses` and `ReadyAlwaysMeansMigrated`, for any number of migrators and any
  limit. `MigrateInv` says which tables and constraints there can be for the highest
  version recorded (`Stage`), that what a migrator has listed misses nothing that is
  still to be applied (`Listed`), and that every stored body is a text that fulfils the
  constraints of all versions. `ReadyAlwaysMeansMigrated` is about a database that began
  empty, as `Init` has it, and the app's own three migrations. The race above is in it: at the last version the second
  migration's constraint may be there again, but only beside the third's. It harms
  nothing because a body the handlers accept is trimmed, for which the two
  constraints say the same (`ValidHolds`): that is where `TrimSpace` and `trim` meet.
  Least and greatest positions (where a trimmed text begins, the newest version) exist
  by the well-foundedness of `<` (`LeastOfNaturals`, `GreatestOfBounded`).
* **`PageProofs`**: `PageTypeCorrect`, `EachPanelIsOnce`, `ErrorIsAlwaysLatest`,
  `OneTodoForEachForm` and `DraftIsAlwaysTheirs`, for any todos and any number of requests
  under way. The inductive invariant `PageInv` is about the request whose form is
  still in the page (`FormOf`): it is the newest submission, there is one, and it loses its
  button and its composer together (`RequestInv`, `OneNewest`). An error then outlasts its
  verdict only while a newer request of the form is on its way (`ErrorInv`), and a form that
  has created a todo is about to be replaced, is told of a failure, or was posted by the
  browser (`FormInv`). The step
  that matters is `Arrive`: an answer that replaces the composer takes it from every
  other request of the form, and one that does not was an error or came too late.
* **`PageProofs!EventIsWhole`**: for any sequence of tokens, `EventSource(writeSSE(e, data))`
  is one event of type `e` whose data is `UniformLineEnds(data)`. It is what the framing
  promises, and induction over data. The induction theorems of the library cannot be
  used for that, so it is done with sets: `AllSequences` says that a set which has the empty
  sequence and with a sequence all that are one token longer has all of them, from the
  well-foundedness of `<`. What the folds of the community modules compute is derived from
  their definitions (`FoldsExist`, `FoldTrace`): they choose some function that fulfils
  the recursion, one exists, and its values are those of a computation token by token.
  `UniformAppend`, `SplitAppend`, `FlattenAppend` and `ReadAppend` then say what one token,
  line or text more does, and `SplitParts`, `SplitFields` and `ReadFields` follow the text from
  `Split` through the wire to the client.
* **`PageProofs!StatsAlwaysTellRows`** and **`PanelsAreAlwaysWhole`**: for any finite set of todos
  with any bodies. An HTML text `Tells` what was read of the todos if every row in it is
  followed by its state and every row that is shown is in it: from it the numbers follow
  (`TellingCounts`), so two reads with one text have one statistics panel. The sections an
  HTML parser finds are the panels that were rendered (`SnapshotSections`), in the text of
  an answer and, with `EventIsWhole`, in what the stream delivers (`WhatIsShown`). In the state
  the inductive invariant is `PanelsInv`: the panels in the tab are those of one read, and
  an answer brings all panels or none, for htmx replacing some of them would mix two reads.
  `TokenAssumption` says that rows, states, panels, line ends and numbers are different
  tokens and that bodies are texts.
* **`TypeCorrect`** of `LiveViewProofs` and of `TodoStoreProofs`.

Only model-checked: all liveness (`PublishReturns`, `CancelReleases`, `ServerForgets`,
`EveryoneHears`, `RequestsFinish`, `StreamsCatchUp`, `StopsByItself`, `StopsInTime`, `JobsFinish`,
`ComesToBeReady`), which is out of the prover's reach.

## Not modelled

* The order and the window of the two lists. `ListEvents` shows the ten highest
  numbers, which are handed out before commits, so an event can become visible below
  them and never be shown; the items of one seeding transaction share their
  `created_at`, so `ListTodos` may order them differently each time. The code promises
  nothing about either, and a property that holds would say nothing.
* What a publish that fails, a connection to NATS that is down, or a client library
  that has given up costs the streams: the code makes up for none of it ("ephemeral
  fanout", README.md:364), so `NATSBus` leaves such events out of what it promises.
* `readyz` on a database that is being upgraded: it looks for tables only, so it
  answers 204 while Goose's later migrations or River's later ones are pending.
  Nothing in the code prevents it; `ReadyMeansMigrated` is about a new database and the
  app's own migrations.
* Security headers, forwarded headers and configuration: stateless functions of one
  request or of the environment.
* Two form posts without htmx that overlap in one tab: the browser drops the first
  answer, and the server may have committed both. Here one navigation is under way at a
  time; that its posts are counted is enough to see that a form may create two todos.

Left out for good: rendering and generated view code, logging, development
scripts, vendored assets.
