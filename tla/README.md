# Customer flow: specifications, model checks and proofs

The repository is a backend between a computer-vision service, which streams
detections over gRPC, and dashboards, which read metrics over REST and follow
them over WebSockets. These modules specify what its own code decides: what a
detection does to the database, what an answer and an event mean, who may open a
stream and what is sent on it, what the numbers of a dashboard say about each
other, and what paging, the caches, the listener and the migrations may rely on.
Paths are relative to the repository; line numbers refer to the files as they are
beside this directory.

## 1. The system

| Component | State | Operations | Interacts with |
|---|---|---|---|
| Detection processing, `app/services/detection_service.py` | a loaded `Entry` | create, complete or update an entry; insert a waiting time | the session it is given (SELECT, flush) |
| gRPC ingestion, `app/grpc/grpc_server.py` | a coroutine per stream, a database session per detection | receive, process, commit or roll back, publish, notify, answer | everything below |
| Publisher, `app/websocket/publisher.py` | none | load metrics in a second session, PUBLISH | pool, Redis, connection manager |
| Notifications, `app/analytics/notifier.py` | a listener connection, a task per notification | `pg_notify`, LISTEN and republish | PostgreSQL, publisher, lifespan |
| Tickets, `app/websocket/tickets.py` | a Redis key per ticket, with a time to live | mint (SET EX), redeem (GETDEL) | Redis |
| Handshake, `app/websocket/auth.py` | none | origin, ticket, resource | tickets, the WebSocket |
| Streaming handler, `app/websocket/router.py` | a coroutine and a reader task per client, a PubSub object | snapshot, accept, subscribe, forward, clean up | database, Redis, client |
| Connection manager, `app/websocket/manager.py` | a set of sockets and one per branch | connect, disconnect, broadcast with its sweep | publisher; no endpoint registers a socket |
| Analytics, `app/analytics/service.py` | none | counts, transitions, longest stay, occupancy timeline, peak | database |
| REST, `app/api/endpoints/*` | none | paged lists, dashboard summary | database, analytics |
| Pools, `app/core/db.py`, `app/core/redis.py` | connections in use; clients and pools per event loop | check out, return, close | all of the above |
| Migrations, `alembic/` | the schema and its revision | three upgrades, three downgrades | database |

`docker-compose.yml` runs the gRPC service and the API as two processes, so they
share PostgreSQL and Redis but neither pool nor memory.

What is hard here is what happens between two awaits. Streams look up and update
the same rows concurrently under READ COMMITTED; a stream can be cancelled and the
process can die at any await; a commit can raise and still have happened; a ticket
expires while it is redeemed by two connections; a handler ends by a dozen paths
and must give back a session, a task, a subscription and a pool connection; the six
statements of a dashboard and the two of a page see different states of a table;
events are computed, then published after an await. `PROJECT.json` lists these
hazards at their lines, with the properties that cover them.

What makes each component correct:

* ingestion: "stored" means stored and visible; "failed" means not stored unless
  the database left that open; nothing recorded disappears; no value appears in a
  row that no stored detection brought there; concurrent updates of a row interfere
  column by column only; a lost answer can be followed by the same message again;
  every detection is answered;
* publisher: an event counts the detection it is published for, and the events of
  a stream do not go back in time;
* tickets and handshake: a ticket opens one connection, for its own resource;
* streaming handler: no database session while streaming, events in order and
  without silent gaps, an end when the client leaves, nothing kept at the end;
* both together: a stored detection comes to be shown, and what was missed before
  the subscription is shown with the next detection;
* listener: one connection, no giving up before the first LISTEN, every
  notification that arrives published for its branch and for all;
* connection manager: the sets per branch agree with the registry, nobody gets
  another branch's message, a broken socket neither stops a broadcast nor stays;
* analytics: nobody falls between two numbers of a dashboard, stock and flow agree,
  the peak is the timeline's peak, every visit is in a bucket but for the last one;
* paging: no row is skipped because others are added;
* Redis clients: loops that run together share no connections, and `close_redis`
  finds the pools;
* migrations: the revision says what the schema is, whatever failed before.

## 2. Modules

| Module | What it is |
|---|---|
| `DetectionService` | pure operators: the case analysis, the lookup, the writes, the changed columns |
| `DetectionStore` | abstract: a detection takes effect at one instant, on at most one row |
| `Ingestion` | the gRPC servicer over `DetectionService`, with session, pool, locks, failures |
| `IngestionInvariant` | the inductive invariant of `Ingestion` |
| `Ingestion_proofs` | lemmas about `DetectionService`'s operators, theorems about the ingestion |
| `TicketAuthority` | abstract: one ticket, one connection, one resource |
| `DashboardStream` | tickets, handshake and streaming handler |
| `DashboardStreamInvariant`, `DashboardStream_proofs` | its inductive invariant and the theorems |
| `LiveDashboard`, `LiveDashboard_proofs` | `Ingestion` and `DashboardStream` composed: two processes and the Redis channel between them; the theorems |
| `Analytics` | pure operators: the SQL statements of the service over a table of entries |
| `DashboardReport`, `DashboardReport_proofs` | the six statements of a dashboard, with commits between them, and the theorems |
| `Pagination`, `Pagination_proofs` | the paged lists and a client that reads page after page, and the theorems |
| `Listener`, `Listener_proofs` | the listener task, its callbacks and the lifespan, and the theorems |
| `ConnectionManager`, `ConnectionManager_proofs` | the registry, broadcasts and sweeps, and the theorems |
| `RedisClients`, `RedisClients_proofs` | clients and pools per event loop, `close_redis`, and the theorems |
| `Migrations` | the scripts, statement by statement, and the transaction `env.py` runs them in |
| `MC*` | messages, rows, requests and symmetry for TLC |

### Ingestion

One program counter per stream names the await its coroutine is at:

| `pc` | code |
|---|---|
| `idle` | waiting for the next message, `grpc_server.py` 34 |
| `process` | `DetectionService.process` before its first await |
| `loaded` | after `_find_entry_by_count` |
| `flushed` | after `flush()`, before `commit()`, 48 |
| `metrics`, `metrics_rest` | `publish_dashboard_event`, before its first and its last query |
| `publish` | before `redis.publish` |
| `notify` | before `pg_notify` |
| `close` | end of `async with`, 68 |
| `ack_ok`, `ack_fail` | before the two `yield`s |

`rows` and `waiting` are the committed tables. A transaction's own write is in
`tx`; nobody sees it until `Commit`, and it keeps the row's lock. `base` is the row
as it was loaded: `UpdateEntry` computes the new attributes from it and flushes
those that changed, and `Merge` puts them on the row as it is at the commit, which
is what SQLAlchemy and PostgreSQL do. A connection of the pool is taken by the
first statement of a session and given back when its transaction ends; that the
commit gives it back before the metrics session asks for one is why streams do not
wait for each other. The pool is bounded when `AUTH_APP_ENV` selects
`AsyncAdaptedQueuePool` (`db.py` 13); with `NullPool` it is not, which is the case
of a `PoolSize` that is never reached.

Failures are actions of their own, switched by `Faults`: a statement or the commit
raises, the commit raises after it took effect, closing raises, Redis raises, the
stream is cancelled, the process dies. `msg`, `stored`, `home`, `acks` and `doubt`
are history variables: no guard reads them except to give every detection one message.

Abstractions. Six columns stand for the sixteen of an entry: the others are copied
under the same test as one of the six. Counters, instants and labels are values
that are only compared. What a metrics query saw is the set of stored detections.
`branch_id` is `None` on every row the service writes, hence only the global
channel is published on and the in-process broadcast has no members
(`notifier.py` 53, `manager.py` 108). A row's uuid is the detection that created it.

### DashboardStream

One program counter per connection, again named for the awaits, and a reader task
while it streams. Redis is `keys` (tickets), `subs` and `inbox` (subscriptions and
what was pushed to them), `published` (events per channel). `pubsubs` are pool
connections held by PubSub objects: at `PoolSize` a Redis command is refused, which
the code turns into "invalid ticket" (1008) or "try again later" (1013).
`Target`, `Expected`, `TargetBranch`, `Scope` and `ChannelName` are the places where the code
normalises a branch. Failures: GETDEL, SUBSCRIBE, get_message, unsubscribe and
aclose raise, with or without effect; redis-py reconnects and loses what was pushed;
the snapshot raises; the client leaves or sends what the reader cannot read; the
process dies. Minting checks of the JWT, the list of origins and the pong frames are
not modelled.

### LiveDashboard

The two processes side by side. PostgreSQL is shared through `stored`: what the
ingestion has committed is what a snapshot can see. Redis is shared through the one
step both modules take together, `In!Publish(s) /\ D!Publish(Global)`; every other
step is one process alone. The published event (`channel[n]`) carries which
detections its first and last query saw, and `shown` the same of a snapshot. All
properties are about clients without a branch: nothing sets the `branch_id` the
publisher is called with, so clients of a branch are sent their snapshot only.

### Analytics and DashboardReport

Instants are integers, and `EndOf` is the last instant of a day, as `time.max` is the
last microsecond. `Analytics` has one operator per SQL statement, with NULL as SQL
has it (a comparison with NULL is not true) and with the Python loop over the buckets
beside the SQL that picks the peak. `DashboardReport` runs the six statements one by
one, as `get_dashboard_metrics` awaits them, on the table as it is then: `at` is the
statement that runs next, `report` the numbers so far. What the ingestion may do
in between is `MayBecome`: insert a row, or fill and replace columns, never empty them
or move the row to another branch, one row at a time. Those are the properties
`RecordsArePermanent` and `OneRowAtATime`, proved of `Ingestion`.

### Pagination

A request is two statements, COUNT and SELECT, with commits between them. `Orders` are
all results the ORDER BY allows, so that ties are broken anew for every statement, and
waiting times, which have no ORDER BY, come in any order. The history variables are
those of the client: which rows it has seen, which were on the list when it began, and
which left it or got another time since.

### Listener

`pc` is the await of `run_postgres_notification_listener`; `stop` and `cancel` are what
the lifespan sets at shutdown. The database can refuse, keep silent and drop
connections. Each notification has a callback task, `metrics`, `branch`, `global`, and
these overlap. Its notifications come from other clients of the database: the API's own
are never committed (see the finding).

### ConnectionManager

The lock is never held across an await, so what runs between two awaits is one step.
A broadcast is `Begin` (targets and all sends), `Send` or `SendError` per target,
`Gathered`, and `Sweep` per dead socket; while a sweep runs nothing else does
(`running`), since that loop does not await. Today only tests register sockets
(`tests/test_websocket.py` 368): the model is of the class as handlers would call it.

### RedisClients

Caches are functions from `id(loop)`; an address is free again when its loop has ended.
A pool is a number, in the order of creation. `close_redis` is `BeginClose`, an await
per client, `ClearClients`, an await per pool, `ClearPools`.

### Migrations

A table is its columns with type and nullability, and its indexes. A command runs
the scripts between two revisions in one transaction, and other clients write to the
tables it has not locked. `Legal` is when PostgreSQL carries a statement out; in
particular a NOT NULL column without default cannot be added to a table with rows.

## 3. Runs

| Run | Instance | States, time | Shows |
|---|---|---|---|
| `ingest_all` | 2 streams, 2 detections, 13 messages, pool of 2, all faults | 146 thousand, 13 s | `AckedIsVisible`, `NackedIsNotStored`, `EventReflectsOwnCommit`, `EventsInStreamOrder`, `OneConnectionPerStream`, `RowsComeFromStored`, `RecordsArePermanent`, `ResendFindsRow`, `Implements` |
| `ingest_race` | 2 streams, 3 detections, 3 messages about one customer, no faults, fair | 306 thousand, 52 s | `Answered` when streams wait for a row, `UpdateIsSerial` |
| `ingest_notify` | 1 stream, 1 detection | few | `NotificationIsEmitted` is violated |
| `stream_tickets` | 2 connections, 2 tickets, pool of 1, 1 event per channel, every kind of request, all faults | 1.7 million, 100 s | `SingleUse`, `NothingKept`, `AcceptedIsAuthorized`, `ImplementsAuthority` |
| `stream_live` | 1 connection, 3 events per channel, broker, database and restart, fair | 33 thousand, 10 s | `HandlerEnds`, `EventsReachClient`, `ForwardedInOrder` |
| `live` | 1 stream, 2 detections, database pool of 1, 1 dashboard, broker failures and API restarts, fair | 40 thousand, 15 s | `UpdatesArePushed`, `GapIsRepaired`, `DisplayNeverGoesBack` |
| `report` | 2 customers, 18 kinds of row, 3 bucket widths, 2 requests | 657 thousand, 60 s | `PeopleWereCounted`, `NobodyMissed`, `PeakAgrees`, `StockAndFlow`, `OnlyLastBucketMissed` |
| `pages` | 3 rows, 3 times, pages of 1 and 2, each list | 1.2 million, 58 s | `PagesAreFull`, `NothingSkipped` |
| `listen` | 3 notifications, all faults, shutdown, fair | 294 thousand, 90 s | `ConnectsWhenReachable`, `NotificationIsPublished`, `OneConnection` |
| `manager` | 2 sockets, 2 branches or none, 2 broadcasts | 134 thousand, 5 s | `Filed`, `BranchIsolation`, `Delivered` |
| `redis_cache` | 3 loops, 2 addresses, 4 pools, 2 calls of `close_redis` | 55 thousand, 3 s | `NoSharing`, `PoolKnown` |
| `migrations` | all revisions, fresh or legacy database | 1788, complete | `SchemaOfRevision`, `OnlyTheFirstFails` |

`report` and `migrations` check for deadlock. The other runs do not, because
the number of detections, tickets, events, pages, pools, broadcasts and notifications
is bounded: when they are used up the system rightly stops. What must not stop is
stated by the liveness properties.

Why the bounds are enough. Interference on a row needs two writers, one that loaded
it before the other committed; two streams are that pair, and a third detection lets
the row exist before both start. The 13 messages of `AllMessages` take every branch
of the case analysis, each refusal included. In `ingest_all` a pool of two lets both
streams run; in `live` a pool of one is the tightest. For tickets, a race needs two
connections and one ticket; the second ticket lets both be accepted. Handlers share
only the Redis pool and never wait for it, so their liveness is checked one at a time;
three events make a gap, a repetition and a reordering visible. `live` needs a
detection before the subscription and one after it. Rows of `report` cover a visit of
the day, before it, across its borders, without an entry, dated backwards, in another
branch, in every spelling of a mood; two customers make a tie and a maximum, and each
property of `Charts` is evaluated on every table that can arise. A page that overlaps
with the one before needs three rows and pages of one. The sweep of one broadcast
and the sends of another need two of each. An address used twice needs three loops
on two addresses, and the two clears of `close_redis` two calls to see their leftovers.

Fairness. `FairSpec` assumes that an awaited call returns or raises and that the
event loop runs every task that is ready: weak fairness of each coroutine's
`Progress`, of the reader task, of the listener's loop and of each callback. The code
bounds its waits (asyncpg and pool timeouts, `socket_timeout=5.0` in `redis.py`, one
second per `get_message`), and asyncio runs ready callbacks in FIFO order. No
failure, message, ticket, departure or recovery is assumed to happen.
`ConnectsWhenReachable` has its assumption in the property: from some time on the
database answers (`Calm`), which excludes that it breaks connections or refuses LISTEN
for ever. `live` has the fairness of both its parts.

Some properties hold only under conditions they state, because without them the code
does not give them: `ResendFindsRow` is about copies one after the other (two processed
at the same time may both create a row) and about messages with one count;
`DisplayNeverGoesBack` is about one stream (events of two may overtake each other, and
then the last frame can be the older one until the next detection); `NothingSkipped`
leaves out rows that share their place in the order; a client that stops at `total`
instead of at a short page may miss a row inserted between COUNT and SELECT.

### Finding

`ingest_notify`: `notify_db_dashboard_update` promises a PostgreSQL NOTIFY "enabling
multi-process/multi-container real-time broadcasting" (`notifier.py` 28-29). It
executes `pg_notify` on the ingestion session after that session's commit, which
starts a transaction that is never committed: closing the session rolls it back and
the notification with it. Dashboards are still updated, through Redis. The same
counterexample appears with one stream and no fault.

### Other differences between text and code

Seen while modelling, stated at the property they limit, and without a run of their own:

* "Automatically reconnects on connection loss" (`notifier.py` 88): once it has
  listened, the listener stays in its inner loop (120) and does not see a loss.
  `ConnectsWhenReachable` says what holds before.
* "across the entire day" (`service.py` 333): the series ends one interval early (355).
  `OnlyLastBucketMissed` says what is left out.
* "bound to the current event loop" (`redis.py` 39): a loop at the address of one that
  ended gets the client of that one. `NoSharing` is about loops that run together.
* `DOCUMENTATION.md` 400 and 686: dashboards of a branch are not told of detections,
  since nothing sets the branch. `UpdatesArePushed` is about the others.

## 4. Theorems

All hold for every value of the constants, from the assumptions named in the modules
(special values are distinct, `Messages` are messages, `PoolSize` is positive, the
customers of `DashboardReport` and the rows of `Pagination` are finitely many, as in any
table). Two theorems have a hypothesis more: `OneByOneNeverGoesBack`, that nothing is
stored while the metrics of another detection are computed or published (`Undisturbed`),
and its corollary `NeverGoesBack`, that there is one stream, the case the run `live`
checks. A property of this table that section 3 does not list is defined beside its
theorem and has no run of its own; each was checked with TLC on the instance of its
component's run before it was proved, and so was each inductive invariant.

| Module | Theorem | States |
|---|---|---|
| `Ingestion_proofs` | `Invariance`, `TypeCorrect` | `IInv`, `TypeOK` |
| | `AckedVisible` | `AckedIsVisible` |
| | `RowsTraced` | `RowsComeFromStored` |
| | `NackedNotStored` | `NackedIsNotStored` |
| | `EventsReflectCommits` | `EventReflectsOwnCommit` |
| | `EventsOrdered` | `EventsInStreamOrder` |
| | `OneConnection` | `OneConnectionPerStream` |
| | `PermanentRecords` | `RecordsArePermanent` |
| | `Implementation` | `Implements`: the ingestion implements `DetectionStore` |
| | `SerialUpdates` | `UpdateIsSerial` |
| | `ResendsFindRows` | `ResendFindsRow` |
| | `NoDeadlock` | `SomeoneGoesOn` |
| | `CommitsOneRow` | `OneRowAtATime` |
| | `AnswersAreApproached` | `ComesToItsAnswer` |
| | `EventsAreSingle` | `PublishedOnce` |
| | `NoNotificationArrives` | `NoneDelivered`: the finding of `ingest_notify`, for every constant |
| `DashboardStream_proofs` | `Invariance`, `TypeCorrect` | `DInv`, `TypeOK` |
| | `TicketsAreSingleUse` | `SingleUse` |
| | `OnlyTheAuthorized` | `AcceptedIsAuthorized` |
| | `NothingIsKept` | `NothingKept` |
| | `EventsForwardedInOrder` | `ForwardedInOrder` |
| | `NoEventIsLost` | `EventsAreAccountedFor` |
| | `HandlersWindDown` | `WindsDown` |
| | `Implementation` | `ImplementsAuthority`: the handlers implement `TicketAuthority` |
| `ConnectionManager_proofs` | `Invariance` | `MInv` |
| | `RegistryIsFiled` | `Filed` |
| | `BranchesAreIsolated` | `BranchIsolation` |
| | `BroadcastsAreDelivered` | `Delivered` |
| | `NobodyIsLeftBehind`, `RemovedForGood` | `EndedAreOut`, `OutForGood` |
| `RedisClients_proofs` | `LoopsDoNotShare` | `NoSharing` |
| | `PoolsAreKnown` | `PoolKnown` |
| | `CloseIsComplete` | `ClosesThemAll` |
| | `OneClientEach` | `OneClientPerLoop` |
| `Listener_proofs` | `OneConnectionAtATime` | `OneConnection` |
| | `TriesUntilShutdown` | `KeepsTrying` |
| | `LostIsLost` | `NeverReconnects` |
| | `CallbacksAreSettled` | `CallbacksSettle` |
| | `EventsAreForTheirBranch` | `EventsAreOwn` |
| `Pagination_proofs` | `PagesHoldTheTotal` | `PagesAreFull` |
| | `NothingIsSkipped` | `NothingSkipped` |
| `DashboardReport_proofs` | `Invariance` | `RInv` |
| | `PeopleAreCounted` | `PeopleWereCounted` |
| | `NobodyIsMissed` | `NobodyMissed` |
| | `StockAgreesWithFlow` | `StockAndFlow` |
| | `OnlyLastBucketIsMissed` | `OnlyLastBucketMissed` |
| | `PeaksAgree` | `PeakAgrees` |
| `LiveDashboard_proofs` | `Composition` | each process behaves as its own module says |
| | `KeepsPromises` | the whole implements `DetectionStore` and `TicketAuthority` |
| | `GapsAreRepaired` | `GapIsRepaired` |
| | `OneByOneNeverGoesBack`, `NeverGoesBack` | `DisplayNeverGoesBack` |
| | `NewsKeepsWhatIsShown` | `NewsTakesNothingBack` |
| | `NoUpdateIsLost` | `UpdatesAreOnTheirWay` |

### Ingestion

None of the properties is inductive. Even `TypeOK` is not: a committed
update gives a well-formed row only if it lands on one, which is so because the row
was there when it was loaded and rows are never removed. `IInv` collects
what makes that precise:

* `WorkInv`: a detection is worked on by one coroutine, is unanswered, and is in
  `stored` exactly from the commit on;
* `HistoryInv`: stored detections are visible, only received ones are stored;
* `LoadInv`: a loaded row is still there, and wherever the copy had a value the row has one;
* `TxInv`: a flushed transaction is about to insert the whole row of its message, or
  to patch the found row with fields of its message, and every field it does not
  send already had a value in the copy: with `LoadInv`, in the row;
* `ConnInv`, `EventInv`, `OrderInv`: connections, events and open outcomes by await.

The centre is the pair `CommitOfInsert` and `CommitOfUpdate`: whatever other streams did
since the row was loaded, a commit leaves the row with a value for everything
its message carried and takes none away (`StepKeeps`), from which visibility of all
earlier detections, permanence and the refinement follow. `Ingestion_proofs` begins
with the facts about rows, patches and merges these steps cite, and ends with
`FlushedInv`, that a patch is the one computed from the loaded object and nothing
else, and, for `ResendFindsRow`, that a stored row still carries its count as long as
no other detection gave it another one.

`NoDeadlock` is the safety half of `Answered`, for any pool and any number of streams: of
the streams at work one waits neither for a connection nor for a row. A waiting
UPDATE waits for a stream that has flushed and needs only to commit (`TxInv`), a
transaction that has begun holds its connection (`HoldInv`), and no stream asks for a
second connection while it holds one (`ConnInv`). That a stream which waits for neither
can take a step is an ENABLED formula and was checked with TLC only, on the instances of
`ingest_all` (with a pool of one as well) and `ingest_race`. `AnswersAreApproached` is the
other half: a coroutine only moves forward, whichever of its calls fail, so that nine
awaits are the most a message costs (`Remaining`). What is left to fairness is that the
stream which can go on does.

What goes out is proved of each step of a coroutine (`StreamSteps`): a detection about to
be published is stored and not yet published (`OnceInv`), hence `PublishedOnce`; and
notifications are queued only between `pg_notify` and the close of the session
(`QueueInv`), so that the commit that would deliver them never comes.
`CommitsOneRow` and `PermanentRecords` together are what `DashboardReport` supposes of
its environment (`Write`, `MayBecome`).

### DashboardStream

`DInv` has a part for each hazard: `TicketInv` (a ticket is in Redis or was redeemed, by
the connection that named it), `AdmissionInv` (what a handler past the handshake knows
of its ticket), `HoldsInv` (at which awaits it holds session, reader, subscription and
Redis connection), `ScopeInv` (everything it was sent, holds and is pushed is of its
channel) and `OrderInv`: the last frame, the event in the handler's hand, its inbox and
the publishers' counter are consecutive numbers, or, once the broker has failed under
it, still increasing. `ForwardedInOrder` is not inductive without the part about the
inbox and the counter. One lemma per group of steps shows that each keeps each part.

The numbers being consecutive, the event with a given number can be pointed to:
`NoEventIsLost` computes whether it is a frame, in hand or in the inbox from its distance
to the subscription. `HandlersWindDown` gives every await its distance from the end
(`Remaining`); the loop has none until the reader has stopped, and the round in progress
then is the last. It needs that a streaming handler has a reader (`HoldsInv`).

### ConnectionManager, RedisClients, Listener, Pagination

`MInv` relates the dict and the set (`Filed`) and says of a broadcast in flight that
whoever it is for got it, waits for it, or waits for removal (`ReachOf`), and that
whoever it deals with is of its branch (`TargetOf`); this last part is why a sweep that
passes the branch of the broadcast (`manager.py` 145) still finds the set the socket is in.
For the Redis caches the strengthening is `ExclusiveInv`: what is in use under a key, in
a cache or by the loop at that address, is in use under no other. The listener's
is that a new round begins with no open connection.

`RemovedForGood` follows from the steps alone: nothing but `connect` registers.
`CloseIsComplete` is the part of the cache invariant about the keys asked for between the
two clears; `OneClientEach` adds that the client a running loop was given is the one
cached at its address as long as nothing was cleared (`GivenInv`).
`TriesUntilShutdown` and `LostIsLost` are two sides of one invariant (`LoopInv`): the task
ends only when it is told to, also when `LISTEN` keeps failing, and, once it listens,
leaves its inner loop for nothing else, a lost connection included. The docstring's
"Automatically reconnects" (`notifier.py` 88) is true of the first and not of the second.
`CallbackInv` follows the overlapping callbacks: what each has published at each of its
awaits, and which callback each event came from. A callback that is interrupted by the end
of the process is the only one that publishes on one channel and not on the other
without an error in the log.

For `PagesAreFull` the rows that were counted are still there when they are selected. For
`NothingSkipped` the invariant (`ReadInv`) is about how many rows are before a row in the
order (`Ahead`): a row the client has yet to see is not on the pages it has read, because
at least that many rows are ahead of it; an insertion only puts more of them ahead
(`ChangeReads`), and a row the order separates from all others is at the index that its
number of predecessors says (`IndexOf`), so that the page with that index has it.

### DashboardReport

The numbers of one call are counted on different tables. `RInv` says what each still
means later on, as a bound by the size of a set that commits can move in one direction
only. That the ingestion never empties a column or moves a row makes the customers with
an entry time grow, so those counted as inside stay among them, and they are among the
day's entries or in the set of those from another day or given another time. The known
customers who are inside, and later those inside or gone that day, can only get fewer
as long as they are not given another time (`SetsMove`).

The other three are about one table. `StockAndFlow` comes from writing the same set as two
disjoint unions. `OnlyLastBucketMissed` computes the slot of a visit by integer division
(`SlotOf`). `PeakAgrees` compares a fold over the timeline with SQL's ORDER BY. The
library's induction principle takes an operator as a parameter and cannot be used, but
that every non-empty set of numbers has a least one can be had from its well-foundedness
theorem (`LeastNumber`), and it replaces induction: the fold satisfies a recursion
(`PeakIsFold`), a closed form satisfies the same (`PeakOver`, the first of the
periods with the highest count), and the least index at which the two differ cannot exist.

### LiveDashboard

`Composition` shows that the whole, seen through the variables of either process, takes
only steps of that process's module. The module of the theorems therefore instantiates
`Ingestion_proofs` and `DashboardStream_proofs` and has their invariants for the
composed system (`Components`), without proving any of them again, as well as the two
refinements (`KeepsPromises`).

`GapIsRepaired` is not about one process. Its invariant follows a detection from the commit
to the frame (`RepairInv`): an event which is being computed, or is published, for
a detection the client had not missed has seen all that was stored before the
subscription; `ChannelInv` ties the number a frame carries to the position of the event
that was published. Streams may overtake each other, this one does not need their order.

What an event sees is stated once, of any former contents of the table (`Known`): an event
that does not see all of it is for a detection in it. It holds of the table as it is
(`StoredIsKnown`) and stays true (`KnownStays`). Of the table at a subscription it gives
`GapIsRepaired`; of the table a frame was computed from, `NewsTakesNothingBack`: streams
that overlap may make the display go back, but not with a frame that tells of a detection
which the display does not show yet.

`DisplayNeverGoesBack` is true as long as detections are stored one after the other, each
with its publication (`Undisturbed`): then what is counted is all that is stored
(`ShownInv`), and a client is only ever pushed events published after its subscription
(`NumbersInv`), which `ForwardedInOrder` says only of those whose broker did not fail. One
stream is undisturbed by itself (`NeverGoesBack`); two streams that overlap are not: with
two streams, a pool of two and no faults TLC finds a display that goes back, finds
none (218 thousand states) once the steps that disturb are left out, and
`NewsTakesNothingBack`, `UpdatesAreOnTheirWay` and `GapIsRepaired` hold with them (474
thousand).

`NoUpdateIsLost` joins the two processes: events published before a subscription are for
detections stored before it (`StartInv`), so that one for a later detection has a later
number, and `NoEventIsLost`, which the composition inherits, says where it is.
`ChannelInv`, `RepairInv`, `NumbersInv` and `ShownInv` were checked with TLC on the
instance of `live`, the first three with two streams as well.

### Only model-checked

Liveness under fairness, which is out of the prover's reach. What each of these
properties needs besides fairness is proved:

| Property | Proved of it | Left to TLC |
|---|---|---|
| `Answered` | `AnswersAreApproached`, `NoDeadlock` | that the stream which waits for nothing can and does go on |
| `HandlerEnds` | `HandlersWindDown` | that the handler and the reader of a client that left do go on |
| `EventsReachClient` | `NoEventIsLost` | that an event at hand or in the inbox is sent |
| `UpdatesArePushed` | `NoUpdateIsLost` | the same, and that a stored detection is published |
| `ConnectsWhenReachable` | `TriesUntilShutdown` | that an attempt at last succeeds |
| `NotificationIsPublished` | `CallbacksAreSettled` | that every callback comes to its end |

And `SchemaOfRevision` and `OnlyTheFirstFails`: `Migrations` has no constants and finitely
many states, its run visits all of them, and a theorem would say no more.

## 5. Not modelled

Logging, JSON and protobuf encoding, the JWT check of the external auth package
(`authenticate_websocket` in `auth.py` has no caller), permissions, configuration
(settings are constants of the modules), generated gRPC code, the start of the servers
and Alembic's offline mode, which prints SQL. Filters of the lists that only select
rows (gender, branch, dates, duration) are not told apart in `Pagination`. What
redis-py, SQLAlchemy and PostgreSQL do is modelled from how the code uses them and
marked external in `PROJECT.json`. Several routes and test URLs in the documents
(`/ws/dashboard/...`, `/api/v1/dashboard/...`) are older than the routers; the modules
follow the routers. A migration cannot run on an empty database, nor, in the scripts of
the first revision, on a `customer_flow` with rows: no source line promises that it
can, so `OnlyTheFirstFails` states that nothing else fails.

## 6. Plan

Larger instances of `live`: two dashboards, gRPC restarts. Should the listener be
changed to notice a lost connection, `NeverReconnects` is the property to give up and
`OneConnection` the one to keep.
