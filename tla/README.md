# A TLA+ verification of meshobj

meshobj serves documents over REST and GraphQL. A *meshlette* is a pair of
services over one collection of versioned documents: a **restlette** (REST:
create, read, update, remove, list, bulk operations) and a **graphlette**
(GraphQL: queries, also of an earlier time, with fields that sibling services
resolve). Four repositories (SQLite, Mongo, Postgres, MySQL) store the
documents; a server process hosts restlettes and graphlettes; a generator writes
such servers and their compose file from a script; an example feeds a Kafka
processor from the stored events.

The specifications here are translated from the TypeScript source. TLC checks
them on small instances, and TLAPS proves every safety property of the passing runs,
and the safety part of the three refinements, for every value of the constants. Paths below are relative to `src/`.

## 1. The system

### 1.1 Components

| Component | Source | State | Operations | What makes it correct |
| --- | --- | --- | --- | --- |
| REST handlers | `core/restlette/src/crud.ts`, `index.ts` | none in memory; the local variables of every handler suspended at an `await` | `create`, `update`, `remove`, `read`, `list`, `bulk_create`, `bulk_read` | a client sees its own answered writes; a removed document stays removed; every request ends |
| Repositories | `repos/*/src/*Repo.ts` | one table of envelopes `(id, created_at, deleted, payload)`; SQLite: whether its connection is in a transaction | `create` (with retry), `createMany`, `read`, `readMany`, `list`, `remove`, `removeMany` | "latest" is the version written last; the past does not change; all or nothing of a `createMany`; what is answered is committed |
| Searchers | `repos/*/src/*Searcher.ts` | none (read the table) | `find`, `findAll` at a time | a query at time t returns the version current at t, alike in all four, and the one a read returns |
| Graphlette | `core/graphlette/src` | per operation: a map of data loaders, their batches and caches | resolvers of the top level fields, resolvers of fields, batch call | batching and caching change no answer; nested documents belong to the parent's time |
| Authorization, validation | `core/auth`, `core/jwt_auth`, `core/casbin_auth`, `core/restlette/src/validation.ts` | none | `getAuthToken`, `isAuthorized`, the schema validator | a refused request changes nothing |
| Server, health, CLI | `core/server/src`, `core/cli/src` | the Express application: endpoints in the order they were set up | `init`, `cleanServer`, `/health`, `/ready` | ready means every graphlette's database answered; a server that can start does |
| Connection caches | `repos/*/src/index.ts` | clients or pools by key, in the plugin | `createRepository`, `createSearcher`, `cleanup` | an endpoint works on the database it names; clean-up closes what is cached |
| Events processor | `examples/events/src/processor.ts`, `index.ts` | `running`, `_consumer`; the offsets of its consumer group | `start`, `eachMessage`, `stop` | each raw event leads to a processed event, whatever crashes |
| Deployment generator | `core/deploy/src` | services and databases | `validate`, `generate` | an accepted deployment has no port conflict and no dangling reference, its endpoints share the collections they are said to, and it comes up |

Swagger (`core/restlette/src/swagger.ts`) and logging keep no state and are not
listed further.

### 1.2 Interactions

* A restlette and a graphlette share nothing but the table. The restlette
  appends versions; the searchers read them.
* A handler talks to its repository by awaited calls. Node runs it up to the
  `await`, then any other handler. There is no lock, no transaction around
  "read, then write" and no version check: `update` reads the document,
  awaits, and appends whatever the client sent.
* A repository that throws rejects the handler. Express 4 ignores the promise,
  nobody handles the rejection, and Node ends the process together with every
  request it was serving. A statement that was sent may still be executed.
* A graphlette calls siblings over HTTP. The ids that one turn of the event
  loop asks for travel in one query with an alias for each.
* `created_at` is drawn by the process just before the `INSERT` (SQLite, Mongo,
  MySQL) or by the database server as it executes it (Postgres, `NOW()`).
* `init` asks a plugin for one searcher or repository per endpoint; endpoints
  with the same connection parameters share a client or pool through the
  plugin's cache. `/ready` asks the server's own graphlettes over HTTP.
* Debezium publishes the documents a restlette stores in Mongo; the processor
  consumes them and posts what it derives to another restlette of its process.
* A deployment script configures services and databases; the generator writes a
  server per service, and docker compose starts each once Mongo is healthy.

### 1.3 What is hard

Interleavings of handlers at their awaits; equal stamps within a millisecond
and the constraint and retries that deal with them; two clocks; failed
statements (swallowed or fatal); removal of a document while it is updated; a
cache of an operation that outlives the arguments it was made from; at-least-once
delivery with restarts and late answers; transactions on a connection other
requests use; connections that are shared, closed and kept; servers that must
start in an order and exit if they do not. `hazards` in
`PROJECT.json` lists each at its line with the properties that would catch it.

## 2. The modules

| Module | What it is |
| --- | --- |
| `VersionedTable` | The `WHERE / ORDER BY / LIMIT` clauses of the repositories as operators on a set of rows |
| `Restlette` | The handlers of `Crud` over one table, served concurrently: the core module |
| `RestletteInv` | Its inductive invariants, so that TLC can evaluate them |
| `Searcher` | The queries of the four searchers over the table of `Restlette` |
| `DocumentStore` | Abstract specification of a restlette: one register per document |
| `RestletteStore`, `MCRestletteStore` | `Restlette` with the history that makes it a `DocumentStore`, and its model checking |
| `MCRestlette` | Model checking of `Restlette` and `Searcher`: the symmetry set |
| `VersionedTableProofs`, `RestletteProofs`, `SearcherProofs`, `RestletteStoreProofs`, `BulkWritesProofs`, `GraphletteProofs`, `EventsProcessorProofs`, `DeploymentProofs` | Theorems and their proofs (`DeploymentProofs` also those of `Server`) |
| `BulkWrites`, `MCBulkWrites` | `createMany` and `removeMany` beside `create`, with SQLite's transactions |
| `Resolution` | Abstract specification of a field's resolver: one call of its own, whose answer is the value |
| `Graphlette` | One GraphQL operation with the shared data loader |
| `MCGraphlette` | Model checking of `Graphlette`: the shape of an operation |
| `AtLeastOnce` | Abstract specification of a pipeline that delivers at least once |
| `EventsProcessor` | The processor of the events example, its processes, offsets and posts |
| `Server` | Processes that set up, probe and clean a server, and the plugins' connection caches |
| `Deployment` | A deployment script, what is generated from it, and the servers that run it; composes with `Server` |
| `MCDeployment` | Model checking of `Deployment`: small scripts and configurations |

### 2.1 Restlette

**State.** `rows` is the table, a set of versions: a version is never
overwritten, a removal only marks it. `by` names the request that wrote a
version and stands for its payload. For each request, `pc` is where its handler
is suspended; `kind`, `doc`, `at`, `found`, `tries` and `status` are the
handler's local variables: which handler, the id, the bound or stamp of the
statement under way, the row(s) that came back, the retries so far and the
answer's status. `now` and `appNow` are the clock that stamps and the
`Date.now()` that bounds reads. `before` (which requests were answered when a
request arrived), `lost` and `failed` are history the properties refer to.

**Actions.** A handler is cut at its awaits.

| Code | Actions |
| --- | --- |
| `create` | `Create`, `Insert`, `Reply`; `Refuse` when the validator refuses |
| `update` | `Lookup`, `ReadRow`, `Stamp`, `Insert`, `Reply`; `Refuse` |
| `remove` | `Lookup`, `ReadRow`, `Mark`, `Reply` |
| `read` | `Lookup`, `ReadRow`, `Reply` |
| `list`, `bulk_read` | `Scan`, `ScanRows`, `Reply` |
| retry in `repo.create` | `Duplicate` (sleep), `Retry` (new stamp), `Throw` (none left) |
| a statement that fails | `FailQuietly` (Mongo's queries), `FailLoudly` |
| the clocks | `Tick` |

`AfterLookup` holds the early returns: 404, 403, or on to the write. A query's
answer is one of the rows that `ORDER BY created_at DESC` may put first: when
two carry the same stamp the choice is open, as it is in the databases.

**One module for four repositories.** The constants `Unique`, `MaxRetries`,
`DbClock`, `MaxLag`, `TimedScan` and `Swallow` are the points where the four
differ; the header of the module says which is which.

**Abstractions.** Payloads, tokens and schemas are left out: their verdicts are
the sets `Valid` and `Permitted`. `list` and `bulk_read` are observed at one id,
because their queries treat ids independently. `create` draws its id from those
no request has named, which is what `uuid()` gives. The answer's text and the
redirect after a write are left out. `Retry` is one tick after the duplicate:
the code sleeps 2 ms and a tick is a millisecond, so a retry always draws
another stamp. The filter of `bulk_read` tests a promise and leaves nothing
out, so the model filters nothing. A `bulk_read` without `ids` rejects its handler
and ends the process (`crud.ts:140`); that is left out.

**Abstract specification.** `DocumentStore` has no versions, clocks, statements
or retries: a register per document, a request that looks at it (`See`) and a
write or removal that takes effect (`Write`, `Remove`), both between the arrival
and the answer. What a request sees is something its register held since it
arrived. `RestletteStore` maps `holder` to the author of the latest version and
adds the history variable `seen`, what the register held while a request waits
for its query. Two freedoms of `DocumentStore` come from the code: a write may
be superseded at once, but only by one that was not answered before it arrived
(their stamps are drawn as the statements are sent, and executed in any order);
and look and effect are two steps, since nothing guards `update`'s check. The
refinement needs the constraint and one clock: without the first two writes may
tie, without the second a read may miss an answered write
(`restlette_postgres_stale`).

### 2.2 Graphlette

**State.** For each top level field its resolver's control point `pc` and the
timestamp `at` it drew; for each occurrence of the resolved field the `key` its
object refers to, the `promise` its resolver awaits and its `value`. `loaders`
are the data loaders made (each with the first caller's time and selection),
`current` is the map's entry for this `(url, queryName)`, and `batches` are the
batches of ids with their state.

**Actions.** `Search` draws the timestamp and queries; `Fill` is `fillOne` /
`fillMany` on the result; `Resolve` is `assignResolver` up to its `await`, with
the lookup in the map, the creation of a loader, and the loader's `load`
(cache, current batch, `maxBatchSize`); `Dispatch`, `Answered` and `Fails` are
the batch function; `Deliver` resumes a resolver. graphql-js completes the
objects of one top level field in one turn, so nothing else happens between the
`Resolve` steps of one top level field (`BetweenTurns`); two top level fields
return in any order, possibly in one turn. An object without the property that
refers makes `load(undefined)` throw: the field fails.

**Abstractions.** One `(url, queryName)`, hence one entry of the map; one level
of nesting (the sibling's own resolvers are another instance of the same
module); the text of queries, the aliases and the authorization header are
left out, while positions in a batch are kept. The sibling's answer is the
document's id, time and selection, which is what the query said.

**Abstract specification.** `Resolution` lets each field make a call and get
its answer. `Direct` in `Graphlette` maps a field whose promise is there to the
call its resolver would have made on its own.

### 2.3 Searcher

A search is one query, so it is an operator on the rows it executes on, and
`MCRestlette` evaluates it on the tables the concurrent handlers make. A filter
is a set of versions: an expanded template may look at anything but the removal
mark. Three constants say where the four searchers differ: `StrictSearch` (the
bound is `$lt` in Mongo, `<=` in the others), `FindSeesRemoved` (no clause on
`deleted` in `find` of SQLite and Mongo) and `AllSeesRemoved` (none in `findAll`
of Mongo). `FindRows` and `AllRows` are the matching rows, `Find` and `FindAll`
the rows that may be returned.

Left out: a failed search, which is answered as `{}` or `[]` (`find` and
`findAll` of MySQL and Postgres, `find` of Mongo) or rejected (the others), and
the authorization filter of `findAll`, which tests a promise and so leaves
nothing out.

### 2.4 BulkWrites

**State.** `table` is what the connection of the process sees, `disk` what is
committed; they differ while SQLite's connection is `inTransaction`. `pc[r]` is
the statement of request `r` under way, `n[r]` how many of its `size[r]`
documents are dealt with. `backend` is chosen by `Init`, so that one run covers
all four.

**Actions.** `Arrive` is the handler up to the repository (the validator drops
documents of a bulk silently, down to none). `Begin`, `Execute`, `Commit` are
statements being executed, `Resume` and `Reply` the code after an await.
`BeginAgain` is SQLite's error for a second `BEGIN` on the connection, which
rejects the handler. `FailQuietly` is Mongo's logged `insertMany`, `FailLoudly`
every other failed statement; it ends the process, which rolls back what is not
committed. A single statement fails as a whole, Mongo's bulk statements
(`Partly`) after some documents. A server's database may still execute a
statement of a process that died; SQLite lives in the process.

`bulk_remove` stands for a caller of `removeMany`. `Crud` has none: the
certification steps of `core/cert` call it on the repository directly, and share
no connection with a server while they do.

**Abstractions.** Stamps and versions are `Restlette`'s subject and left out, and
with them the retry of a duplicate inside a bulk. The `SELECT` by `rowid` after
SQLite's `INSERT` belongs to `Execute`. A `bulk_create` whose body is not an array
rejects its handler and ends the process (`crud.ts:129`); that is left out.

### 2.5 EventsProcessor

**State.** `topic` is the log Debezium fills (one partition). For each process
`phase`, the `position` of its consumer, the offset `committed` for its group and
the state of the `post` under way. `stored[i][e]` counts the processed events
process `i` made of `e`, `late[i][e]` the posts of it whose sender gave up or died
and which the restlette may serve yet, `dropped` the events a post of which
failed, `runs[i]` how often `i` has read from some offset on.

**Actions.** `Publish` (again, after Debezium restarted without its offset);
`Boot`, `Started` (`main`, `start`); `Skip` (no name, or `running` is false),
`Take`, `Store`, `Answered`, `GiveUp` (`eachMessage` and its post, with the 5 s
timeout); `LateStore`; `Commit` and `Rebalance` (kafkajs); `Stop`, `Exit`,
`Crash`. While it stops, the processor passes over messages and their offsets
are committed; this is harmless only because the next start has another group.

**Abstract specification.** `AtLeastOnce`: everything published is delivered or
excused. `DeliversAtLeastOnce` maps the events stored by any process to delivered
and `dropped` to excused, and includes liveness.

Left out: the fields of the processed event but the raw event it is made from;
messages that do not parse, which are passed over like a failed post but were
never a stored event; the default of `RAW_TOPIC`, which `index.ts` sets after
`processor.ts` has read it (the deployment files set the variable).

### 2.6 Server and Deployment

**Server.** For each process: the `config` it calls `init` with, its `phase`, the
endpoints `mounted` so far in this order, the connections in its plugins'
`cache`s by key, the `handles` SQLite's plugin opened, and the `probe` under way. `up` are the database servers that
answer. `CallInit` is `init` up to its loops, which fails at once if casbin's
policy cannot be loaded (`processAuth`). `Mount` is one pass of the loops, with the plugin's
`createSearcher` or `createRepository`; `Reject` is the pass that fails, after
which a generated entrypoint and the command line exit. `Connects`, `Key` and
`AfterConnecting` are the plugins: Mongo caches a client by its uri once it is
connected, MySQL and Postgres a pool by host, port, database and user before it
is used, SQLite opens the file for each endpoint (`AfterOpening`) and keeps nothing.
`CleanServer` closes what is cached and leaves it there, in the order of the
plugins, up to the first that throws (a pool of `pg` cannot be ended twice); it
leaves the handles as they are. `CheckReady` and `AskNext` are `/ready`: the
server asks its graphlettes one after the other over HTTP, through its own
routes; `Taker` is the handler Express finds first, which need not be that of the
graphlette asked. `GoDown` and `ComeBack` are outages.

**Deployment.** `NewService`, `AddEndpoint`, `WithEnv`, `NewDeployment`,
`WithDatabase` are the calls of a script, and each of the `services` has its
`graphlettes` and `restlettes`; `Accepted` is `validate`; `Generate`
writes a `config` for each container, in which the storages are what the generated
text is worth there (`Uri`: `MONGO_URI`; `Db`: `PREFIX_ENV`; `Table`; no host). The
generator writes it in two copies, for graphlettes and for restlettes:
`EmittedForGraph` and `EmittedForRest`;
`Up`, `MongoStarts` and `Starts` are docker compose. Then `Server`'s actions run
the containers (`Runs`), and somebody may ask them whether they are ready (`Asked`). A second kind of behaviour has a program that embeds `Server`
and calls `init` and `cleanServer` as the tests do; there the databases come and
go and `init` fails halfway.

**Abstractions.** A path is its segments; a storage is its server, database and
collection; ports are two numbers. `init` runs once per container (the compose
file has no restart policy). A clean-up is one step, although it awaits each
connection. Requests a cleaned server is still serving are left out, and so is
`/health`, which always answers `ok`. The pool of `mysql2` takes a second `end`
in silence. Listening is assumed to succeed: two processes on one port do not
share a host here. A resolver's target is another service of the script.

## 3. What the runs check

`T` is `MaxTime`, `F` is `MaxFailures`. Deadlock checking is on wherever the
system has a quiet state of its own (`Quiet`, `Finished`); `events` and
`deployment` have it off, because a topic at its bound, a refused script and
a set of servers that nobody asks anything do stop.

| Run | Instance | Checked |
| --- | --- | --- |
| `restlette_sqlite` | 3 requests, 1 document, update/remove/bulk_read, T=2, F=1 | `TypeOK`, `StampsFollowAnswers`, `ReadsSeeAnsweredWrites`, `RemovedStaysRemovedUnlessRaced`, `EveryRequestEnds`, `GraphAgreesWithRest`, `SupersededOnlyByMismatch`, `IsDocumentStore` |
| `restlette_mongo` | 4 requests, 1 document, update/remove/read, T=2, F=1 | `StampsFollowAnswers`, `ReadsSeeAnsweredWrites`, `ReadsNeverGoBack`, `SearchesFindAnsweredWrites` |
| `restlette_mysql` | 3 requests, 2 ids, all six handlers, refusals, T=2, F=1 | `RemovedStaysRemovedUnlessRaced`, `SettledTimesChangeByRemovalOnly`, `SearchesOfThePastRepeat` |
| `restlette_postgres` | 4 requests, 1 document, update/read/list, 1 retry, lag 1, T=2 | `StampsFollowAnswers`, `ScansSeeAnsweredWrites`, `ReadsNeverGoBack`, `DeathNeedsContention`, `GraphAgreesWithRest` |
| `bulk_writes` | 3 requests, all four backends, batches of up to 2, F=1 | `TypeOK`, `AnsweredIsCommitted`, `BulkIsAtomic`, `TransactionIsOwned` |
| `graphlette_one_time` | 2 top level fields, 3 objects, 3 ids, batches of 2 | `TypeOK`, `AskedOncePerOperation`, `ResolvesAsDirectCalls` |
| `events` | 1 instance, 3 messages of 3 events, 2 ends, 1 failed post, 1 rebalance | `TypeOK`, `NothingPassedOver`, `OncePerReading`, `DeliversAtLeastOnce` |
| `deployment` | up to 2 services with 2 endpoints and 1 setting, 4 databases of 3 types; 65 embedded configurations, 3 `init`s, 1 outage | `TypeOK`, `ReadyMeansEachAnswered`, `EndpointsOnTheirDatabase`, `CleanedLeavesOnlyFilesOpen`, `ResolversReachAService`, `MongoSharedByPrefixAndName`, `SoundDeploymentsComeUp` |
| `restlette_postgres_stale` | as `restlette_postgres`, T=1 | violates `ReadsSeeAnsweredWrites` |
| `restlette_past` | 3 requests, update/remove, T=2 | violates `SettledTimesNeverChange` |
| `graphlette_times` | as `graphlette_one_time`, two times | violates `AnswersAtOwnTime` |
| `events_exactly_once` | 2 instances, 3 messages, no failure | violates `ExactlyOnce` |

What they show:

* `StampsFollowAnswers`: `created_at` agrees with the order clients can
  observe; strictly so where `(id, created_at)` is unique.
* `ReadsSeeAnsweredWrites`, `ScansSeeAnsweredWrites`: a query that arrives after
  a write was answered returns it or something newer, unless it was removed.
* `ReadsNeverGoBack`: two reads, one after the other, never return an older
  version second. This holds although the first may have seen a write whose
  request is not answered yet.
* `RemovedStaysRemovedUnlessRaced`: a removed document is visible again only if
  an update and a removal of it overlapped. That race exists in the code
  (nothing guards `update`'s check), so it is the exception of the property
  and not a finding: no document promises otherwise.
* `SettledTimesChangeByRemovalOnly`: once no insert under way is stamped `t` or
  earlier, a query of time `t` returns the same for ever, except for removals.
* `DeathNeedsContention`: a duplicate version ends the process only if the
  document has more versions than there are retries.
* `EveryRequestEnds`: an arrived request is answered or its process dies; in
  particular SQLite's unbounded retry ends.
* `IsDocumentStore`: a restlette on SQLite implements `DocumentStore`. No answer
  shows a version that was replaced or removed before the request arrived, or
  that nobody stored; a removal hides every older version; and a write whose
  process died takes effect once or never.
* `GraphAgreesWithRest`: a search by id and a read at the same moment return the
  same version, save where the clauses of the two differ: a strict bound when a
  version carries the very time, and removed versions where a clause is missing.
* `SearchesFindAnsweredWrites`: a search sent after a write was answered finds
  it or a newer one; with the strict bound, from the next millisecond on.
* `SupersededOnlyByMismatch`: a search by a property that changed may return a
  superseded version (the filter comes before the choice of the newest), but
  only when the version then current does not match.
* `SearchesOfThePastRepeat`: a search of a settled time, whatever its filter,
  gives the same answer for ever, except for removals.
* `AnsweredIsCommitted`: what a client was told is stored or removed is
  committed, with two exceptions: Mongo's `createMany` after a failure, and on
  SQLite a `create` that ran inside the transaction of a bulk write that never
  committed.
* `BulkIsAtomic`: SQLite commits a `bulk_create` whole or not at all, although
  several requests write in one transaction; elsewhere part of one stays only
  if it is under way, failed or lost.
* `TransactionIsOwned`: although nothing rolls back, a transaction has always
  exactly one living request that will commit it, because every failure inside
  ends the process.
* `AskedOncePerOperation`, `ResolvesAsDirectCalls`: for operations of one time
  and one selection, batches, cache and errors give every field an answer its
  own call could have had, and every id is sent once. An id may be sent again
  only after the batch function itself rejected.
* `NothingPassedOver`, `DeliversAtLeastOnce`: no crash, stop, rebalance or late
  answer loses an event; a failed or timed out post does, if no restart follows.
* `OncePerReading`: a process stores an event no more often than it was published
  for each time it read the topic from some offset on, even when a post was given
  up and served later.
* `ReadyMeansEachAnswered`: since a successful readiness check began, the
  database of each graphlette has answered. It may be gone by the end of the
  check, and the restlettes' databases are not asked.
* `EndpointsOnTheirDatabase`: sharing of clients and pools never hands an
  endpoint another database.
* `CleanedLeavesOnlyFilesOpen`: the first `cleanServer` closes every cached client
  and pool, also after an `init` that failed halfway, and leaves SQLite's handles
  open: of the last `init` one for each endpoint on a file that it came to, the
  one it failed at included. (Clients and pools stay in the caches: a second
  server of the same plugins is never ready, and with `pg` a second clean-up
  throws. The run reaches both.)
* `ResolversReachAService`: the url of a resolver in an accepted deployment names
  a container and the port it listens on, unless two services have one name or
  `PORT` is overridden.
* `MongoSharedByPrefixAndName`: in a running deployment two endpoints on named Mongo
  databases share their documents exactly if their services have one `PREFIX` and
  their collections one name, within a service and across services. So a graphlette
  finds what its restlette stores, whichever copy of the generator's code wrote
  each; but two databases of one service become one, and two services declared on
  one database have one each.
* `SoundDeploymentsComeUp`: in a deployment on Mongo whose schema files exist and
  whose graphlettes do not lie under one another, every server comes to listen, and
  one that is asked whether it is ready comes to say so, as long as Mongo stays up.
  It fails for a graphlette under an earlier one (its `/ready` is taken), and for
  MySQL and Postgres (the generated storage names no host and no table). Without a
  Mongo database the compose file is invalid.

**Disagreements with the documents** (`findings`): with Postgres a read sent at
once after an answered write may miss it, since its bound is the process's
millisecond and the stamp the server's microsecond; a removal rewrites the
past that temporal queries are promised to keep; an operation with two times
gets nested documents of the first time for both; the events pipeline is said to
be exactly-once, and two instances, or one restarted, store everything twice.
Met on the way and not made a run: with Mongo two updates of one millisecond tie
and a listing may return the first; `GET <path>/api-docs`, where
`examples/farm/README.md` has the documentation, is taken by the restlette's
`/:id`.

**Why the bounds suffice.** The races are between one or two writers and one
removal or reader; a third and a fourth request add an answered predecessor
that the order properties need. `MaxTime` 1 or 2 gives equal, earlier and later
stamps. `MaxRetries` is 1 for Postgres instead of 5: with four requests and the
stored version a retry can meet a second duplicate, so both exits of the
retry are taken. `MaxLag` 1 suffices for a bound behind a stamp. One
failure at any statement breaks any one await; a second one in the same
process would find it dead. In a batch of two, three ids overflow and the
order inside a batch matters. Three bulk requests of two documents give a
second `BEGIN`, a single write inside a transaction and a failure between two
documents. Three messages give a copy of an event beside another one; two ends
allow a crash during a restart. In `deployment` the first service takes the
first name and port and the second agrees with it in either or neither; two
endpoints, on one database or on two, of one service or of two, are what sharing
and hiding are about, and one setting overrides a port or makes two services share
a prefix; another Mongo database changes nothing once one is added, so `Addable`
holds one. Three `init`s and an outage give a set-up that fails halfway, a repaired
one and a second clean-up. The run has 693 944 states. The symmetry of requests is used in runs of safety properties
only.

**Fairness.** `Restlette`: `WF(Tick)` - time passes - and `WF` of the steps of
each request - the database executes a statement that was sent and Node resumes
a handler whose `await` is settled. Arrivals, failures and the validator's or
the authorizer's verdicts are under no fairness. `Graphlette`: `WF(Run)` - Node
runs what can run, and a sibling answers or the call fails (`fetch` gives up by
itself when no answer comes). `EventsProcessor`: `WF(Process(i))` - a supervisor
(Kubernetes, in `examples/events/k8s`) starts a process that ended, the consumer
goes on, and a post ends: the restlette answers unless the 5 s timeout comes
first. `Publish`, `Commit`, failures and crashes are under none, and ends are
bounded, without which nothing need ever be delivered. `Deployment`:
`WF(MongoStarts)`, `WF(Starts)` and `WF(Runs)` - docker starts a container whose
dependencies are healthy, and Node goes on with `init` and with a readiness check
that began. The script, the outages and `Asked` are under none: the health check
of the compose file cannot be relied on, as the generated image has no `curl`
(`Deployment.ts:329`) and the check asks the port of the service, which `PORT` may
override (lines 133 and 210). Only Mongo's health orders starts.

## 4. What is proved

Every theorem holds for every value of the constants that the assumption of its
module allows (`ConstantsOK`, `SearcherConstants`, `NobodyIsNobody`,
`BulkConstants`, `GraphletteConstants`, `EventsConstants`, `ServerConstants`,
`DeploymentConstants`): any number of
requests, documents, retries, batches, processes, messages, services, failures.
TLC evaluates these assumptions in the runs. Each module has an inductive
invariant (`Invariance`), whose proof has a step for each action and under it one
for each conjunct the action can disturb; the theorems follow from it with PTL.

| Theorem | States | Hypothesis |
| --- | --- | --- |
| `RestletteProofs!TypeCorrect`, `StampsFollow`, `RemovedStays`, `ScansSee`, `NeverBack`, `DeathOfContention` | `TypeOK`, `StampsFollowAnswers`, `RemovedStaysRemovedUnlessRaced`, `ScansSeeAnsweredWrites`, `ReadsNeverGoBack`, `DeathNeedsContention` | |
| `RestletteProofs!SettledTimes` | the action property `SettledTimesChangeByRemovalOnly` | |
| `RestletteProofs!ReadsSee` | `ReadsSeeAnsweredWrites` | `MaxLag = 0` |
| `SearcherProofs!PastSearches` | the action property `SearchesOfThePastRepeat` | |
| `SearcherProofs!GraphAgrees`, `Superseded` | `GraphAgreesWithRest`, `SupersededOnlyByMismatch` | |
| `SearcherProofs!SearchesFind` | `SearchesFindAnsweredWrites` | `MaxLag = 0` |
| `RestletteStoreProofs!ImplementsStore` | the refinement `IsDocumentStore` | `Linear` |
| `BulkWritesProofs!TypeCorrect`, `Owned`, `Committed`, `Atomic` | `TypeOK`, `TransactionIsOwned`, `AnsweredIsCommitted`, `BulkIsAtomic` | |
| `GraphletteProofs!TypeCorrect`, `AskedOnce` | `TypeOK`, `AskedOncePerOperation` | |
| `GraphletteProofs!ImplementsResolution` | the safety part of `ResolvesAsDirectCalls` | `Uniform` |
| `GraphletteProofs!OwnTime` | `AnswersAtOwnTime` | `Uniform` |
| `EventsProcessorProofs!TypeCorrect`, `PassesNothing`, `OncePerRun` | `TypeOK`, `NothingPassedOver`, `OncePerReading` | |
| `EventsProcessorProofs!ImplementsAtLeastOnce` | the safety part of `DeliversAtLeastOnce` | |
| `DeploymentProofs!TypeCorrect`, `OnTheirDatabase`, `OnlyFilesOpen`, `ReadyMeans`, `ResolversReach`, `Shared` | `TypeOK`, `EndpointsOnTheirDatabase`, `CleanedLeavesOnlyFilesOpen`, `ReadyMeansEachAnswered`, `ResolversReachAService`, `MongoSharedByPrefixAndName` | |

**The hypotheses.** Each says where the code keeps the promise, and a run shows
that it is broken elsewhere, or the code says why:

* `MaxLag = 0`: one clock stamps versions and bounds queries (SQLite, Mongo,
  MySQL). With Postgres the property is false (`restlette_postgres_stale`).
* `Linear`: the table is UNIQUE, one clock, and a failed query is reported (SQLite,
  MySQL). Mongo has no constraint, so that two versions may tie, and answers a
  failed query as if there were no document.
* `Uniform`: the top level fields of the operation name one time in their
  arguments and have one selection. The shared data loader keeps those of its
  first caller (`graphlette_times`). `OwnTime` also takes the three marks of a
  field without a document not to be documents.

### 4.1 Restlette

The properties speak of answered requests, but what makes them true is decided
earlier, while statements are under way. `IInv` says what:

* `ClockInv`: no row and no statement carries a time still to come. So a stamp
  drawn now is no older than anything stored.
* `PhaseInv`: a request at a control point is of a kind that has that point and
  has no status yet; the requests in `before[r]` are answered and stay so. So
  what precedes a request cannot change while it runs.
* `RowsInv`: each row was written by the insert of the request it names, for
  that request's document; and the constraint holds. So a row preceding a
  request belongs to an answered write.
* `StampInv`: an insert under way is stamped no earlier than the rows of its
  predecessors. With the constraint, the row it adds is strictly later, which
  is `StampsFollowAnswers`.
* `RemovedInv`: a write that got past its check although a removal precedes it
  does so only because of an earlier race. An update that arrives after the
  removal was answered finds no live row, unless that race put one there; the
  insert it leads to therefore needs no new exception.
* `BoundInv`: without a lag, a query under way has a bound no earlier than its
  predecessors' rows, so they are among the rows it chooses from.

Two theorems need more than `IInv`, proved on top of it. `ReadInv`, for
`NeverBack`: what a read found was a stored version, not of the future of the
process's clock, and a read under way looks no further back than the versions
found by those that precede it. It is the order of the bounds that counts, not
that of bounds and stamps; so a lag does no harm. `RetryInv`, for
`DeathOfContention`: a create has retried no more often than its document has
versions stamped before its present stamp, each of which cost one retry.

`SettledTimes` is an action property: no insert under way is stamped at or before
a settled time, and a stamp still to be drawn is later; so an insert adds nothing
that a query of that time sees, and only `Mark` changes a row.

`VersionedTableProofs` proves `NewestExists`: a set of rows that is not empty
and has a bound on its stamps has a newest one (the intervals above the stamps
are finite, and the subset ordering of finite sets is well founded). It turns
"some row matches" into "the query returns a row no older".

### 4.2 Searcher and DocumentStore

The theorems about searches rest on the operators: `Find`, `FindAll` and the reads
choose from sets that differ by the clauses the constants name, and the newest of
a set is the newest of any part of it that has it.

`ImplementsStore` shows each step of `Restlette` to be a step of `DocumentStore`
under `Holder`, or to change nothing there. `StoreInv` relates the history to the
table: what a query under way would return now, with its own bound and without
one, is in `seen`. An insert takes effect as a `Write` of its request if its
version is the newest of its document, and otherwise as one that is superseded at
once; on a UNIQUE table there is exactly one newest. The version it loses
against was stamped later, so `StampsFollowAnswers` says it was not answered before
the request arrived, which is what `DocumentStore` asks.

### 4.3 BulkWrites

`TransactionInv`: a request between its `BEGIN` and its `COMMIT` is the only such
one, it lives, and without it the connection sees just what is committed. This is
what makes up for the missing rollback: a second `BEGIN` and every other failure
end the process, and with it the transaction. `ProgressInv`: what a request got done
is seen by the connection, unless Mongo swallowed its failure. `AtomicInv`: a part
of a `bulk_create` of SQLite is seen by its own transaction only. `AnsweredInv`
follows an answer that was given inside another request's transaction to that
transaction's end.

### 4.4 Graphlette

`LoaderInv`: the map has one data loader once a resolver ran. `BatchInv`: a batch
holds between 1 and `MaxBatch` ids, and its answer has an item for each. `PromiseInv`:
the promise of a field names a place in a batch that holds the field's own id. So
`Deliver` gives a field the item of its id whatever else is in the batch; that the
item is the one of the field's own time and selection needs `UniformInv`: the only
loader was made with them.

### 4.5 EventsProcessor

`ReadingInv` counts: the events a run stored, those that may be stored late and the
post under way are no more than the copies among the messages read in it, on top
of a full topic for each run before. `NothingPassedOver` is inductive with
`PostInv`, which says that a post under way is for the message behind the position
and that an answered one was stored.

### 4.6 Server and Deployment

The invariant is one of each process, `Process(p)`, which a step of another leaves
alone (`Spared`), and one of the script.

* `Mounts`: the endpoints are set up in order, and the pool of each that has one is
  in the cache as long as the process lives. `Caches`: a pool is kept under the
  server and database it was made for. Together: `OnTheirDatabase`.
* `Caches` also says that each connection is of a plugin the process has and that
  all are open before the first `cleanServer`. So no plugin throws the first time
  (`AllClosed`) and nothing is skipped. `Handles`: the last `init` has a handle for each
  endpoint on a file that it came to, and nobody closes one (`HandlesKept`). Together:
  `OnlyFilesOpen`.
* `Probes`: the check heard from the database of each graphlette it has asked. A
  handler takes the path of a `/ready` before its graphlette does only if that
  path is below another one; then it is not that handler's own `/ready`, and the
  answer is an error (`AnswerHeard`).
* `Targets` and `Valid`: a url of a resolver is the one of a declared service, and
  its host is in the deployment. With distinct names both are one service:
  `ResolversReach`.
* `Generated`: in every server's configuration an endpoint on a named Mongo database
  keeps its collection and takes its service's prefix for the database. This is
  shown of each copy of the generator's code (`BothCopies`), and each endpoint that
  is set up is one of its server's configuration (`OfItsServer`): `Shared`.

### 4.7 What stays with TLC

Liveness, which TLAPS cannot prove here: `EveryRequestEnds`,
`SoundDeploymentsComeUp`, and the fairness parts of `ResolvesAsDirectCalls` and
`DeliversAtLeastOnce`. The violations of the four runs that expect one.

## 5. Not modelled, and the plan

What the plan has left, in order:

1. `Graphlette` with two levels of nesting, hence two entries of the map, and its
   proofs for a map of any size.
2. The routes of `Server` (`RestTakes`) beside `Restlette`: that no handler hides
   another but where `AnswerHeard` says.

Left out for good: the text of queries, templates, tokens and generated files,
among them the Dockerfile, the endpoint tests and the deprecated HOCON writer
(formatting); JSON schema evaluation and token decoding (pure data, their
verdicts are inputs); Swagger's document and logging (no behaviour); the
example programs, load tests and certification steps (they configure and call
what is modelled).

## 6. Running

`tlc -workers 2 -config <run>.cfg <module>.tla` in this directory; modules and
configurations are paired in `PROJECT.json`. `tlapm <module>Proofs.tla` checks
the proofs of a module. Each property has a
deliberately broken definition (marked "a plausible bug") in `mutants`; with it
in place TLC finds the property violated.
