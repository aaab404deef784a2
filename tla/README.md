# StockStack in TLA+

StockStack is a product catalogue: an admin API and single-page client that create,
edit and move products between *on shelf*, *off shelf* and *penalized*, and a public API
that serves on-shelf products out of a Redis cache in front of PostgreSQL. This directory
holds TLA+ models of it, the TLC runs that check them on small instances, and TLAPS proofs
that carry the safety results to every instance.

Modelled: the admin **write path**, the public **read path**, what the two make of the
**cache** together, the **rate limit**, the **image store** and the **validation of
attributes** behind the publish form, and the admin **client** (session, product list,
publish form) with the server behind it. What is left out, and why, is at the end.

To repeat the checks: `tlc -config <cfg> <module>` for each run of `PROJECT.json`,
`tlapm <module>` for each module whose name ends in `Proofs`.

## 1. Inventory

### Components

| component | source (`src/backend/app/` unless noted) | state it keeps | operations | modelled |
|---|---|---|---|---|
| Catalogue domain, bodies | `catalog/domain.py`, `schemas.py`, `models.py` | product rows, image rows, constraints | transition rule, version check | `CatalogDomain`, `VersionedCatalog` |
| Admin write service | `catalog/service.py`, `repository.py`, `router.py` | one session and transaction per request; invalidation tasks | create, update, update_status, batch_status | `ProductWrites`, `CacheCoherence` |
| Sessions and pool | `db/session.py` | connection pool, row locks | check-out, commit, rollback | in `ProductWrites` |
| Public read service | `catalog/public_service.py` | `_flights`, `_flights_lock`, query semaphore | detail, flight, rebuild lock, polling, query | `PublicRead`, `PublicReadLatency`, `CacheCoherence` |
| Redis client | `catalog/cache.py` | entries, lock keys, rate windows | get, put, delete, acquire, release, rate_limit | in `PublicRead`, `CacheCoherence`, `RateLimit` |
| Public router, rate limiter | `catalog/public_router.py`, `cache.py` | sorted set per client address | allow, refuse, fail open | `RateLimit` |
| Lifecycle | `main.py` | the set of invalidation tasks | start, shutdown drain | in `CacheCoherence` |
| Settings | `core/config.py` | timeouts, limits | `validate_timeouts` | constants of `PublicRead` |
| Field templates | `catalog/field_schema.py` | none (pure) | `validate_attributes` | `FieldSchema` |
| Image uploads | `catalog/uploads.py` | files under the upload root | validate, save with temporary file | `ImageStore` |
| Authentication | `auth/*.py`, `core/security.py` | none (stateless tokens) | login, check, expiry | in `AdminSession` |
| Errors and metrics | `core/errors.py`, `core/metrics.py` | counters | formatting | no |
| Admin client session | `src/frontend/src/api/client.ts`, `auth/*` | token, listeners | login, request, 401 | `AdminSession` |
| Product list page | `src/frontend/src/products/ProductListPage.tsx`, `status.ts` | rows, selection, query generation | load, select, status change, batch | `ProductListPage` |
| Product form, images | `ProductFormPage.tsx`, `ImageFields.tsx`, `DynamicFields.tsx` | form, image list, uploads | change type, upload, remove, submit | `ProductForm` |
| Product detail page | `ProductDetailPage.tsx` | one product | load, status change | no |
| Migrations, seed, deployment | `alembic`, `scripts/seed.py`, `compose.yaml` | schema | run once | no |

### How they interact, and what is hard

* The **router** validates a body and calls the **service**, which runs one transaction
  through the **repository**, commits, then deletes each changed product from **Redis**
  (or leaves a retry task) and only then replies. Requests are coroutines of several
  processes: their statements interleave, they wait for each other's row locks, they share
  a bounded pool, and any await may fail, a COMMIT whose answer is lost included.
  *Correct means:* no lost update, batches all or nothing, terminal statuses stay terminal,
  attributes fit the product's template, images and content belong together, a reply says
  what happened, nobody waits for ever.
* A **public reader** asks Redis; on a miss it joins or creates a *flight*, a task shared by
  the readers of one product on one instance. Flights of different instances compete for a
  rebuild lock in Redis (`SET NX PX`), the loser polls the cache for a while, the winner
  queries PostgreSQL behind a semaphore and fills the cache. Every await has a timeout, the
  lock has a time to live, readers disconnect, Redis replies get lost.
  *Correct means:* one flight per product and instance, one rebuilder across instances,
  slots conserved, no lock of somebody else released, true answers, bounded latency.
* The **write and the read path** meet in the Redis entries only: a write deletes, a read
  fills. Deletes are lost, retried twice and given up, or die with their process; a reader
  that queried before the commit fills after the delete; Redis may run a command its caller
  has given up. *Correct means:* nobody is shown a row or images that were replaced longer
  ago than the timeouts and the entry's time to live add up to, and an orderly shutdown
  loses no delete.
* The **rate limiter** keeps the requests of the last window in a sorted set whose scores
  are the clocks of several instances. *Correct means:* the limit holds in real time, up to
  how far clocks and scripts are off, and nobody is refused for less.
* The **client** sends requests whose answers come in any order, late, or never. Its state
  is the token and what the pages show. *Correct means:* the list does not go back in time,
  controls are disabled exactly while their request is under way, a late 401 does not end a
  newer session, a form posts what it shows (images that are on the disk, fields of its own
  type), and a refusal can be seen.
* The **image store** publishes a file by a hard link after writing a temporary one.
  *Correct means:* what has a final name is a whole image, and failures leave nothing.

Every hazard found is listed with its line in `PROJECT.json` (`hazards`), with the
properties that cover it.

## 2. Modules

| module | what it is |
|---|---|
| `CatalogDomain` | constants, rows, bodies, the status rule: the vocabulary of the next two |
| `VersionedCatalog` | abstract specification of the write API: a request takes effect at most once, in one step, against the versions it names |
| `ProductWrites` | the write path, one action per SQL statement, commit or cache delete |
| `PublicRead` | the public detail read on several instances, one action per await |
| `PublicReadLatency` | `PublicRead` with the running time of each flight as a history variable |
| `StaleRegister` | abstract specification of what the public read promises about freshness: a register with bounded staleness |
| `CacheCoherence` | writes, deletes and retries, flights and fills, late Redis commands, crash and shutdown, around one cache entry |
| `RateLimit` | the sliding-window script with clocks, delays and fail-open |
| `ImageStore` | uploads, one action per call to the file system |
| `FieldSchema` | `validate_attributes` and `_field_errors` as operators, beside what a report should say |
| `ProductForm` | the publish page; instantiates `ImageStore`, extends `FieldSchema` |
| `AdminSession` | token, login attempts, gate and 401 of the client |
| `ProductListPage` | the product list with its requests and the server; extends `AdminSession` |
| `MC...` | instances for TLC |
| `...Proofs` | theorems and proofs, one module per proved component (eight) |

### ProductWrites and the code

A request is one coroutine with one session (`db/session.py`). `pc[r]` is the await it
stands at; a step is the code up to the next await.

| action | code |
|---|---|
| `Receive` | router endpoint with a validated body |
| `CreateCheck`, `CreateInsert` | `ProductService.create`: active template, `validate_attributes`, then the INSERTs of product and images |
| `UpdateLoad`, `UpdateCheck`, `UpdateRow`, `ReplaceImages` | `ProductService.update`, `ProductRepository.update`: read, check against the *bound* template, `UPDATE ... WHERE id AND version`, delete and insert images |
| `BatchSelect`, `BatchLock`, `BatchApply` | `update_status` and `batch_status`: `SELECT ... ORDER BY id FOR UPDATE`, one step per row lock, all checks before all changes |
| `Commit`, `CommitReplyLost` | `session.commit()`, answered or not |
| `InvalidateNext`, `Respond` | the loop of `_invalidate` in id order, then the reply (read-back first for status changes) |
| `Die` | an error, a pool timeout or the end of the process at any await: rollback |
| `ActivateTemplate` | an operator changes the active template (environment) |

`row` and `imgs` are the *committed* tables, `work` and `gone` the uncommitted effects of a
transaction, `lock` the row locks. PostgreSQL is external and modelled as the code uses it:
READ COMMITTED; an update or locking read that waited for a row lock re-reads the row. A
version compare that does not match skips the row without waiting, as the statement does.

*Data.* The editable columns of a product are represented by the request that supplied them
(`edit`), its attributes by the set of template versions they satisfy (`attrs`, all that
`validate_attributes` lets its caller see), an image set by the request that supplied it
(every accepted set has exactly one main image). One product type stands for the three,
which never interact. `committed` and `deletes` are history variables. The audit columns,
list and search queries are left out.

### PublicRead and the code

A *reader* is one public request, a *flight* the task `_run_flight` its arrival may create
(a flight is named after that reader). `rpc` and `fpc` are the awaits they stand at.

| action | code (`public_service.py`, `cache.py`) |
|---|---|
| `Arrive`, `CacheHit`, `CacheMiss`, `Discard` | `detail`, `_cache_get`; an entry that does not validate is deleted |
| `Join` | the block under `_flights_lock`: join the registered flight or create one |
| `Receive`, `Disconnect` | `await shield(task)`; the request's cancellation does not reach the task |
| `LockSet`, `LockGranted`, `LockDenied`, `LockFailed` | `acquire_lock`: the SET and its reply are two steps, so the reply can be late after the SET was done |
| `PollWake`, `PollHit`, `PollMiss`, `PollDiscard` | the polling loop with its deadline |
| `TakeSlot`, `NoSlot`, `QueryAnswers`, `QueryFails` | `_query_db` under the semaphore, both timeouts |
| `Put` | filling the cache (product or negative entry), best effort |
| `Release` | the compare-and-delete script, best effort, and the end of the flight |
| `Tick` | time passes: timers, deadlines and lock expiry |
| `Evict` | an entry expires or a write deletes it (environment) |

Time is discrete. `timer[f]` is what is left of the timeout of the flight's current await;
`Tick` is disabled while a flight has run out of it. That is the assumption that the event
loop runs a ready coroutine within one tick. Redis's clock and the event loop's run at the
same rate.

A Redis command that times out either ran before the timeout or does not run. One that runs
*after* its caller gave up is in `CacheCoherence`; for the lock, the token that nobody
knows (`LockFailed` in "granted") is the modelled half of that hazard.

A product is either served (`"product"`) or not (`"missing"`), and what PostgreSQL answers
does not change during a behaviour, so `AnswersTrue` says that errors, cancellations and
invalid entries never turn into answers; freshness is for `CacheCoherence`.

### CacheCoherence and the code

One product. `versions` is its committed history with the ticks since each version was
replaced; `images` of a version names the version that stored them.

| action | code |
|---|---|
| `Accept`, `Commit` | a handler of `service.py` up to its commit; a lost reply to COMMIT skips the deletes |
| `Delete`, `Retry` | `_invalidate` and `_retry_invalidation`: one try in the handler, two in a task |
| `StartQuery`, `ReadRow`, `ReadImages`, `Result`, `QueryFails` | `_query_db` under one timer, with the two statements of `get_public` |
| `Put`, `Release` | the fill and the release of the lock, each with the Redis timeout |
| `Get`, `Hit`, `GetFails` | `_cache_get` of a reader, or of a flight that polls: Redis reads the entry, and the reply answers the request within the Redis timeout, or not at all |
| `LateSet`, `LateDelete` | Redis runs a command after its caller gave up (external) |
| `Terminate`, `Gather`, `Close`, `Crash` | `lifespan` of `main.py`; a process that dies and is started again |
| `Tick` | time; entries expire |

What Redis has read for a get is in `replies` until it reaches its reader; the entry may be
deleted, replaced or expire meanwhile, and `MaxAge` counts that await with the others: the
query, the put, `Late`, the entry's life and the get. `Stopping` bounds where flights may
stand when their instance is told to stop; the proofs hold for any value of it.

A put given up is run at most `Late` ticks after, or never; that Redis and the network have
such a bound is an assumption. Deletes need none: they do no harm however late. The rebuild
lock is left out, so more flights may fill the entry here than in `PublicRead`. Of a write
only what the public can see is modelled: new images, or a change of what the public finds.

### RateLimit and the code

`Send` is `rate_limit` up to the `EVAL`, with the clock its instance reads (at most
`MaxSkew` ahead of `now`; of the two ends only the difference matters). `Script` is
`RATE_LIMIT_LUA`, atomic, `Refuse` or `Admit`; `Lost` a command that never runs. `Answer`
and `FailOpen` are `enforce_rate_limit`. `Tick` drops the key at its `PEXPIRE`.

### ProductForm, ImageStore, FieldSchema and the code

| action | code |
|---|---|
| `changeType`, `TemplateAnswer` | `changeType` with `schemaRequest`; the answer may be an error |
| `Fill` | the operator fills the fields of the template shown |
| `handleFiles`, `Uploaded`, `UploadFailed`, `removeImage` | `ImageFields.tsx`; the list an upload puts back is the one it captured when it started |
| `submit`, `Answered`, `Lose` | `submit` with `savingRef`, `setFields` and the general error |
| `Serve` | `ProductService.create` and the error handlers: a refusal of the attributes; a product, answered as created or, when the reply to COMMIT is lost or a later step raises, as a failure; a refusal for another reason, with field errors or without; a failure that stored nothing |
| `OtherUpload`, `ServeOther` | other clients of the API, so that the store and the validation are checked beyond what the page sends |
| `StoreStep` | one step of `LocalImageStorage.save`: open, write, link, unlink, the clean-ups, or the end of the process |

A file is its size, declared type, suffix and signature. `failed` is a history variable: the
saves whose failure the page has shown, by a 5xx or because no answer came.

A template gives each field the keywords of its schema (type, format, minimum, ...) and each
keyword the values that pass. `validate_attributes` is a loop (`Loop`, a recursive function
whose *n*-th value is what the first *n* errors make of the report) over the errors
jsonschema yields: one per *missing field*, each of which the code expands to *all* the
missing fields, hence its set of those already seen; one for all the unknown fields; and one
per *keyword that a value fails*, so a number in the seeded field `file_url` is reported
twice, for its type and for its format. `Faults`, a set of fields with the keyword they
fail, is the reference; `FieldErrors` is `_field_errors`, which puts the messages of one
field under one path. `ScalarTemplate` is the assumption on templates: their fields are
scalars, as those of `scripts/seed.py` and all that the form can show, so a keyword yields
one error at most.

### AdminSession, ProductListPage and the code

A token is named by its login attempt. `screen` is the login page, the list, or another page
behind the gate. `LoggedIn` stores the token whatever page is shown by then: going back or
forward on the login page opens a new one (`Reopen`), so two attempts can be under way.
`clearUnauthorizedSession` ends the session only for the stored token.

| action | code (`ProductListPage.tsx`) |
|---|---|
| `writeParams`, `OpenList`, `LoginAnswered` | a new query, visit or navigation: the load effect runs and the generation grows |
| `Select`, `batchChange` | the row selection and the batch buttons |
| `runAction`, `Confirm`, `Cancel`, `changeStatus` | the row buttons and the dialog for penalizing |
| `Serve` | the server: 401, list, a change of all rows or none, a failure; the answer can be lost after a change |
| `OtherWrite` | another operator |
| `Deliver` | the answer reaches the page: `Loaded`, `StatusChanged`, `BatchChanged`, or the 401 |
| `SessionStep` | login form, a granted token, expiry |

The state of a page that was left is forgotten, so generations are numbered across visits:
an answer of an earlier visit is one of an earlier generation. A load answers with *any* set
of the products, which stands for every query. The row a status change is answered with is
the one it flushed (`expire_on_commit=False`; the read-back does not refresh it).

## 3. What the runs check

| run | bounds | properties |
|---|---|---|
| `writes_safety` | 3 requests, 3 ids (two rows exist, one can be created), 2 template versions, 9 bodies, pool of 2; 444,819 states | `TypeOK`, `AttributesFitTemplate`, `ImagesMatchContent`, `ReplyHonest`, `NoDeadlock`, `NoLostUpdate`, `PenalizedTerminal`, `ImplementsCatalog` |
| `writes_liveness` | 3 requests, 2 rows, batches in both orders, pool of 2; 36,064 states | `EveryRequestAnswered` |
| `read_slots` | 3 readers of 2 products on one instance with one slot, failures everywhere; 733,320 states | `TypeOK`, `SlotsConserved`, `SingleFlight`, `AnswersTrue` |
| `read_latency` | 3 readers of one product on 2 instances, two polling rounds, lock longer than a rebuild; 1,663,770 states | `LatencyBounded`, `OnSchedule`, `OneRebuilder`, `LockOutlastsRebuild` |
| `read_short_ttl` | 2 readers on 2 instances, a lock that can expire during the rebuild; 19,079 states | `LocksReleasedByOwner`, `EveryReaderAnswered`, `OrphanLocksExpire` |
| `read_doc_lock` | the same constants, `OneRebuilder` expected to fail | see *Findings* |
| `coherence` | 1 write, 2 flights, 1 reader of the entry, 1 instance that may crash or be told to stop (while no flight is under way), every timeout 1, a put given up run in the same tick or never, entries live 2 to 3 (missing: 1); 1.13 million states | `TypeOK`, `StalenessInvariant`, `ShutdownLosesNothing`, `FillsAreRecent`, `ImplementsStaleRegister` |
| `coherence_torn` | 1 write, 1 flight, 1 reader; `EntriesAreSnapshots` expected to fail | see *Findings* |
| `rate_limit` | 3 requests, limit 2, window 5, skew, timeout and delay 1, 7 ticks; 669,000 states | `TypeOK`, `WindowBound`, `RejectsJustified`, `RateInvariant` |
| `publish` | 2 types, 3 files (one not what it claims), 2 type changes, 2 saves, 3 of both together, 1 gallery image, objects of other clients over two fields; 2.16 million states | `TypeOK`, `StoreHonest`, `SavesSound`, `RemovedStaysRemoved`, `OneProductPerForm`, `ReportComplete` |
| `form_field_errors` | 1 file, 1 save; `RefusalShown` expected to fail | see *Findings* |
| `console` | 1 product up to version 3, 2 logins, 2 loads, 3 requests under way, others penalize or edit; 3.09 million states | `TypeOK`, `RowsNeverGoBack`, `ControlsMatchRequests`, `OnlyConflictsRefuse`, `SessionKept` |

What they show:

* **`NoLostUpdate`**: a stored row is only replaced by a request that named the version it
  replaces. With `VersionMatches` dropped, or with an update that does not wait for the row
  lock, it fails.
* **`ImplementsCatalog`**: the statement-by-statement path, with its failures, implements
  `VersionedCatalog` under the mapping `applied` = the requests that committed,
  `reply` = the result. In particular a batch is atomic and a lost COMMIT answer is the
  only way for a request to take effect and report an error.
* **`ReplyHonest`**: "ok" comes after the commit and after a delete was tried for *every*
  changed product; "refused" means nothing was written.
* **`AttributesFitTemplate`, `ImagesMatchContent`, `PenalizedTerminal`**: the consequences a
  user sees, across a change of the active template and across racing edits.
* **`EveryRequestAnswered`**: two batches that name two rows in opposite orders do not
  deadlock because the rows are locked in id order; with any order they do.
* **`NoDeadlock`** is the safety half of that, with every kind of request and with the pool:
  requests under way never *all* wait, some for a row and some for a connection. It holds
  because row locks are taken in id order, because an edit locks a single row, and because
  a request takes its one connection before its first lock.
* **`SingleFlight`, `SlotsConserved`**: also when a flight finishes while a reader arrives,
  and on each failing path out of the query.
* **`OneRebuilder`, `LockOutlastsRebuild`**: the key holds the flight's token, with more
  time to live than the rebuild can still take, from the SET to the end of the cache write.
* **`LocksReleasedByOwner`, `OrphanLocksExpire`**: a late holder never deletes its
  successor's key; a token nobody knows goes away by expiry.
* **`LatencyBounded`**: a flight ends in less than R + (W + P + 2R) + S + Q, for the Redis
  timeout R, polling budget W, poll interval P, slot timeout S and query timeout Q. The
  polling term exceeds W because an iteration that starts before the deadline still sleeps,
  reads and may delete. The bound is tight: with one tick less the run finds a flight
  that takes as long.

* **`ImplementsStaleRegister`, `StalenessInvariant`**: an answer is never older than
  the query, the put, the time to live and a get can take, or, for one never cached, the
  query and the awaits after it. It needs one timer over both statements and the negative entries' own
  time to live; with either changed it fails.
* **`FillsAreRecent`**: a delete that comes late enough ends the staleness for good.
* **`ShutdownLosesNothing`**: when a process has ended in order none of its handlers and no
  retry of a delete was cut short. It holds because the server waits for handlers *before*
  the lifespan ends; gathered at the signal, tasks made later would be lost. It does not say
  that every change is deleted from the cache: a write whose COMMIT lost its reply tries no
  delete, and retries give up.
* **`WindowBound`, `RejectsJustified`**: both directions of the limit, in real time.
* **`StoreHonest`**: also when the clean-up fails or the process dies.
* **`SavesSound`, `RemovedStaysRemoved`**: the races of the form. An image removed *during*
  an upload comes back with it, and may be posted; `SavesSound` says that it is then a stored
  file all the same, `RemovedStaysRemoved` what does hold of removals.
* **`OneProductPerForm`**: after a save that made a product the form sends another only if
  that save was shown to the operator as a failure. This does happen, and makes a second
  product: the answer is lost on its way, or the COMMIT is stored but its reply is not
  received and the server says 500 (`ProductWrites` has that step). What it excludes is a
  second product without any failure shown, by a double click or a late answer.
* **`ReportComplete`**: every fault once (a missing field, an unknown field, a keyword that a
  value fails), and nothing with a fault is stored.
* **`RowsNeverGoBack`**: with the exception it states. An operator who goes back or forward
  with the penalize dialog open and confirms it before the new list is there sends the
  change with the new generation; if another operator edits after it, the list can show the
  later version first and then be replaced by the answer. TLC finds that when the
  exception (`overtaken`) is removed.
* **`ControlsMatchRequests`**: the safety form of "nothing stays disabled for ever", in both
  directions, over navigation and remounted pages.
* **`OnlyConflictsRefuse`**: what the page offers for a row, alone or in a batch, is what the
  server lets through unless somebody has changed the product since. It fails if a button
  of `status.ts` and the server's table part ways in one entry.
* **`SessionKept`**: a 401 for an earlier token does not end the session of a later one.

*Why these bounds.* Three requests are what a lost update behind a third transaction, or a
pool of two with a waiter, takes; two rows are what a lock cycle takes; one reader that
shares a flight and one that competes with it are all the roles a reader has. A timeout of
one tick can expire or not, which is all a single await can do; the latency run uses a
polling budget of two so that there are several rounds. The safety theorems below do not
depend on any of these bounds; the runs check the invariants a user would ask for, and what
`WriteInvariant` and `ReadInvariant` add to make them inductive is left to the proofs.
Symmetry is used in safety runs only, over identifiers no definition tells apart (requests;
the readers that reach the same instance for the same product).

*Deadlock* is checked in every run: the only state without a further step is the one where
all requests are answered and no flight is left (`AllAnswered`, `Quiet`).

### Fairness

* `ProductWrites!FairSpec`: weak fairness of `Handle(r)`, the next step of a request's own
  handler. The event loop keeps running ready coroutines, PostgreSQL keeps answering and
  ends a lock wait when the holder's transaction ends. Nothing is assumed of `Receive`,
  `Die`, `CommitReplyLost` or of the operator. Weak fairness suffices for a lock wait
  because only finitely many requests can take the lock first.
* `PublicRead!FairSpec`: weak fairness of `Tick` (time does not stop) and of each reader's
  and each flight's next step. Nothing is assumed of Redis or PostgreSQL: a step may be a
  success or a failure, and never requires that an operation succeed.

### Findings

`coherence_torn`: the design says Redis keeps a *snapshot* of the public detail
(`docs/superpowers/specs/2026-08-21-product-management-design.md:39`). `get_public` reads
the row and its images by two statements (`repository.py:88-96`) at READ COMMITTED, so an
edit that commits between them gives one version's row with another's images, cached until
the next delete or the entry's end.

`form_field_errors`: the admin UI document says field errors keep the server's path and are
located at their control (`docs/ui/product-admin-ui.md:88`). The server names a faulty
attribute `file_url` (`service.py:52-57`), the form's control is
`["attributes", "file_url"]` (`DynamicFields.tsx:66`), and the general error is shown only
when there are no field errors (`ProductFormPage.tsx:121-123`): the operator sees nothing.
The page's own test mocks a path with the prefix.

`read_doc_lock`: `docs/superpowers/specs/2026-08-21-product-management-design.md:177` says
the short lock guarantees that only one instance rebuilds
(短锁保证跨实例只有一个重建者). The settings only require
`db_query_timeout_ms < cache_lock_ttl_ms` (`core/config.py:33`). A rebuild also waits for
the lock reply, a slot and the cache write, so under settings the program accepts the lock
can expire first and a second instance rebuilds at the same time. The default settings
(3000 ms against 2·200 + 100 + 500 ms) satisfy the relation under which the guarantee holds.

## 4. What is proved

All theorems hold for any number of requests, readers, instances, products and templates,
and for all timeouts, under the named assumptions of the modules (types of the constants,
`QueryTimeout < LockTTL` as the settings require it; the sets of readers and uploads finite,
and of product ids, which have 128 bits; templates and the objects of requests with finitely
many fields, as JSON has). TLC evaluates every assumption in the passing runs.

**`ProductWritesProofs`.** `WriteInvariant` is inductive (`WriteInvariantHolds`); from it
follow `TypeCorrect`, `AttributesAlwaysFit`, `ImagesAlwaysMatch`, `RepliesAreHonest`,
`NoUpdateIsLost`, `PenalizedIsTerminal` and the refinement `WritesImplementCatalog`.
The user-visible invariants are not inductive alone: that a commit publishes a good row
depends on what the transaction has read. `LocalInv` adds, for each await, what the request
knows, and `Prepared`: a transaction that has written holds the locks of exactly the rows
its change was computed from, and those rows are still what it was computed from. The
proof has one lemma per action; `LocalFrame` and `PreparedFrame` show once that a request is
not disturbed by a step of another that touches no row it has locked and no bound template.
`PublishEffect` is the heart of the refinement: what a commit publishes is `Create`,
`Update` or `Move` of the abstract catalogue, by the kind of request.

`NobodyWaitsForEver` proves `NoDeadlock` from a second invariant, `LockOrder`: a request
holds locks only at the awaits of an open transaction; an edit that has not written holds
none; a batch holds only rows of its own, and every one it still has to lock is greater
than those it holds. Take, among the locked rows, the greatest (`GreatestElement`; the ids
are finite): its holder waits for no row, since what it would wait for is locked and
greater, and for no connection, since it has one. When no row is locked, nobody waits for a
row, and a request that waits for a connection leaves the pool's users to go on.

**`PublicReadProofs`.** `ReadInvariant` is inductive (`ReadInvariantHolds`), giving
`TypeCorrect`, `FlightsAreSingle`, `SlotsAreConserved`, `AnswersAreTrue`. The strengthening
says that what is registered, joined or cached is about the right product and instance.
`SlotsAreConserved` counts a finite set whose members change one at a time.
`OnlyOwnersRelease` is the action property of the lock. `LockOutlasts` and
`OneRebuilderHolds` assume in addition `LongLock`: LockTTL > 2R + S + Q. Their invariant is
`LockOutlastsRebuild` itself: along a rebuild the key's time to live and the time the
rebuild can still take shrink together, and each new await takes a share that
`RebuildLeft` had already counted.

**`PublicReadLatencyProofs`.** `FlightsStayOnSchedule`: `OnSchedule`, time spent plus time
left below the bound at every await, is inductive over `AgedSpec`; `LatencyIsBounded`
follows. The history variable is harmless: every behaviour of `AgedSpec` is one of `Spec`.

**`CacheCoherenceProofs`.** `StalenessInvariant` with `TypeOK` is inductive: wherever a
reading can wait (a flight, a put given up, the entry, the reply to a get) its age plus the time it may still
spend there is bounded, and moving it on spends a share that was counted. From it
`CacheIsStaleRegister` (every answer comes from a flight about to end or from the reply to a
get, whose age and remaining time are bounded like those of the entry it was read from),
`NoLateFills`, and with the bookkeeping of the gathered tasks `ShutdownIsOrderly`.

**`RateLimitProofs`.** `RateInvariant` relates score, real time and membership. A set of
admitted requests within a short enough interval was a subset of `members` when the last of
them ran, whence `LimitHolds`; `RefusalsJustified` reads the same relation the other way.

**`FieldSchemaProofs`.** `ReportsEveryFault`: for *every* template of scalar fields and
*every* object with finitely many fields, the report names each fault, field and keyword, and
names none twice. What a loop
computes for every input is an induction, and the library's induction theorems take an
operator as a parameter, which the provers cannot instantiate. The proof goes by the least
counterexample instead: if the loop invariant failed after some number of errors there
would be a least such number (`LeastElement`), it is not 0, and the step before it holds the
invariant. The invariant says that the report so far lists, without repetition, what the
errors so far are about, and that `seen_required` is either empty or all the missing fields.

**`ProductFormProofs`.** `StoreStaysHonest` is an invariant of each upload alone.
`PostsAreSound` follows the numbers of the template requests and the lifetime of a stored
file; `RemovalsHold` needs that what an upload keeps holds nothing removed before it;
`OneProduct` that a product of an earlier save, unless that save was shown as a failure,
means the page still waits for its answer. `FormTypes`
(`TypeOK`) needs counting: that template requests, saves, posts and pictures stay within
their bounds is not inductive, so `TypesInv` adds how the sets under way are numbered, and
that the images of the form with those of the upload under way never exceed the gallery and
one main image. `ReportsComplete` carries `ReportsEveryFault` to every refusal the server
has given: each was made from a template and an object that theorem speaks of.

**`ProductListPageProofs`.** The invariant has four parts. `Types` and `Controls`: each
control that waits has its one request. `Refusals`: only expired tokens are refused.
`Versions`: what the page knows is never ahead of the server, and what it asks for it has
shown. `Fresh`: an answer under way to the query shown is news, that is, a change answers
with the version after the one shown, there is one such answer for a product at most, and
none while the list is loading unless the operator confirmed a change meanwhile.
`ChangesAreLegal` (`OnlyConflictsRefuse`) adds `Legal` on top of `Versions`: a row, a dialog
or a request that names the server's present version of a product has its present status
too, so a transition the client's table allows from it is one of the server's. All of it holds
for any number of products, logins and requests, and any values of the bounds.

*Only model-checked:* the liveness properties (`EveryRequestAnswered`,
`EveryReaderAnswered`, `OrphanLocksExpire`), which need fairness and ENABLED, outside the
prover's reach (`NobodyWaitsForEver` and `LatencyIsBounded` are the safety halves of the first
two). Every invariant and every other action property or refinement of the passing runs is a
theorem. The console has no liveness property: nothing in the code makes a
request be answered, and `ControlsMatchRequests` says what must hold when it is.

## 5. Limits worth knowing

* A create has no idempotency key. A create whose reply is lost, or is a 500 after the
  COMMIT was stored, and that is sent again makes a second product; `VersionedCatalog` allows that, since the two are different requests.
* The ids of the model are finite, so the liveness run sends no creates (a create that finds
  no free id would wait, which a UUID never does).
* `ProductWrites` models the deletes of `_invalidate` as *tried*; that Redis may not execute
  them, and the retry tasks, are `CacheCoherence`'s. The two meet at the commit.
* `CacheCoherence` has one product; entries of different products never interact. TLC has
  one write: two versions are what a stale answer takes. Its bounds have `Late` = 0, so that a
  put given up still runs after other steps, a commit and its delete included, but in the same
  tick. The proofs have any number of writes and any `Late`.
* `RateLimit` is one address; a Redis that restarts and loses the set is left out.
* `ImageStore` is about a process that dies, not about a power loss (the directory is not
  synced), and images no product refers to are kept for ever, as in the code.
* `ProductForm`'s bounds `MaxChanges`, `MaxSaves` and `MaxInput` are arbitrary numbers;
  those in `OtherUpload` and `ServeOther` limit when *other* clients act, to
  keep the state space of the page small; the theorems inherit them, since they are guards.

## 6. Not modelled, and what is left

*Left for later:* the page in edit mode (its type is fixed and its save names a version;
`ProductWrites` has the server's half); the detail page (one load and one status change);
the composition of `ProductListPage`'s server with `VersionedCatalog`, whose status rule it
restates; the initial load of the form.

*Not to be modelled:* metrics and error formatting (nothing depends on them); search filters
and paging beyond "any set of products"; `_client_ip` and the id check of the public router,
password and token cryptography, URL and pattern formats of templates (pure functions over
strings, no state); styling; nginx and compose files; migrations and seed data (run before
the services start; the constraints they create are part of `ProductWrites`).
