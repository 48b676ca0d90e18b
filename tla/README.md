# Verification of Backk

Backk is a Node.js framework (TypeScript) for microservices: a microservice is a class whose fields are
services and a data store, clients call *service functions*, and Backk reserves database connections, runs
transactions, authorizes, validates, caches, retries, schedules and generates code around them. This directory
holds TLA+ models of its run-time core, the TLC configurations that check them and TLAPS proofs about them.
All source paths below are relative to `src/src/`.

- `PROJECT.json` lists components, runs, the source lines that every definition stands for, the mutants that
  show that each property can fail, hazards, findings and theorems.
- Run `tlc -config X.cfg M` for the pairs of the table "Runs", and `tlapm M.tla` for each of the `*Proofs`
  modules.

## 1. Inventory

| Component | State | Operations | Interacts with | What makes it correct |
|---|---|---|---|---|
| Service function execution (`execution/tryExecuteServiceMethod.ts`) | the cls-hooked context of a call: `connection`, `localTransaction`, `globalTransaction`, `dbLocalTransactionCount`, `remoteServiceCallCount`, `dbManipulationOperationCount`, hook flags, `userAccountId` | authorize, validate, read cache, reserve, resolve the user account, call the function, release, check the counters, validate the result, write cache, respond, audit | all others | connections come back, an answered call is one unit of work, errors are answered |
| SQL data store: connections and transactions (`datastore/AbstractSqlDataStore.ts`, `datastore/sql/operations/transaction`) | pool, the flags above | tryReserve-, tryReleaseDbConnection…, tryBegin-, tryCommit-, tryRollbackTransaction, executeInsideTransaction | database | a connection has one owner; writes are in transactions; success means committed |
| SQL data store: entities (`datastore/sql/operations/dml`, `dql`) | rows with `version`/`lastModifiedTimestamp` | create, get, update, delete by id, by filters, sub-entities, array values, bulk operations | hooks, transactions, joins | no lost update, no partial change, pre-hooks see what is locked |
| Query construction (`datastore/sql/operations/dql/clauses`, `filters`, `expressions`) | none (`entityNameToJoinsMap`) | SELECT/WHERE/JOIN/ORDER BY/LIMIT | entities | the statement means what the filters say |
| MongoDB data store (`datastore/MongoDbDataStore.ts`, `datastore/mongodb`) | client sessions | the same interface | hooks | the same |
| Database initialization (`datastore/sql/operations/ddl`) | `__backk_db_initialization`, `isInitialized`, join map, an interval timer | shouldInitializeDb, create and alter tables, setDbInitialized, removeDbInitialization | start, startup check, startup tasks, cron table | one pod initializes; a mark means a complete schema; every pod gets to serve |
| Microservice start (`microservice/`) | order of starting | the loop around initializeDatabase, startup tasks, jobs, request processors | all | requests only after the data store is ready |
| Cron jobs (`scheduling/scheduleCronJobsForExecution.ts`) | `__Backk__CronJobScheduling`, timers, retries | fire, lock and compare, run, move ahead | SQL data store | once per schedule time over all pods, and not never |
| Scheduled calls (`scheduling/tryScheduleJobExecution.ts` …) | `__Backk__JobScheduling`, timers | store, load, attempt | SQL data store | a job is taken once, and is executed |
| Multiple calls (`execution/executeMultipleServiceFunctions.ts`) | results of earlier functions | parallel, sequential, in a transaction | execution | results belong to their function, all or nothing |
| Remote services (`remote/`) | Kafka producers, Redis clients, HTTP | call, send, send inside a transaction, consume | execution | a message is handled, order is kept |
| Request processors, subscriptions (`requestprocessor/`, `subscription/`) | subscribers | requests over HTTP/1, HTTP/2, Kafka, Redis | execution | a response reaches its request |
| Response cache (`cache/`, Redis) | cached responses | read, write with TTL | execution | staleness is bounded |
| Authorization, captcha, encryption, validation | annotation containers | decisions of one call | execution | decision follows the annotations |
| Code generation, observability | files, log, metrics | offline, output only | – | – |

What is hard here:

- **Concurrency inside a pod.** Calls interleave at every `await`; they share the pool, and database rows
  across pods. What a call is in the middle of lies in a handful of flags of its cls context that many
  functions set and reset.
- **Failure in the middle.** Any statement, BEGIN and COMMIT may fail; user code may throw; errors travel as
  `[result, error]` pairs, whose truthiness and forgotten halves decide about retries.
- **Several pods.** They elect who creates tables and who runs a job through one row of a table, crash and
  start again, and have timers for the same jobs.
- **Time.** Schedule times, retries, the 500 ms that cron's pre-hook tolerates, dates that have passed, rows
  pending for five minutes.

`PROJECT.json` "hazards" lists the places in the code, with the properties that guard each.

## 2. Modules

| Module | Models | State ↔ code |
|---|---|---|
| `SqlServer` | the database: connections in no/open/aborted transaction, row locks, uncommitted and committed versions. External: modelled from how `AbstractSqlDataStore` uses PostgreSQL (READ COMMITTED, `SELECT … FOR UPDATE`, deadlock detection, an error aborts the transaction) | `db` committed version of a row (0: no row), `pend` uncommitted writes of a connection, `lock`, `tx` |
| `ServiceFunctionExecution` | concurrent calls on one pod, from reserving a connection to the checks after the call; EXTENDS `SqlServer` | `pool`, `conn`, the cls flags and counters by their names; `pc` is the await a call is at; `op` the operation under way with the version it read; `depth`/`failed` the nesting of executeInsideTransaction and the last returned error |
| `BulkOperations` | createEntities and deleteEntitiesByIds of one call: executeInsideTransaction with parallel createEntity or deleteEntityById on one connection; EXTENDS `SqlServer` | `queue` = the statements pg's Client has been handed, `call` = the await of executeInsideTransaction, `element[e]` = that of the operation on array element e, the cls flags by their names, `didStart` = didStartTransaction, `late` (ghost) = elements that had sent nothing when the first one failed |
| `DbInitialization` (+ `MC`) | several pods that start on an empty database | `row` the version's row, `schema` the tables, indexes and columns of foreign ids that exist, `constraints` the unique indexes and foreign keys of the latter, `pc` the await of initializeDatabase, `listed`/`twice` = the pod's entityNameToForeignIdFieldNamesMap, `serving` = request processors started, `removing` = the interval timer of removeDbInitialization, `lost` (ghost) = parts that a try has given up |
| `EntityStore` | **abstract**: what `docs/api` promises of a data store – an operation takes effect at one moment, or answers an error and has changed nothing | `entities` with owner, version, value, sub-entities, array values and links; one call and answer per caller |
| `Order` | the k-th number of a finite set, and a sequence without some values; for the arrays of `EntityStore` and of both stores | |
| `SqlEntityOperations` (+ `MC`) | every operation of `AbstractSqlDataStore` on an entity with all kinds of children, by id, by filters and for all entities, statement by statement; refines `EntityStore` | `tables` and `work` = committed rows and rows as the connection sees them, `queue` = statements sent, `account`/`saved` = userAccountId around hooks and nested calls, `serial` = the tables' sequences |
| `MongoDbEntityOperations` (+ `MC`) | the same interface of `MongoDbDataStore` for callers that overlap; refines `EntityStore` | `docs` the collection, `local`/`own`/`global` the cls flags, `todo` = documents that an updateMany or deleteMany has not reached, `used` = _ids that were stored or named by a call, none of which an ObjectId repeats |
| `EntityQuery` | a query that a client composes (`includeResponseFields`, `excludeResponseFields`, `filters`, `sortBys`, `paginations`), and what it asks for (`AskedAnswer`) | `query`, which grows by one part in each step |
| `SqlQuery` | the SELECT that the SQL store builds from it, when the database refuses it, and the entities made of its rows; EXTENDS `EntityQuery` | pure operators named as the functions of `dql/clauses`, `dql/utils`, `dql/transformresults` |
| `MongoDbQuery` | the aggregation that the MongoDB store builds, its queries for many-to-many relations and its cutting of pages; EXTENDS `EntityQuery` | operators named as the functions of `datastore/mongodb` |
| `QueriesMC` | one class with stored entities, and the parts of queries | |
| `MessageQueues` | Kafka and Redis: senders, the consumers of all pods, crashes. External: brokers, group coordinator, kafkajs | `log`, `committed`, `owner` the partition; `list`; what each pod's consumer does; `executed` per message (ghost) |
| `CronJobScheduling` (+ `MC`) | one @CronJob function on several pods | `next` = nextScheduledTimestamp, `holder` = who has locked the row, one firing per pod and schedule time with its attempts; `base` and `steps` = what the firing's parsed schedule stands at |
| `JobScheduling` | calls scheduled by clients | `rows`, `timer`, `left` = attempts left, `free` connections, `loaded` = `scheduledJobs` set |
| `ServiceFunctionExecutionProofs`, `SqlEntityOperationsProofs`, `BulkOperationsProofs`, `CronJobSchedulingProofs`, `DbInitializationProofs`, `JobSchedulingProofs`, `MessageQueuesProofs`, `MongoDbEntityOperationsProofs` | theorems about the module of that name, see 5 | inductive invariants and lemmas only |

Service functions are user code: `ServiceFunctionExecution` lets them be any sequence of data store
operations, executeInsideTransaction and remote calls; constants restrict it (`MaxDepth` nesting,
`IgnoresErrors`, `MayThrow`). One action is what happens between two awaits that another call can observe: a
statement together with the bookkeeping before and after it. An operation that starts no local transaction
goes straight to its first statement. `DataStoreOperation` groups BEGIN, SELECT, write and
COMMIT/ROLLBACK of `createEntity`, `getEntityById`, `updateEntity` and `deleteEntityById` (with and without a
version check by pre-hook). There, rows are versions and calls run at the same time; `SqlEntityOperations` is the
counterpart: one call at a time, and all of its statements and rows.

`SqlEntityOperations`: `Targets`, `Effect` and `Then` say what a statement does and what its branch sends when it
is answered; the statements that `forEachAsyncParallel` sends at once are queued in their order. An error sends
ROLLBACK *behind* those that are queued, and what branches send later runs outside the transaction. Under the
refinement mapping `Stored` makes entities of the committed rows the way the result mapper does (rows of one id
are one object), and a call is answered in `EntityStore` when its COMMIT or ROLLBACK is done.

`MongoDbEntityOperations`: one action is one operation of the driver. `session.withTransaction` is called, but
the session is passed to no operation, so that each takes effect at once. Under the mapping a change of many
documents counts as done from its first document on. `EntityStore` knows no transactions of several operations,
which is why the refinement can hold at all: see the finding `mongo_hooks`.

Where these two modules depart from `docs/api`, they say so by name (section 6 lists the cases). `Defective` in
`SqlEntityOperations` are calls that `Deviations = FALSE` leaves out. In `MongoDbEntityOperations` every call is
made, with every overlap: `Departs` tells where the *next operation* of a caller would do something else, and
`Deviations = FALSE` stops the caller there and nowhere else. Errors after the change are not among them: hooks refuse
and the server fails after the write as they do in the code, and `EntityStore!SpecWithoutUndo` has a step for what
is left of the promise (`Deny`: an error is answered although the operation has taken effect). Only an updateMany or
deleteMany that the server fails halfway is left out with `Deviations = FALSE`.

`SqlQuery` and `MongoDbQuery` compare what the stores do with `AskedAnswer`, a definition of its own of the
filtered, sorted, paginated and projected tree; its pages are places in a list (`AskedPage`), those of the stores
are LIMIT and OFFSET, `$skip` and `$limit` (`Window`). The classes of queries that are answered otherwise are
operators of their own (`IdNotSelected`, `LinksPaginated`, `ParameterShared`, `NameContinued`; `IdShown`,
`DeepInclude`, `IncludedTwice`, `PropertiesAdded`, `SortedAway`, …): none of them can be left out of the property.
Where the outer ORDER BY sorts joined tables (`RootOrderLost`), the root entities are compared as a set, and
`SqlKeepsRootOrder` says what is lost. The rows of the outer statement are built for this (`RowsOf`). Names are model
strings and paths are sequences; where the code compares the *text* of paths (`startsWith`), `TextStartsWith` does, with
the pairs of `NamePrefixes`. `references` are the one-to-many relations whose class refers to the table of another one:
`getRootProjection` adds all properties of these where a query names none of them.

`MessageQueues`: a message is one call of a service function. `Refused` are answered with 4xx or cannot be
parsed. Re-sending after 5xx needs the cls context of a service function, which no consumer has, and throws
(sendToRemoteService.ts:22-31): `SendAgainToKafka`, `SendAgainToRedis`. One partition is modelled, because messages
of one service function have one key. `skippedTo` (ghost) remembers where a group without offset started.

`BulkOperations`: statements are executed one at a time in the order of `queue`; what the code does after an
answer, up to the next await that takes time, is part of the step of the answer. Only hashing and pre-hooks take
time by themselves. `Fail` is the catch, `Finish` the end of try, `Settle` the finally of an operation together
with what Promise.all and executeInsideTransaction do with its result. Once the connection has been released,
its use by other calls is not modelled.

`DbInitialization`: every pod follows `initializeDatabase` statement by statement as far as other pods can
see. `Parts` is the sequence of what is created: tables (of entities, array values and associations), indexes, whose
errors `tryCreateIndex` swallows, and foreign ids: a column, then a unique index, then a foreign key, all three skipped
when the SELECT finds the column. What a failed try or a crash leaves out for ever goes into `lost`. `Owner` says whose
table lists a foreign id: it is listed again by every try of the same pod, and then added twice. `Throw` is the
catch of `initializeDatabase`, `StartupCheck` is `DefaultStartupCheckServiceImpl` with `isDbInitialized`. Column
changes of existing tables are not modelled but for their failing (the database is empty at first), nor the connection
that the startup check reserves.

`CronJobScheduling`: `Fire` is the `CronJob` callback; an attempt reserves, locks and compares, runs the
function and commits or rolls back; `findAsyncSequential` is `EndAttempt`. The schedule is parsed once per firing
and `interval.next()` is called once per *executable* (`Begin`), so not by an attempt whose reservation or BEGIN
fails: `NextSchedule` is what it returns, and a firing with such an attempt is `Late`. `unmoved` (ghost) holds the schedule
times that late runs have written, `failures` (ghost) those at which a run failed. A `Start` is
`tryInitializeCronJobSchedulingTable`. A unit of time is longer than the 500 ms tolerance, pods' clocks agree, and with
`Punctual` what is due is done before time goes on.

`JobScheduling`: `Truthy` is TRUE for every `[result, error]` pair, which is what lets attempts repeat and the
function never be called (finding `jobs_executed`). `Finally` releases nothing because the `connection` flag
is set in another order (scheduleCronJob.ts:65-66). Validation of the request and the list of intervals are
reduced to the number of attempts. A timer that the startup check starts a second time is one timer here.

## 3. Runs

| Run | cfg / module | Question and answer | Bounds, and why they are enough |
|---|---|---|---|
| transactions | `Calls_transactions` / `ServiceFunctionExecution` | do two calls that update and delete the same rows, inside executeInsideTransaction or not and with database errors, keep versions and transactions sound, does success mean committed, and is every call answered? yes | 2 calls, 2 connections, 2 rows, 2 operations each: opposite lock orders, deadlocks, and a frame with two writes; the safety properties are proved for any number (section 5) |
| operations | `Calls_operations` / … | do all operations, exceptions, remote calls and annotations keep connections owned and clean, writes inside transactions and one unit of work? yes | 2 calls of different annotations after one another on 1 connection, so that the second inherits what the first left; 2 operations and 2 remote calls, the numbers the checks compare with |
| sql_entities | `Sql_entities` / `SqlEntityOperationsMC` | is every operation one atomic step of `EntityStore`; no orphans; context and connection left as found? yes, outside `Defective` | 2 stored entities of 2 accounts with a child of each kind, or none; 3 calls (a change, one that meets it, and a read), 1 failing statement anywhere; 96 different calls |
| mongo_entities | `Mongo_entities` / `MongoDbEntityOperationsMC` | the same for two callers of a MongoDB store that overlap? yes, but where `Departs` stops them, and an error may deny what was done | 2 callers, 3 calls, 1 error: two calls overlap while the third sees the result; 32 different calls, of every kind |
| mongo_hooks | `Mongo_hooks` / … | is what is answered with an error undone? **no** | 1 caller |
| queries | `Queries` / `QueriesMC` | which queries does an SQL store refuse, and which do the stores answer as they ask? those of the three properties | all queries of up to 3 parts of 42 (20,132 queries), twice: the class of the sub-entities refers to another one's table or does not; each deviation needs one or two parts, the third meets it; 2 root entities, 3 levels, an array, a many-to-many relation, a denied property, a name that starts another one |
| message_queues | `Message_queues` / `MessageQueues` | are Kafka's messages executed in order, none passed over and all in the end, and Redis's at most once? yes, but for messages before the group's first offset and behind refused ones | 3 messages, 1 refused: one before and one behind it; 2 pods, 1 failure (5xx or lost acknowledgement), 1 crash or reassignment |
| db_start | `Db_start` / `DbInitializationMC` | one initializer, mark means schema, all pods serve? yes, but for what a failed try has given up (`lost`) | 2 pods, 2 tables, an index and a foreign id, an error, a crash, five minutes may pass: every pair of "a pod deletes the other's row" and "the other is at …" occurs, and a second try that lists the foreign id again |
| bulk_parallel | `Bulk_parallel` / `BulkOperations` | do the rows of createEntities and deleteEntitiesByIds change together, does success mean all, is the connection clean when released, does everything end? yes, but for elements that had sent nothing when the first one failed (`late`) | 3 elements: one fails while one has sent its INSERT and one has not |
| cron_firings | `Cron_firings` / `CronJobSchedulingMC` | once per schedule time but for those that a retry has written late (`unmoved`), none missed unless a failure, no connection lost, every firing ends? yes | 2 pods, 2 schedule times, a start in between, a retry between two firings and one together with the next, failures before and behind `interval.next()`; 1 connection per pod, so that firings of a pod compete |
| jobs_attempts | `Jobs_attempts` / `JobScheduling` | is a job taken once, are stored jobs timed, do timers end? yes | 1 job (jobs share connections only), 2 pods, 3 attempts, 2 crashes, so that both pods can have lost the job's timer |
| jobs_executed | `Jobs_executed` / … | is a taken job executed? **no** | nothing fails |

Deadlock is not checked where the system may really stop: a call that throws keeps its connection and locks
(`Calls_operations`), and the bounded runs of the other modules end. It is checked in `Calls_transactions`.

**Fairness.** `ServiceFunctionExecution!FairSpec`: weak fairness of the steps of each call – the database
answers, promises settle, user code returns – but not of errors that would save a call from waiting: neither of the
pool's failure nor of a failing statement that waits for a lock (`WaitsForLock`), unless the database has to end a
deadlock. Weak fairness is enough although calls compete for connections and row locks, because every call is
finite: the ones that have a connection or a lock end and free it. `BulkOperations`: weak fairness of the next-state
relation, as every behaviour is finite. `MessageQueues`: weak fairness of each pod's two consumers and of the
assignment of the partition; senders, crashes and reassignments are not fair. In the other modules: awaits settle
(weak fairness per pod or firing), timers go off, time passes and a container that ended is started again. Crashes,
errors and time limits are never fair.

**Constants no run varies.** `CronJobScheduling` has `Punctual` and `FieldNamedAsClass` TRUE in all runs; set
to FALSE they show the divergences of section 6. `Deviations = TRUE` in `Sql_entities` shows those of the SQL
store as counterexamples of `ImplementsEntityStore`, and in `Mongo_entities` those of the MongoDB store.

## 4. Findings

Two runs have `expect: violation`, and are quoted in `PROJECT.json`:

- **jobs_executed** – scheduleCronJob.ts:36-41 takes the truthy result pair of `deleteEntityById` for an error:
  the row is deleted, the function never called.
- **mongo_hooks** – MongoDbDataStore.ts:172 opens a transaction that no operation is part of. A post-hook that
  refuses, or a read-back that fails, answers an error for a change that stays (docs/api/HOOKS.MD:4-5).

Eleven more have a configuration, and TLC finds its property violated, but they are not among the runs: the properties
of the runs except them by name, or by the bounds given.

| Configuration / module | Property that does not hold | Code |
|---|---|---|
| `Calls_nested` / `ServiceFunctionExecution` | `OpenFrameUncommitted` | AbstractSqlDataStore.ts:428 resets and commits for the inner executeInsideTransaction what the outer one has begun: `globalTransaction` is a flag, not a depth (docs/api/ABSTRACT_DATA_STORE.MD:24) |
| `Calls_begin` / … | `WriteInsideTransaction` | AbstractSqlDataStore.ts:412 returns from a failed BEGIN with `globalTransaction` set: what the function does then is outside a transaction (docs/api/HOOKS.MD:4-5) |
| `Cron_early` / `CronJobSchedulingMC` | `RunsOnceWithoutException` | scheduleCronJobsForExecution.ts:50 calls `interval.next()` inside the executable: a retry one period after an attempt that did not get there writes the current schedule time, and the job runs again for it (docs/usage/SPECIAL_SERVICE_FUNCTION_TYPES.MD:16-17) |
| `Cron_missed` / … | `RunsOnSchedule` | scheduleCronJobsForExecution.ts:55: `nextScheduledTimestamp` moves only with a run that succeeds; once it is more than 500 ms behind, every retry and firing is refused until a pod starts (same doc) |
| `Db_indexes` / `DbInitializationMC` | `UniqueIndexesCreated` | tryCreateIndex.ts:20 writes `CREATE UNIQUEINDEX` and line 26 swallows the error: there is no unique composite index in any database (docs/api/DECORATORS.MD:106-107) |
| `Jobs_late` / `JobScheduling` | `StoredJobIsTaken` | tryScheduleJobExecution.ts:71: nothing compares the timestamp with the time; a timer that is started after it never goes off, and the row stays (docs/usage/SCHEDULING_SERVICE_FUNCTION_EXECUTION.MD:3) |
| `Jobs_pool` / … | `ConnectionsComeBack` | scheduleCronJob.ts:65-66 releases the connection while a flag is set that turns the release into nothing (same doc) |
| `Bulk_delete` / `BulkOperations` | `ReturnsNothingOrError` | AbstractDataStore.ts:107: what the executable of deleteEntitiesByIds returns is no `[result, error]` pair, so that executeInsideTransaction throws when every DELETE has succeeded: nothing is committed, the transaction stays open and the connection reserved (docs/api/DELETE_ENTITIES.MD:64-66) |
| `Mongo_versions` / `MongoDbEntityOperationsMC` | `NoStaleUpdate` | MongoDbDataStore.ts:1276 looks for the version in the `{metadata, data}` pair: the eTag of an update is never compared with the stored version (docs/api/ERRORS.MD:7-11) |
| `Sql_order` / `QueriesMC` | `SqlKeepsRootOrder` | getSqlSelectStatementParts.ts:59: the outer ORDER BY has the columns of joined tables only, and root entities come in the order of their sub-entities (docs/api/POST_QUERY_OPERATIONS.MD:2-3, 119) |
| `Mongo_order` / … | `MongoDbSortsAsAsked` | performPostQueryOperations.ts:21 adds `$project` before `$sort`, `$skip` and `$limit`: a property that is not projected sorts nothing, and another page is cut (docs/api/POST_QUERY_OPERATIONS.MD:2-3) |

## 5. Proofs

Each `*Proofs` module proves theorems about the module of its name for every value of the constants. Every module but
those of the queries has one. They rest on the modules' named assumptions alone: that bounds
are numbers and sets are finite, that "no pod", "no job" and "no message" are none (`NoPodIsNoName`,
`NoMessageAssumption`), and for the entity operations of the two stores that what is stored at first has the shape that
the operations give it (`ConstantsAssumption`; for SQL also that rows are numbered by the sequences of their tables and
that the sub-entities and the values of an entity differ in their ids) and that operations are calls of the store's
interface (`OpsAssumption`: a call by `_id` names one, a call for all entities none, links are finitely many).
What else a theorem supposes is in its ASSUME, and was found with TLC: without it the property is false.

| Theorems | Hypothesis | Why it is needed |
|---|---|---|
| `WriteInsideTransaction`, `NoLostUpdate`, `OpenFrameUncommitted`, `SuccessMeansCommitted` (`ServiceFunctionExecution`) | `Careful`: `MaxDepth <= 1 /\ ~IgnoresErrors` | a nested executeInsideTransaction commits the outer one's writes (AbstractSqlDataStore.ts:387-433); a function that goes on after a failed BEGIN writes outside |
| `NextLiesAhead`, `RunsOncePerSchedule` (`CronJobScheduling`) | `OnTime`: `Punctual`, and a retry starts at a schedule time only if there have been more attempts than periods until then | a retry at a schedule time finds the row due and writes what *its own* firing's schedule has reached; where attempts before it have failed before `interval.next()` that is too early, which the properties except (`WrittenLate`, `unmoved`), and where attempts are too few for the time that has passed too. The default retry intervals never lead to a whole number of minutes |
| `RunsWhenUndisturbed` | also a pod and an attempt | nothing runs otherwise; without `Punctual` the pre-hook refuses for ever |
| `NoOrphans`, `LeftAsFound` (`SqlEntityOperations`) | `~Deviations` | an update with sub-entities makes orphans, getEntityByFilters with hooks that finds nothing leaves its transaction open (section 6) |
| `ContentInvariant`, `EntityStoreImplemented` (`SqlEntityOperations`) | `~Deviations` | each call of `Defective` does something else than `docs/api` says, with no other call around (section 6) |
| `Refinement` (`MongoDbEntityOperations`) | `~Deviations` | a step of `Departs` does something else than `docs/api` says: for an entity that is not there, with sub-entities, with another version than the one that was read or expected, or on documents that another caller's updateMany has not reached (section 6). That the calls overlap at all is not excluded, nor that an error comes after the change |

Every other theorem has no hypothesis: the types of all modules but `MessageQueues` (`TypeCorrect`),
`ConnectionOwnership`, `PooledConnectionsClean` and `UnitsOfWork` for **every** service function,
`ConnectionsAccounted`, `JobTakenOnce`, `StoredJobsHaveTimers`, `InitializedMeansSchema`, `OneInitializer`,
`SuccessMeansAll`, `ReleasedClean`, `RowsChangeTogether`, `ConsumedInOrder` and `RedisAtMostOnce`.

The arguments. Hardly one of these is inductive as it stands:

- `ServiceFunctionExecution`. A call at "done" gives back a connection, and only what it did before tells that no
  transaction is open on it. `CallInv` adds that a call between arrival and end holds a connection
  (`CallsHoldConnections`), that locks and uncommitted writes belong to open transactions
  (`LocksBelongToTransactions`), and that a call that is not inside executeInsideTransaction has a transaction only
  while an operation is under way (`NoTransactionBetweenOperations`). For careful functions `CarefulInv` adds that the
  two cls flags say what transaction is open (`Flags`: this is what a nested or failed frame breaks), that the row an
  update or checked delete has read stays locked until the write with the version it read (`EntityReadIsLocked`), and
  that the writes of an open frame are pending and locked. `PoolStep`, `ServerStep`, `ServerKeepsLocks` and
  `ServerRespectsLocks` reduce a step to one statement on one connection, so that the other calls' parts follow from
  ownership. For `UnitsOfWork`, `TransactionsCounted` says that the counter is never behind the units of work, counting
  the one under way when its operation started the transaction, so that the checks of lines 568-619 see each of them.
- `SqlEntityOperations`. An orphan would come from a statement that is executed when the row it belongs to is gone. The
  invariant therefore says what is *queued*: each statement fits the operation (`RunInv`), the entity it adds to exists in
  the transaction's view (`RowsInv`), what is left of a deletion meets rows whose children the statements in front of it
  have removed (`DeletesLeft`), and a ROLLBACK comes last, behind statements that change nothing while the transaction is
  still open (`FailingInv`). `StatementEffect` and `StatementsFit` reduce a step to one statement of a branch. With
  deviating calls the last two parts are what breaks.
  That it implements `EntityStore` (`EntityStoreImplemented`) needs to know what has been *written* as well. The rows as
  the connection sees them are neither the old ones nor the new ones until the queue is empty, so `ContentInv` adds the
  statements that are left: with their effects (`SubsAfter`, `ValsAfter`, `LinksAfter`) the rows of the entity are those
  the operation is to leave (`NewRoot`, `NewSubs`, `NewVals`, `NewLinks`), and only they differ (`Underway`). What keeps
  this true from statement to statement is their order: sub-entities are inserted with new ids before anything else,
  values behind the DELETEs of all values (`Orderly`). Updates and deletions of many entities have one statement that
  takes effect on the root rows (`ManyDone`, `DeleteDone`). `ReadInv` says that what was found and checked before is
  still what is stored, `RowIdsInv` that ids tell rows apart, which is what lets the result mapper make the right
  entities of the rows. The rows of an array field become a sequence by the lemmas on `Nth` and `Listed`. In the mapping
  COMMIT is the step of `EntityStore` (`CommitRefines`, by `CreatePerforms`, `ChangePerforms`, `NothingPerforms`,
  `ManyPerform`, `DeletionPerforms` and `QueryPerforms`), or the answer of a query without a transaction
  (`QueryRefines`); an error is a refusal, and all other steps change nothing of it (`StepRefines`).
- `BulkOperations`. The invariant follows executeInsideTransaction: what is queued and where each element is before,
  inside, and after the transaction. Behind the ROLLBACK only elements of `late` may write (`RollingBack`, `Answered`);
  without an error every queued statement belongs to the element that waits for it (`AllWell`), which is why COMMIT finds
  all rows written.
- `CronJobScheduling`. An attempt that was let in at its due time holds the row's lock, and the row stands at that time
  (`AttemptsOnTime`). How often its firing has called `interval.next()` decides whether what it writes lies ahead: at least
  once in the executable (`StepsTaken`), and as often as there were attempts unless it is `Late`. The row does not stand at
  a time that was served, or it was written late (`ServedOnce`). Undisturbed firings start at their schedule time, and the row stands at the first time that was
  not served (`RowFollows`).
- `DbInitialization`. What a pod has looked at or created exists, or is an index that was given up (`PartsLookedAtExist`), as
  nothing is ever dropped; and the column of a foreign id is not without its constraints unless a pod is at them or a try
  has given them up (`ConstraintsKept`). Together with the property they are `SchemaInv`.
- `JobScheduling`. Who deletes a row has locked it and a stored row was never taken (`RowsAreDeletedUnderLock`); a
  request that is being served is for a job of its own (`RequestsAreNew`); a stored job without a timer waits for a pod
  that has not loaded its jobs yet (`TimersAhead`).
- `MessageQueues`. A message is in one place: unsent, in the partition, in the list or with one pod (`OnePlace`);
  whatever is before an offset, or before a message that was executed, was executed or skipped (`InOrder`).
- `MongoDbEntityOperations`. No transaction or lock protects what an operation has read until it writes; what the refinement
  needs is that each document is changed by one operation at a time, from what it is *then*. `StoreInv` says so: the phase of
  a call fits its operation (`TypeInv`), no _id comes back and no version is NaN (`DocsInv`), documents that an updateMany or
  deleteMany has not reached match it still and are on no other caller's list (`TodoInv`), and the answer is fixed when the
  documents have been changed (`AnswersInv`). Callers overlap everywhere else, and read and write in turns. In the mapping a
  write of one document, a query, and the *first* step of a change of many documents are the steps of `EntityStore`
  (`InsertPerforms`, `WritePerforms`, `NothingPerforms`, `QueryPerforms`, `ManyPerforms`), an error before them is a refusal
  and one behind them a denial (`StoreRefuses`, `StoreDenies`); all others change nothing of it (`ManyGoesOn`,
  `StepRefines`). `ChangedAsPromised` compares field by field what the driver is told with what the API describes, where
  arrays of sub-entities are read as sets of ids and values (`ListedPulled`, `ListedKept`).

TLC checked the inductive invariants of `BulkOperations`, `SqlEntityOperations` and `MongoDbEntityOperations`, and
`TransactionsCounted`, as invariants of the runs before they were proved.

Only model-checked: liveness (`EveryCallAnswered`, `EveryFiringEnds`, `EveryPodServes`, `TimersEnd`,
`BulkCallEnds`, `KafkaServed`), which needs ENABLED and is out of the provers' reach; and the comparison of queries
(`SqlAnswersAsAsked`, `SqlRefusesOnly`, `MongoDbAnswersAsAsked`), which fold over trees of fields and sequences of query
parts: what a fold computes for every sequence is a matter of induction over data.

## 6. Limits and further observations

Not in the models: MySQL's lock waits and isolation; `CommitError` leaves open whether the COMMIT
took effect only for calls, not for cron runs and jobs; clock skew between pods; connection loss. `SqlEntityOperations`
runs the calls of one context one after the other; hooks there pass or refuse and make no data store operation.
`MongoDbEntityOperations` has no user accounts. The query modules leave out filters for all tables (`*`), field
functions, operators other than `=`, IN and OR, entity counts, page tokens, encrypted properties, and more than 500 rows,
which `transformRowsToObjects` maps in parts (lines 63-80). Of rows that the outer ORDER BY does not tell apart
`InOrderOfRows` takes the order of the subselect, which SQL does not promise. `SqlEntityOperations` leaves out the
shortcut of getEntityById for `includeResponseFields: ['_id']` (getEntityById.ts:59), which answers without a query.
`MessageQueues` leaves out the Kafka topic's creation and the queue for responses, which nobody is told the name of
(the senders read `sendResponseTo`, callers pass `responseDestination`).

### Divergences seen while reading and modelling that no run is spent on

Transactions, start, scheduling:

- with two or more remote calls the number of local transactions is not checked
  (tryExecuteServiceMethod.ts:568-606; docs/usage/DATA_STORE.MD:69-70), which is why `UnitsOfWork` speaks of 0 and 1;
- an exception inside an executable passes COMMIT, ROLLBACK and the release (AbstractSqlDataStore.ts:415,
  tryExecuteServiceMethod.ts:565): transaction, locks and connection stay;
- `executeMultipleServiceFunctions` answers `[null, null]` and commits whatever its functions returned when it runs
  them in a transaction, and sets `globalTransaction` of its context also when it does not;
- the startup check reserves a connection of its own and releases its caller's (initializeDatabase.ts:42);
- the cron row is written with the class name and looked up by the field name: with
  `FieldNamedAsClass = FALSE` no job ever runs; a retry that comes two or more periods after its firing can write a
  timestamp that has passed, as its schedule counts its own attempts and not the time (see also `Cron_early`);
- a pod that finds the row pending answers its startup check with 200 while tables are missing
  (initializeDatabase.ts:73; docs/usage/OBSERVABILITY.MD:17-18); startup tasks run again when the cron table
  is not there yet (initializeDatabase.ts:221-222);
- a try that fails between the column of a foreign id and its foreign key leaves the rest out for good: the next one
  finds the column (initializeDatabase.ts:108). A foreign id that is listed again by a second try in the same pod is
  added twice when its column was missing in both lookups, and the second ADD fails; an index that cannot be created is
  left out silently (tryCreateIndex.ts:26). `InitializedMeansSchema` excepts these parts by the ghost `lost`;
- `createEntities` (`BulkOperations`): an element that is still hashed or in a pre-hook when another one fails goes
  on after the ROLLBACK. It inserts its row in a local transaction or, when `globalTransaction` was set as it began,
  in none, although the caller got an error (AbstractDataStore.ts:76; docs/api/CREATE_ENTITIES.MD:53). The properties
  of `bulk_parallel` except such elements;
- `entityNameToJoinsMap` is filled by `tryAlterOrCreateTable` only, in the pod that inserted the row: other and
  restarted pods serve without knowing any join (initializeDatabase.ts:73);
- `TimersEnd` excepts pods whose pool is empty, because attempts keep their connections (`Jobs_pool`); the documented
  body of a scheduled call has a `serviceFunctionArgument` that the argument class lacks.

SQL entity operations (`Defective`, and what lies outside the operations' inputs in the model):

- the ids of sub-entities that are added start from 0 whatever ids are in use: the path is applied to the
  `{metadata, data}` pair that was read (addSubEntities.ts:83; docs/api/ADD_SUBENTITIES.MD:25). The array size is
  checked against the added ones only. All values of one addFieldValues get one id;
  it is the number of stored values, so that after a removal the new value can land in front of others, or on one of them;
- updateEntity with sub-entities deletes by the wrong id and adds them without the foreign id
  (updateEntity.ts:172, 193-202): `Defective` keeps them out;
- adding links of which one does not exist: the other INSERT comes after the ROLLBACK and stays (addSubEntities.ts:131);
- deleteAllEntities of a user account deletes all accounts' children; getEntityByFilters with hooks that finds
  nothing leaves its transaction open (getEntityByFilters.ts:152); addSubEntitiesByFilters reads back by `id`
  instead of `_id`; getEntitiesByIds lacks a parenthesis (getEntitiesByIds.ts:98) and always fails; only the first 50
  sub-entities of an entity are read before a change;
- userAccountId is put back only on success, so `LeftAsFound` excepts answers with an error; a post-hook that throws
  leaves `isInsidePostHook` set, too.

MongoDB entity operations (`Departs`, by its four parts):

- `MeetsHalfDone`: updateMany and deleteMany change one document after the other, and another caller sees some of them changed;
- `AnswersMissing`: updateEntityByFilters and the additions and removals that do not read first answer success for an entity that
  is not there; getEntityById for `includeResponseFields: ['_id']` gives the `_id` back without looking
  (MongoDbDataStore.ts:970-981);
- `LosesVersion`: the version of updateEntity is checked by nothing (`Mongo_versions`); without hooks and without a version it
  becomes NaN, and when two callers update, one of the versions is lost;
- `MissesSubEntities`: created and pushed sub-entities have no `id` (createEntity, lines 312-346); updateEntity takes the given
  ids for positions and sets `subs.<id>.<field>` there, so that the other elements stay
  (handleNestedOneToManyRelations.ts:28-35, 46-50); addSubEntities of nested paths throws, removeSubEntities of them finds nothing.

And with `Deviations = FALSE` too: an operation that is answered with an error may have changed the store (run mongo_hooks);
deleteEntityById and deleteEntityByFilters answer success for an entity that is not there, and deleteEntityByFilters deletes one
document where SQL deletes all; two sessions are opened inside executeInsideTransaction and one is ended
(tryStartLocalTransactionIfNeeded.ts:14); an executable that throws leaves `globalTransaction` set (MongoDbDataStore.ts:242-280).

Queries (the classes in the properties):

- SQL: entities whose id is not among the fields become one (join-js); LIMIT of a many-to-many relation counts the
  links of all roots; two filters can share a parameter name and compare with the other's value (getFilterValues.ts:36-43);
  a name that starts another one brings it along. Every OR filter is refused, because copies made by spreading are no
  `UserDefinedFilter` (getFilterValues.ts:10-24), and so are IN on a sub-entity, a many-to-many property without its
  `_id`, and sorting all tables where an array has none of the columns. `RootOrderLost`: when joined tables are sorted, and
  by default they are, root entities come in the order of their sub-entities (`Sql_order`);
- MongoDB: filters, sortings and pages of sub-entities are applied to the root by their bare names or not at all; the
  first page of sub-entities is never cut; `_id` is always shown; a second condition on one property replaces the first, and an OR
  those before it; excluding all properties shows all. `SortedAway`: sorting by properties that are not asked for (`Mongo_order`). `IncludedTwice`: a property and one below it are included, and the first is forgotten. `PropertiesAdded`:
  of a one-to-many class that refers to another one's table all properties are answered although none was asked for
  (getRootProjection.ts:25-48).

Message queues:

- 4xx and messages that cannot be parsed are thrown and delivered again for ever, so that a Kafka partition stops
  (consumeFromKafka.ts:232-234): `Blocked`; Redis drops them with a log record. What 5xx is answered for is meant to be sent
  again but sending throws: Kafka delivers it again in its place, Redis loses it. LPOP loses the message of a pod that crashes;
- the consumer subscribes without `fromBeginning`: what was sent before the group's first commit is skipped
  (consumeFromKafka.ts:199), also when a pod crashed before it: `skippedTo`;
- sendToRemoteServiceInsideTransaction has no transactional id and never sends; all of its messages would go to the topic of the
  first; getRedisServerFromEnv reads `REEDIS_PORT`.

Not modelled: text generation (SQL, TypeScript, OpenAPI, Postman, Kubernetes files), logging and metrics,
cryptography, captcha services, and parsing of HTTP; they have no protocol of their own.

The response cache is not modelled either: its staleness is the TTL that a service configures. Nor are multiple service
function calls (their functions run as those of `ServiceFunctionExecution`), subscriptions and authorization.

## 7. Plan

1. An abstract specification of executeInsideTransaction (changes of a call happen at one instant or never) and
   the refinement by `ServiceFunctionExecution` for careful functions.
2. Hooks that make data store operations, and hooks of parallel operations in `BulkOperations`.
3. `MultipleServiceFunctions`, authorization of a call, subscriptions, the response cache.
