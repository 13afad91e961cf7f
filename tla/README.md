# TLA+ models of the table-sync orchestrator

The program keeps annotated tables of YugabyteDB databases replicated to
BigQuery. A table asks for it with a comment such as
`{"bootstrap":{"enabled":true, "bq":"dataset.table"}}`; the orchestrator then
makes a Debezium source connector and a BigQuery sink connector in Kafka
Connect, after overwriting the table with the copy BigQuery may already hold. It
takes the pipeline down again when the table is disabled. There is no lock and
no shared memory between its threads: each decides from what the services
answered a moment ago, and every call of a service can fail. This directory
models those threads call by call, the pools they run in and the discovery they
all begin with, proves that the dangerous step (the backfill) is safe under a
stated condition, and records where the code departs from its own documentation.

## 1. Inventory

| part | code (under `src/src/`) | state | operations |
|---|---|---|---|
| table sync loop | `table_sync_orchestrator.py:334-387`, run again by `start` (391-445) | tables discovered, connector statuses, rows fetched | discover; status; backfill (check, fetch, clear, insert); dataset; cache the row count; create source; create sink |
| connector cleanup | `table_sync_orchestrator.py:151-182, 276-310` | tables discovered, connector statuses | discover; status; delete BigQuery table, source, sink |
| cache checker | `table_sync_orchestrator.py:118-149, 234-272` | tables discovered once | compare the cached row count with BigQuery; delete cache entry and signal |
| database preparation | `table_sync_orchestrator.py:89-116, 314-330` | `public.database_stream`, `public.debezium_signal` | create the tables, empty the signals, create and record a CDC stream |
| worker pools, lifecycle | `table_sync_orchestrator.py:46-65, 184-230, 391-474` | futures, shutdown event, running flag | start, run again, stop, restart |
| Kafka Connect client | `services/kafka_connector.py` | connectors (in Kafka Connect) | status, PUT, DELETE, reset |
| YugabyteDB manager | `services/yugabyte_db_manager.py` | tables, comments, signals, stream | discovery, clear, insert, counts, signals |
| BigQuery manager | `services/bigquery_manager.py` | datasets and tables | exists, fetch, create dataset, delete table, count |
| Redis cache | `services/redis.py` | row counts with a time to live | get, set, delete |
| annotations, table info | `classes/table_annotation.py`, `classes/table_info.py` | none | parse a comment |
| table discovery, yb-admin | `yugabyte_db_manager.py:79-180`, `classes/ybadmin_utils.py` | one transaction; CDC streams and the table ids they list | catalog query, key of each table, does the stream cover it; create a stream |
| configuration, logging, health server | `classes/config_reader.py`, `classes/logging.py`, `_start_health_server` | fixed | - |
| `classes/kafka_connector.py` | dead code (imports modules that do not exist) | - | - |

**Interaction.** The loops are threads of one process. They meet only in the
services: sync and cleanup delete the same connectors, sync and preparation
share the stream table and the signals, sync and cache checker share Redis and
the signals. Kafka Connect moves rows from YugabyteDB to a topic and from the
topic to BigQuery on its own time; users edit comments and drop tables; the
application writes rows.

**What is hard.** (a) The backfill is destructive: DELETE and INSERT are
separate transactions, decided on a connector status read several requests
before, while the cleanup, Kafka Connect and users act. (b) Failures read as
facts: a failed status request means "missing", a failed `get_table` means "no
table", a failed yb-admin call drops the tables not reached yet. (c) Calls that
raise may have taken effect. (d) The failure handler (`reset_connectors`) makes
requests that can fail or collide with the cleanup. (e) Both loops act on
annotations as old as their scan. (f) The sink creates the BigQuery table again
as long as it lives, a connector that failed still answers, and the stream need
not list every table. (g) A crash can hit between any two calls. (h) Connector
names, signal texts and targets are built in one place and matched in another.

**What makes it correct.** *Sync loop*: never overwrite a live table; an enabled
table is eventually replicated; what a backfill cleared comes back; a failed
creation leaves nothing behind. *Cleanup*: a disabled table eventually has no
connector and no BigQuery copy. *Preparation*: one stream per database, recorded
once. *Discovery*: one failure does not spoil the next discovery. *Cache
checker*: a count that was reached is removed. *Pools*: no database is served
twice at once, each is served again and again, and the process ends when it is
stopped. *All*: a table that reached the state its comment asks for is left
alone, and BigQuery keeps the rows of a backfill until they are back.

`PROJECT.json` lists the hazards at their lines with the properties that cover
them.

## 2. Modules

| module | what it is |
|---|---|
| `SyncWorld` | the services as the loops see them: shared state, the outcomes of each call, and the environment's actions |
| `SyncLoop` | the table sync loop: 25 actions, one per call |
| `CleanupLoop` | the cleanup loop: 11 actions |
| `CacheCheckLoop` | the cache checker: 6 actions |
| `StreamRegistry` | what preparation promises: the stream table is created once, a stream recorded once, signals are wiped |
| `DatabasePrep` | `prepare_database` call by call, by any number of orchestrators: 9 actions, crashes; implements `StreamRegistry` |
| `Replication` | what the orchestrator promises those who own the tables: a backfill replaces the rows of one table at a time, never of a live one, and only by what was fetched for it |
| `Orchestrator` | composes the three loops and `StreamRegistry` with crashes and the environment; the specification and its properties; implements `Replication` |
| `DiscoveryAnswer` | what a discovery promises the loops: it answers only tables it named and, unless a call fails, all of those that the stream lists and that were not dropped since |
| `TableDiscovery` | `_discover_tables` call by call against tables dropped, created anew, and picked up by the stream or not; what `SyncWorld` takes as one step; implements `DiscoveryAnswer` |
| `WorkerPool` | the threads and executors of one process over several databases: rounds, exceptions, interrupts, the end |
| `MCOrchestrator` | names for TLC's instances |
| `OrchestratorProofs`, `OutcomeProofs`, `ReplicationProofs`, `DatabasePrepProofs`, `TableDiscoveryProofs`, `WorkerPoolProofs` | theorems for every value of the constants |

`DatabasePrep`, `TableDiscovery` and `WorkerPool` each open up one thing that
`Orchestrator` takes whole: the preparation, a discovery, and the reason why a
loop runs again.

### State and code

A table is `<<schema, name>>`; a row is its `id`. `comment[t]` is the class of
comment the code can tell apart (`gone` no table, `plain` no annotation,
`disabled`, `enabled`, `moved` enabled with another BigQuery target, `tableless`
a `bq` target without a dot, `hintless` no target), which is all
`TableAnnotation.from_comment` and `TableInfo` let the loops see. `source` holds
the tables with a source connector; `sink` is indexed by *name*, because
`sink_connector_name_format` has no schema in it, and `target[n]` is the
BigQuery target that sink was given. `failed` holds the connectors that are
there, and answer a status request with 200, but do nothing. `topic[t]` is what
replaying the topic from the earliest offset amounts to; `bq[<<t, g>>]` the
BigQuery table `g` of table `t` (`Targets` are the two its comments may name).
`cached[t]` is Redis' row count, `signals` the tables with a row in
`debezium_signal`, `stream` the content of `database_stream`, and `listed` the
tables that the recorded stream lists.

`sync.pc`, `clean.pc` and `check.pc` name the call a thread is about to make;
the other fields are the Python locals that survive from call to call (`seen` is
`connector_statuses`, `data` the rows fetched, `info` the `TableInfo` in hand
with the annotation *as discovered*). A local is reset when it is dead. Each
action is one request: its guard is the branch that leads to it, its effect that
of the request, and its outcome one of

* `ok`: it took effect and answered;
* `error`: it raised and had no effect;
* `lost`: it took effect and raised.

An exception goes where the code sends it: in the sync loop to the next table
(385-387), in the two `try` blocks of the creations to `reset_connectors`, in
the cleanup and the cache checker out of the whole call (309-310, 271-272),
which the pool then starts anew. Status requests and `get_table` do not raise:
their failure reads as "missing" (`StatusReply`, `ExistsReply`). A discovery
answers the tables the stream lists, some of which it may have made the stream
pick up (`DiscoverReply`); a table that stays out of the stream is left out
without any call failing, and a failure leaves out more. Deleting a connector
that is gone answers 404, which raises. Creating a connector is a PUT, which
also replaces one.

The environment: `SetComment` (users, unbounded), `AppWrite`, `Capture` and
`Deliver` (the connectors' work; a sink delivers even without a source, and
makes the BigQuery table if needed), `DropSource`/`DropSink`,
`FailSource`/`FailSink`, `Expire`. They are external code, modelled from the
configuration the program sends (`kafka_connector.py:174-212, 247-294`).

`AfterCheck` deserves a word: lines 374 and 377 can never be true after the test
in line 350, so a single missing connector leads to the full set-up, backfill
included, and the model has no action for the two branches.

**Preparation.** `prep[i]` is the call instance `i` is about to make and `id[i]`
the stream id in its hand (`stream_id`, `table_sync_orchestrator.py:326`).
`created` counts the streams yb-admin has made and `recorded` is the content of
`database_stream`; a stream made and not recorded is leaked. An exception
anywhere ends the preparation (`Rest`), and the loop starts it again from the
first call. One process never prepares a database twice at once (the futures of
a round are awaited), but nothing in the database keeps two processes from it,
as when an old and a new orchestrator overlap (the repository's README
recommends a single instance "to avoid conflicts", line 529): hence `Instances`.
The mapping to `StreamRegistry` is `SeenStream`, what a reader of
`database_stream` can tell. Through it, `Orchestrator` composes with the promise
and not with the nine calls: its actions `PrepareTable`, `PrepareStream`,
`PrepareSignals` are the registry's. In `DatabasePrep` the loops are one action,
`AskSnapshot`, taken from the registry: snapshots are asked for only where a
stream is recorded, and no other step of theirs touches the two tables. That is
an assumption about them, and `Registers` discharges it: every step of the
loops, of restarts and of the environment in `Orchestrator` is one of the
registry's or leaves its tables alone. It holds because a loop has tables in
hand only when the discovery they come from found the stream recorded.

**Replication.** Two mappings tell what the owner of a table sees: a table is
`live` when both connectors exist and the sink reads its topic (`LiveTables`),
and there is a `backfill` of table and rows while the loop is between the fetch
and the insert (`Backfill`). The rows are those of one of the table's BigQuery
tables: the one its comment named at discovery, as users edit the target
meanwhile. `Clear` may also end the backfill, which is the answer that was lost;
`GoLive` may take the sink from another table of its name.

**The cache checker** discovers once and then goes round the same tables
(`check.tables`) for ever; the annotation it knows is that of then. A BigQuery
table that is not there makes the count raise, and the call ends.

**Discovery.** `scan.rows` are the tables of the one catalog query not looked at
yet. Their keys are asked for in the same transaction, which PostgreSQL aborts
on the first statement that fails (`scan.tx`); the failure itself reads as "no
key" (`_has_primary_key_with_id_column`, 129-131). The coverage check asks
yb-admin up to four times, for an id, which a table dropped and created anew has
another of. Where the stream does not list the id the check asks for a sync,
after which it may list any of the tables there are, or none (`ValidateAndSync`,
with the case "Still not covered" of `ybadmin_utils.py:163-171`); it may also
pick tables up on its own (`ListTable`), and is not made to. `SyncWorld` has the
result, as `DiscoverReply`: a set of tables, which `DiscoveryAnswer` bounds from
both sides. It answers nothing but fit tables the catalog query named and,
unless a call failed, all of those that the stream lists and that were not
dropped in between (`Owed`, among the `Listed` ones: a table waits for its key
in a transaction that works, or its id is the one asked about, or it has
passed). The mapping shows `Owed`, `Listed` and `Named` as the promise's `owed`,
`listed` and `named`. Taking a discovery as one step, `SyncWorld` has a table
that is dropped during it in the answer, and the calls about it raise; in the
code it may also be missing from the answer, as it is from the next.

**Pools.** `thread[p]` is where the thread that fills pool `p` stands: the main
thread for `scan`, a daemon thread for `prep`, `cache`, `clean`. A round submits
a task for every database in `known` to an executor of `Workers` workers
(`queued`, `working`), leaves the `with` block when all have ended, pauses, and
begins again. The tasks of `cache` and `clean` are loops (`Endless`). An
interrupt of the main thread lands wherever it stands (`AfterInterrupt`): in the
`with` block, it drains the tasks of the round first. `_stop_background_tasks`
joins no thread, as all are daemons; the workers are none, and the interpreter
joins them. What lets that end is that `ConfigDict.get`, which the endless loops
call for their pause, looks its key up in an executor of its own
(`config_reader.py:166-187`), and starting a thread raises once the interpreter
is ending (`Refused`). `ThreadFails` and `MainFails` are the same call failing
earlier, for want of threads.

Definitions named `...Always`, `...Either`, `...None`, `...Anyway`, `...Else`,
`...Both`, `...Anew`, `...Again`, `...Inverted`, `...Retried`, `...Spent`,
`...Existing`, `...Queued`, `...Abrupt`, `...Over`, `...Never`, `...Any`,
`...Kept`, `...Wipes`, `...Raises` are deliberately wrong variants of the
definition that follows them. Nothing uses them; putting one in the place of the
original must make a run fail, which shows that the property is sensitive to
that code.

## 3. Bounds and fairness

`Faults` says which disturbances an instance admits and `MaxFaults` how many a
behaviour has (`budget`). Everything else is unbounded: users may change
comments and scans may repeat for ever.

`Orchestrator`'s `FairSpec` asks for weak fairness of the sync loop, of the
cleanup loop, of the cache checker, and of preparation creating and recording a
stream: `start` and the background threads run their loop for ever (405, 124,
157), every exception is caught and the loop runs again, and each request is
assumed to return or raise. (Two kinds carry no timeout, so that this is an
assumption about the services: the PUT and DELETE requests,
`kafka_connector.py:42, 64, 314`, and yb-admin's `list_tables`,
`ybadmin_utils.py:195`.) Nothing is asked of users, the application, Kafka
Connect or Redis, nor of the stream picking tables up: what is said of a table
in the end is said of one that the stream comes to list. The model is of *one*
database. With several, the fairness of sync and preparation is what
`RoundsServe` says. That of the two endless loops it is not: one that ended on
an exception is run again only when those of all other databases have ended as
well (`RoundRestarts` is as much as holds, and run `CleanupDropped` the
counterexample to more), so there `DisabledConverges` and `CountsChecked` are
claims about an orchestrator of one database, or one whose other loops ended
too.

`DatabasePrep`'s `FairSpec` asks for weak fairness of each orchestrator's own
calls: the preparation loop (95-116) has no exit but shutdown, catches
everything, and starts a round every minute; yb-admin is given 20 seconds and
the database's answers are assumed to come. `created` grows only with failures
and with orchestrators that race, which is what `LeaksBounded` says; that also
keeps the state space finite without a bound of its own.

`TableDiscovery`'s asks for weak fairness of the calls: loops discover again and
again, and each call is assumed to answer or raise. The yb-admin calls about a
stream are given 20, 30 or 60 seconds; `list_tables` has no limit, and with the
database's answers is an assumption. Nothing is asked of the cluster listing the
tables there are, or forgetting dropped ones. `MaxIds` bounds how often tables
are created.

`WorkerPool`'s asks that every thread takes its next step, that a free worker
takes a task, that tasks meant to end do, and that an endless one gets to its
pause once the interpreter is ending. Interrupts, faults and new databases are
never certain. `MaxInterrupts` and `MaxFaults` bound the two that count.
`Workers` is 4 in practice: the keys read (`max_db_workers` and the like, at the
top level) are not those of the sample configuration, which nests them.

## 4. Runs

| run | instance | shows |
|---|---|---|
| `Safety` | one table and row, comments gone/disabled/enabled, two errors, lost answers, crashes, lost connectors or writes, sync and cleanup (2.3 M states) | `TypeOK`, `BackfillOffline`, `ResetComplete`, `Replicates`, `CopyHeld` |
| `Converge` | one empty table, comments disabled/enabled/moved/tableless, two disturbances of the eight kinds other than writes, sync, cleanup and preparation (1.5 M states) | `SettledStays`, `RetiredStays`, `EnabledConverges`, `DisabledConverges` |
| `Backfill` | one table and row, comments gone/disabled/enabled, two errors, lost answers, crashes, partial discoveries or writes, sync, cache checker and preparation (647 000 states) | `BackfillRestores`, `CountsChecked`, `EnabledConverges`, `Registers` |
| `Prep` | three orchestrators, four failures or crashes (348 000 states) | `TypeOK`, `RecordedPrepared`, `LeaksBounded`, `OneStream`, `Implements`, `Prepared` |
| `Pools` | two databases, one worker, scan, preparation and cleanup, two faults and two interrupts (32 000 states) | `TypeOK`, `Exclusive`, `InterruptDrains`, `RoundsApart`, `RoundsServe`, `RoundRestarts`, `ProcessEnds` |
| `Discovery` | three tables, one of them unfit, three ids, two failures, a stream that picks up what it likes (191 000 states) | `TypeOK`, `Promised`, `Rediscovered`, `Undiscovered` |

One table is enough for the first three: the loops handle one table at a time
and tables meet only in the sink's name, which is what `SharedSink` shows with
two. Two disturbances let one undo the recovery from another (a lost answer,
then an error in the handler; a crash, then a dropped connector); one row is
enough to tell an emptied table from a restored one, and a count that is reached
from one that is missed. `Converge` has no row, which is what makes room for the
second target, a connector that fails and every other disturbance: which
connectors and BigQuery tables there are does not depend on rows but by the
conflicts of an insert, and `Backfill` checks `EnabledConverges` with a row.
`Safety` has the cleanup. It leaves out preparation, which is in the other two,
and `tableless`, which has no copy to be backfilled from; with `tableless` the
run finishes without an error, too slowly to be kept (5.5 M states). `Backfill`
leaves the cleanup and failing existence checks out because with them
`BackfillRestores` is false (section 6). `Prep`'s four failures let each of the
calls between creating and recording fail or lose its answer once in one
behaviour, and three orchestrators race where two can already record a row each.
`Pools` has fewer workers than databases, so tasks wait; two interrupts are one
in the `with` block and one in its wait, or one while the process is ending,
which kills the workers. It does not check deadlock, as the process does end.
Three tables let a failure hit the first, spoil the second and leave the third.

* `BackfillOffline`: between the decision to clear a table and the insert, at
  least one of its connectors is missing. It needs that only the sync loop
  itself puts connectors, that it does so after the backfill, and that the
  status it saw was true.
* `ResetComplete`: at the last call of the handler of a failed source creation
  both connectors are gone, though the PUT may have taken effect and cleanup
  deletes the same connectors.
* `EnabledConverges`: a table that stays enabled, under whichever target, and
  that the stream lists has both its connectors in the end, the sink on its own
  topic, and keeps them. That is as much as the code gives: it says nothing of
  connectors that failed, nor of where the sink writes to, which is `Follows`
  and run `Retargeted`.
* `DisabledConverges`: a table that stays disabled, and that the stream lists,
  has neither connectors nor the BigQuery table its comment names in the end,
  although the sink may make that table again after it was deleted, and a set-up
  may be under way from an older annotation.
* `SettledStays`: once both connectors of an enabled table are up and its set-up
  has left it, no loop touches it again. Only a user's edit, a connector lost in
  Kafka Connect or a status request that fails can unsettle it; annotations read
  earlier, exceptions and crashes cannot. It excepts tables that share the name
  of their sink (`Namesakes`), which is `SharedSink`. Where the convergence says
  that something good comes after the last disturbance, this says which
  disturbances matter at all.
* `RetiredStays`: once a table that is not enabled has no connectors and no
  copy, and no scan from before is under way, only a user's comment brings it
  back.
* `BackfillRestores`: rows fetched for a table about to be (or already) emptied
  are in it eventually, unless a user edits the comment, the stream ceases to
  list the table, or a sink left alone replays its topic over the copy.
* `CopyHeld`: its safety part. While the rows are on their way, the BigQuery
  table they were fetched from keeps them, though the cleanup is at work, unless
  the loop saw a sink when it decided to backfill, or the cleanup is deleting
  that very BigQuery table.
* `Registers`: the loops, restarts and users keep their side of
  `StreamRegistry`.
* `Replicates`: every step of the loops is one of `Replication`'s or changes
  nothing the owner of a table sees. In particular the rows that go in are those
  fetched for that very table, none of which was there.
* `CountsChecked`: a row count Redis holds for an enabled table does not outlast
  BigQuery having as many rows: the checker gets to it, whatever raises on the
  way. It is about the tables the checker goes round (`Checked`): a call that
  discovered the table, with this BigQuery target, or ends again and again. What
  that leaves out is in section 6.
* `OneStream`: there are never more stream ids in `database_stream` than
  orchestrators, hence one with one, although reading, creating, reading again
  and inserting are four calls, the creation may have succeeded when it timed
  out and the insertion when it raised. Two can both pass the second look and
  record a row each; `stream_exists` then answers the first row of an unordered
  query.
* `RecordedPrepared`: no stream is recorded where a table is missing that the
  loops query or write.
* `LeaksBounded`: streams are made at most once per orchestrator and once more
  per failure or crash; nothing deletes those left over.
* `Implements`: with several orchestrators too, the loops see a stream table
  made once, filled once and never emptied.
* `Prepared`: after the failures some stream is recorded for good.
* `Exclusive`: two workers of one pool never serve the same database, and none
  serves one that is queued again.
* `InterruptDrains`: after a single interrupt the main thread gives up its
  rounds only when no table is being set up any more. A second interrupt breaks
  off the wait; what the tasks meet then is the crash of the other models.
* `RoundsApart`: a pool is given databases only when it is idle, so no round
  overlaps the one before.
* `RoundsServe`: with fewer workers than databases and whatever raises, a thread
  that came to its loop has every database scanned or prepared again and again.
* `RoundRestarts`: once all cleanups have raised, and the faults are over, all
  are started again.
* `ProcessEnds`: an interrupted process comes to its end, although nobody tells
  the endless tasks to stop.
* `Promised`: each discovery keeps the promise of `DiscoveryAnswer`, though a
  table is looked at in up to five calls while others come and go.
* `Rediscovered`, `Undiscovered`: a fit table that stays, and stays listed, is
  in every discovery in the end, one that stays dropped or unlisted in none,
  although a failure loses the tables not looked at yet and the stream may list
  dropped tables for ever.

Violation runs, each a disagreement of code and documentation (quoted in
`PROJECT.json`):

| run | what the code does |
|---|---|
| `StatusFault` | one failed status request and a live table is overwritten by its older copy |
| `SinkMissing` | a missing sink is not "created": the table is overwritten first |
| `SharedSink` | of two tables of one name, as in `init.sql`, one is never replicated |
| `Departed` | a table that was set up and then loses its comment loses its connectors, and keeps its BigQuery table for ever |
| `CleanupDropped` | the cleanup of a database ends on an exception and is not started again as long as that of another database goes on |
| `Retargeted` | a user edits the BigQuery target of a replicated table, and its sink writes to the former one for ever |

## 5. Proofs

`OrchestratorProofs` proves with TLAPS, for every set of tables, rows and
comments, every bound and every subset of loops:

* `TypeCorrect`: `Spec => []TypeOK`. `TypeOK` is not inductive alone (a loop at
  work on no table could not index `yb`); `TypeInv` adds that a loop outside
  `idle` and `loop` has a discovered table in hand. One lemma types the local
  state and one the shared state for each loop; the environment and crashes
  follow.
* `BackfillIsOffline` and `ResetIsComplete`, under `"status" \notin Faults`:
  both follow from `ConnectorInv`, which says that a connector the loop has not
  seen is really missing (`SourceKnown`, `SinkKnown`), that the backfill runs
  only with one unseen (`BackfillIncomplete`), and that a reset that passed the
  source has deleted it (`SourceDeleted`). It is preserved because every step
  but the sync loop's own PUTs only makes connectors vanish (`CleanVanish`,
  `CheckVanish`, `WorldVanish`), and the PUTs happen where it says nothing
  (`Watched`). The assumption is necessary: `StatusFault` is the counterexample
  without it.

`OutcomeProofs` proves what the loops do to a table over time, again for every
value of the constants. Two invariants serve it. `TurnInv` says that each loop
works only on tables whose annotation, as discovered, is its business: enabled
ones in the sync loop, others in the cleanup. It is inductive because a turn
comes from the list discovered and keeps the table it took (`SyncMoves`,
`CleanMoves`). `StreamInv` says that the sync loop has tables only where a
stream is recorded.

* `SettledForGood`: `Spec => SettledStays`, without an assumption on faults, as
  a failed status request is one of its exceptions. The sync loop passes on from
  a table both of whose connectors answer (`SettledStep`); the cleanup has no
  annotation of the table that is not enabled, and none comes in while the
  comment is (`HoldsKept`); and no other table has its sink (`OwnSink`).
* `RetiredForGood`: `Spec => RetiredStays`. Only the turn of the table itself
  could put its connectors (`RetiredStep`), and without a sink nothing feeds
  BigQuery.
* `CopyIsHeld`: `Spec => CopyHeld` under `"status" \notin Faults`. By
  `ConnectorInv` a sink not seen is missing, so nothing delivers into the copy,
  and of the loops only the cleanup deletes it (`CopyStep`).
* `RegistryImplementation`: `Spec => Registers`, from `StreamInv`. With
  `PrepImplements` this is what makes the composition sound: preparation keeps
  the registry's promise assuming the loops use it only through `AskSnapshot`,
  and the loops do, assuming of preparation only that promise.

`DatabasePrepProofs` proves, for any number of orchestrators, tables and
failures:

* `TypeCorrect`. `TypeOK` alone would let an instance insert stream 0; `Holding`
  adds that one about to record a stream has one in hand.
* `RecordedIsPrepared`, from `PrepInv`: `Reached` says which tables exist by the
  call an instance has reached. It survives other instances' steps because no
  step drops a table (`ReachedKept`).
* `PrepImplements`: `Spec => Registry!Spec` under the mapping `SeenStream`. Each
  step is one of the registry's or changes nothing it shows (`StepImplements`);
  it needs `PrepInv`, since `Insert` is a `Record` only if the table is there.
* `StreamIsOne`, for any number of orchestrators, from `Few`: once there is a
  row, rows and orchestrators about to insert (`Pending`) are together no more
  than the orchestrators. Nobody joins them, since the second look finds a row;
  `FewInsert` counts the one that turns from pending into a row. For a single
  orchestrator this says that no second stream is recorded.
* `LeaksAreBounded`, from `Charged`, which charges each stream to a failure or
  to an orchestrator that is not `Fresh` any more, that is one that cannot make
  another without a failure. Each step either makes no stream and no one fresh
  (`ChargeNone`), uses up a fresh one (`ChargeFresh`) or spends of the budget,
  which pays for one more to be fresh (`ChargeFault`).

`ReplicationProofs` proves `Implementation`: `Spec => Replicates`, again under
`"status" \notin Faults`, for any tables, rows, other faults and loops. It needs
`TypeInv` and, for `Clear` and `Restore`, that the table is not live, which is
`BackfillOffline`. Most steps are quiet: they touch neither rows nor connectors
and at most end the backfill (`QuietStep`), or connectors only vanish
(`LoseStep`). What is left are the fetch, the clear, the insert and the two PUTs
(`FetchStep`, `ClearStep`, `InsertStep`, `PutStep`), and the environment.

`WorkerPoolProofs` proves `PoolTypeCorrect`, `ServedOnce` and `InterruptIsClean`
for any number of databases, workers, faults and interrupts. `Exclusive` is not
inductive: a round submits every database anew, so one has to know that the pool
is idle between two rounds (`Between`), which holds because each path out of the
`with` block has waited, or is one of the main thread's after an interrupt
(`DrainsLate`). `Inv` is the conjunction of these. `RoundsDoNotOverlap` proves
`RoundsApart` from it: only `Submit` adds to a queue, and it finds the pool
idle.

`TableDiscoveryProofs` proves `DiscoveryTypeCorrect` (among the types is that a
discovery answers fit tables only) and `DiscoveryKeepsPromise`: `Spec =>
Promised`, for any tables, ids and failures, and whatever the stream picks up or
does not. It needs `CallInv`: nothing is left over from the call before, so a
discovery begins owing exactly what is listed, and a call has one table in hand
at a time. What the promise owes grows with what the stream lists and shrinks
only by a drop or a failure, which is what each call has to show: one lemma per
call says which step of the promise it is.

Assumptions are the named `ASSUME`s of the modules; rows and orchestrators are
finite sets so that a count is a number. Every invariant and every action
property the passing runs check is proved, and so are all four refinements
(`Implements`, `Replicates`, `Registers`, `Promised`). Only model-checked are
the liveness properties, which TLAPS cannot prove of fairness:
`EnabledConverges`, `DisabledConverges`, `BackfillRestores`, `CountsChecked`,
`Prepared`, `RoundsServe`, `RoundRestarts`, `ProcessEnds`, `Rediscovered`,
`Undiscovered`.

## 6. What else the models showed

Disagreements of code and documentation, or of code and intent, that no run is
kept for.

* **A failed existence check loses rows** (`bigquery_manager.py:54`). A failing
  `get_table` reads as a missing table. After a crash between clear and insert
  the backfill is then skipped and the pipeline set up over the emptied table.
  `Backfill` with `"exists"` among its `Faults` finds it.
* **A sink left alone loses rows** (`kafka_connector.py:287`). If a comment is
  removed and put back while the loop sets a table up, the cleanup can delete
  the source and leave the sink, and after a crash between clear and insert the
  sink replays the emptied topic over the BigQuery copy the rows have to come
  back from. No cleanup is needed: a PUT of the sink whose answer is lost, and
  then a DELETE of the source whose answer is lost, which ends the reset, leave
  a sink alone as well; a write empties its topic, and a crash comes between
  clear and insert. `BackfillRestores` without its `SinkAlone` fails that way in
  `Backfill` with four disturbances, and not with three (sync loop and
  preparation alone).
* **Failed connectors stay failed** (`kafka_connector.py:95`). The module's
  docstring (`table_sync_orchestrator.py:16-18`) has the sync loop verify that
  connectors are running and restart failed ones; it asks for status 200 alone.
  `Follows` is refuted by one `"fail"` too, without a second target among the
  `Comments`.
* **An edited target splits the copy** (350). With the sink on the former
  BigQuery table, a new call of the cache checker counts the rows of the one the
  comment names, the next backfill fetches from it, and the cleanup deletes it
  alone once the table is disabled; the one the sink fed is left behind. So
  `DisabledConverges` is about the table the comment names.
* **A table outside the stream is never replicated**
  (`ybadmin_utils.py:163-171`). A stream without dynamic table addition need
  never list a table made after it; the hint in the log says what to do by hand,
  and discovery leaves the table out each time without a failure.
* **A failed key query reads as unfit** (`yugabyte_db_manager.py:129`, 168). The
  transaction is aborted with it, so the keys of all tables after it fail, and
  they are logged as lacking a primary key. `Rediscovered` says that the next
  discovery has them again.
* **Dropped tables keep their connectors** (286). The cleanup goes by the tables
  discovered, and a dropped one is in no discovery in the end (`Undiscovered`),
  although `README.md:405-408` of the repository has cleanup follow deletion.
* **The blind checker** (240). A checker goes round the list of the discovery it
  began with. One that discovers before a stream is recorded gets an empty list
  without an exception and goes round nothing for ever; a table created, listed
  or given another target later, or lost from that discovery, is never checked
  either. `CountsChecked` with "is listed" in place of `Checked` is refuted in
  `Backfill` without any disturbance.
* **Counts that verify nothing** (360-362). "Verify snapshot success" compares
  with all BigQuery rows, also those of an earlier life of the pipeline.
* **Counts lost unseen** (253-255). Get, count and delete are three calls, and
  the deletion names the key alone: a count cached in between is deleted.
* **Signals stay** (`yugabyte_db_manager.py:402`). The docstring (397) and the
  log (406) say that the entry is removed, but the removal compares the text of
  a JSON array with `database.table` and never matches (`SignalText`,
  `RemovalText`); only preparation and restarts empty the table. That the two
  texts differ is plain from the code, so no run is spent on it. No loop reads
  the signals.
* **Fewer workers than databases** (162). The cleanup and cache check of the
  databases beyond the fourth never start.
* **The shutdown waits for nobody** (227): "wait for completion" joins only
  threads that are no daemons, and all are.
* **Scan before preparation** (399-400): the preparation has not "completed
  before returning", so first scans find no stream.
* **Databases are discovered once** (395), by `start`; `existing` and `known`
  part in `WorkerPool`.
* **Coverage of a table created anew** (`ybadmin_utils.py:126`): its old id is
  still in the stream, so it is added although the stream lacks it.

## 7. Not modelled

Connector configuration beyond the table it serves, JSON parsing, retries inside
the connectors, log output, the health server, parsing and validation of the
configuration, the dead `classes/kafka_connector.py`, and `setup_connectors`,
`delete_stream` and the signal helpers nothing calls. The mock mode is for
tests. Two tables whose comments name the same BigQuery table, or a comment with
a third target, are not in the model; each table has two of its own. Two
databases never share a connector, a row or a stream, so one database stands for
all but the pools.

## 8. Plan

1. **Core** (done): `SyncWorld`, `SyncLoop`, `CleanupLoop`, `StreamRegistry`,
   `Orchestrator`; their runs and three theorems.
2. **Preparation** (done): `DatabasePrep`, its refinement of `StreamRegistry` by
   TLC and by proof, `StreamIsOne` and `LeaksAreBounded` for any number of
   orchestrators.
3. **Cache checker** (done): `CacheCheckLoop`, composed with the other loops and
   covered by their proofs.
4. **Replication** (done): the abstract specification, its refinement by TLC and
   by proof.
5. **Pools and discovery** (done): `WorkerPool`, `TableDiscovery`, the
   properties the fairness of section 3 rests on, their invariants proved.
6. **Outcomes** (done): `SettledStays`, `RetiredStays`, `CopyHeld`,
   `RoundsApart`; the refinements `Registers` and `Promised`; their proofs.
7. **Coverage, targets, failed connectors** (done): the tables a stream lists
   and those it does not, comments that change the BigQuery target, connectors
   that are there and do not run; what holds of them (`Promised` and the
   convergences over listed tables) and what does not (`Follows`).
8. **Left**: that connectors appear only by the sync loop's PUTs and, of a table
   that is not live, only after its backfill, as an action property with its
   proof. The liveness properties stay with TLC.
