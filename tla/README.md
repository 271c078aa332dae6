# A TLA+ model of the OpenSlides datastore service

The datastore stores *models* (JSON objects with an *fqid* such as `motion/3`)
in PostgreSQL. Clients read through the **reader** and write through the
**writer**; both are small HTTP services over the same database. A write is a
list of events that is stored for ever under a new *position*, applied to the
`models` table and announced on a redis stream. Clients hold no database locks:
they send the position at which they read something along with their write, and
the writer refuses the write if it changed since (optimistic concurrency
control, `src/docs/locking.md`).

This directory models that core with its connection pool and its migrations, checks it
with TLC on small instances, and proves with TLAPS, for all instances, the ordering and
atomicity of the writer, that its threads implement serial writes, what the tables keep
through its transactions, that optimistic locking is sound on top of them, what the
connection pool keeps, and what migrations that stop and are run again keep.

## Inventory

| component | state | operations | what makes it correct |
|---|---|---|---|
| writer service (`writer/core/writer_service.py`) | `_lock`, one per process | write, reserve_ids, write_without_events, delete_history_information, truncate_db | a call is all or nothing, at most once, announced if and only if the client is told success; positions appear in order |
| event translation (`event_translator.py`, `db_events.py`, `apply_list_updates.py`) | none | translate, apply_event_to_models, get_modified_fields | the stored event, the stored model, the reported fields agree |
| SQL database backend (`sql_database_backend_service.py`) | tables positions, events, models, id_sequences, collectionfields, events_to_collectionfields | insert_events, reserve_next_ids, ... | history can be rebuilt; ids are unique; lock tables are complete |
| OCC locker (`sql_occ_locker_backend_service.py`) | reads the tables | assert_locked_fields | a write based on stale data is refused, others are not |
| message bus (`redis_backend/`) | stream `ModifiedFields` | handle_events, xadd | every change is announced, in order |
| read database and reader (`sql_read_database_backend_service.py`, `reader_service.py`) | none | get, get_many, filter, aggregates, reads at a position, history | what is read and the position it is read with belong together |
| connection handler (`pg_connection_handler.py`) | pool, current connection per thread, event and lock | get_connection, put_connection, retry_on_db_failure, ConnectionContext | failures end in an answer, never in a second effect |
| trimming (`cli/trim_collectionfield_tables.py`) | none | a cron job | drops only what no lock asks for any more |
| migrations (`migrations/core/`) | tables migration_* | migrate, finalize, reset, migrations in memory | migrated events give the migrated models; a stop at any point can be resumed |
| migrations in memory (`migraters/*_memory.py`, `migration_reader.py`) | the models of an import | set_import_data, finalize, get_migrated_models, the reader of model migrations | an import is migrated to what the database would have been migrated to |
| filter language (`util/filter.py`, `filter_models.py`, `sql_query_helper.py`) | none | SQL text, evaluation in Python | both evaluations agree where no field is missing |
| import and export (`cli/export_data_only.py`, `cli/import_data_only.py`) | none | export, truncate and write | an import restores what was exported |
| frontends, DI, tracing, export to OpenSlides 3 | none | - | not modelled, see below |

Interactions: reader and writer meet in the database only. The writer takes
`_lock`, opens one transaction for all requests of a call, for each request checks
the migration index and the locks and inserts the events, commits, then sends one
message to redis, and releases `_lock`. `reserve_ids`, `write_without_events`,
`delete_history_information` and `truncate_db` are single transactions outside of
`_lock`. All of them run in a `ConnectionContext` (commit or rollback at the end,
return the connection, recreate the pool after an `OperationalError`) inside
`retry_on_db_failure`. No isolation level is set anywhere, so PostgreSQL's READ
COMMITTED applies and every statement sees what is committed when it starts. The
deployed writer has one process (`NUM_WORKERS=1`); `_lock` protects threads of a
process, so the model has one process, too.

Hard behaviours: interleaved writes, reservations and reads; broken connections and
retries; a commit whose outcome is unknown; a crash between commit and message;
trimming under held locks; long mixtures of events whose replay must equal the
writer's own bookkeeping. `PROJECT.json` lists them line by line under "hazards".

## Modules

```
DbEvents <- OccLocker <- EventStore <- Reader     <- Transfer
                                    <- OccClients <- MCOccClients
DbEvents <- Filters
Transfer, Filters <- MigrationReader <- MemoryMigration <- MCEventStore
SerialWrites <- WriterService (refinement)
WriterService  <- MCWriterService, WriterService_proofs
ConnectionPool <- MCConnectionPool, ConnectionPool_proofs
Migration      <- MCMigration, Migration_proofs
EventStore     <- EventStore_proofs <- EventStore_history <- EventStore_changes
OccClients, EventStore_changes <- OccClients_proofs
Transfer, EventStore_history <- Reader_proofs
```

**DbEvents** - data and what events do to it. Request events as the constructors
accept them (`ParseError`), `Translate` with its errors, the database events with
their stored data and their reported ("modified") fields, `ApplyEventToModels` (the
writer, forward) and `BuildModelFromEvents`, `DeletedStatusFromEvents` (the reader,
backward from the events table). Values are scalars or lists of scalars. `DbDeleteEvent`
and `DbRestoreEvent` report every field as null: in the method resolution order
`BaseDbEventWithoutValues` comes before the mixin that would set `meta_deleted`.

**OccLocker** - the three queries on locks as sets, including the joins that a filter
adds and the separate tests of position and field in the query for fqfields.

**EventStore** - one variable for the tables, one for the stream, and one action per
operation of the writer, each a whole transaction: `Write`, `WriteRejected` (the tables
roll back, the identity sequence of positions does not), `ReserveIds`,
`WriteWithoutEvents`, `DeleteWithoutEvents`, `DeleteHistoryInformation`, `TruncateDb`,
and `TrimCollectionfieldTables`. Taking a write as one step is justified by
`WriterService`: `_lock` keeps writes apart. `snapshots`, `trimmed` and `reservations`
are ghosts that properties refer to and no action reads, except for the bounds. Trimming
has a threshold in time; the model uses a position, as timestamps of positions ascend.

**Reader** - `get` and `get_many`, with and without a position, as operators on the tables:
which fields and which deleted models are asked for, the row selected from the models
table, the models rebuilt from the events table, and the exceptions. Also the two queries
for the history, which join positions and events.

**Filters** - the filter language and its two evaluations, as SQL with its three-valued
logic and its casts that fail, and as the Python code that `filter_models` makes of the
SQL text. Values are strings and numbers in their order, lists and objects; strings that
are spelled like numbers and patterns with wildcards are left out.

**Transfer** - the scripts that export and import all data, on the tables of `EventStore`.

**MigrationReader** - the reader that model migrations are given, on the database and in
memory: get, get_many, get_all, filter, min, max and is_alive.

**MemoryMigration** - what a migration does to the data, where `Migration` has the steps
and failures: the ready-made migrations on events, `BaseEventMigration.migrate` with the
checks of events and keyframes, the event and model migraters on the database and in
memory. The model migrations of the instance set fields of the models they filter.

**OccClients** - a client that reads through the reader in one of five ways, then writes
with the lock it was given, composed with all the actions of `EventStore` for the other
clients. `filter` is two actions as its two statements see two states; an aggregate is
one. How the client builds its request is external to the repository and follows the
position that each answer carries.

**WriterService** - the calls of `write` and `reserve_ids` as threads, statement by
statement: `_lock`, the sequence of positions (never rolled back), the row lock on
`id_sequences`, commit, message, answer. Failures: a refused request, a connection that
breaks (the pool is recreated, which closes the connections of all other threads; the
call is retried up to MaxRetries), a connection found closed (not retried), a connection
that cannot be opened (not retried), a commit that fails with or without effect (not
retried: the error is raised in `__exit__`, after the translation to `DatabaseError`), a
failing bus, and a crash of the process. What a transaction writes is abstracted to the
positions it draws and to one row of `id_sequences`.

**SerialWrites** - the abstract specification of the writer: no threads, locks, tries or
connections; whole calls take effect one after the other, are announced in that order, and
reservations hand out ids that nobody has. An error answer is possible with and without
effect. `WriterService` implements it under the mapping `positions` to `visible`, `stream`
to `announced`, `created` to `used`, `reserved` to `held` (`ImplementsSerialWrites`).

**ConnectionPool** - `PgConnectionHandlerService` with several threads. `handler` holds
the pool (idle and used connections), the connections that are closed, the current
connection of each thread and `sync_event`. A call waits for the event, takes `sync_lock`
and gets a connection or clears the event (`GetConnection`, `Missed`,
`GetConnectionRaises`, `ConnectFails`), and leaves its `ConnectionContext` in one of four
ways (`Exit`, `ExitWithOutage`, `FailoverFails`, `CommitFails`). What happens under
`sync_lock` is one step. psycopg2's pool is external and modelled by what `getconn`,
`putconn` and `closeall` do for the handler. The check of the process id after a fork is
left out: a process is forked before its first call.

**Migration** - `migrate`, `finalize` and `reset`, one action per transaction, stopped
after any of them (`Stop`), run again by the operator as `src/docs/migrations.md` describes
(`StartMigrate`, `StartReset`, `StartFinalize`, `RunAgain`, `BringOnline`) next to a live
writer (`BeginWrite`, `CommitWrite`, `FailWrite`). The events of a position are abstracted to the index of
the format they are in; an event migration from i turns format i into i+1 if the keyframes
it is given are the right ones, and into `Garbled` otherwise. Models and keyframes are the
sequence of events that built them. One migration container runs at a time.

Definitions called a faulty variant are not used by any specification: each one is a
plausible mistake in the definition after it, and shows which property notices it.

## Runs

| run | instance | shows |
|---|---|---|
| event_store_model | two models, fields f and l, 15 calls, 4 positions, 4 read requests, 32 filter requests, 3 event and 2 model migrations | TypeOk, HistoryFaithful, ReadsAtPositionsAgree, LockTablesComplete, ReadersAgreeOnLiveModels, MigratedAlike, BusAnnouncesChanges |
| event_store_tables | two collections with history and one without, ids 1 to 3, migration indices, 3 positions, 2 reservations, truncation | UniformMigrationIndex, ReservationsDisjoint, ReservedIdsAreFree, ImportRestores |
| occ_locker | two models, all five kinds of reads, one or two fields, 4 positions | OccSoundUnfiltered, LockerSound, ReadAgainIsNewer |
| occ_filter_position, occ_filter_scope, occ_field_locks | one kind of read each | findings 1, 2 and 5 |
| writer_service_writes | writers with two and one requests, a reserver, 2 tries, 1 crash | the refinement ImplementsSerialWrites; order, atomicity, answers; the inductive invariant WriteInv; with fairness, EveryCallAnswered |
| writer_service_ids | a writer and two reservers | IdInv, ReservedOnce, ReservedAreFree |
| connection_pool | 3 threads with 2 calls each, a pool of 1 to 2 connections, one failure of each kind | OneOwner, NoLeak, NoLostWakeup; with fairness, CallsEnd |
| migration | up to 2 event or model migrations, first index -1, 1 or 2, 4 positions, parallel writes, 2 stops | KeyframesFaithful, EventsHaveTheirIndex, ModelsMatchEventsOnline, LockTablesFresh, UniformIndexOnline, ModelMigrationsOnce; with fairness, BackUnlessIndicesDiffer |
| migration_swap_stop, migration_model_stop | one migration, a stop at one place | findings 3 and 4 |

Bounds. Four positions allow create, delete, restore and one more change with any of
them rejected, or two requests in a call twice; longer histories of one model repeat
these transitions since all definitions look at the last state of a model only. The
migrations of event_store_model rename, add and remove a field, and start at each index
from the first to the last, so that every suffix of them runs on every history; the second
model migration finds what the first one wrote. In the
locker, a lock is compared with one position, so one position before it, its own and
two after it are all the cases. Two tries reach both sides of the retry limit; one crash
can fall into every state of every call. Writers and reservers wait for each other
in pairs, so three threads show every wait. In the pool, three threads and two
connections let one thread wait while the two others return, break or keep theirs; the
pool sizes of the code (at least 2 and 5) are scaled down. Four positions, gaps
included, are enough for a keyframe that was left behind, one to move to, one written
while migrate runs and one for a model migration. Two migrations are enough for one to be
registered before, during or after the work on the other, and for a model migration after an
event migration or another model migration. The run leaves out the one stop that
finding 3 is about and a first write that has read -1 next to migrate (see below); stops
among the model migrations (finding 4) are in it, and BackUnlessIndicesDiffer exempts what
they leave behind. Deadlock checking is off since all
instances stop when their bounds are used up or all calls are answered; that nobody
waits for ever is EveryCallAnswered.

Fairness. `FairSpec` is weakly fair in each thread's own steps: the operating system runs
every thread, a free `_lock` is taken by a waiting thread, and PostgreSQL gives a
released row to a transaction that waits for it. Failures have no fairness. As there
are finitely many calls, weak fairness suffices even though a free lock may be taken by
others first. In `ConnectionPool`, likewise each thread inside of a call. In `Migration`,
a command that runs goes on, an open write ends, and an operator who took the datastore
offline keeps running the documented commands and brings it back after a successful
finalize; when commands are started, migrations registered or writes begun is left open.

### Findings

1. *filter reads rows and position in two statements* (`reader_service.py:138`). A write
   between them is inside of the position and not of the rows, so a lock at the
   position does not break. Aggregates select both at once and are sound (OccSoundUnfiltered in occ_locker).
2. *A lock with a filter looks at models as they are now*
   (`sql_occ_locker_backend_service.py:132`). A model that left the scope is not
   noticed. LockerSound states what such a lock does promise: nothing entered the scope.
3. *A finalize that stops between the swap of the events tables and the update of the
   index* (`migration_handler.py:285`) leaves migrated events under the old index; after
   reset and finalize they are migrated a second time.
4. *A finalize that stops among the model migrations* (`migration_handler.py:291`) leaves
   positions of two indices. Every command, reset included, then refuses to run, and the
   datastore does not come back.
5. *Locks on two fields of one model at different positions are mixed*
   (`sql_occ_locker_backend_service.py:98`). The positions and the fields are two separate
   conditions of one query, so that an event newer than the lock on one field that modified
   the other field, not after its own lock, is found: the write is rejected
   though no lock is broken. It only costs the client another attempt: OccSoundUnfiltered is
   not affected, and by ReadAgainIsNewer reading again gives newer locks.

Further behaviour that the models have and that properties make room for:

* `get_many` at a position at which no model is wanted runs a query with an empty list and
  fails (`sql_read_database_backend_service.py:223`); without a position the answer is empty.
* After an outage in one thread, the other threads cannot return their closed connection to
  the new pool (`PoolError`), and each later call of such a thread fails while it tries to
  discard it (`pg_connection_handler.py:203`). As many failed commits as the pool has
  connections use it up for good: the threads that would discard them wait for the event
  that was cleared (`pg_connection_handler.py:178`); connection_pool has one fewer. A
  failover that is given up leaves the event cleared, if it was (`GivenUp`). All three
  concern processes with several threads; the image starts workers with one.
* migrate on a datastore at index -1 sets the index while a write that has read -1 may be
  under way; its position keeps -1, and later writes are refused (`migration_handler.py:243`).
* The database reader of migrations has no condition on deleted models in filter and the
  aggregates, although its docstring promises "all current models which are not deleted"
  (`migration_reader.py:26`): a model migration that updates what it found fails if one of
  them is deleted. The reader in memory has no deleted models at all; ReadersAgreeOnLiveModels
  says nothing of deleted models, and no run is about this difference. Likewise, the
  docstring at `migration_reader.py:142` has `mapped_fields` ignored in memory, and the code
  obeys them. For parts of `get_many` with an fqid in common, memory takes the fields of the
  last part, the database those of all.
* `!=` and `not` find models without the field in memory only; ordering a string is a
  database error and an ordinary comparison in Python; an empty `and` inside of a filter is
  a syntax error in SQL and false in Python (`filter_models.py:44`). FilterAgrees
  bounds the difference: memory may find more, but only models that lack a field of the filter
  and only with a filter that negates; the answers are the same otherwise, unless one of
  them raises an error, and only orderings on the database and `~=` and `%=` in memory may.
* An import truncates and writes in two transactions (`import_data_only.py:29`), and a
  document without models is refused after the truncation. Null values of eventless models
  are lost on the way.
* The history of a model lists a position once for each event that the model has in it
  (`sql_read_database_backend_service.py:310`).
* finalize rebuilds id_sequences from the models that exist (`migration_handler.py:357`), so
  ids that were reserved and not used before the migration are handed out again.
* reset after a finalize that already filled the models table leaves the migrated models
  over the unmigrated events (`migration_handler.py:305`) until finalize is run again.

Assumptions about the surroundings and simplifications beyond the bounds:

* A new release, which registers a migration, does not come while a position or an open write
  has index -1 (`RegisterMigration`). Nothing in the code sees to it: `check_for_latest`
  (`migration_handler.py:241-243`) would give such events the newest index, although they
  are in the format of the release that wrote them.
* The datastore goes online after a successful finalize only (`BringOnline`), as
  docs/migrations.md has it. Going online after reset over models that an unfinished finalize
  had filled (`migration_handler.py:303-305`) is not explored.
* The statements of `run_checks` are one step. Next to a write they could see different
  states under READ COMMITTED; the only write that changes what they look at is a
  first one, which is the race with index -1 above.
* An `OperationalError` with a pgcode replaces the pool and is not tried again
  (`pg_connection_handler.py:44-45`); `LoseConnection` has those without one only. The call then
  ends with an error, as after the last try.
* A failure to create the first pool is tried again in the code
  (`pg_connection_handler.py:139,182-183`); `ConnectFails` ends the call, as nothing was done.
* `ConnectionPool` has the failover of the call itself, and not one that starts while a
  left-over connection is discarded (`pg_connection_handler.py:203`, `245`).
* `NeedsWholeModel` leaves out the limit on the number of fields in a query
  (`mapped_fields.py:34`): above it the whole model is read and cut, with the same answer.
* A migration index of 0 counts as none (`sql_read_database_backend_service.py:382`); the
  schema of the requests excludes it, so `CurrentMigrationIndex` has no such case.

Facts that properties take into account: restored models are announced with all fields
null (the unit tests expect that), so BusAnnouncesChanges says nothing about the values
of their fields; a lock older than the trimming threshold promises nothing
(`NotTrimmedAway`); after a crash, a failing bus or a commit of unknown outcome the client
gets an error although the write may be visible, and its message is lost for good.

## Proofs

`WriterService_proofs` proves, for any sets of calls and any numbers of requests, tries
and crashes, from `ThreadsAssumption` and `ParametersAssumption` only:

* `TypeCorrect`: `Spec => []TypeOk`;
* `WriteInvariant`: `Spec => [](TypeOk /\ WriteInv)`. `AtMostOnce`, `AnswersAreTrue` and
  `MessagesAreCommitted` are not inductive: that a call commits once depends on where
  it goes after the commit, that its message names committed positions depends on the
  positions it carries from commit to message, and the orders depend on mutual
  exclusion. `WriteInv` adds exactly this: `MutualExclusion`, `DrawnAboveVisible`
  (positions drawn in an open transaction lie above all that are visible),
  `CommittedOnce`, `ReadyToPublish`;
* `AtMostOnceHolds`, `AnswersAreTrueHolds`, `MessagesAreCommittedHolds`, and the action
  properties `PositionsVisibleInOrderHolds`, `MessagesInOrderHolds`, from it;
* `Invariant`: `IdInv` as well, from which `ReservedOnceHolds` and `ReservedAreFreeHolds`
  follow. `IdInv` separates what is committed (below the row's value) from what an open
  transaction has drawn (above it), and says who holds the row.

Its second half is the refinement:

* `CountInvariant`: `Spec => [](... /\ CountInv)`: an open transaction has drawn one position
  per request it has begun, an open reservation as many ids as it was asked for, and who has
  ids or an answer is done. `AllOrNothingHolds` follows: a call has the positions of all its
  requests or none.
* `RefinesSerialWrites`: `Spec => ImplementsSerialWrites`. Under the mapping, the commit of a
  writer is `Commit`, its message `Announce`, the commit of a reserver a reservation, and
  answers are answers; every other step, crashes included, is a stutter. The invariants give
  the guards of the abstract steps: the positions of a commit are new and above all
  visible ones, and are as many as the requests.

`ConnectionPool_proofs` proves from `PoolAssumption`, for any number of threads, calls,
connections and failures: `PoolInvariant`, and from it `TypeCorrect`, `OneOwnerHolds`,
`NoLeakHolds` and `NoLostWakeupHolds`. `PoolInv` says whose each connection is (`Consistent`:
idle ones are nobody's, used ones are held by one thread, closed ones are held), that
the event is cleared only when all connections are in use, and that a used connection which
no thread is at work with was left behind by a failed commit. The last one makes
the hypothesis of `NoLostWakeupHolds`, fewer failed commits than connections, necessary;
with as many the pool is used up for good (see below Findings).

`Migration_proofs` proves from the assumptions of `Migration`, for any migrations, stops and
writes: `CommandInvariant`, and from it `LockTablesFreshHolds` and
`ModelMigrationsOnceHolds`. `CommandInv` relates the step a command is at to what the steps
before it left: which command may run when the datastore is online (`Discipline`), when the
collectionfield tables are empty or fresh (`LockInv`), and that the model migrations done lie
below the index of the positions and below the ones to come (`ModelInv`).
`UniformIndexOnlineHolds` has the hypothesis `NoOpenFirstWrite`: no write that has read index
-1 is open next to migrate (`FirstWriteOpen` is false), or the datastore does not begin at -1.
Without it the race
described under Findings leaves a position at -1.

The contents of the tables rest on two more invariants. `PlaceInvariant` is about the walk over
the positions: the rows of migration_positions follow each other without a gap, the position to
do next is the first one that is missing or behind, and all positions are `Complete` before
finalize fills models from them or exchanges the events, although any attempt before may have
stopped anywhere, and positions were written and migrations registered in between. On it
stands `FormatInvariant`: events and migrated events are in the format of their index, every
keyframe is the content at its position (carried through the loop of `migrate_position`
over the migrations by a least counterexample), and the models are those of the events but for
the window `ModelsReplaced`, from the time that finalize has filled them until it has
exchanged the events, in this attempt or a later one. From it follow `KeyframesFaithfulHolds`,
`EventsHaveTheirIndexHolds` and `ModelsMatchEventsOnlineHolds`. These four have the hypothesis
`NoStopAfterSwap`, no stop between the exchange of the events and the update of the index: the
run `migration_swap_stop` shows that such a stop breaks them. `TypesCorrect` is
`Spec => []TypeOk` without hypothesis; it needs bounds on the formats in all tables
(`TablesInv`) and that the sorted positions which the model takes by CHOOSE exist.

`EventStore_proofs` proves, for any requests that satisfy `RequestAssumption` and
`EventlessAssumption` (the shapes that the constructors of `write_request.py` and the schemas
let through): `StoreInvariant`, and from it `TypeCorrect`, `UniformMigrationIndexHolds`,
`ReservationsDisjointHolds` and the action property `ReservedIdsAreFreeHolds`. `StoreInv` says
that positions come from the sequence and have one index, rows refer to rows that exist,
every model knows whether it is deleted, the models are finitely many with natural numbers as
ids (`KeyInv`), the id sequence of a collection is above the ids of
its models, and reservations lie below it. A write is three nested loops (the requests of a call, the
events of a request, the database events of an event), written as recursive functions over
the length done so far. Each loop has its own invariant (`LoopInv`, `Written`), and the
induction is by a least counterexample (`LeastNat`): if a turn broke the invariant there
would be a first one that does.

`EventStore_history` proves from it `HistoryInvariant` and `HistoryFaithfulHolds`: what a
reader replays for any committed position is what the writer had stored. `HistoryInv` says
that the rows of a model begin with its only creation and make the model in the
models table, and those up to a committed position the model committed there. Two lemmas
carry it. `ReplayIsModified`: a row replayed on the model made by the rows before it gives the
model of the writer, but for the `meta_position` that the reader adds at the end only.
`PendingNext`: the list updates of an event are computed when the event is translated, on
the model before its other database events are applied, while the reader computes them
after; both are the same because the constructor of the event refuses a field in two parts of
it (`Separate`), so the earlier database events touch other fields than the lists. What
is recorded stays so because new rows lie above every committed position (`RecordedStays`).
For the reader it also says that a deletion is followed by nothing but a restoration and that
the last creation, deletion or restoration tells whether the model is deleted (`Settled`),
and that every row has its model in the snapshots from its position on.

`Reader_proofs` proves from it `ReadsAtPositionsAgreeHolds`: `get` and `get_many` at any
position answer what the models table would have answered then, with the same exceptions, and
the two queries for the history name exactly what was written. The steps: no row lies between
a position that was never committed and the committed one before it, so both find the same
rows (`FoundAtAny`); a model has rows if and only if it is in the snapshot (`FoundAtSnapshot`);
the query for the deleted status looks at the last row of the newest deciding position,
whatever type it has, which is right because of `Settled` (`StatusSettled`); a column per
field, null where the model has none, leaves what the cut of the whole model leaves
(`FieldsAlike`); and the position on a model is that of its last event, so that the models
written at a position are those with an event there (`WrittenByEvents`). `OfHistory`
restricts it to models with history: the events table knows nothing of the others.

It also proves `ImportRestoresHolds`, from `StoreInv` alone: an export that has a model is
imported without an error, the export of the result has the same values and the same migration
index, and no imported id is left to be reserved. `ImportLoop` follows the single request through
the loop over its events, each of which creates a model that is not there yet (the export names
every fqid once); `ImportTables` follows the insertion into the empty tables, where the index of
the document is accepted because there is no other; `KnownAgain` is about the values: a field
without value is dropped by the create event, all others come back. `KeyInv` is what makes the
list of the models to create finite and the id sequences move beyond every id, also for
models that were written without events. Null is no number (`ValueAssumption`): an index that was
exported is not taken for a missing one.

`EventStore_changes` proves `ChangeInvariant`, and from it `LockTablesCompleteHolds` and the
action property `BusAnnouncesChangesHolds`. Both rest on one fact about `db_events.py`: a
field whose value differs after a database event is among the fields that the event reports
as modified (`ValueKept`), and what it reports is the new value unless it restores the model
(`ValueReported`). The list updates are again the hard case: they report values computed
before the other database events of the same event are applied (`PendingReportsNext`). From
there the loop invariant `LoopReports` carries the fact over the events of a request, `Told`
over the insertion into the tables, and `ChangeWritten` over the requests of a call, where a
later request overwrites what an earlier one announced. `ChangeInv` has to say, beside the
property, that the models table is the newest snapshot on the models with history: only
so a change against the tables is a change against the snapshot before. Eventless writes
touch no such model, and trimming drops only what lies below its threshold (`TrimTells`).
For the locks it says more than the two properties need: a change is also one that only the
stored data shows, as of a field of a deleted model, which filters still find; no model with
history vanishes, its `meta_position` is the position of one of its events, and every
snapshot since then holds the model as it is (`KeptInv`); every collectionfield is connected
to an event of its position (`FieldInv`), and no event of a model is newer than the
`meta_position` that the model carries (`NewestInv`).

`OccClients_proofs` proves that optimistic locking keeps its promises, for any requests of
other clients, any events, fields, filter and lock positions, and any trimming below the
locks: `LockerSoundHolds`, `OccSoundUnfilteredHolds` and `ReadAgainIsNewerHolds`. The
client adds `ClientInv`: while it holds locks, their positions are committed ones, and what it
has read is what the datastore held at them (but for `filter`, whose rows are older than
their position). That rests on `ReadModel` - by `KeptInv` a model is as it was committed at
its `meta_position` - and on `ReadScope` - the newest position is that of the models table.
The step that accepts then goes backwards: were a locked field different from what it was at
the lock, a first position after the lock would have changed it (`ChangeIsNoted`, a least
counterexample over the committed positions), that position is noted in the tables unless
trimmed away, and the queries of the locker would have found it (`FqfieldHolds`,
`CollectionfieldHolds`, `ScopeHolds`). A lock on a model needs no such walk: the event at its
`meta_position` would be newer than the lock. `ReadAgainIsNewerHolds` goes the other way: a locker
that rejects has found an event, or a collectionfield, newer than one of the locks
(`LocksInv`: there is one, with an integer as position). By `NewestInv` the `meta_position` of
the locked model is not older than this event, and by `FieldInv` the collectionfield
belongs to a position that exists, so the position which the same read returns now is newer than
the lock. It does not compare the value of a lock with what was committed, so it
holds with truncation too. The first two theorems assume that there is no `truncate_db` (`AllowTruncate`
is false, as in the runs): it takes the positions of locks back and starts to count again,
which a lock cannot notice. `ClientAssumption` says that the locked models have a history,
that `meta_position` is not a locked field (no update reports it as modified), and that the
filter asks for a value other than null.

One lemma per action shows that it preserves the invariant. Only model-checked:

* liveness (`EveryCallAnswered`, `CallsEnd`, `BackUnlessIndicesDiffer`), which is out of the prover's reach;
* the comparisons in `Filters`, `MigrationReader` and `MemoryMigration`: `Filters` is
  recursive, as filters are, which keeps it and the modules that extend it out of the
  prover's reach.

`MessagesAreCommitted` is only proved: `ImplementsSerialWrites` implies it for the run.

## Not modelled

The syntax and maximal lengths of keys, JSON schemas, HTTP routes, dependency injection,
environment, shutdown, tracing: no state, or no interleaving. The export to OpenSlides 3:
a conversion of one application's data. Several writer processes: the deployment starts
one. Truncation and eventless writes in the middle of a write: EventStore takes them
between writes. The hooks `position_init`, `get_additional_events` and `will_exist`, which
only migrations of the backend, another repository, implement.

Next step: the table and row locks of truncation and eventless writes next to a write.
