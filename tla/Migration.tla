----------------------------- MODULE Migration ------------------------------
(***************************************************************************)
(* Migrations of the stored events (migrations/core): an operator runs the *)
(* commands migrate, finalize and reset, each a sequence of transactions   *)
(* that may stop after any of them. Events of a position are abstracted to *)
(* the migration index their format belongs to, models and keyframes to    *)
(* the sequence of the events that built them. One migration container     *)
(* runs at a time, next to one writer while the datastore is online.       *)
(***************************************************************************)
EXTENDS Integers, Sequences, FiniteSets, FiniteSetsExt

CONSTANTS InitialIndices,  \* migration indices of the first write of a datastore
          ModelMigrations, \* whether model migrations may be registered
          FirstWriteOpen,  \* whether migrate runs next to a write that has read index -1
          StopSteps,       \* the transactions that may fail or be cut off
          MaxPosition,     \* bound on the sequence of positions
          MaxTarget,       \* bound on the registered migration indices
          MaxStops         \* bound on the commands that stop early

ASSUME MigrationAssumption ==
    /\ InitialIndices \subseteq {-1} \cup (Nat \ {0})
    /\ ModelMigrations \in BOOLEAN /\ FirstWriteOpen \in BOOLEAN
    /\ MaxPosition \in Nat /\ MaxTarget \in Nat \ {0} /\ MaxStops \in Nat

VARIABLES db,         \* the tables
          eventTarget,\* last_event_migration_target_index
          target,     \* target_migration_index
          proc,       \* the command that runs, or the outcome of the last one
          online,     \* reader and writer are up
          writing,    \* the migration index a write transaction has read, 0 if there is none
          stops,      \* how many commands stopped early
          applied     \* ghost: the targets of the model migrations that wrote events

vars == <<db, eventTarget, target, proc, online, writing, stops, applied>>

EmptyDb ==
    [positions |-> <<>>,            \* position -> migration_index
     position_seq |-> 0,
     events |-> <<>>,               \* position -> format of its events
     models |-> <<>>,               \* the << position, format >> applied, in order
     id_sequences |-> 1,            \* every position creates a model with the next id
     collectionfields |-> <<>>,     \* position -> the events the lock rows refer to
     migration_positions |-> <<>>,  \* position -> migration_index
     migration_events |-> <<>>,     \* position -> format of the migrated events
     migration_keyframes |-> <<>>]  \* << position, migration_index >> -> content, as models

Garbled == 0  \* events that were migrated from something else than they should

Idle(cmd, outcome) ==
    [cmd |-> cmd, step |-> "idle", outcome |-> outcome, todo |-> <<>>,
     last |-> 0, lastIndex |-> 0]

Init ==
    /\ db = EmptyDb
    /\ eventTarget = 1 /\ target = 1
    /\ proc = Idle("none", "ok")
    /\ online = TRUE /\ writing = 0 /\ stops = 0 /\ applied = <<>>

-----------------------------------------------------------------------------
(* What the tables say                                                      *)

Values(f) == {f[x] : x \in DOMAIN f}
With(f, x, y) == [z \in DOMAIN f \cup {x} |-> IF z = x THEN y ELSE f[z]]
Without(f, x) == [y \in DOMAIN f \ {x} |-> f[y]]
\* order_by position asc
Ascending(S) ==
    CHOOSE s \in [1..Cardinality(S) -> S] :
        Values(s) = S /\ \A i, j \in DOMAIN s : i < j => s[i] < s[j]
Positions == DOMAIN db.positions

\* get_current_migration_index raises if the indices differ.
ConsistentIndex == Cardinality(Values(db.positions)) <= 1
CurrentIndex == IF Positions = {} THEN -1 ELSE Max(Values(db.positions))

\* get_migration_state
MigrationState ==
    LET migrated == Values(db.migration_positions)
        minIndex == IF migrated = {} THEN CurrentIndex ELSE Min(migrated)
        complete == /\ minIndex = eventTarget
                    /\ Cardinality(Positions) = Cardinality(DOMAIN db.migration_positions)
    IN  CASE CurrentIndex < eventTarget /\ (complete \/ CurrentIndex = -1) -> "finalize"
          [] CurrentIndex < eventTarget /\ ~(complete \/ CurrentIndex = -1) -> "migrate"
          [] CurrentIndex >= eventTarget /\ CurrentIndex < target -> "finalize"
          [] OTHER -> "none"

\* EventMigraterImplementation.get_migration_index
IndexOf(p) ==
    IF p \in DOMAIN db.migration_positions THEN db.migration_positions[p] ELSE db.positions[p]

\* The first position that EventMigraterImplementation.migrate has to look at.
FirstToMigrate ==
    LET unfinished == {p \in Positions : db.positions[p] < eventTarget}
        behind == {p \in DOMAIN db.migration_positions : db.migration_positions[p] < eventTarget}
        new == IF DOMAIN db.migration_positions = {} THEN {}
               ELSE {p \in Positions : p > Max(DOMAIN db.migration_positions)}
    IN  IF behind # {} THEN Max({Min(unfinished), Min(behind)})
        ELSE IF new # {} THEN Max({Min(unfinished), Min(new)})
        ELSE Min(unfinished)

-----------------------------------------------------------------------------
(* One position: EventMigraterImplementation.migrate_position               *)

\* The content of the datastore after position p in the format of a migration index.
Content(p, index) ==
    LET ps == Ascending({q \in Positions : q <= p})
    IN  [i \in DOMAIN ps |-> <<ps[i], index>>]

\* BaseEventMigration.migrate: a migration is written for events of its source index,
\* and for accessors that show the position before in both formats.
MigrateEvents(format, source, old, new, last) ==
    IF format = source /\ old = Content(last, source) /\ new = Content(last, source + 1)
    THEN source + 1 ELSE Garbled

\* Faulty variant: positions are taken to have no gaps.
NextPositionWithoutGaps(last) == last + 1

\* MigrationKeyframeModifier.get_next_position
NextPosition(last) == Min({p \in Positions : p > last})

\* Faulty variant: the row that is not needed any more stays.
MoveToNextPositionKeeps(keyframes, last, index, content) ==
    LET next == <<NextPosition(last), index>>
    IN  IF next \in DOMAIN keyframes /\ last # 0
        THEN [keyframes EXCEPT ![<<last, index>>] = content]
        ELSE IF next \in DOMAIN keyframes THEN keyframes
        ELSE With(Without(keyframes, <<last, index>>), next, content)

\* move_to_next_position of both modifiers: the one for position 0 has no row yet,
\* the other one applied its events to its row.
MoveToNextPosition(keyframes, last, index, content) ==
    LET next == <<NextPosition(last), index>>
        rest == Without(keyframes, <<last, index>>)
    IN  IF next \in DOMAIN keyframes THEN rest ELSE With(rest, next, content)

\* get_keyframe_id raises BadCodingError if there is no row.
KeyframeExists(keyframes, last, index) == last = 0 \/ <<last, index>> \in DOMAIN keyframes

\* get_accessors: position 0 is the empty datastore.
Accessor(keyframes, last, index) == IF last = 0 THEN <<>> ELSE keyframes[<<last, index>>]

\* apply_event, for the events of a position
ApplyEvents(content, p, format) == Append(content, <<p, format>>)

\* One turn of the loop over the migrations, from index source to source + 1. The old
\* accessor always moves, the new one only with the last migration.
MigrateOneIndex(acc, source, p, last) ==
    LET kf == acc.keyframes
        old == Accessor(kf, last, source)
        new == Accessor(kf, last, source + 1)
        migrated == MigrateEvents(acc.format, source, old, new, last)
        oldMoved == MoveToNextPosition(kf, last, source, ApplyEvents(old, p, acc.format))
    IN  IF ~(/\ acc.ok
             /\ KeyframeExists(kf, last, source)
             /\ KeyframeExists(kf, last, source + 1))
        THEN [acc EXCEPT !.ok = FALSE]
        ELSE [ok |-> TRUE, format |-> migrated,
              keyframes |-> IF source + 1 # eventTarget THEN oldMoved
                            ELSE MoveToNextPosition(oldMoved, last, source + 1,
                                                    ApplyEvents(new, p, migrated))]

\* Faulty variant: always start from the events in use.
EventsToMigrateInUse(p) == db.events[p]

\* The first migration reads the migrated events if there are any.
EventsToMigrate(p) ==
    IF IndexOf(p) # db.positions[p] THEN db.migration_events[p] ELSE db.events[p]

\* get_migrations: the source indices, one migration each
Sources(from, to) == [i \in 1..(to - from) |-> from + i - 1]

MigratePosition(p, last) ==
    LET sources == Sources(IndexOf(p), eventTarget)
        run[n \in 0..Len(sources)] ==
            IF n = 0
            THEN [ok |-> TRUE, format |-> EventsToMigrate(p), keyframes |-> db.migration_keyframes]
            ELSE MigrateOneIndex(run[n - 1], sources[n], p, last)
    IN  run[Len(sources)]

\* write_new_events replaces what a position has in migration_events.
WriteNewEvents(rows, p, format) == With(rows, p, format)

-----------------------------------------------------------------------------
(* The steps of the commands. Each is one transaction.                      *)

At(step) == proc.step = step
Goto(step) == proc' = [proc EXCEPT !.step = step]
End(outcome) == proc' = Idle(proc.cmd, outcome)

Others == <<eventTarget, target, online, writing, stops, applied>>

\* assert_valid_migration_index
ValidIndex ==
    /\ ConsistentIndex
    /\ CurrentIndex <= target
    /\ \A p \in DOMAIN db.migration_positions : db.migration_positions[p] <= target

\* Faulty variant: only what has no index yet is updated.
SetIndexOfLatest(positions, index) ==
    [p \in DOMAIN positions |-> IF positions[p] = -1 THEN index ELSE positions[p]]

\* _update_migration_index
SetIndex(positions, index) == [p \in DOMAIN positions |-> index]

\* run_checks, and the checks of reset
RunChecks ==
    /\ At("checks")
    /\ \/ /\ Positions = {}
          /\ IF proc.cmd = "finalize" THEN Goto("auxOnly") ELSE End("ok")
          /\ UNCHANGED db
       \/ /\ Positions # {} /\ ~ValidIndex
          /\ End("refused")
          /\ UNCHANGED db
       \/ /\ Positions # {} /\ ValidIndex /\ proc.cmd = "reset"
          /\ Goto("resetKeyframes")
          /\ UNCHANGED db
       \/ /\ Positions # {} /\ ValidIndex /\ proc.cmd # "reset" /\ CurrentIndex # -1
          /\ Goto("state")
          /\ UNCHANGED db
       \/ /\ Positions # {} /\ ValidIndex /\ proc.cmd # "reset" /\ CurrentIndex = -1
          /\ db' = [db EXCEPT !.positions = SetIndex(@, target),
                              !.migration_events = <<>>, !.migration_positions = <<>>,
                              !.migration_keyframes = <<>>]
          /\ IF proc.cmd = "finalize" THEN Goto("auxOnly") ELSE End("ok")
    /\ UNCHANGED Others

GetMigrationState ==
    /\ At("state")
    /\ IF ~ConsistentIndex THEN End("refused")
       ELSE IF MigrationState = "migrate" THEN Goto("plan")
       ELSE IF MigrationState = "finalize" /\ proc.cmd = "finalize" THEN Goto("current")
       ELSE End("ok")
    /\ UNCHANGED <<db, Others>>

\* The first transaction of EventMigraterImplementation.migrate.
PlanEventMigration ==
    /\ At("plan")
    /\ LET before == {p \in Positions : p < FirstToMigrate}
           last == IF before = {} THEN 0 ELSE Max(before)
       IN  IF -1 \in Values(db.positions) THEN End("refused")
           ELSE proc' = [proc EXCEPT !.step = "positions",
                           !.todo = Ascending({p \in Positions : p >= FirstToMigrate}),
                           !.last = last,
                           !.lastIndex = IF last = 0 THEN 0 ELSE IndexOf(last)]
    /\ UNCHANGED <<db, Others>>

AfterPositions ==
    IF Len(proc.todo) > 1 THEN "positions"
    ELSE IF proc.cmd = "finalize" THEN "current" ELSE "idle"

\* One turn of its loop: refused if the index rises or a keyframe is missing.
MigrateNextPosition ==
    /\ At("positions")
    /\ LET p == Head(proc.todo)
       IN  \E migrated \in {MigratePosition(p, proc.last)} :
           IF ~migrated.ok \/ (proc.last # 0 /\ IndexOf(p) > proc.lastIndex)
           THEN End("refused") /\ UNCHANGED db
           ELSE /\ db' = [db EXCEPT
                            !.migration_keyframes = migrated.keyframes,
                            !.migration_events = WriteNewEvents(@, p, migrated.format),
                            !.migration_positions = With(@, p, eventTarget)]
                /\ IF AfterPositions = "idle" THEN End("ok")
                   ELSE proc' = [proc EXCEPT !.step = AfterPositions, !.todo = Tail(@),
                                             !.last = p, !.lastIndex = IndexOf(p)]
    /\ UNCHANGED Others

AfterEvents == IF eventTarget < target THEN "modelplan" ELSE "idle"
GotoOrEnd(step) == IF step = "idle" THEN End("ok") ELSE Goto(step)

ReadIndex ==
    /\ At("current")
    /\ IF ~ConsistentIndex THEN End("refused")
       ELSE IF CurrentIndex < eventTarget THEN Goto("aux") ELSE GotoOrEnd(AfterEvents)
    /\ UNCHANGED <<db, Others>>

\* Faulty variant: only the rows of the last position go.
ClearLastLocks(rows) == IF rows = <<>> THEN <<>> ELSE Without(rows, Max(DOMAIN rows))

ClearedLocks(rows) == <<>>

\* delete_collectionfield_aux_tables, called in three places
DeleteCollectionfieldAuxTables ==
    /\ At("aux") \/ At("auxOnly") \/ At("aux2")
    /\ db' = [db EXCEPT !.collectionfields = ClearedLocks(@)]
    /\ IF At("auxOnly") THEN End("ok") ELSE Goto(IF At("aux") THEN "fill" ELSE "index2")
    /\ UNCHANGED Others

RebuiltIdSequences(content) == Len(content) + 1

\* Faulty variant: the keyframe of the index that is left.
KeyframeOfCurrentIndex == <<Max(Positions), CurrentIndex>>

KeyframeToCopy == <<Max(Positions), eventTarget>>

\* fill_models_aux_tables and fill_id_sequences_table
FillModelsAndIdSequences ==
    /\ At("fill")
    /\ IF KeyframeToCopy \in DOMAIN db.migration_keyframes
       THEN \E content \in {db.migration_keyframes[KeyframeToCopy]} :
                /\ db' = [db EXCEPT !.models = content,
                                    !.id_sequences = RebuiltIdSequences(content)]
                /\ Goto("keyframes")
       ELSE End("refused") /\ UNCHANGED db
    /\ UNCHANGED Others

\* Faulty variant: reset forgets the rest of the migration tables.
DeleteMigrationKeyframesOnly ==
    /\ At("keyframes") \/ At("resetKeyframes")
    /\ db' = [db EXCEPT !.migration_keyframes = <<>>]
    /\ IF At("keyframes") THEN Goto("swap") ELSE End("ok")
    /\ UNCHANGED Others

\* _delete_migration_keyframes, in finalize and reset
DeleteMigrationKeyframes ==
    /\ At("keyframes") \/ At("resetKeyframes")
    /\ db' = [db EXCEPT !.migration_keyframes = <<>>]
    /\ Goto(IF At("keyframes") THEN "swap" ELSE "clean")
    /\ UNCHANGED Others

SwapEvents ==
    /\ At("swap")
    /\ db' = [db EXCEPT !.events = db.migration_events, !.migration_events = db.events]
    /\ Goto("index")
    /\ UNCHANGED Others

UpdateMigrationIndex ==
    /\ At("index")
    /\ db' = [db EXCEPT !.positions = SetIndex(@, eventTarget)]
    /\ Goto("clean")
    /\ UNCHANGED Others

\* _clean_migration_data, in finalize and reset
CleanMigrationData ==
    /\ At("clean")
    /\ db' = [db EXCEPT !.migration_positions = <<>>, !.migration_events = <<>>]
    /\ IF proc.cmd = "reset" THEN End("ok") ELSE GotoOrEnd(AfterEvents)
    /\ UNCHANGED Others

\* Faulty variant: the model migrations start at the first one.
FirstModelMigrationOfAll == eventTarget

FirstModelMigration == CurrentIndex

\* The first transaction of ModelMigraterImplementation.migrate.
PlanModelMigration ==
    /\ At("modelplan")
    /\ IF ~ConsistentIndex THEN End("refused")
       ELSE proc' = [proc EXCEPT
                       !.step = IF FirstModelMigration < target THEN "models" ELSE "aux2",
                       !.todo = Sources(FirstModelMigration, target)]
    /\ UNCHANGED <<db, Others>>

\* insert_events, as far as migrations see it
InsertEvents(d, index, format) ==
    LET p == d.position_seq + 1
    IN  [d EXCEPT !.position_seq = p,
                  !.positions = With(@, p, index),
                  !.events = With(@, p, format),
                  !.models = Append(@, <<p, format>>),
                  !.id_sequences = @ + 1,
                  !.collectionfields = With(@, p, format)]

\* One turn of its loop: a model migration returns events or none.
MigrateModels ==
    /\ At("models")
    /\ \E writes \in BOOLEAN :
          IF writes
          THEN /\ db.position_seq < MaxPosition
               /\ db' = InsertEvents(db, Head(proc.todo) + 1, Head(proc.todo) + 1)
               /\ applied' = Append(applied, Head(proc.todo) + 1)
          ELSE UNCHANGED <<db, applied>>
    /\ proc' = [proc EXCEPT !.step = IF Len(proc.todo) > 1 THEN "models" ELSE "aux2",
                            !.todo = Tail(@)]
    /\ UNCHANGED <<eventTarget, target, online, writing, stops>>

UpdateMigrationIndexToTarget ==
    /\ At("index2")
    /\ db' = [db EXCEPT !.positions = SetIndex(@, target)]
    /\ End("ok")
    /\ UNCHANGED Others

\* The container is killed, the database fails or a migration raises an exception: the
\* transaction is rolled back, the ones before it stay.
Stop ==
    /\ proc.step \in StopSteps
    /\ stops < MaxStops
    /\ stops' = stops + 1
    /\ End("stopped")
    /\ UNCHANGED <<db, eventTarget, target, online, writing, applied>>

-----------------------------------------------------------------------------
(* The operator and the live datastore                                      *)

\* register_migrations of a new release: migrations are numbered without gaps, and no
\* event migration follows a model migration. Index -1 means that the events are in the
\* format of the release that runs.
RegisterMigration ==
    /\ At("idle") /\ target < MaxTarget
    /\ -1 \notin Values(db.positions) \cup {writing}
    /\ target' = target + 1
    /\ \/ eventTarget = target /\ eventTarget' = target + 1
       \/ ModelMigrations /\ UNCHANGED eventTarget
    /\ UNCHANGED <<db, proc, online, writing, stops, applied>>

StartCommand(cmd) == proc' = [Idle(cmd, "running") EXCEPT !.step = "checks"]

\* migrate, and reset as the end of a dry run, run next to the live datastore.
StartMigrate ==
    /\ At("idle") /\ online /\ (FirstWriteOpen \/ writing # -1)
    /\ StartCommand("migrate")
    /\ UNCHANGED <<db, Others>>

StartReset ==
    /\ At("idle") /\ online
    /\ StartCommand("reset")
    /\ UNCHANGED <<db, Others>>

\* OpenSlides is taken offline, then the container runs finalize.
StartFinalize ==
    /\ At("idle") /\ online /\ writing = 0
    /\ online' = FALSE
    /\ StartCommand("finalize")
    /\ UNCHANGED <<db, eventTarget, target, writing, stops, applied>>

Finalized == At("idle") /\ proc.cmd = "finalize" /\ proc.outcome = "ok"

\* A command that stopped is followed by finalize or by reset, one that was refused by
\* reset, and reset by finalize.
RunAgain ==
    /\ At("idle") /\ ~online /\ ~Finalized
    /\ \/ proc.outcome # "refused" /\ StartCommand("finalize")
       \/ proc.outcome # "ok" /\ StartCommand("reset")
    /\ UNCHANGED <<db, Others>>

BringOnline ==
    /\ ~online /\ Finalized
    /\ online' = TRUE
    /\ UNCHANGED <<db, eventTarget, target, proc, writing, stops, applied>>

\* write_with_database_context reads the index (a first write may bring its own) ...
BeginWrite ==
    /\ online /\ writing = 0 /\ ConsistentIndex
    /\ db.position_seq < MaxPosition
    /\ \E index \in IF Positions = {} THEN {i \in InitialIndices : i <= target}
                    ELSE {CurrentIndex} :
          /\ FirstWriteOpen \/ At("idle") \/ index # -1
          /\ writing' = index
    /\ UNCHANGED <<db, eventTarget, target, proc, online, stops, applied>>

\* ... and stores the events with it later.
CommitWrite ==
    /\ writing # 0
    /\ db' = InsertEvents(db, writing, IF writing = -1 THEN target ELSE writing)
    /\ writing' = 0
    /\ UNCHANGED <<eventTarget, target, proc, online, stops, applied>>

\* A write that fails keeps the position it drew.
FailWrite ==
    /\ writing # 0
    /\ db' = [db EXCEPT !.position_seq = @ + 1]
    /\ writing' = 0
    /\ UNCHANGED <<eventTarget, target, proc, online, stops, applied>>

Step ==
    \/ RunChecks \/ GetMigrationState \/ PlanEventMigration \/ MigrateNextPosition
    \/ ReadIndex \/ DeleteCollectionfieldAuxTables \/ FillModelsAndIdSequences
    \/ DeleteMigrationKeyframes \/ SwapEvents \/ UpdateMigrationIndex
    \/ CleanMigrationData \/ PlanModelMigration \/ MigrateModels
    \/ UpdateMigrationIndexToTarget

Operator ==
    \/ RegisterMigration \/ StartMigrate \/ StartReset \/ StartFinalize
    \/ RunAgain \/ BringOnline

Next == Step \/ Stop \/ Operator \/ BeginWrite \/ CommitWrite \/ FailWrite

Spec == Init /\ [][Next]_vars

\* A command that runs goes on, an open write ends, and an operator who took the
\* datastore offline does not leave it there.
Fairness ==
    /\ WF_vars(Step)
    /\ WF_vars(CommitWrite \/ FailWrite)
    /\ WF_vars(RunAgain) /\ WF_vars(BringOnline)

FairSpec == Spec /\ Fairness

-----------------------------------------------------------------------------
(* Properties                                                               *)

Indices == 1..MaxTarget
Histories == UNION {[1..n -> (1..MaxPosition) \X (Indices \cup {Garbled})] : n \in 0..MaxPosition}

\* The tables are consistent: events belong to positions, migration_positions and keyframes
\* to positions that exist, as the foreign keys of schema.sql and the queries of
\* migration_keyframes.py have it.
TypeOk ==
    /\ Positions \subseteq 1..db.position_seq /\ db.position_seq \in 0..MaxPosition
    /\ Values(db.positions) \subseteq Indices \cup {-1}
    /\ DOMAIN db.events \subseteq Positions /\ DOMAIN db.migration_events \subseteq Positions
    /\ DOMAIN db.collectionfields \subseteq Positions
    /\ DOMAIN db.migration_positions \subseteq Positions
    /\ DOMAIN db.migration_keyframes \subseteq Positions \X Indices
    /\ db.models \in Histories /\ Values(db.migration_keyframes) \subseteq Histories
    /\ eventTarget \in Indices /\ target \in eventTarget..MaxTarget
    /\ online \in BOOLEAN /\ writing \in Indices \cup {-1, 0} /\ stops \in 0..MaxStops

\* migration_keyframes.py, class comments: a keyframe is the content of the datastore at
\* its position in the format of its index, however often migrate stopped, was resumed
\* with further migrations or met positions written meanwhile.
KeyframesFaithful ==
    \A k \in DOMAIN db.migration_keyframes :
        db.migration_keyframes[k] = Content(k[1], k[2])

\* docs/migrations.md:3, "Every event within this position has the same migration index": in a
\* datastore that runs, the events are in the format that the index of their position
\* says (model migrations raise the index and leave older events as they are).
EventsHaveTheirIndex ==
    online => \A p \in Positions :
        LET index == IF db.positions[p] = -1 THEN target ELSE db.positions[p]
        IN  IF index <= eventTarget THEN db.events[p] = index
            ELSE db.events[p] \in eventTarget..index

\* fill_models_aux_tables, fill_id_sequences_table: the models of a datastore that runs
\* are the ones its events build, and the next id is not taken.
ModelsMatchEvents ==
    LET ps == Ascending(Positions)
    IN  /\ db.models = [i \in DOMAIN ps |-> <<ps[i], db.events[ps[i]]>>]
        /\ db.id_sequences > Len(db.models)
ModelsMatchEventsOnline == online => ModelsMatchEvents

\* delete_collectionfield_aux_tables: in a datastore that runs, the rows that locks are
\* checked with do not refer to events of before the swap (schema.sql:63).
LockTablesFresh ==
    online => \A p \in DOMAIN db.collectionfields : db.collectionfields[p] = db.events[p]

\* docs/migrations.md:3, "In normal operation, all position have the same migration index".
UniformIndexOnline == online => ConsistentIndex

\* model_migrater.py: no model migration changes a datastore twice.
ModelMigrationsOnce ==
    \A i, j \in DOMAIN applied : applied[i] = applied[j] => i = j

\* docs/migrations.md, steps 3 and 4: a datastore taken offline for finalize comes back.
BackOnline == ~online ~> online

\* The same, unless a stop among the model migrations left positions of different indices,
\* which no command changes any more.
BackUnlessIndicesDiffer == <>[]~ConsistentIndex \/ (~online ~> online)

=============================================================================
