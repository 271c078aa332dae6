-------------------------- MODULE MemoryMigration ---------------------------
(***************************************************************************)
(* Migrations of data in memory, for the import of a meeting, next to the  *)
(* migrations of the database that the data could have stayed in: what the *)
(* ready-made event migrations do to events, the event migraters that call *)
(* them with keyframes, and the model migraters. Module Migration has the  *)
(* steps, the tables and the failures of the latter; here is what it does  *)
(* to the data.                                                            *)
(*                                                                         *)
(* A migration event is a row of the events table without its position.    *)
(***************************************************************************)
EXTENDS MigrationReader

CONSTANTS EventMigrations,   \* the event migrations for the indices 2, 3, ...
          ModelMigrations    \* the model migrations for the indices after those

\* last_event_migration_target_index and target_migration_index
EventTarget == Len(EventMigrations) + 1
Target == EventTarget + Len(ModelMigrations)

-----------------------------------------------------------------------------
(* Events and keyframes: events.py, migration_keyframes.py                  *)

\* The constructors, which clone() calls too, raise a BadEventException.
BadEvent(event) ==
    \/ \E f \in AllKeys([fields |-> event.data.set, add |-> event.data.add,
                         remove |-> event.data.remove]) \cup event.data.unset : IsReserved(f)
    \/ \E f \in DOMAIN event.data.set : event.data.set[f] = None

\* The model must be there for everything but a creation, and deleted for a restoration.
Applicable(keyframe, event) ==
    /\ ~BadEvent(event)
    /\ IF event.type = "create" THEN event.fqid \notin DOMAIN keyframe
       ELSE /\ event.fqid \in DOMAIN keyframe
            /\ keyframe[event.fqid][META_DELETED] = (event.type = "restore")

\* MigrationKeyframeModifier.apply_event
ApplyToKeyframe(keyframe, event, position) ==
    LET model == IF event.type = "create" THEN NoFields ELSE keyframe[event.fqid]
    IN  (event.fqid :> ((META_POSITION :> position) @@ ReplayRow(model, event))) @@ keyframe

-----------------------------------------------------------------------------
(* Event migrations: migrate_event of the ready-made ones                   *)

AddFields(collection, defaults) ==
    [kind |-> "add", collection |-> collection, defaults |-> defaults]
RemoveFields(collection, fields) ==
    [kind |-> "remove", collection |-> collection, fields |-> fields]
RenameField(collection, old, new) ==
    [kind |-> "rename", collection |-> collection, old |-> old, new |-> new]

\* RenameFieldMigration.modify
Modify(object, migration) ==
    IF migration.old \notin DOMAIN object THEN object
    ELSE (migration.new :> object[migration.old]) @@ Omit(object, {migration.old})

\* Faulty variant: list updates keep the old name.
RenamedOutsideLists(data, migration) ==
    [data EXCEPT !.set = Modify(@, migration),
                 !.unset = IF migration.old \in @
                           THEN (@ \ {migration.old}) \cup {migration.new} ELSE @]

Renamed(data, migration) ==
    [set |-> Modify(data.set, migration), add |-> Modify(data.add, migration),
     remove |-> Modify(data.remove, migration),
     unset |-> IF migration.old \in data.unset
               THEN (data.unset \ {migration.old}) \cup {migration.new} ELSE data.unset]

Removed(data, fields) ==
    [set |-> Omit(data.set, fields), add |-> Omit(data.add, fields),
     remove |-> Omit(data.remove, fields), unset |-> data.unset \ fields]

MigrateEvent(migration, event) ==
    IF CollectionOf(event.fqid) # migration.collection THEN event
    ELSE CASE migration.kind = "rename" -> [event EXCEPT !.data = Renamed(@, migration)]
           [] migration.kind = "remove" -> [event EXCEPT !.data = Removed(@, migration.fields)]
           [] migration.kind = "add" ->
                IF event.type # "create" THEN event
                ELSE [event EXCEPT !.data.set = migration.defaults @@ @]

\* order_events
OrderEvents(events) ==
    SelectSeq(events, LAMBDA e : e.type = "create")
    \o SelectSeq(events, LAMBDA e : e.type # "create")

\* _filter_noop_events
IsNoop(event) ==
    \/ event.type = "update" /\ event.data.set = NoFields
    \/ event.type = "deletefields" /\ event.data.unset = {}
    \/ /\ event.type = "listfields"
       /\ \A f \in DOMAIN event.data.add : event.data.add[f] = <<>>
       /\ \A f \in DOMAIN event.data.remove : event.data.remove[f] = <<>>

\* BaseEventMigration.migrate, between the keyframes before the position: the events as
\* they are go to the old one, the migrated ones to the new one.
Migrate(migration, events, old, new, position) ==
    LET Step(acc, event) ==
            LET migrated == MigrateEvent(migration, event)
                dropped == IsNoop(migrated)
            IN  IF \/ ~acc.ok \/ ~Applicable(acc.old, event)
                   \/ ~dropped /\ ~Applicable(acc.new, migrated)
                THEN [acc EXCEPT !.ok = FALSE]
                ELSE [ok |-> TRUE,
                      events |-> IF dropped THEN acc.events ELSE Append(acc.events, migrated),
                      old |-> ApplyToKeyframe(acc.old, event, position),
                      new |-> IF dropped THEN acc.new
                              ELSE ApplyToKeyframe(acc.new, migrated, position)]
    IN  FoldLeft(Step, [ok |-> TRUE, events |-> <<>>, old |-> old, new |-> new],
                 OrderEvents(events))

Indices(first, last) == [i \in 1..(last - first) |-> first + i - 1]

-----------------------------------------------------------------------------
(* In the database                                                          *)

\* EventMigraterImplementation.migrate_position. The keyframe of the migrated events is
\* kept for the last index only; that of another index is moved as the old one of the next.
MigratePosition(acc, position, start) ==
    LET rows == SelectSeq(db.events, LAMBDA row : row.position = position)
        Step(a, source) ==
            LET m == Migrate(EventMigrations[source], a.events,
                             a.keyframes[source], a.keyframes[source + 1], position)
            IN  IF ~a.ok THEN a
                ELSE [ok |-> m.ok, events |-> m.events,
                      keyframes |-> [a.keyframes EXCEPT
                          ![source] = m.old,
                          ![source + 1] = IF source + 1 = EventTarget THEN m.new ELSE @]]
    IN  FoldLeft(Step, [acc EXCEPT !.events = rows], Indices(start, EventTarget))

\* The models that fill_models_aux_tables takes from the last keyframe.
MigratedByEvents(start) ==
    IF start >= EventTarget THEN [ok |-> TRUE, models |-> db.models]
    ELSE LET migrated == FoldLeft(
                LAMBDA acc, p : MigratePosition(acc, p, start),
                [ok |-> TRUE, events |-> <<>>,
                 keyframes |-> [i \in start..EventTarget |-> <<>>]],
                SetToSortSeq(DOMAIN db.positions, <))
         IN  [ok |-> migrated.ok, models |-> migrated.keyframes[EventTarget]]

\* A model migration that sets fields of the models it filters.
Updates(found, migration) ==
    LET fqids == SetToSeq(DOMAIN found)
    IN  [i \in DOMAIN fqids |-> UpdateEvent(fqids[i], migration.fields, <<>>, <<>>)]

\* ModelMigraterImplementation.migrate: insert_events at the next position
MigrateModelsInDatabase(acc, migration) ==
    LET found == SqlFilter(acc.models, migration.collection, migration.filter, {})
        position == db.position_seq + 1
        events == Updates(found.models, migration)
        loop == FoldLeft(LAMBDA a, e : LoopStep(a, e, position), LoopStart(acc, events), events)
    IN  IF ~acc.ok \/ found.error # "ok" THEN [acc EXCEPT !.ok = FALSE]
        ELSE [ok |-> loop.error = "ok", models |-> loop.models @@ acc.models]

MigrateDatabase(start) ==
    FoldLeft(MigrateModelsInDatabase, MigratedByEvents(start),
             [i \in 1..(Target - Max({start, EventTarget})) |->
                 ModelMigrations[Max({start, EventTarget}) - EventTarget + i]])

-----------------------------------------------------------------------------
(* In memory                                                                *)

\* EventMigraterImplementationMemory.migrate_position: every model is created at position
\* 1, and each migration has two keyframes that are empty at first.
MigrateEventsInMemory(models, start) ==
    LET fqids == SetToSeq(DOMAIN models)
        Given(q) == {f \in DOMAIN models[q] : ~IsReserved(f) /\ models[q][f] # None}
        events == [i \in DOMAIN fqids |->
            [type |-> "create", fqid |-> fqids[i],
             data |-> [EventData EXCEPT !.set = Restrict(models[fqids[i]], Given(fqids[i]))]]]
        Step(acc, source) ==
            LET m == Migrate(EventMigrations[source], acc.events, <<>>, <<>>, 1)
            IN  IF ~acc.ok THEN acc ELSE [ok |-> m.ok, events |-> m.events, models |-> m.new]
    IN  FoldLeft(Step, [ok |-> TRUE, events |-> events, models |-> models],
                 Indices(start, EventTarget))

\* ModelMigraterImplementationMemory.migrate
MigrateModelsInMemory(acc, migration) ==
    LET found == FilterModels(acc.models, migration.collection, migration.filter, {})
        Apply(models, dbEvent) == (dbEvent.fqid :> ModifiedModel(dbEvent, models)) @@ models
        Step(a, event) ==
            LET t == Translate(event, a.models)
            IN  IF ~a.ok \/ t.error # "ok" THEN [a EXCEPT !.ok = FALSE]
                ELSE [a EXCEPT !.models = FoldLeft(Apply, @, t.events)]
    IN  IF ~acc.ok \/ found.error # "ok" THEN [acc EXCEPT !.ok = FALSE]
        ELSE FoldLeft(Step, acc, Updates(found.models, migration))

\* MigrationHandlerImplementationMemory: set_import_data, finalize, get_migrated_models
MigrateInMemory(data, start) ==
    LET modelStart == Max({EventTarget, start})
        byEvents == MigrateEventsInMemory(MarkUndeleted(data), start)
        all == FoldLeft(MigrateModelsInMemory, [ok |-> byEvents.ok, models |-> byEvents.models],
                        [i \in 1..(Target - modelStart) |->
                            ModelMigrations[modelStart - EventTarget + i]])
    IN  IF start < 1 \/ start > Target THEN [ok |-> FALSE, models |-> <<>>]
        ELSE [all EXCEPT !.models = StripAll(@)]

-----------------------------------------------------------------------------
(* Property                                                                 *)

\* Whatever was written, and whichever index the data has when the migrations begin: all
\* migrations succeed, and an export of the database that is migrated in memory gives the
\* models that the migrated database has. One side migrates each event ever written and
\* each position by itself, the other a single creation per model.
MigratedAlike ==
    \A start \in 1..Target :
        \E there \in {MigrateDatabase(start)}, here \in {MigrateInMemory(ImportData(db.models), start)} :
            /\ there.ok /\ here.ok
            /\ ImportData(there.models) = here.models
=============================================================================
