----------------------------- MODULE EventStore -----------------------------
(***************************************************************************)
(* The datastore's database as the writer changes it: one variable holds   *)
(* the tables, one the message bus. Every operation of the writer service  *)
(* (writer_service.py with sql_database_backend_service.py) is one         *)
(* database transaction and one action here; module WriterService shows    *)
(* why the transactions of "write" can be taken one after the other.       *)
(***************************************************************************)
EXTENDS OccLocker

CONSTANTS WriteRequestLists,     \* the bodies of /write: sequences of write requests
          EventlessUpdates,      \* the events of /write_without_events that store
          EventlessDeletes,      \* the lists of fqids it deletes
          EventlessCollections,  \* action_worker and import_preview
          ReserveAmounts,        \* the pairs <<collection, amount>> of /reserve_ids
          AllowTruncate,         \* the development route /truncate_db is enabled
          MaxPosition,           \* bound on the positions that are created
          MaxMessages,           \* bound on the messages on the bus
          MaxReservations        \* bound on the reservations

\* Collections without history are written by write_without_events only.
ASSUME EventlessAssumption ==
    /\ \A reqs \in WriteRequestLists : \A i \in DOMAIN reqs :
          \A j \in DOMAIN reqs[i].events :
              CollectionOf(reqs[i].events[j].fqid) \notin EventlessCollections
    /\ \A e \in EventlessUpdates : CollectionOf(e.fqid) \in EventlessCollections
    /\ \A fqids \in EventlessDeletes : \A q \in fqids :
          CollectionOf(q) \in EventlessCollections

\* What the constructors of write_request.py and the schemas of json_handlers.py let through.
ASSUME RequestAssumption ==
    /\ \A reqs \in WriteRequestLists :
          /\ reqs \in Seq(ToSet(reqs))
          /\ \A i \in DOMAIN reqs :
                /\ reqs[i].migration_index \in Int \cup {None}
                /\ reqs[i].events \in Seq(ToSet(reqs[i].events))
                /\ \A j \in DOMAIN reqs[i].events :
                      /\ IdOf(reqs[i].events[j].fqid) \in Nat
                      /\ reqs[i].events[j].type \in {"create", "update", "delete", "restore"}
    /\ \A e \in EventlessUpdates : IdOf(e.fqid) \in Nat
    /\ \A r \in ReserveAmounts : r[2] \in Int
    /\ MaxPosition \in Nat /\ MaxMessages \in Nat /\ MaxReservations \in Nat

VARIABLES db,            \* the tables
          stream,        \* the redis stream ModifiedFields
          snapshots,     \* ghost: the models as they were committed at each position
          trimmed,       \* ghost: positions below this lost their collectionfield rows
          reservations   \* ghost: what reserve_ids returned, in order

vars == <<db, stream, snapshots, trimmed, reservations>>

EmptyDb ==
    [positions |-> <<>>,            \* position -> migration index and information
     position_seq |-> 0,            \* the last value of the identity sequence
     events |-> <<>>,               \* rows in the order of position and weight
     models |-> <<>>,               \* fqid -> data (the column deleted is meta_deleted)
     id_sequences |-> <<>>,         \* collection -> the next id
     collectionfields |-> <<>>,     \* collectionfield -> position
     events_to_collectionfields |-> {}]  \* << <<position, weight>>, collectionfield >>

-----------------------------------------------------------------------------
(* sql_read_database_backend_service.py                                     *)

MaxOfPositions(d) == IF DOMAIN d.positions = {} THEN 0 ELSE Max(DOMAIN d.positions)

MigrationIndices(d) == {d.positions[p].migration_index : p \in DOMAIN d.positions}

\* get_current_migration_index
CurrentMigrationIndex(d) ==
    IF MigrationIndices(d) = {} THEN -1 ELSE Max(MigrationIndices(d))

-----------------------------------------------------------------------------
(* SqlDatabaseBackendService.insert_events                                  *)

\* What the loop over the events carries: the models touched so far, the db events
\* and the modified fields per fqid.
LoopStart(d, events) ==
    [error |-> "ok",
     models |-> [q \in {events[i].fqid : i \in DOMAIN events} \cap DOMAIN d.models
                    |-> d.models[q]],
     dbEvents |-> <<>>, modified |-> <<>>]

\* One database event in the loop.
ApplyDbEvent(acc, dbEvent, position) ==
    LET q == dbEvent.fqid
        old == IF q \in DOMAIN acc.modified THEN acc.modified[q] ELSE NoFields
    IN  [acc EXCEPT !.models = ApplyEventToModels(dbEvent, @, position),
                    !.dbEvents = Append(@, dbEvent),
                    !.modified = With(@, q, Over(dbEvent.modified, old))]

ApplyDbEvents(acc, dbEvents, position) ==
    LET after[n \in 0..Len(dbEvents)] ==
            IF n = 0 THEN acc ELSE ApplyDbEvent(after[n - 1], dbEvents[n], position)
    IN  after[Len(dbEvents)]

LoopStep(acc, event, position) ==
    LET t == Translate(event, acc.models)
    IN  IF acc.error # "ok" THEN acc
        ELSE IF t.error # "ok" THEN [acc EXCEPT !.error = t.error]
        ELSE ApplyDbEvents(acc, t.events, position)

Loop(d, events, position) ==
    LET after[n \in 0..Len(events)] ==
            IF n = 0 THEN LoopStart(d, events) ELSE LoopStep(after[n - 1], events[n], position)
    IN  after[Len(events)]

\* Faulty variants: the stored sequence is overwritten; the id itself stays free.
NextIdOverwrites(old, created) == Max(created) + 1
NextIdOffByOne(old, created) == Max({old, Max(created)})

\* The upsert with greatest(); insert_events passes id + 1.
NextId(old, created) == Max({old, Max(created) + 1})

\* update_id_sequences, for the events that create.
UpdateIdSequences(sequences, dbEvents) ==
    LET Created(c) == {IdOf(dbEvents[i].fqid) : i \in {j \in DOMAIN dbEvents :
                          /\ dbEvents[j].type = "create"
                          /\ CollectionOf(dbEvents[j].fqid) = c}}
        collections == {c \in {CollectionOf(dbEvents[i].fqid) : i \in DOMAIN dbEvents} :
                           Created(c) # {}}
        Old(c) == IF c \in DOMAIN sequences THEN sequences[c] ELSE 0
    IN  Over([c \in collections |-> NextId(Old(c), Created(c))], sequences)

EventRow(dbEvent, position, weight) ==
    [position |-> position, weight |-> weight, fqid |-> dbEvent.fqid,
     type |-> dbEvent.type, data |-> dbEvent.data]

ModifiedCollectionfields(dbEvent) ==
    {CollectionfieldOf(dbEvent.fqid, f) : f \in DOMAIN dbEvent.modified}

\* insert_events after the loop: every table is written in the open transaction.
StoreEvents(d, position, migrationIndex, request, loop) ==
    LET n == DOMAIN loop.dbEvents
        touched == UNION {ModifiedCollectionfields(loop.dbEvents[w]) : w \in n}
    IN  [d EXCEPT
          !.positions = With(@, position, [migration_index |-> migrationIndex,
                                           information |-> request.information]),
          !.id_sequences = UpdateIdSequences(@, loop.dbEvents),
          !.models = Over(loop.models, @),
          !.events = @ \o [w \in n |-> EventRow(loop.dbEvents[w], position, w)],
          !.collectionfields = Over([cf \in touched |-> position], @),
          !.events_to_collectionfields = @ \cup
              UNION {{<<<<position, w>>, cf>> :
                        cf \in ModifiedCollectionfields(loop.dbEvents[w])} : w \in n}]

\* create_position draws from the sequence even if the transaction fails later.
InsertEvents(d, migrationIndex, request) ==
    LET position == d.position_seq + 1
        drawn == [d EXCEPT !.position_seq = position]
        loop == Loop(d, request.events, position)
    IN  IF loop.error # "ok"
        THEN [error |-> loop.error, db |-> drawn, modified |-> <<>>, position |-> position]
        ELSE [error |-> "ok", modified |-> loop.modified, position |-> position,
              db |-> StoreEvents(drawn, position, migrationIndex, request, loop)]

-----------------------------------------------------------------------------
(* WriterService.write                                                      *)

Failed(d, error) == [error |-> error, db |-> d, modified |-> <<>>, position |-> 0]

\* Faulty variant: a migration index is accepted whatever the database holds.
MigrationIndexUnchecked(d, request) ==
    IF request.migration_index = None /\ Cardinality(MigrationIndices(d)) > 1
    THEN "InvalidDatastoreState" ELSE "ok"

\* get_current_migration_index raises on mixed indices; an index given by the
\* request needs an empty database.
MigrationIndexError(d, request) ==
    CASE request.migration_index = None /\ Cardinality(MigrationIndices(d)) > 1 ->
            "InvalidDatastoreState"
      [] request.migration_index # None /\ d.positions # <<>> -> "DatastoreNotEmpty"
      [] OTHER -> "ok"

WriteWithDatabaseContext(d, request) ==
    IF MigrationIndexError(d, request) # "ok"
    THEN Failed(d, MigrationIndexError(d, request))
    ELSE IF ~LocksHold(d, request)
    THEN Failed(d, "ModelLocked")
    ELSE InsertEvents(d, IF request.migration_index = None
                         THEN CurrentMigrationIndex(d)
                         ELSE request.migration_index, request)

\* RedisMessagingBackendService.get_modified_fqfields for one position; a message
\* maps <<fqid, field>> to the value announced.
ModifiedFqfields(modified, position) ==
    LET keys == UNION {{<<q, f>> : f \in DOMAIN modified[q] \cup {META_POSITION}} :
                          q \in DOMAIN modified}
    IN  [k \in keys |-> IF k[2] = META_POSITION THEN position ELSE modified[k[1]][k[2]]]

\* Faulty variant: the first announcement of a field stays.
MergeKeepingFirst(new, old) == Over(old, new)

\* Later positions overwrite the fields of earlier ones in the message.
Merge(new, old) == Over(new, old)

\* One request of a call.
WriteNext(acc, request) ==
    LET r == WriteWithDatabaseContext(acc.db, request)
    IN  IF acc.error # "ok" THEN acc
        ELSE [error |-> r.error, db |-> r.db,
              message |-> Merge(ModifiedFqfields(r.modified, r.position), acc.message),
              snapshots |-> IF r.error # "ok" THEN acc.snapshots
                            ELSE With(acc.snapshots, r.position, r.db.models)]

\* The requests of one call, in one transaction.
WriteTransaction(d, requests) ==
    LET start == [error |-> "ok", db |-> d, message |-> <<>>, snapshots |-> <<>>]
        after[n \in 0..Len(requests)] ==
            IF n = 0 THEN start ELSE WriteNext(after[n - 1], requests[n])
    IN  after[Len(requests)]

\* xadd does nothing when there are no fields.
Xadd(s, message) == IF message = <<>> THEN s ELSE Append(s, message)

\* write_request.py: no events, or an event that cannot be parsed.
WellFormed(request) ==
    /\ request.events # <<>>
    /\ \A i \in DOMAIN request.events : ParseError(request.events[i]) = "ok"
    /\ \A q \in DOMAIN request.locked_fqids : request.locked_fqids[q] > 0
    /\ \A k \in DOMAIN request.locked_fqfields : request.locked_fqfields[k] > 0
    /\ \A cf \in DOMAIN request.locked_collectionfields :
          request.locked_collectionfields[cf].kind = "int" =>
              \A l \in request.locked_collectionfields[cf].locks : l.position > 0

WriteFits(requests) ==
    /\ db.position_seq + Len(requests) <= MaxPosition
    /\ Len(stream) < MaxMessages
    /\ \A i \in DOMAIN requests : WellFormed(requests[i])

Write(requests) ==
    /\ WriteFits(requests)
    /\ \E t \in {WriteTransaction(db, requests)} :
        /\ t.error = "ok"
        /\ db' = t.db
        /\ stream' = Xadd(stream, t.message)
        /\ snapshots' = Over(t.snapshots, snapshots)
    /\ UNCHANGED <<trimmed, reservations>>

\* An exception rolls the tables back, but not the identity sequence.
WriteRejected(requests) ==
    /\ WriteFits(requests)
    /\ \E t \in {WriteTransaction(db, requests)} :
        /\ t.error # "ok"
        /\ db' = [db EXCEPT !.position_seq = t.db.position_seq]
    /\ UNCHANGED <<stream, snapshots, trimmed, reservations>>

-----------------------------------------------------------------------------
(* The other operations of the writer                                       *)

\* reserve_next_ids
ReserveIds(collection, amount) ==
    LET new == IF collection \in DOMAIN db.id_sequences
               THEN db.id_sequences[collection] + amount
               ELSE amount + 1
    IN  /\ amount > 0
        /\ Len(reservations) < MaxReservations
        /\ db' = [db EXCEPT !.id_sequences = With(@, collection, new)]
        /\ reservations' = Append(reservations,
               [collection |-> collection, first |-> new - amount, last |-> new - 1])
        /\ UNCHANGED <<stream, snapshots, trimmed>>

\* write_without_events: the given fields are laid over the stored ones, a null is
\* stored as such; the bus gets position 0.
WriteWithoutEvents(event) ==
    LET old == IF event.fqid \in DOMAIN db.models THEN db.models[event.fqid] ELSE NoFields
    IN  /\ ParseError(event) = "ok"
        /\ event.type \in {"create", "update"}
        /\ Len(stream) < MaxMessages
        /\ db' = [db EXCEPT !.models =
                With(@, event.fqid, With(Over(event.fields, old), META_DELETED, FALSE))]
        /\ stream' = Xadd(stream, ModifiedFqfields(With(NoFields, event.fqid, event.fields), 0))
        /\ UNCHANGED <<snapshots, trimmed, reservations>>

\* The deletion is physical and nothing is sent to the bus.
DeleteWithoutEvents(fqids) ==
    /\ fqids \cap DOMAIN db.models # {}
    /\ db' = [db EXCEPT !.models = [q \in DOMAIN @ \ fqids |-> @[q]]]
    /\ UNCHANGED <<stream, snapshots, trimmed, reservations>>

DeleteHistoryInformation ==
    /\ db' = [db EXCEPT !.positions =
                  [p \in DOMAIN @ |-> [@[p] EXCEPT !.information = None]]]
    /\ UNCHANGED <<stream, snapshots, trimmed, reservations>>

\* The sequences restart; the bus keeps what it has.
TruncateDb ==
    /\ AllowTruncate
    /\ db' = EmptyDb
    /\ snapshots' = <<>>
    /\ trimmed' = 0
    /\ reservations' = <<>>
    /\ UNCHANGED stream

\* Faulty variants: the threshold itself is trimmed; the connections of events stay.
TrimInclusive(threshold) ==
    LET kept == {cf \in DOMAIN db.collectionfields : db.collectionfields[cf] > threshold}
    IN  /\ threshold > trimmed
        /\ db' = [db EXCEPT
              !.collectionfields = [cf \in kept |-> @[cf]],
              !.events_to_collectionfields =
                  {r \in @ : r[2] \in kept /\ r[1][1] > threshold}]
        /\ trimmed' = threshold
        /\ UNCHANGED <<stream, snapshots, reservations>>

TrimCollectionfieldsOnly(threshold) ==
    LET kept == {cf \in DOMAIN db.collectionfields : db.collectionfields[cf] >= threshold}
    IN  /\ threshold > trimmed
        /\ db' = [db EXCEPT !.collectionfields = [cf \in kept |-> @[cf]]]
        /\ trimmed' = threshold
        /\ UNCHANGED <<stream, snapshots, reservations>>

\* cli/trim_collectionfield_tables.py; the threshold in time is a position here, as
\* positions get their timestamps in order.
TrimCollectionfieldTables(threshold) ==
    LET kept == {cf \in DOMAIN db.collectionfields : db.collectionfields[cf] >= threshold}
    IN  /\ threshold > trimmed
        /\ db' = [db EXCEPT
              !.collectionfields = [cf \in kept |-> @[cf]],
              !.events_to_collectionfields =
                  {r \in @ : r[2] \in kept /\ r[1][1] >= threshold}]
        /\ trimmed' = threshold
        /\ UNCHANGED <<stream, snapshots, reservations>>

-----------------------------------------------------------------------------
Init ==
    /\ db = EmptyDb
    /\ stream = <<>>
    /\ snapshots = <<>>
    /\ trimmed = 0
    /\ reservations = <<>>

Next ==
    \/ \E requests \in WriteRequestLists : Write(requests) \/ WriteRejected(requests)
    \/ \E r \in ReserveAmounts : ReserveIds(r[1], r[2])
    \/ \E event \in EventlessUpdates : WriteWithoutEvents(event)
    \/ \E fqids \in EventlessDeletes : DeleteWithoutEvents(fqids)
    \/ DeleteHistoryInformation
    \/ TruncateDb
    \/ \E threshold \in DOMAIN db.positions \cup {MaxOfPositions(db) + 1} :
          TrimCollectionfieldTables(threshold)

Spec == Init /\ [][Next]_vars

-----------------------------------------------------------------------------
(* Properties                                                               *)

\* The shape of the tables: positions come from the sequence, rows refer to
\* positions and collectionfields that exist.
TypeOk ==
    /\ DOMAIN db.positions \subseteq 1..db.position_seq
    /\ db.position_seq \in 0..MaxPosition
    /\ \A i \in DOMAIN db.events :
          /\ db.events[i].position \in DOMAIN db.positions
          /\ db.events[i].weight \in Nat \ {0}
    /\ \A q \in DOMAIN db.models : db.models[q][META_DELETED] \in BOOLEAN
    /\ \A cf \in DOMAIN db.collectionfields :
          db.collectionfields[cf] \in DOMAIN db.positions
    /\ \A r \in db.events_to_collectionfields : r[2] \in DOMAIN db.collectionfields
    /\ DOMAIN snapshots = DOMAIN db.positions
    /\ Len(stream) \in 0..MaxMessages

HasHistory(q) == CollectionOf(q) \notin EventlessCollections

\* The model that a reader builds from the events for any committed position is the
\* model that the writer had stored when that position was committed, whatever was
\* written, rejected, trimmed or erased since; and the models table is the newest of
\* them. The writer computes models forward with the fields its events report, the
\* reader replays what the events table stores: two programs that must agree.
HistoryFaithful ==
    /\ \A p \in DOMAIN snapshots :
          \A q \in {r \in DOMAIN snapshots[p] : HasHistory(r)} :
              LET rows == RowsOf(db.events, q, p)
              IN  Buildable(rows) /\ BuildModelFromEvents(rows) = snapshots[p][q]
    /\ \A q \in {r \in DOMAIN db.models : HasHistory(r)} :
          BuildModelFromEvents(RowsOf(db.events, q, db.position_seq)) = db.models[q]

\* The value of a field as a reader of undeleted models sees it.
Value(models, q, f) ==
    IF /\ q \in DOMAIN models /\ f \in DOMAIN models[q]
       /\ f = META_DELETED \/ ~models[q][META_DELETED]
    THEN models[q][f] ELSE None

PreviousPosition(p) == Max({0} \cup {r \in DOMAIN snapshots : r < p})

ChangedFields(before, after) ==
    {k \in (UNION {{q} \X DOMAIN after[q] : q \in DOMAIN after})
           \cup (UNION {{q} \X DOMAIN before[q] : q \in DOMAIN before}) :
        /\ k[2] # META_POSITION
        /\ HasHistory(k[1])
        /\ Value(before, k[1], k[2]) # Value(after, k[1], k[2])}

\* The collectionfield tables miss no change that can still be asked for: a field
\* whose value changed with position p >= the trimming threshold has a
\* collectionfield of at least p and an event of p connected to it. Locks are checked
\* against these tables only.
LockTablesComplete ==
    \A p \in DOMAIN snapshots :
        LET before == IF PreviousPosition(p) = 0 THEN <<>> ELSE snapshots[PreviousPosition(p)]
        IN  p >= trimmed =>
              \A k \in ChangedFields(before, snapshots[p]) :
                  LET cf == CollectionfieldOf(k[1], k[2])
                  IN  /\ cf \in DOMAIN db.collectionfields
                      /\ db.collectionfields[cf] >= p
                      /\ <<k[1], p, cf>> \in TouchedFields(db)

\* All positions carry one migration index, so that "write" can always tell which
\* index the stored events have.
UniformMigrationIndex == Cardinality(MigrationIndices(db)) <= 1

\* Ids returned by reserve_ids for a collection are returned once, in rising order,
\* across creations that move the sequence forward in between.
ReservationsDisjoint ==
    \A i, j \in DOMAIN reservations :
        i < j /\ reservations[i].collection = reservations[j].collection =>
            reservations[i].last < reservations[j].first

\* A reservation never returns the id of a model with history that exists already,
\* deleted models included.
ReservedIdsAreFree ==
    [][Len(reservations') > Len(reservations) =>
         LET r == Last(reservations')
         IN  \A q \in DOMAIN db.models : HasHistory(q) =>
                ~(CollectionOf(q) = r.collection /\ IdOf(q) \in r.first..r.last)]_vars

NewPositions == DOMAIN db'.positions \ DOMAIN db.positions

RestoredIn(positions) ==
    {db'.events[i].fqid : i \in {j \in DOMAIN db'.events :
        db'.events[j].type = "restore" /\ db'.events[j].position \in positions}}

\* One message per successful write announces every field whose stored value
\* changed, over all the requests of the call. The value announced is the one a
\* reader sees after the write (null in a deleted model), except for models that the
\* call restores, whose fields are announced as null.
BusAnnouncesChanges ==
    [][NewPositions # {} =>
        /\ Len(stream') = Len(stream) + 1
        /\ LET message == Last(stream')
           IN  /\ ChangedFields(db.models, db'.models) \subseteq DOMAIN message
               /\ \A k \in DOMAIN message :
                     k[1] \notin RestoredIn(NewPositions) /\ ~IsReserved(k[2]) =>
                         message[k] = Value(db'.models, k[1], k[2])
               /\ \A q \in {k[1] : k \in DOMAIN message} :
                     message[<<q, META_POSITION>>] = db'.models[q][META_POSITION]]_vars
=============================================================================
