----------------------------- MODULE OccClients -----------------------------
(***************************************************************************)
(* A client that reads through the reader service and writes with a lock   *)
(* on what it read, while other clients write through the same EventStore. *)
(* Each reader statement sees the database of its own moment: the services *)
(* set no isolation level, so every statement of a READ COMMITTED          *)
(* transaction takes a snapshot of its own.                                *)
(***************************************************************************)
EXTENDS EventStore

CONSTANTS Modes,            \* the kinds of reads the client makes
          Target,           \* the fqid it reads with get
          TargetFields,     \* the fields it reads of Target
          FieldsPerClient,  \* how many of them it reads before it writes
          Collection,       \* the collection it filters
          Filter,           \* the filter [field, value]
          ClientEvents      \* the events it then writes, a sequence

\* The client reads and locks models that have a history; its events are what the
\* constructors of write_request.py let through. A lock on meta_position would find
\* next to nothing, as only deletions and restorations report it, and SQL finds no row with
\* field = null.
ASSUME ClientAssumption ==
    /\ CollectionOf(Target) \notin EventlessCollections
    /\ Collection \notin EventlessCollections
    /\ META_POSITION \notin TargetFields
    /\ Filter.field # META_POSITION /\ Filter.value # None
    /\ ClientEvents \in Seq(ToSet(ClientEvents))
    /\ \A j \in DOMAIN ClientEvents :
          /\ IdOf(ClientEvents[j].fqid) \in Nat
          /\ ClientEvents[j].type \in {"create", "update", "delete", "restore"}

VARIABLE client

\* phase: idle, data (between the two statements of filter), read (holds a lock),
\* accepted or rejected; positions: the lock position per field for "fqfield", a
\* function with the key "all" otherwise.
NoClient == [phase |-> "idle", mode |-> "fqid", view |-> {}, positions |-> <<>>]

occVars == <<vars, client>>

Scope(models) ==
    {q \in DOMAIN models : CollectionOf(q) = Collection /\ Matches(models[q], Filter)}

Lock(position) == [k \in {"all"} |-> position]

MayRead(mode) == mode \in Modes /\ client.phase \in {"idle", "accepted", "rejected"}

-----------------------------------------------------------------------------
(* reader_service.py                                                        *)

\* get without a position: an undeleted model, whose meta_position is the lock.
Get ==
    /\ MayRead("fqid")
    /\ Exists(Target, db.models) /\ ~IsDeleted(Target, db.models)
    /\ client' = [phase |-> "read", mode |-> "fqid", view |-> db.models[Target],
                  positions |-> Lock(db.models[Target][META_POSITION])]
    /\ UNCHANGED vars

\* get with mapped fields: one field and the meta_position; later reads of other
\* fields of the model add to what the client locks.
GetField(f) ==
    /\ MayRead("fqfield") \/ /\ client.mode = "fqfield" /\ client.phase = "read"
                             /\ f \notin DOMAIN client.view
                             /\ Cardinality(DOMAIN client.view) < FieldsPerClient
    /\ Exists(Target, db.models) /\ ~IsDeleted(Target, db.models)
    /\ LET old == IF client.phase = "read" THEN client ELSE [NoClient EXCEPT !.view = <<>>]
       IN  client' = [phase |-> "read", mode |-> "fqfield",
                      view |-> With(old.view, f, Value(db.models, Target, f)),
                      positions |-> With(old.positions, f, db.models[Target][META_POSITION])]
    /\ UNCHANGED vars

\* count, exists, min and max: rows and position in one statement. The client locks
\* the collectionfield, with the filter in mode "scope".
Aggregate(mode) ==
    /\ MayRead(mode)
    /\ mode \in {"aggregate", "scope"}
    /\ DOMAIN db.positions # {}
    /\ client' = [phase |-> "read", mode |-> mode, view |-> Scope(db.models),
                  positions |-> Lock(MaxOfPositions(db))]
    /\ UNCHANGED vars

\* filter: the rows in one statement ...
FilterData ==
    /\ MayRead("filter")
    /\ client' = [phase |-> "data", mode |-> "filter", view |-> Scope(db.models),
                  positions |-> <<>>]
    /\ UNCHANGED vars

\* ... and the position in the next.
FilterPosition ==
    /\ client.phase = "data"
    /\ DOMAIN db.positions # {}
    /\ client' = [client EXCEPT !.phase = "read", !.positions = Lock(MaxOfPositions(db))]
    /\ UNCHANGED vars

-----------------------------------------------------------------------------
(* The client's own write                                                   *)

LockedRequest ==
    LET position == client.positions["all"]
        Only(mode, locks) == IF client.mode = mode THEN locks ELSE <<>>
    IN  [events |-> ClientEvents, information |-> "given", migration_index |-> None,
         locked_fqids |-> Only("fqid", [q \in {Target} |-> position]),
         locked_fqfields |-> Only("fqfield",
             [k \in {<<Target, f>> : f \in DOMAIN client.positions}
                 |-> client.positions[k[2]]]),
         locked_collectionfields |->
             IF client.mode \in {"aggregate", "filter", "scope"}
             THEN [cf \in {<<Collection, Filter.field>>} |->
                      IF client.mode = "scope" THEN FilterLock(position, Filter)
                      ELSE IntLock(position)]
             ELSE <<>>]

WriteAccepted ==
    /\ client.phase = "read"
    /\ \E request \in {LockedRequest} : Write(<<request>>)
    /\ client' = [client EXCEPT !.phase = "accepted"]

\* ModelLocked is raised before anything is written.
WriteLocked ==
    /\ client.phase = "read"
    /\ \E request \in {LockedRequest} :
          WriteFits(<<request>>) /\ ~LocksHold(db, request)
    /\ client' = [client EXCEPT !.phase = "rejected"]
    /\ UNCHANGED vars

\* The events fail for another reason than the locks.
WriteFailed ==
    /\ client.phase = "read"
    /\ \E request \in {LockedRequest} :
          LocksHold(db, request) /\ WriteRejected(<<request>>)
    /\ client' = NoClient

OthersWrite == Next /\ UNCHANGED client

OccInit == Init /\ client = NoClient

OccNext ==
    \/ Get
    \/ \E f \in TargetFields : GetField(f)
    \/ \E mode \in {"aggregate", "scope"} : Aggregate(mode)
    \/ FilterData
    \/ FilterPosition
    \/ WriteAccepted
    \/ WriteLocked
    \/ WriteFailed
    \/ OthersWrite

OccSpec == OccInit /\ [][OccNext]_occVars

-----------------------------------------------------------------------------
(* Properties                                                               *)

\* What the read that the client made would return from the given models.
View(models) ==
    CASE client.mode = "fqid" -> models[Target]
      [] client.mode = "fqfield" -> [f \in DOMAIN client.view |-> Value(models, Target, f)]
      [] OTHER -> Scope(models)

\* Changes after every lock position can still be found in the collectionfield tables.
NotTrimmedAway ==
    \A k \in DOMAIN client.positions : trimmed <= client.positions[k] + 1

Accepts == client.phase = "read" /\ client'.phase = "accepted"
Rejects == client.phase = "read" /\ client'.phase = "rejected"

\* Optimistic concurrency control is sound: when a write with a lock is accepted,
\* the data that was read together with the lock is still what a reader would get,
\* whatever others wrote between the read and the write.
OccSound == [][Accepts /\ NotTrimmedAway => client.view = View(db.models)]_occVars

\* The same for the reads that are sound in this respect: get, of a whole model or of
\* fields read one after the other, and aggregates whose collectionfield is locked. The
\* requests for filter and the locks with a filter are not, see the runs on OccSound.
OccSoundUnfiltered ==
    [][Accepts /\ NotTrimmedAway /\ client.mode \notin {"filter", "scope"} =>
          client.view = View(db.models)]_occVars

\* The locker's own part of it, for every kind of read, filter with its two
\* statements included: an accepted lock means that what it names is as it was at
\* the position of the lock. A lock with a filter only promises that no model
\* entered the filter's scope.
LockerSound ==
    [][Accepts /\ NotTrimmedAway =>
        LET At(k) == snapshots[client.positions[k]]
        IN  CASE client.mode = "fqid" -> At("all")[Target] = db.models[Target]
              [] client.mode = "fqfield" ->
                    \A f \in DOMAIN client.positions :
                        Value(At(f), Target, f) = Value(db.models, Target, f)
              [] client.mode = "scope" -> Scope(db.models) \subseteq Scope(At("all"))
              [] OTHER -> Scope(At("all")) = Scope(db.models)]_occVars

\* The newest position that the client's read would return now.
PositionNow ==
    IF client.mode \in {"fqid", "fqfield"} THEN db.models[Target][META_POSITION]
    ELSE MaxOfPositions(db)

\* No client is turned away for what it has read itself: a rejected write has a lock older
\* than the position that the same read returns now, so that reading again gives new locks
\* and a client alone with the datastore gets through. The locker compares with the events
\* and the collectionfields, the reader takes its positions from the models and positions.
ReadAgainIsNewer ==
    [][Rejects => \E k \in DOMAIN client.positions : client.positions[k] < PositionNow]_occVars

\* docs/locking.md:42-44 on locks on fields, "We first filter the events for all matching
\* ones with the FQID of the FQField and a position greater than the lock. Then, we join [...]
\* and filter for the field part of the FQField": a write is turned away only if an
\* event newer than the lock on a field modified this field.
RejectedForABrokenLock ==
    [][Rejects /\ client.mode = "fqfield" =>
        \E f \in DOMAIN client.positions : \E t \in TouchedFields(db) :
            /\ t[1] = Target /\ t[3] = CollectionfieldOf(Target, f)
            /\ t[2] > client.positions[f]]_occVars
=============================================================================
