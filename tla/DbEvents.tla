------------------------------ MODULE DbEvents ------------------------------
(***************************************************************************)
(* The data of the datastore and what events do to it: the translation of  *)
(* request events into database events (event_translator.py), the effect   *)
(* of a database event on a model while it is written (db_events.py) and   *)
(* the reconstruction of a model from the events table when a reader asks  *)
(* for an old position (sql_read_database_backend_service.py).             *)
(*                                                                         *)
(* An fqid is a pair <<collection, id>>, a collectionfield a pair          *)
(* <<collection, field>>, a model a function from field names to values.   *)
(* A value is a scalar or a sequence of scalars (a JSON list).             *)
(***************************************************************************)
EXTENDS Integers, Sequences, FiniteSets, SequencesExt

CONSTANTS None,       \* JSON null
          Scalars,    \* JSON values that are not lists
          Elements    \* the scalars that are strings or integers

ASSUME ValueAssumption == Elements \subseteq Scalars /\ None \notin Scalars /\ None \notin Int

META_DELETED == "meta_deleted"
META_POSITION == "meta_position"

\* shared/util: is_reserved_field
IsReserved(field) == field \in {META_DELETED, META_POSITION}

NoFields == <<>>

\* One function laid over another one, and a function with one more pair: the operators
\* @@ and :> of module TLC, which proofs cannot look into.
Over(f, g) == [x \in DOMAIN f \cup DOMAIN g |-> IF x \in DOMAIN f THEN f[x] ELSE g[x]]
With(f, x, y) == [z \in DOMAIN f \cup {x} |-> IF z = x THEN y ELSE f[z]]

CollectionOf(fqid) == fqid[1]
IdOf(fqid) == fqid[2]
CollectionfieldOf(fqid, field) == <<CollectionOf(fqid), field>>

-----------------------------------------------------------------------------
(* Request events, as the constructors of write_request.py accept them.    *)

CreateEvent(fqid, fields) ==
    [type |-> "create", fqid |-> fqid,
     fields |-> [f \in {g \in DOMAIN fields : fields[g] # None} |-> fields[f]],
     add |-> NoFields, remove |-> NoFields]

UpdateEvent(fqid, fields, add, remove) ==
    [type |-> "update", fqid |-> fqid, fields |-> fields,
     add |-> add, remove |-> remove]

DeleteEvent(fqid) ==
    [type |-> "delete", fqid |-> fqid, fields |-> NoFields,
     add |-> NoFields, remove |-> NoFields]

RestoreEvent(fqid) == [DeleteEvent(fqid) EXCEPT !.type = "restore"]

AllKeys(event) ==
    DOMAIN event.fields \cup DOMAIN event.add \cup DOMAIN event.remove

\* The exception an event's constructor raises, or "ok".
ParseError(event) ==
    CASE event.type = "update" /\ AllKeys(event) = {} -> "InvalidRequest"
      [] event.type = "update" /\ DOMAIN event.fields
            \cap (DOMAIN event.add \cup DOMAIN event.remove) # {} -> "InvalidRequest"
      [] \E f \in AllKeys(event) : IsReserved(f) -> "InvalidFormat"
      [] OTHER -> "ok"

-----------------------------------------------------------------------------
(* apply_list_updates.py: apply_fields                                     *)

IsList(value) == value \notin Scalars

ListOf(model, field) == IF field \in DOMAIN model THEN model[field] ELSE <<>>

Without(list, elements) == SelectSeq(list, LAMBDA el : el \notin elements)

\* Additions first, without what the stored list already has; a removal from a
\* field that the model does not have is skipped, even if the field was added to.
ApplyFields(model, add, remove) ==
    LET added == [f \in DOMAIN add |->
            ListOf(model, f) \o Without(add[f], ToSet(ListOf(model, f)))]
        removed == [f \in DOMAIN remove \cap DOMAIN model |->
            Without(IF f \in DOMAIN added THEN added[f] ELSE model[f], ToSet(remove[f]))]
    IN  Over(removed, added)

-----------------------------------------------------------------------------
(* Database events. "data" is what the events table stores; "modified" is  *)
(* get_modified_fields(), which feeds the collectionfield tables and the   *)
(* message bus but is not stored.                                          *)

EventData == [set |-> NoFields, unset |-> {}, add |-> NoFields, remove |-> NoFields]

NullFields(fields) == [f \in fields |-> None]

DbCreateEvent(fqid, fields) ==
    [type |-> "create", fqid |-> fqid, data |-> [EventData EXCEPT !.set = fields],
     modified |-> With(fields, META_DELETED, FALSE)]

DbUpdateEvent(fqid, fields) ==
    [type |-> "update", fqid |-> fqid, data |-> [EventData EXCEPT !.set = fields],
     modified |-> fields]

DbDeleteFieldsEvent(fqid, fields) ==
    [type |-> "deletefields", fqid |-> fqid,
     data |-> [EventData EXCEPT !.unset = fields],
     modified |-> NullFields(fields)]

DbListUpdateEvent(fqid, add, remove, model) ==
    [type |-> "listfields", fqid |-> fqid,
     data |-> [EventData EXCEPT !.add = add, !.remove = remove],
     modified |-> ApplyFields(model, add, remove)]

\* Faulty variant: the event reports meta_deleted only.
DbDeleteEventMetaOnly(fqid, model) ==
    [type |-> "delete", fqid |-> fqid, data |-> EventData,
     modified |-> With(NoFields, META_DELETED, TRUE)]

\* Deletion and restoration report every field of the model, the meta fields
\* included, as null: BaseDbEventWithoutValues precedes the mixin that would set
\* meta_deleted in the method resolution order.
DbDeleteEvent(fqid, model) ==
    [type |-> "delete", fqid |-> fqid, data |-> EventData,
     modified |-> NullFields(DOMAIN model)]

DbRestoreEvent(fqid, model) == [DbDeleteEvent(fqid, model) EXCEPT !.type = "restore"]

-----------------------------------------------------------------------------
(* event_translator.py: [error, events]                                    *)

\* Faulty variant: a deleted model counts as absent.
ExistsUndeleted(fqid, models) ==
    fqid \in DOMAIN models /\ ~models[fqid][META_DELETED]

Exists(fqid, models) == fqid \in DOMAIN models
IsDeleted(fqid, models) == Exists(fqid, models) /\ models[fqid][META_DELETED]

Rejected(error) == [error |-> error, events |-> <<>>]
Translated(events) == [error |-> "ok", events |-> events]

\* The check of DbListUpdateEvent.calculate_modified_fields.
ListUpdateAllowed(model, fields) ==
    \A f \in fields : /\ IsList(ListOf(model, f))
                      /\ ToSet(ListOf(model, f)) \subseteq Elements

CreateUpdateEvents(event, model) ==
    LET updated == {f \in DOMAIN event.fields : event.fields[f] # None}
        deleted == DOMAIN event.fields \ updated
        listed == DOMAIN event.add \cup DOMAIN event.remove
        When(condition, dbEvent) == IF condition THEN <<dbEvent>> ELSE <<>>
    IN  IF ~ListUpdateAllowed(model, listed)
        THEN Rejected("InvalidFormat")
        ELSE Translated(
            When(updated # {},
                 DbUpdateEvent(event.fqid, [f \in updated |-> event.fields[f]]))
            \o When(deleted # {}, DbDeleteFieldsEvent(event.fqid, deleted))
            \o When(listed # {},
                    DbListUpdateEvent(event.fqid, event.add, event.remove, model)))

Translate(event, models) ==
    LET fqid == event.fqid
        live == Exists(fqid, models) /\ ~IsDeleted(fqid, models)
    IN  CASE event.type = "create" ->
                IF Exists(fqid, models) THEN Rejected("ModelExists")
                ELSE Translated(<<DbCreateEvent(fqid, event.fields)>>)
          [] event.type = "update" ->
                IF ~live THEN Rejected("ModelDoesNotExist")
                ELSE CreateUpdateEvents(event, models[fqid])
          [] event.type = "delete" ->
                IF ~live THEN Rejected("ModelDoesNotExist")
                ELSE Translated(<<DbDeleteEvent(fqid, models[fqid])>>)
          [] event.type = "restore" ->
                IF ~IsDeleted(fqid, models) THEN Rejected("ModelNotDeleted")
                ELSE Translated(<<DbRestoreEvent(fqid, models[fqid])>>)

-----------------------------------------------------------------------------
(* Writing: db_events.py apply_event_to_models, with the meta_position that *)
(* SqlDatabaseBackendService.apply_event_to_models adds.                    *)

Omit(model, fields) == [f \in DOMAIN model \ fields |-> model[f]]

\* The model after the event.
ModifiedModel(dbEvent, models) ==
    LET model == IF dbEvent.type = "create" THEN NoFields ELSE models[dbEvent.fqid]
    IN  CASE dbEvent.type = "create" -> With(dbEvent.data.set, META_DELETED, FALSE)
          [] dbEvent.type \in {"update", "listfields"} -> Over(dbEvent.modified, model)
          [] dbEvent.type = "deletefields" -> Omit(model, dbEvent.data.unset)
          [] dbEvent.type \in {"delete", "restore"} ->
                With(model, META_DELETED, dbEvent.type = "delete")

ApplyEventToModels(dbEvent, models, position) ==
    With(models, dbEvent.fqid, With(ModifiedModel(dbEvent, models), META_POSITION, position))

-----------------------------------------------------------------------------
(* Reading at a position: rows of the events table, in the order of         *)
(* position and weight.                                                     *)

RowsOf(events, fqid, position) ==
    LET rows[n \in 0..Len(events)] ==
            IF n = 0 THEN <<>>
            ELSE IF events[n].fqid = fqid /\ events[n].position <= position
            THEN Append(rows[n - 1], events[n])
            ELSE rows[n - 1]
    IN  rows[Len(events)]

\* One iteration of the loop of build_model_from_events.
ReplayRow(model, row) ==
    CASE row.type = "create" -> With(row.data.set, META_DELETED, FALSE)
      [] row.type = "update" -> Over(row.data.set, model)
      [] row.type = "deletefields" -> Omit(model, row.data.unset)
      [] row.type = "listfields" ->
            Over(ApplyFields(model, row.data.add, row.data.remove), model)
      [] row.type = "delete" -> With(model, META_DELETED, TRUE)
      [] row.type = "restore" -> With(model, META_DELETED, FALSE)

\* The assertion at the head of build_model_from_events.
Buildable(rows) == /\ rows # <<>>
                   /\ \A i \in DOMAIN rows : rows[i].type = "create" <=> i = 1

Replay(rows) ==
    LET model[n \in 0..Len(rows)] ==
            IF n = 0 THEN NoFields ELSE ReplayRow(model[n - 1], rows[n])
    IN  model[Len(rows)]

BuildModelFromEvents(rows) == With(Replay(rows), META_POSITION, Last(rows).position)

\* get_deleted_status_from_events: the newest position with a create, delete or
\* restore of the model; the last row of the model at that position decides.
DeletedStatusFromEvents(events, fqid, position) ==
    LET rows == RowsOf(events, fqid, position)
        deciding == {i \in DOMAIN rows : rows[i].type \in {"create", "delete", "restore"}}
        newest == Max({rows[i].position : i \in deciding})
        last == Max({i \in DOMAIN rows : rows[i].position = newest})
    IN  rows[last].type = "delete"
=============================================================================
