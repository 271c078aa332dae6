----------------------------- MODULE OccLocker -----------------------------
(***************************************************************************)
(* The optimistic concurrency control of the writer                        *)
(* (sql_occ_locker_backend_service.py): which of the locks that a write    *)
(* request carries are broken in a database.                               *)
(*                                                                         *)
(* A request carries locks on fqids and fqfields (functions to positions)  *)
(* and on collectionfields. A collectionfield lock is [kind |-> "int",     *)
(* locks |-> {one lock without filter}] or [kind |-> "list", locks |-> a   *)
(* set of locks]; a lock is [position, filter], a filter is None or an     *)
(* equality [field, value].                                                *)
(***************************************************************************)
EXTENDS DbEvents

IntLock(position) ==
    [kind |-> "int", locks |-> {[position |-> position, filter |-> None]}]

FilterLock(position, filter) ==
    [kind |-> "list", locks |-> {[position |-> position, filter |-> filter]}]

\* build_filter_str for the operator "=": data->>field = value, which is not true
\* when the model has no such field.
Matches(model, filter) ==
    filter.field \in DOMAIN model /\ model[filter.field] = filter.value

\* Faulty variant: the event that the lock was taken at breaks it.
GetLockedFqidsInclusive(db, locked) ==
    {fqid \in DOMAIN locked : \E i \in DOMAIN db.events :
        db.events[i].fqid = fqid /\ db.events[i].position >= locked[fqid]}

GetLockedFqids(db, locked) ==
    {fqid \in DOMAIN locked : \E i \in DOMAIN db.events :
        db.events[i].fqid = fqid /\ db.events[i].position > locked[fqid]}

\* Rows of events joined with collectionfields: <<fqid, position, collectionfield>>.
TouchedFields(db) ==
    {<<db.events[k[1]].fqid, db.events[k[1]].position, k[2]>> : k \in
        {r \in (DOMAIN db.events) \X (DOMAIN db.collectionfields) :
            <<<<db.events[r[1]].position, db.events[r[1]].weight>>, r[2]>>
                \in db.events_to_collectionfields}}

\* The query tests the position of the event and the field separately: the event
\* is newer than some lock on the fqid, and the field is some locked field of it.
GetLockedFqfields(db, locked) ==
    LET Newer(t) == \E k \in DOMAIN locked : k[1] = t[1] /\ t[2] > locked[k]
        IsLocked(t) == \E k \in DOMAIN locked :
                          k[1] = t[1] /\ CollectionfieldOf(k[1], k[2]) = t[3]
    IN  {<<t[1], t[3][2]>> : t \in {u \in TouchedFields(db) : Newer(u) /\ IsLocked(u)}}

\* With a filter, the collectionfield is joined with its events and with the
\* models as they are now.
GetLockedCollectionfields(db, locked) ==
    LET joinsNeeded == \E cf \in DOMAIN locked : locked[cf].kind = "list"
        Joined(cf) == {t \in TouchedFields(db) :
                          t[3] = cf /\ t[1] \in DOMAIN db.models}
        BrokenInt(cf) == /\ \E l \in locked[cf].locks : db.collectionfields[cf] > l.position
                         /\ joinsNeeded => Joined(cf) # {}
        BrokenList(cf) == \E l \in locked[cf].locks, t \in Joined(cf) :
                             /\ t[2] > l.position
                             /\ l.filter = None \/ Matches(db.models[t[1]], l.filter)
    IN  {cf \in DOMAIN locked \cap DOMAIN db.collectionfields :
            IF locked[cf].kind = "int" THEN BrokenInt(cf) ELSE BrokenList(cf)}

\* Faulty variant: locks on collectionfields are not looked at.
LocksHoldOnModels(db, request) ==
    /\ GetLockedFqids(db, request.locked_fqids) = {}
    /\ GetLockedFqfields(db, request.locked_fqfields) = {}

\* assert_locked_fields passes.
LocksHold(db, request) ==
    /\ GetLockedFqids(db, request.locked_fqids) = {}
    /\ GetLockedFqfields(db, request.locked_fqfields) = {}
    /\ GetLockedCollectionfields(db, request.locked_collectionfields) = {}
=============================================================================
