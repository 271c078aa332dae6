------------------------------- MODULE Reader -------------------------------
(***************************************************************************)
(* get and get_many of the reader service. Without a position they select  *)
(* from the models table, with one they rebuild the models from the events *)
(* table: two programs for the same question.                              *)
(***************************************************************************)
EXTENDS EventStore

CONSTANT ReadRequests    \* sets of get_many parts [fqids, mapped_fields]

DeletedModelsBehaviour == {"NO_DELETED", "ONLY_DELETED", "ALL_MODELS"}

\* get_deleted_condition: is a model with this deleted status asked for?
Wanted(deleted, behaviour) ==
    behaviour = "ALL_MODELS" \/ deleted = (behaviour = "ONLY_DELETED")

\* build_mapped_fields: the fields asked for per fqid, none of them for the whole model.
BuildMappedFields(parts) ==
    [q \in UNION {part.fqids : part \in parts} |->
        UNION {part.mapped_fields : part \in {p \in parts : q \in p.fqids}}]

UniqueFields(perFqid) == UNION {perFqid[q] : q \in DOMAIN perFqid}

\* Faulty variant: columns suffice as soon as one fqid comes with fields.
NeedsWholeModelUnlessAnyFields(perFqid) == UniqueFields(perFqid) = {}

NeedsWholeModel(perFqid) ==
    UniqueFields(perFqid) = {} \/ \E q \in DOMAIN perFqid : perFqid[q] = {}

\* Fields without a value are left out.
ApplyMappedFields(model, fields) ==
    IF fields = {} THEN model
    ELSE Restrict(model, {f \in fields \cap DOMAIN model : model[f] # None})

-----------------------------------------------------------------------------
(* From the models table                                                    *)

\* The row that the query yields for a model: its data, or a column for each field.
SelectedRow(model, perFqid) ==
    IF NeedsWholeModel(perFqid) THEN model
    ELSE [f \in UniqueFields(perFqid) |-> IF f \in DOMAIN model THEN model[f] ELSE None]

BuildModelsFromResult(rows, perFqid) ==
    [q \in DOMAIN rows |->
        IF perFqid[q] = {} THEN rows[q]
        ELSE Restrict(rows[q], {f \in perFqid[q] \cap DOMAIN rows[q] : rows[q][f] # None})]

GetMany(models, perFqid, behaviour) ==
    LET selected == {q \in DOMAIN perFqid \cap DOMAIN models :
                        Wanted(models[q][META_DELETED], behaviour)}
    IN  BuildModelsFromResult([q \in selected |-> SelectedRow(models[q], perFqid)], perFqid)

\* get: the only model of the answer, or the exception for the behaviour.
Missing(behaviour) ==
    IF behaviour = "ONLY_DELETED" THEN "ModelNotDeleted" ELSE "ModelDoesNotExist"

Get(models, q, fields, behaviour) ==
    LET found == GetMany(models, [r \in {q} |-> fields], behaviour)
    IN  IF q \in DOMAIN found THEN [error |-> "ok", model |-> found[q]]
        ELSE [error |-> Missing(behaviour), model |-> NoFields]

-----------------------------------------------------------------------------
(* From the events table, up to a position                                  *)

FilterFqidsByDeletedStatus(fqids, position, behaviour) ==
    {q \in fqids :
        \/ behaviour = "ALL_MODELS"
        \/ /\ RowsOf(db.events, q, position) # <<>>
           /\ Wanted(DeletedStatusFromEvents(db.events, q, position), behaviour)}

BuildModelsIgnoreDeleted(fqids, position) ==
    [q \in {r \in fqids : RowsOf(db.events, r, position) # <<>>} |->
        BuildModelFromEvents(RowsOf(db.events, q, position))]

ApplyMappedFieldsMulti(models, perFqid) ==
    [q \in DOMAIN models |-> ApplyMappedFields(models[q], perFqid[q])]

\* The second statement has a list of fqids without a test whether there are any:
\* "in ()" is a syntax error.
GetManyAt(perFqid, position, behaviour) ==
    LET fqids == FilterFqidsByDeletedStatus(DOMAIN perFqid, position, behaviour)
    IN  [error |-> IF fqids = {} THEN "SyntaxError" ELSE "ok",
         models |-> ApplyMappedFieldsMulti(BuildModelsIgnoreDeleted(fqids, position), perFqid)]

GetAt(q, fields, position, behaviour) ==
    LET fqids == FilterFqidsByDeletedStatus({q}, position, behaviour)
        found == BuildModelsIgnoreDeleted(fqids, position)
    IN  IF fqids = {} THEN [error |-> Missing(behaviour), model |-> NoFields]
        ELSE IF q \notin DOMAIN found
             THEN [error |-> "ModelDoesNotExist", model |-> NoFields]
        ELSE [error |-> "ok", model |-> ApplyMappedFields(found[q], fields)]

-----------------------------------------------------------------------------
(* The history: positions joined with events, without those whose information *)
(* is null. A position is listed once for each event that the model has in it. *)

HasInformation(p) == db.positions[p].information # None

\* The positions listed for a model, in the order of the rows.
HistoryOf(q) ==
    LET listed[n \in 0..Len(db.events)] ==
            IF n = 0 THEN <<>>
            ELSE IF db.events[n].fqid = q /\ HasInformation(db.events[n].position)
            THEN Append(listed[n - 1], db.events[n].position)
            ELSE listed[n - 1]
    IN  listed[Len(db.events)]

HistoryInformation(fqids) ==
    [q \in {r \in fqids : HistoryOf(r) # <<>>} |-> HistoryOf(q)]

\* A bound of 0 is none.
HistoryPositions(from, to) ==
    LET positions == {p \in DOMAIN db.positions :
                         p >= from /\ (to = 0 \/ p < to) /\ HasInformation(p)}
    IN  [p \in positions |->
            {db.events[i].fqid : i \in {j \in DOMAIN db.events : db.events[j].position = p}}]

-----------------------------------------------------------------------------
(* Properties                                                               *)

ModelsAt(position) ==
    LET upTo == {p \in DOMAIN snapshots : p <= position}
    IN  IF upTo = {} THEN <<>> ELSE snapshots[Max(upTo)]

\* The models that say of themselves that they were written at a position.
WrittenAt(p) ==
    {q \in DOMAIN snapshots[p] : HasHistory(q) /\ snapshots[p][q][META_POSITION] = p}

\* The two queries for the history name these models and positions, in order.
HistoryNamesWrites ==
    \E all \in {HistoryPositions(0, 0)} :
        LET ofModels == HistoryInformation(UNION {WrittenAt(p) : p \in DOMAIN snapshots})
        IN  /\ all = [p \in {r \in DOMAIN snapshots : HasInformation(r)} |-> WrittenAt(p)]
            /\ \A from, to \in 0..db.position_seq : HistoryPositions(from, to)
                  = Restrict(all, {p \in DOMAIN all : p >= from /\ (to # 0 => p < to)})
            /\ \A q \in DOMAIN ofModels : \A i, j \in DOMAIN ofModels[q] :
                  i <= j => ofModels[q][i] <= ofModels[q][j]
            /\ \A q \in (UNION Range(all)) \cup DOMAIN ofModels :
                  ToSet(ofModels[q]) = {p \in DOMAIN all : q \in all[p]}

\* A request for models with history only.
OfHistory(parts) == \A part \in parts : \A q \in part.fqids : HasHistory(q)

\* get and get_many at a position, the positions of rejected writes and future ones
\* included, answer for models with history what the same request without a position was
\* answered when the models were as the position left them: the same models, fields and
\* exceptions, for every treatment of deleted models. Where get_many fails for a lack of fqids, there was
\* nothing to find. What the history says was written at a position is what was.
ReadsAtPositionsAgree ==
    /\ HistoryNamesWrites
    /\ \A position \in 1..(db.position_seq + 1), behaviour \in DeletedModelsBehaviour :
          \A parts \in {r \in ReadRequests : OfHistory(r)} :
              LET perFqid == BuildMappedFields(parts)
                  then == ModelsAt(position)
                  many == GetManyAt(perFqid, position, behaviour)
              IN  /\ many.models = GetMany(then, perFqid, behaviour)
                  /\ \A q \in DOMAIN perFqid :
                        GetAt(q, perFqid[q], position, behaviour)
                            = Get(then, q, perFqid[q], behaviour)
=============================================================================
