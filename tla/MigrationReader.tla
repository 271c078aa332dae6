-------------------------- MODULE MigrationReader ---------------------------
(***************************************************************************)
(* The reader that model migrations are given, in its two implementations: *)
(* on the database through the reader service, and in memory on the models *)
(* of an import. A migration is written once and runs with either.         *)
(***************************************************************************)
EXTENDS Transfer, Filters

CONSTANT FilterRequests    \* [collection, filter, fields]

LiveFqids(models) == {q \in DOMAIN models : ~models[q][META_DELETED]}

\* The data of an import: the live models without their meta fields. Models are looked up
\* by fqid; the code uses the field id, which every model of an import has.
ImportData(models) == [q \in LiveFqids(models) |-> Strip(models[q])]

\* Faulty variant: the models are taken as they are.
MarkUndeletedForgotten(models) == models

\* set_import_data: the models of an import have no meta_deleted.
MarkUndeleted(models) == [q \in DOMAIN models |-> (META_DELETED :> FALSE) @@ models[q]]

-----------------------------------------------------------------------------
(* MigrationReaderImplementation, on the models table. get and get_many are  *)
(* those of the reader.                                                     *)

GetAll(models, collection, fields) ==
    [q \in InCollection(models, collection) \cap LiveFqids(models) |->
        SqlRow(models[q], fields)]

\* min and max over the filtered models: the cast to int fails for anything but a number.
ValuesOf(models, field) == {models[q][field] : q \in {p \in DOMAIN models : HasField(models[p], field)}}

Extreme(values, function) ==
    IF values = {} THEN None
    ELSE CHOOSE v \in values : \A w \in values \ {v} :
            InOrder(IF function = "min" THEN "<" ELSE ">", v, w)

Aggregate(found, field, function) ==
    LET values == ValuesOf(found.models, field)
    IN  IF found.error # "ok" \/ ~(values \subseteq Numbers) THEN [error |-> "DatabaseError", value |-> None]
        ELSE [error |-> "ok", value |-> Extreme(values, function)]

\* get_deleted_status without a position
IsAlive(models, q) == q \in DOMAIN models /\ ~models[q][META_DELETED]

-----------------------------------------------------------------------------
(* MigrationReaderImplementationMemory; its filter is filter_models.        *)

MemoryGet(models, q, fields) ==
    IF q \in DOMAIN models THEN [error |-> "ok", model |-> PyRow(models[q], fields)]
    ELSE [error |-> "ModelDoesNotExist", model |-> NoFields]

\* For parts that have no fqid in common.
MemoryGetMany(models, parts) ==
    [q \in UNION {part.fqids : part \in parts} \cap DOMAIN models |->
        PyRow(models[q], (CHOOSE part \in parts : q \in part.fqids).mapped_fields)]

MemoryGetAll(models, collection, fields) ==
    [q \in InCollection(models, collection) |-> PyRow(models[q], fields)]

\* minmax: values of different types cannot be compared, a single one need not be.
MemoryAggregate(found, field, function) ==
    LET values == ValuesOf(found.models, field)
    IN  IF found.error # "ok" \/ \E v, w \in values : v # w /\ ~IsComparable(v, w)
        THEN [error |-> "PythonError", value |-> None]
        ELSE [error |-> "ok", value |-> Extreme(values, function)]

\* "the in-memory implementation does not support deletion"
MemoryIsAlive(models, q) == q \in DOMAIN models

-----------------------------------------------------------------------------
(* Properties                                                               *)

Disjoint(parts) ==
    \A part, other \in parts : part # other => part.fqids \cap other.fqids = {}

LookupsAgree(memory) ==
    \A parts \in {p \in ReadRequests : Disjoint(p)} :
        LET perFqid == BuildMappedFields(parts)
        IN  /\ KnownAll(MemoryGetMany(memory, parts))
                 = KnownAll(GetMany(db.models, perFqid, "NO_DELETED"))
            /\ \A q \in DOMAIN perFqid :
                  LET here == MemoryGet(memory, q, perFqid[q])
                      there == Get(db.models, q, perFqid[q], "NO_DELETED")
                  IN  /\ here.error = there.error /\ Known(here.model) = Known(there.model)
                      /\ MemoryIsAlive(memory, q) = IsAlive(db.models, q)
                      /\ KnownAll(MemoryGetAll(memory, CollectionOf(q), perFqid[q]))
                           = KnownAll(GetAll(db.models, CollectionOf(q), perFqid[q]))

AggregatesAgree(there, here) ==
    \A function \in {"min", "max"} :
        \E aggregate \in {Aggregate(there, "f", function)} :
            aggregate.error = "ok" => MemoryAggregate(here, "f", function) = aggregate

\* The filter, which is no filter or compares with one of the operators, may fail.
MayFail(filter, operators) ==
    \/ InvalidFormat(filter) \/ HasEmptyPart(filter)
    \/ \E c \in Operators(filter) : c.operator \in operators

\* A comparison that SQL leaves open for a missing field may count as true in memory.
RECURSIVE HasNot(_)
HasNot(filter) ==
    \/ filter.kind = "not"
    \/ filter.kind \in {"and", "or"} /\ \E i \in DOMAIN filter.parts : HasNot(filter.parts[i])

Negates(filter) ==
    HasNot(filter) \/ \E c \in Operators(filter) : c.operator = "!=" /\ c.value # None

\* Both find the same of the models that are not deleted, with the same fields, but for
\* filters that negate: with these, models that lack a field of the filter are found in
\* memory only. On the database, only orderings may fail, for values that are no numbers;
\* in memory only ~= and %=.
FilterAgrees(memory, r) ==
    LET there == SqlFilter(db.models, r.collection, r.filter, r.fields)
        here == FilterModels(memory, r.collection, r.filter, r.fields)
        live == DOMAIN there.models \cap LiveFqids(db.models)
        Lacks(q) == \E c \in Operators(r.filter) : ~HasField(memory[q], c.field)
    IN  /\ there.error # "ok" => MayFail(r.filter, OrderOperators)
        /\ here.error # "ok" => MayFail(r.filter, {"~=", "%="})
        /\ there.error = "ok" /\ here.error = "ok" =>
              /\ live \subseteq DOMAIN here.models
              /\ \A q \in live : Known(there.models[q]) = Known(here.models[q])
              /\ \A q \in DOMAIN here.models \ live : Negates(r.filter) /\ Lacks(q)
              /\ DOMAIN there.models = DOMAIN here.models => AggregatesAgree(there, here)

\* tests/migrations/system/test_migration_reader.py runs the same checks on both
\* implementations for one model: for any models, a migration that looks up or filters
\* models that are not deleted gets the same answers from the database and, for an export
\* of it, in memory, but for the filters that FilterAgrees excepts. If both find the same,
\* so do min and max. Nothing is said of deleted models: the docstring of
\* migration_reader.py:26-27 promises "models which are not deleted", yet the filter on the
\* database returns deleted ones too. Against its docstring (:142-143), the implementation
\* in memory obeys mapped_fields, as the answers with fields show.
ReadersAgreeOnLiveModels ==
    \E memory \in {MarkUndeleted(ImportData(db.models))} :
        /\ LookupsAgree(memory)
        /\ \A r \in FilterRequests : FilterAgrees(memory, r)
=============================================================================
