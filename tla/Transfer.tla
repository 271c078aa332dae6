------------------------------ MODULE Transfer ------------------------------
(***************************************************************************)
(* cli/export_data_only.py and cli/import_data_only.py: the live models of *)
(* a datastore as one JSON document, and a datastore made from it, with a  *)
(* single position in the place of the whole history.                      *)
(***************************************************************************)
EXTENDS Reader

\* strip_reserved_fields
Strip(model) == Omit(model, {META_DELETED, META_POSITION})
StripAll(models) == [q \in DOMAIN models |-> Strip(models[q])]

\* get_everything: the id is added to each model.
GetEverything(models, behaviour) ==
    [q \in {r \in DOMAIN models : Wanted(models[r][META_DELETED], behaviour)} |->
        With(models[q], "id", IdOf(q))]

\* Faulty variant: the meta fields are exported too.
ExportUnstripped(d) ==
    [models |-> GetEverything(d.models, "NO_DELETED"),
     migration_index |-> CurrentMigrationIndex(d)]

Export(d) ==
    [models |-> StripAll(GetEverything(d.models, "NO_DELETED")),
     migration_index |-> CurrentMigrationIndex(d)]

\* truncate_db, and one request that creates all models with the index of the document.
\* The constructors of the request refuse a document without models.
Import(document) ==
    LET fqids == SetToSeq(DOMAIN document.models)
        request == [events |-> [i \in DOMAIN fqids |->
                                   CreateEvent(fqids[i], document.models[fqids[i]])],
                    information |-> None, migration_index |-> document.migration_index,
                    locked_fqids |-> <<>>, locked_fqfields |-> <<>>,
                    locked_collectionfields |-> <<>>]
    IN  IF ~WellFormed(request) THEN [error |-> "InvalidFormat", db |-> EmptyDb]
        ELSE LET written == WriteTransaction(EmptyDb, <<request>>)
             IN  [error |-> written.error, db |-> written.db]

\* The fields of a row that have a value, without the meta fields.
Known(row) == [f \in {g \in DOMAIN row : row[g] # None /\ ~IsReserved(g)} |-> row[f]]
KnownAll(rows) == [q \in DOMAIN rows |-> Known(rows[q])]

\* Whatever was written, with or without history: an export is imported without an error
\* if it has a model at all, a further export gives the same values under the same
\* migration index, and no id of a model is left to be reserved.
ImportRestores ==
    \E document \in {Export(db)} : \E imported \in {Import(document)} :
        IF DOMAIN document.models = {} THEN imported.error # "ok"
        ELSE /\ imported.error = "ok"
             /\ \E again \in {Export(imported.db)} :
                   /\ KnownAll(again.models) = KnownAll(document.models)
                   /\ again.migration_index = document.migration_index
             /\ \A q \in DOMAIN document.models :
                   IdOf(q) < imported.db.id_sequences[CollectionOf(q)]
=============================================================================
