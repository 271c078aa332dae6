-------------------------- MODULE EventStore_changes --------------------------
(***************************************************************************)
(* No change goes unnoticed: the collectionfield tables, which locks are   *)
(* checked against, and the message bus learn of every field whose value   *)
(* changed. Both are fed with the fields that database events report, not  *)
(* with the stored models.                                                 *)
(***************************************************************************)
EXTENDS EventStore_history

-----------------------------------------------------------------------------
(* What a database event changes and what it reports                        *)

\* The value of a field of a model, for a reader of undeleted models.
ModelValue(model, f) ==
    IF f \in DOMAIN model /\ (f = META_DELETED \/ ~model[META_DELETED]) THEN model[f] ELSE None

\* The field as it is stored, in a deleted model too.
ModelRaw(model, f) == IF f \in DOMAIN model THEN model[f] ELSE None
Raw(models, q, f) == IF q \in DOMAIN models THEN ModelRaw(models[q], f) ELSE None

\* Value in terms of the model.
LEMMA ValueOf ==
    ASSUME NEW models, NEW q, NEW f
    PROVE  Value(models, q, f) = IF q \in DOMAIN models THEN ModelValue(models[q], f) ELSE None
BY DEF Value, ModelValue

\* The value depends on the field and on meta_deleted.
LEMMA SameValue ==
    ASSUME NEW m, NEW n, NEW f, f \in DOMAIN m <=> f \in DOMAIN n,
           f \in DOMAIN m => m[f] = n[f], m[META_DELETED] = n[META_DELETED]
    PROVE  ModelValue(m, f) = ModelValue(n, f)
BY DEF ModelValue

\* What an event of fqid q reports, given the models it is applied to: deletion and
\* restoration all the fields of the model, as null.
Reported(e, q, models) ==
    /\ e.type = "create" => e.modified = With(e.data.set, META_DELETED, FALSE)
    /\ e.type = "deletefields" => e.modified = NullFields(e.data.unset)
    /\ e.type \in {"delete", "restore"} => e.modified = NullFields(DOMAIN models[q])
    /\ e.type \in {"update", "listfields", "deletefields"} => models[q][META_DELETED] = FALSE

\* Fields that the event does not report keep their value; a created model has no others.
LEMMA ValueKept ==
    ASSUME NEW models, DeletedKnown(models), NEW q, NEW e, GoodDbEvent(e, q),
           Reported(e, q, models), q \in DOMAIN models \/ e.type = "create",
           NEW position, NEW f, f # META_POSITION, f \notin DOMAIN e.modified
    PROVE  LET new == With(ModifiedModel(e, models), META_POSITION, position)
           IN  /\ ModelValue(new, f) = IF e.type = "create" THEN None ELSE ModelValue(models[q], f)
               /\ ModelRaw(new, f) = IF e.type = "create" THEN None ELSE ModelRaw(models[q], f)
<1> DEFINE m == ModifiedModel(e, models)
           md == META_DELETED
           mp == META_POSITION
           new == With(m, mp, position)
           old == models[q]
<1>1. md # mp /\ f # mp
  BY DEF META_DELETED, META_POSITION
<1>2. CASE e.type = "create"
  <2>1. m = With(e.data.set, md, FALSE) /\ e.modified = With(e.data.set, md, FALSE)
    BY <1>2 DEF ModifiedModel, Reported
  <2>2. f \notin DOMAIN m
    BY <2>1
  <2> HIDE DEF m, mp
  <2>3. f \notin DOMAIN new
    BY <1>1, <2>2 DEF With
  <2> QED
    BY <1>2, <2>3 DEF ModelValue, ModelRaw, m, mp
<1>3. CASE e.type # "create"
  <2>1. e.fqid = q /\ md \in DOMAIN old
    BY <1>3 DEF GoodDbEvent, DeletedKnown
  <2>2. /\ f \in DOMAIN m <=> f \in DOMAIN old
        /\ f \in DOMAIN old => m[f] = old[f]
        /\ m[md] = old[md] \/ f \notin DOMAIN old
        /\ md \in DOMAIN m
    <3>1. CASE e.type \in {"update", "listfields"}
      <4>1. m = Over(e.modified, old) /\ md \notin DOMAIN e.modified
        BY <2>1, <3>1 DEF ModifiedModel, GoodDbEvent
      <4> HIDE DEF m, md, old
      <4> QED
        BY <2>1, <4>1 DEF Over
    <3>2. CASE e.type = "deletefields"
      <4>1. m = Omit(old, e.data.unset) /\ md \notin e.data.unset
        BY <2>1, <3>2 DEF ModifiedModel, GoodDbEvent
      <4>2. f \notin e.data.unset
        BY <3>2 DEF Reported, NullFields
      <4> HIDE DEF m, md, old
      <4> QED
        BY <2>1, <4>1, <4>2 DEF Omit
    <3>3. CASE e.type \in {"delete", "restore"}
      <4>1. m = With(old, md, e.type = "delete")
        BY <2>1, <3>3 DEF ModifiedModel
      <4>2. f \notin DOMAIN old
        BY <3>3 DEF Reported, NullFields
      <4> HIDE DEF m, md, old
      <4> QED
        BY <2>1, <4>1, <4>2 DEF With
    <3> QED
      BY <1>3, <3>1, <3>2, <3>3 DEF GoodDbEvent
  <2> HIDE DEF m, md, mp, old
  <2>3. /\ f \in DOMAIN new <=> f \in DOMAIN old
        /\ f \in DOMAIN old => new[f] = old[f]
        /\ new[md] = old[md] \/ f \notin DOMAIN old
    BY <1>1, <2>2 DEF With
  <2> HIDE DEF new
  <2>4. ModelValue(new, f) = ModelValue(old, f)
    <3>1. CASE f \notin DOMAIN old
      BY <2>3, <3>1 DEF ModelValue
    <3>2. CASE f \in DOMAIN old
      BY <2>3, <3>2, SameValue DEF md
    <3> QED
      BY <3>1, <3>2
  <2>5. ModelRaw(new, f) = ModelRaw(old, f)
    BY <2>3 DEF ModelRaw
  <2> QED
    BY <1>3, <2>4, <2>5 DEF new, m, mp, old
<1> QED
  BY <1>2, <1>3

\* But for restorations, an event reports the value that readers see afterwards.
LEMMA ValueReported ==
    ASSUME NEW models, DeletedKnown(models), NEW q, NEW e, GoodDbEvent(e, q),
           Reported(e, q, models), q \in DOMAIN models \/ e.type = "create", e.type # "restore",
           NEW position, NEW f, ~IsReserved(f), f \in DOMAIN e.modified
    PROVE  LET new == With(ModifiedModel(e, models), META_POSITION, position)
           IN  ModelValue(new, f) = e.modified[f]
<1> DEFINE m == ModifiedModel(e, models)
           md == META_DELETED
           mp == META_POSITION
           new == With(m, mp, position)
           old == models[q]
<1>1. md # mp /\ f # mp /\ f # md
  BY DEF META_DELETED, META_POSITION, IsReserved
<1>2. CASE e.type \in {"create", "update", "listfields"}
  <2>1. /\ f \in DOMAIN m /\ m[f] = e.modified[f]
        /\ md \in DOMAIN m /\ m[md] = FALSE
    <3>1. CASE e.type = "create"
      <4>1. m = With(e.data.set, md, FALSE) /\ e.modified = m
        BY <3>1 DEF ModifiedModel, Reported
      <4> HIDE DEF m, md
      <4> QED
        BY <4>1 DEF With
    <3>2. CASE e.type \in {"update", "listfields"}
      <4>1. /\ m = Over(e.modified, old) /\ md \notin DOMAIN e.modified
            /\ old[md] = FALSE /\ md \in DOMAIN old
        BY <3>2 DEF ModifiedModel, GoodDbEvent, Reported, DeletedKnown
      <4> HIDE DEF m, md, old
      <4> QED
        BY <4>1 DEF Over
    <3> QED
      BY <1>2, <3>1, <3>2
  <2> HIDE DEF m, md, mp, old
  <2>2. f \in DOMAIN new /\ new[f] = e.modified[f] /\ new[md] = FALSE
    BY <1>1, <2>1 DEF With
  <2> HIDE DEF new
  <2>3. ModelValue(new, f) = e.modified[f]
    BY <2>2 DEF ModelValue, md
  <2> QED
    BY <2>3 DEF new, m, mp
<1>3. CASE e.type = "deletefields"
  <2>1. /\ m = Omit(old, e.data.unset) /\ f \in e.data.unset /\ e.modified[f] = None
    BY <1>3 DEF ModifiedModel, GoodDbEvent, Reported, NullFields
  <2> HIDE DEF m, mp, old
  <2>2. f \notin DOMAIN new
    BY <1>1, <2>1 DEF With, Omit
  <2> HIDE DEF new
  <2>3. ModelValue(new, f) = e.modified[f]
    BY <2>1, <2>2 DEF ModelValue
  <2> QED
    BY <2>3 DEF new, m, mp
<1>4. CASE e.type = "delete"
  <2>1. m = With(old, md, TRUE) /\ e.modified[f] = None
    BY <1>4 DEF ModifiedModel, GoodDbEvent, Reported, NullFields
  <2> HIDE DEF m, mp, old, md
  <2>2. new[md] = TRUE
    BY <1>1, <2>1 DEF With
  <2> HIDE DEF new
  <2>3. ModelValue(new, f) = e.modified[f]
    BY <1>1, <2>1, <2>2 DEF ModelValue, md
  <2> QED
    BY <2>3 DEF new, m, mp
<1> QED
  BY <1>2, <1>3, <1>4 DEF GoodDbEvent

-----------------------------------------------------------------------------
(* insert_events: the loop over the events of a request                     *)

Changed(before, after, q, f) ==
    /\ f # META_POSITION
    /\ Value(before, q, f) # Value(after, q, f) \/ Raw(before, q, f) # Raw(after, q, f)

Restored(es, q) == \E i \in DOMAIN es : es[i].type = "restore" /\ es[i].fqid = q

Reports(es, q, f) == \E i \in DOMAIN es : es[i].fqid = q /\ f \in DOMAIN es[i].modified

\* What the loop knows of changes: the models that are there are looked at, a field whose
\* value changed is reported, what is reported is collected per fqid, and collected are the
\* values as readers see them now, but for models that were restored. A model of which nothing
\* is collected is as it was.
LoopReports(acc, d, events, position) ==
    /\ \A j \in DOMAIN events :
          events[j].fqid \in DOMAIN d.models => events[j].fqid \in DOMAIN acc.models
    /\ \A q \in DOMAIN acc.models : \A f :
          Changed(d.models, acc.models, q, f) => Reports(acc.dbEvents, q, f)
    /\ \A i \in DOMAIN acc.dbEvents :
          /\ acc.dbEvents[i].fqid \in DOMAIN acc.modified
          /\ DOMAIN acc.dbEvents[i].modified \subseteq DOMAIN acc.modified[acc.dbEvents[i].fqid]
    /\ \A q \in DOMAIN acc.modified :
          /\ q \in DOMAIN acc.models /\ acc.models[q][META_POSITION] = position
          /\ \E i \in DOMAIN acc.dbEvents : acc.dbEvents[i].fqid = q
          /\ \A f \in DOMAIN acc.modified[q] :
                ~IsReserved(f) /\ ~Restored(acc.dbEvents, q) =>
                    acc.modified[q][f] = ModelValue(acc.models[q], f)
    /\ \A q \in DOMAIN acc.models : q \notin DOMAIN acc.modified =>
          q \in DOMAIN d.models /\ acc.models[q] = d.models[q]

\* One database event.
LEMMA ApplyDbEventReports ==
    ASSUME NEW acc, NEW d, NEW events, LoopInv(acc, d, events), NEW position,
           LoopReports(acc, d, events, position),
           NEW q, NEW e, GoodDbEvent(e, q), \E j \in DOMAIN events : q = events[j].fqid,
           IF e.type = "create" THEN q \notin DOMAIN acc.models ELSE q \in DOMAIN acc.models,
           Reported(e, q, acc.models)
    PROVE  LoopReports(ApplyDbEvent(acc, e, position), d, events, position)
<1> DEFINE new == ApplyDbEvent(acc, e, position)
           model == With(ModifiedModel(e, acc.models), META_POSITION, position)
           es == acc.dbEvents
           before == IF q \in DOMAIN acc.modified THEN acc.modified[q] ELSE NoFields
           fields == Over(e.modified, before)
<1>1. /\ new.models = With(acc.models, q, model) /\ new.dbEvents = Append(es, e)
      /\ new.modified = With(acc.modified, q, fields)
  <2>1. DOMAIN acc = {"error", "models", "dbEvents", "modified"} /\ e.fqid = q
    BY DEF LoopInv, GoodDbEvent
  <2>2. /\ new.models = ApplyEventToModels(e, acc.models, position)
        /\ new.dbEvents = Append(es, e)
        /\ new.modified = With(acc.modified, q, fields)
    BY <2>1 DEF ApplyDbEvent
  <2> QED
    BY <2>1, <2>2 DEF ApplyEventToModels
<1>2. /\ DOMAIN new.dbEvents = 1..(Len(es) + 1) /\ Len(es) \in Nat /\ DOMAIN es = 1..Len(es)
      /\ \A i \in DOMAIN es : new.dbEvents[i] = es[i]
      /\ new.dbEvents[Len(es) + 1] = e
  <2>1. es \in Seq(ToSet(es))
    BY DEF LoopInv
  <2> QED
    BY <1>1, <2>1, AppendFacts
<1>3. /\ DOMAIN new.models = DOMAIN acc.models \cup {q} /\ new.models[q] = model
      /\ \A x \in DOMAIN acc.models : x # q => new.models[x] = acc.models[x]
      /\ DOMAIN new.modified = DOMAIN acc.modified \cup {q} /\ new.modified[q] = fields
      /\ \A x \in DOMAIN acc.modified : x # q => new.modified[x] = acc.modified[x]
  <2> HIDE DEF model, fields, new
  <2> QED
    BY <1>1 DEF With
<1>4. model[META_POSITION] = position
  BY DEF With
<1>5. /\ DOMAIN fields = DOMAIN e.modified \cup DOMAIN before
      /\ \A f \in DOMAIN fields :
            fields[f] = IF f \in DOMAIN e.modified THEN e.modified[f] ELSE before[f]
  <2> HIDE DEF before
  <2> QED
    BY DEF Over
<1>6. \A f : f # META_POSITION /\ f \notin DOMAIN e.modified =>
         /\ ModelValue(model, f) = IF e.type = "create" THEN None ELSE ModelValue(acc.models[q], f)
         /\ ModelRaw(model, f) = IF e.type = "create" THEN None ELSE ModelRaw(acc.models[q], f)
  BY ValueKept DEF LoopInv
<1>7. e.type # "restore" => \A f \in DOMAIN e.modified : ~IsReserved(f) =>
         ModelValue(model, f) = e.modified[f]
  BY ValueReported DEF LoopInv
<1>8. e.fqid = q
  BY DEF GoodDbEvent
<1> HIDE DEF new, model, fields
<1>9. \A j \in DOMAIN events :
         events[j].fqid \in DOMAIN d.models => events[j].fqid \in DOMAIN new.models
  BY <1>3 DEF LoopReports
<1>10. \A x, f : Reports(es, x, f) => Reports(new.dbEvents, x, f)
  BY <1>2 DEF Reports
<1>11. \A f \in DOMAIN e.modified : Reports(new.dbEvents, q, f)
  <2>1. Len(es) + 1 \in DOMAIN new.dbEvents
    BY <1>2
  <2> QED
    BY <1>2, <1>8, <2>1 DEF Reports
<1>12. ASSUME NEW x \in DOMAIN new.models, NEW f, Changed(d.models, new.models, x, f)
       PROVE  Reports(new.dbEvents, x, f)
  <2>1. CASE x # q
    <3>1. x \in DOMAIN acc.models /\ new.models[x] = acc.models[x]
      BY <1>3, <2>1
    <3>2. /\ Value(new.models, x, f) = Value(acc.models, x, f)
          /\ Raw(new.models, x, f) = Raw(acc.models, x, f)
      BY <1>3, <3>1, ValueOf DEF Raw
    <3>3. Changed(d.models, acc.models, x, f)
      BY <1>12, <3>2 DEF Changed
    <3> QED
      BY <1>10, <3>1, <3>3 DEF LoopReports
  <2>2. CASE x = q /\ f \notin DOMAIN e.modified
    <3>1. /\ f # META_POSITION
          /\ \/ Value(d.models, q, f) # Value(new.models, q, f)
             \/ Raw(d.models, q, f) # Raw(new.models, q, f)
      BY <1>12, <2>2 DEF Changed
    <3>2. /\ Value(new.models, q, f) = ModelValue(model, f)
          /\ Raw(new.models, q, f) = ModelRaw(model, f)
      BY <1>3, ValueOf DEF Raw
    <3>3. CASE e.type = "create"
      <4>1. q \notin DOMAIN d.models
        BY <3>3 DEF LoopReports
      <4>2. Value(d.models, q, f) = None /\ Raw(d.models, q, f) = None
        BY <4>1, ValueOf DEF Raw
      <4> QED
        BY <1>6, <2>2, <3>1, <3>2, <3>3, <4>2
    <3>4. CASE e.type # "create"
      <4>1. /\ q \in DOMAIN acc.models /\ Value(acc.models, q, f) = ModelValue(acc.models[q], f)
            /\ Raw(acc.models, q, f) = ModelRaw(acc.models[q], f)
        BY <3>4, ValueOf DEF Raw
      <4>2. Changed(d.models, acc.models, q, f)
        BY <1>6, <2>2, <3>1, <3>2, <3>4, <4>1 DEF Changed
      <4> QED
        BY <1>10, <2>2, <4>1, <4>2 DEF LoopReports
    <3> QED
      BY <3>3, <3>4
  <2>3. CASE x = q /\ f \in DOMAIN e.modified
    BY <1>11, <2>3
  <2> QED
    BY <2>1, <2>2, <2>3
<1>13. ASSUME NEW i \in DOMAIN new.dbEvents
       PROVE  /\ new.dbEvents[i].fqid \in DOMAIN new.modified
              /\ DOMAIN new.dbEvents[i].modified
                    \subseteq DOMAIN new.modified[new.dbEvents[i].fqid]
  <2>1. CASE i = Len(es) + 1
    BY <1>2, <1>3, <1>5, <1>8, <2>1
  <2>2. CASE i # Len(es) + 1
    <3>1. i \in DOMAIN es /\ new.dbEvents[i] = es[i]
      BY <1>2, <2>2
    <3> DEFINE x == es[i].fqid
    <3>2. x \in DOMAIN acc.modified /\ DOMAIN es[i].modified \subseteq DOMAIN acc.modified[x]
      BY <3>1 DEF LoopReports
    <3> HIDE DEF x
    <3>3. DOMAIN acc.modified[x] \subseteq DOMAIN new.modified[x]
      <4>1. CASE x # q
        BY <1>3, <3>2, <4>1
      <4>2. CASE x = q
        <5>1. before = acc.modified[q]
          BY <3>2, <4>2
        <5> QED
          BY <1>3, <1>5, <4>2, <5>1
      <4> QED
        BY <4>1, <4>2
    <3> QED
      BY <1>3, <3>1, <3>2, <3>3 DEF x
  <2> QED
    BY <2>1, <2>2
<1>14. \A x : Restored(es, x) => Restored(new.dbEvents, x)
  BY <1>2 DEF Restored
<1>15. e.type = "restore" => Restored(new.dbEvents, q)
  <2>1. Len(es) + 1 \in DOMAIN new.dbEvents
    BY <1>2
  <2> QED
    BY <1>2, <1>8, <2>1 DEF Restored
<1>16. ASSUME NEW x \in DOMAIN new.modified
       PROVE  /\ x \in DOMAIN new.models /\ new.models[x][META_POSITION] = position
              /\ \E i \in DOMAIN new.dbEvents : new.dbEvents[i].fqid = x
              /\ \A f \in DOMAIN new.modified[x] :
                    ~IsReserved(f) /\ ~Restored(new.dbEvents, x) =>
                        new.modified[x][f] = ModelValue(new.models[x], f)
  <2>1. CASE x # q
    <3>1. x \in DOMAIN acc.modified /\ new.modified[x] = acc.modified[x]
      BY <1>3, <2>1
    <3>2. x \in DOMAIN acc.models /\ new.models[x] = acc.models[x]
      BY <1>3, <2>1, <3>1 DEF LoopReports
    <3>3. \E i \in DOMAIN new.dbEvents : new.dbEvents[i].fqid = x
      <4>1. PICK i \in DOMAIN es : es[i].fqid = x
        BY <3>1 DEF LoopReports
      <4>2. i \in DOMAIN new.dbEvents /\ new.dbEvents[i].fqid = x
        BY <1>2, <4>1
      <4> QED
        BY <4>2
    <3> QED
      BY <1>3, <1>14, <3>1, <3>2, <3>3 DEF LoopReports
  <2>2. CASE x = q
    <3>1. q \in DOMAIN new.models /\ new.models[q][META_POSITION] = position
      BY <1>3, <1>4
    <3>2. ASSUME NEW f \in DOMAIN fields, ~IsReserved(f), ~Restored(new.dbEvents, q)
          PROVE  fields[f] = ModelValue(model, f)
      <4>1. CASE f \in DOMAIN e.modified
        BY <1>5, <1>7, <1>15, <3>2, <4>1
      <4>2. CASE f \notin DOMAIN e.modified
        <5>1. f \in DOMAIN before /\ fields[f] = before[f]
          BY <1>5, <4>2
        <5>2. q \in DOMAIN acc.modified /\ before = acc.modified[q]
          BY <5>1 DEF NoFields
        <5>3. q \in DOMAIN acc.models /\ before[f] = ModelValue(acc.models[q], f)
          BY <1>14, <3>2, <5>1, <5>2 DEF LoopReports
        <5>4. e.type # "create" /\ f # META_POSITION
          BY <3>2, <5>3 DEF IsReserved
        <5> QED
          BY <1>6, <4>2, <5>1, <5>3, <5>4
      <4> QED
        BY <4>1, <4>2
    <3>3. \E i \in DOMAIN new.dbEvents : new.dbEvents[i].fqid = q
      <4>1. Len(es) + 1 \in DOMAIN new.dbEvents
        BY <1>2
      <4> QED
        BY <1>2, <1>8, <4>1
    <3> QED
      BY <1>3, <2>2, <3>1, <3>2, <3>3
  <2> QED
    BY <2>1, <2>2
<1>17. \A x \in DOMAIN new.models : x \notin DOMAIN new.modified =>
          x \in DOMAIN d.models /\ new.models[x] = d.models[x]
  BY <1>3 DEF LoopReports
<1>18. LoopReports(new, d, events, position)
  BY <1>9, <1>12, <1>13, <1>16, <1>17 DEF LoopReports
<1> QED
  BY <1>18 DEF new

\* An event of the request that changes fields of a model that is there.
FieldTypes == {"update", "deletefields", "listfields"}

\* The database events after the n-th report what they do to the models; creations,
\* deletions and restorations are alone.
PendingReports(es, n, q, models) ==
    \A i \in DOMAIN es : i > n =>
        /\ IF es[i].type = "create" THEN q \notin DOMAIN models ELSE q \in DOMAIN models
        /\ Reported(es[i], q, models)

AloneOrFields(es) ==
    DOMAIN es = {1} \/ \A i \in DOMAIN es : es[i].type \in FieldTypes

\* create_update_events: there is an event, as an update without fields is refused.
LEMMA UpdateEventsReport ==
    ASSUME NEW event, NEW models, ParseError(event) = "ok", event.type = "update",
           event.fqid \in DOMAIN models, models[event.fqid][META_DELETED] = FALSE,
           CreateUpdateEvents(event, models[event.fqid]).error = "ok"
    PROVE  LET es == CreateUpdateEvents(event, models[event.fqid]).events
               q == event.fqid
           IN  /\ DOMAIN es # {}
               /\ \A i \in DOMAIN es : es[i].type \in FieldTypes
               /\ PendingReports(es, 0, q, models)
<1> DEFINE q == event.fqid
           model == models[q]
           updated == {f \in DOMAIN event.fields : event.fields[f] # None}
           deleted == DOMAIN event.fields \ updated
           listed == DOMAIN event.add \cup DOMAIN event.remove
           u == DbUpdateEvent(q, [f \in updated |-> event.fields[f]])
           d == DbDeleteFieldsEvent(q, deleted)
           l == DbListUpdateEvent(q, event.add, event.remove, model)
           us == IF updated # {} THEN <<u>> ELSE <<>>
           ds == IF deleted # {} THEN <<d>> ELSE <<>>
           ls == IF listed # {} THEN <<l>> ELSE <<>>
           es == us \o ds \o ls
<1>1. CreateUpdateEvents(event, model).events = es
  BY DEF CreateUpdateEvents, Rejected, Translated
<1>2. u.type = "update" /\ d.type = "deletefields" /\ l.type = "listfields"
  BY DEF DbUpdateEvent, DbDeleteFieldsEvent, DbListUpdateEvent
<1>3. Reported(u, q, models) /\ Reported(d, q, models) /\ Reported(l, q, models)
  BY <1>2 DEF Reported, DbDeleteFieldsEvent, EventData
<1>4. updated # {} \/ deleted # {} \/ listed # {}
  <2>1. AllKeys(event) # {}
    BY DEF ParseError
  <2> QED
    BY <2>1 DEF AllKeys
<1>5. /\ us = <<>> \/ us = <<u>>
      /\ ds = <<>> \/ ds = <<d>>
      /\ ls = <<>> \/ ls = <<l>>
      /\ us = <<u>> \/ ds = <<d>> \/ ls = <<l>>
  BY <1>4
<1> HIDE DEF u, d, l, us, ds, ls, updated, deleted, listed
<1>6. \A i \in DOMAIN es : es[i] \in {u, d, l}
  <2>1. InParts(es, us, u, ds, d, ls, l)
    BY <1>5 DEF InParts
  <2> HIDE DEF es
  <2> QED
    BY <2>1, ThreeParts
<1>7. DOMAIN es # {}
  <2> DEFINE V == {u, d, l}
  <2>1. /\ <<>> \in Seq(V) /\ <<u>> \in Seq(V) /\ <<d>> \in Seq(V) /\ <<l>> \in Seq(V)
        /\ Len(<<>>) = 0 /\ Len(<<u>>) = 1 /\ Len(<<d>>) = 1 /\ Len(<<l>>) = 1
    OBVIOUS
  <2>2. us \in Seq(V) /\ ds \in Seq(V) /\ ls \in Seq(V)
    BY <1>5, <2>1, Zenon
  <2>3. Len(us) = 1 \/ Len(ds) = 1 \/ Len(ls) = 1
    BY <1>5, <2>1, Zenon
  <2> HIDE DEF V
  <2>4. us \o ds \in Seq(V) /\ Len(us \o ds) = Len(us) + Len(ds)
    BY <2>2
  <2>5. es \in Seq(V) /\ Len(es) = Len(us) + Len(ds) + Len(ls)
    BY <2>2, <2>4
  <2> HIDE DEF es
  <2>6. Len(us) \in Nat /\ Len(ds) \in Nat /\ Len(ls) \in Nat /\ DOMAIN es = 1..Len(es)
    BY <2>2, <2>5
  <2> DEFINE a == Len(us)
             b == Len(ds)
             c == Len(ls)
  <2>7. a \in Nat /\ b \in Nat /\ c \in Nat /\ (a = 1 \/ b = 1 \/ c = 1) /\ DOMAIN es = 1..(a + b + c)
    BY <2>3, <2>5, <2>6
  <2> HIDE DEF a, b, c
  <2>8. 1 \in 1..(a + b + c)
    BY <2>7
  <2> QED
    BY <2>7, <2>8
<1> HIDE DEF es
<1>8. \A i \in DOMAIN es : es[i].type \in FieldTypes /\ Reported(es[i], q, models)
  BY <1>2, <1>3, <1>6 DEF FieldTypes
<1>9. PendingReports(es, 0, q, models)
  BY <1>8 DEF PendingReports, FieldTypes
<1> QED
  BY <1>1, <1>7, <1>8, <1>9

\* EventTranslatorService.translate: no event is translated into nothing.
LEMMA TranslateReports ==
    ASSUME NEW event, NEW models, DeletedKnown(models), ParseError(event) = "ok",
           event.type \in {"create", "update", "delete", "restore"},
           Translate(event, models).error = "ok"
    PROVE  LET es == Translate(event, models).events
           IN  /\ DOMAIN es # {} /\ AloneOrFields(es)
               /\ PendingReports(es, 0, event.fqid, models)
<1> DEFINE q == event.fqid
           es == Translate(event, models).events
<1>1. CASE event.type # "update"
  <2> DEFINE c == DbCreateEvent(q, event.fields)
             d == DbDeleteEvent(q, models[q])
             r == DbRestoreEvent(q, models[q])
  <2>1. /\ c.type = "create" /\ Reported(c, q, models)
        /\ d.type = "delete" /\ Reported(d, q, models)
        /\ r.type = "restore" /\ Reported(r, q, models)
    BY DEF DbCreateEvent, DbDeleteEvent, DbRestoreEvent, Reported, EventData
  <2>2. \/ es = <<c>> /\ q \notin DOMAIN models
        \/ es = <<d>> /\ q \in DOMAIN models
        \/ es = <<r>> /\ q \in DOMAIN models
    BY <1>1 DEF Translate, Rejected, Translated, Exists, IsDeleted
  <2> HIDE DEF c, d, r, es
  <2>3. PICK e : /\ es = <<e>> /\ Reported(e, q, models)
                 /\ IF e.type = "create" THEN q \notin DOMAIN models ELSE q \in DOMAIN models
    <3>1. CASE es = <<c>> /\ q \notin DOMAIN models
      BY <2>1, <3>1
    <3>2. CASE es = <<d>> /\ q \in DOMAIN models
      BY <2>1, <3>2
    <3>3. CASE es = <<r>> /\ q \in DOMAIN models
      BY <2>1, <3>3
    <3> QED
      BY <2>2, <3>1, <3>2, <3>3
  <2>4. DOMAIN es = {1} /\ es[1] = e
    BY <2>3, OneSeparate
  <2>5. PendingReports(es, 0, q, models)
    BY <2>3, <2>4 DEF PendingReports
  <2>6. DOMAIN es # {} /\ AloneOrFields(es)
    BY <2>4 DEF AloneOrFields
  <2> QED
    BY <2>5, <2>6 DEF es
<1>2. CASE event.type = "update"
  <2>1. /\ q \in DOMAIN models /\ ~models[q][META_DELETED]
        /\ Translate(event, models) = CreateUpdateEvents(event, models[q])
    BY <1>2 DEF Translate, Rejected, Exists, IsDeleted
  <2>2. models[q][META_DELETED] \in {TRUE, FALSE}
    BY <2>1 DEF DeletedKnown
  <2>3. models[q][META_DELETED] = FALSE
    BY <2>1, <2>2, Zenon
  <2> QED
    BY <1>2, <2>1, <2>3, UpdateEventsReport DEF AloneOrFields
<1> QED
  BY <1>1, <1>2

\* The n-th database event leaves the following ones true reports.
LEMMA PendingReportsNext ==
    ASSUME NEW es, NEW q, GoodDbEvents(es, q), AloneOrFields(es), NEW n \in DOMAIN es, NEW models,
           PendingReports(es, n - 1, q, models), DeletedKnown(models), NEW position
    PROVE  LET new == With(models, q, With(ModifiedModel(es[n], models), META_POSITION, position))
           IN  PendingReports(es, n, q, new)
<1> DEFINE e == es[n]
           m == ModifiedModel(e, models)
           md == META_DELETED
           model == With(m, META_POSITION, position)
           new == With(models, q, model)
<1>1. DOMAIN es = 1..Len(es) /\ Len(es) \in Nat
  BY DEF GoodDbEvents
<1>2. CASE \A i \in DOMAIN es : ~(i > n)
  BY <1>2 DEF PendingReports
<1>3. CASE \E i \in DOMAIN es : i > n
  <2>1. \A i \in DOMAIN es : es[i].type \in FieldTypes
    <3>1. DOMAIN es # {1}
      BY <1>1, <1>3
    <3> QED
      BY <3>1 DEF AloneOrFields
  <2>2. n > n - 1
    BY <1>1
  <2>3. e.type \in FieldTypes /\ e.fqid = q
    BY <2>1 DEF GoodDbEvents, GoodDbEvent
  <2>4. q \in DOMAIN models /\ models[q][md] = FALSE /\ md \in DOMAIN models[q]
    <3>1. (IF e.type = "create" THEN q \notin DOMAIN models ELSE q \in DOMAIN models)
          /\ Reported(e, q, models)
      BY <2>2 DEF PendingReports
    <3> QED
      BY <2>3, <3>1 DEF FieldTypes, Reported, DeletedKnown
  <2>5. md \in DOMAIN m /\ m[md] = FALSE
    <3>1. CASE e.type \in {"update", "listfields"}
      <4>1. m = Over(e.modified, models[q]) /\ md \notin DOMAIN e.modified
        BY <2>3, <3>1 DEF ModifiedModel, GoodDbEvents, GoodDbEvent
      <4> HIDE DEF m, md
      <4> QED
        BY <2>4, <4>1 DEF Over
    <3>2. CASE e.type = "deletefields"
      <4>1. m = Omit(models[q], e.data.unset) /\ md \notin e.data.unset
        BY <2>3, <3>2 DEF ModifiedModel, GoodDbEvents, GoodDbEvent
      <4> HIDE DEF m, md
      <4> QED
        BY <2>4, <4>1 DEF Omit
    <3> QED
      BY <2>3, <3>1, <3>2 DEF FieldTypes
  <2>6. md # META_POSITION
    BY DEF META_DELETED, META_POSITION
  <2> HIDE DEF m, md
  <2>7. model[md] = FALSE
    BY <2>5, <2>6 DEF With
  <2> HIDE DEF model
  <2>8. q \in DOMAIN new /\ new[q] = model
    BY DEF With
  <2> HIDE DEF new
  <2>9. ASSUME NEW i \in DOMAIN es, i > n
        PROVE  /\ IF es[i].type = "create" THEN q \notin DOMAIN new ELSE q \in DOMAIN new
               /\ Reported(es[i], q, new)
    <3>1. es[i].type \in FieldTypes /\ i > n - 1
      BY <1>1, <2>1, <2>9
    <3>2. Reported(es[i], q, models)
      BY <3>1 DEF PendingReports
    <3>3. new[q][META_DELETED] = FALSE
      BY <2>7, <2>8 DEF md
    <3> QED
      BY <2>8, <3>1, <3>2, <3>3 DEF Reported, FieldTypes
  <2>10. PendingReports(es, n, q, new)
    BY <2>9 DEF PendingReports
  <2> QED
    BY <2>10 DEF new, model, m
<1> QED
  BY <1>2, <1>3

\* All database events of one event, of which there is one at least.
LEMMA ApplyDbEventsReport ==
    ASSUME NEW acc, NEW d, NEW events, LoopInv(acc, d, events), NEW position,
           LoopReports(acc, d, events, position),
           NEW q, NEW es, GoodDbEvents(es, q), AloneOrFields(es), DOMAIN es # {},
           PendingReports(es, 0, q, acc.models), \E j \in DOMAIN events : q = events[j].fqid
    PROVE  LET new == ApplyDbEvents(acc, es, position)
           IN  LoopReports(new, d, events, position) /\ DOMAIN new.dbEvents # {}
<1> DEFINE N == Len(es)
           g == CHOOSE g : ApplyRun(g, acc, es, position, N)
<1>1. N \in Nat /\ DOMAIN es = 1..N /\ N # 0
  BY DEF GoodDbEvents
<1>2. ApplyRun(g, acc, es, position, N)
  BY <1>1, ApplyRunExists
<1>3. ApplyDbEvents(acc, es, position) = g[N]
  BY DEF ApplyDbEvents, ApplyRun
<1> HIDE DEF g, N
<1> DEFINE Ok(n) == /\ LoopInv(g[n], d, events) /\ LoopReports(g[n], d, events, position)
                    /\ PendingReports(es, n, q, g[n].models)
                    /\ n # 0 => DOMAIN g[n].dbEvents # {}
           S == {n \in 0..N : Ok(n)}
<1>4. Ok(0)
  BY <1>1, <1>2 DEF ApplyRun
<1>5. ASSUME NEW n \in 1..N, Ok(n - 1) PROVE Ok(n)
  <2> DEFINE a == g[n - 1]
             e == es[n]
  <2>1. n \in DOMAIN es /\ g[n] = ApplyDbEvent(a, e, position)
    BY <1>1, <1>2 DEF ApplyRun
  <2>2. GoodDbEvent(e, q)
    BY <2>1 DEF GoodDbEvents
  <2>3. LoopInv(a, d, events) /\ LoopReports(a, d, events, position) /\ DeletedKnown(a.models)
    BY <1>5 DEF LoopInv
  <2>4. PendingReports(es, n - 1, q, a.models)
    BY <1>5
  <2>5. /\ IF e.type = "create" THEN q \notin DOMAIN a.models ELSE q \in DOMAIN a.models
        /\ Reported(e, q, a.models)
    <3>1. n > n - 1
      BY <1>1
    <3> QED
      BY <2>1, <2>4, <3>1 DEF PendingReports
  <2>6. /\ g[n].models = With(a.models, q,
                              With(ModifiedModel(e, a.models), META_POSITION, position))
        /\ g[n].dbEvents = Append(a.dbEvents, e)
    <3>1. DOMAIN a = {"error", "models", "dbEvents", "modified"} /\ e.fqid = q
      BY <2>2, <2>3 DEF LoopInv, GoodDbEvent
    <3> HIDE DEF a, e, Ok
    <3> QED
      BY <2>1, <3>1 DEF ApplyDbEvent, ApplyEventToModels
  <2> HIDE DEF a, e, Ok
  <2>7. LoopInv(ApplyDbEvent(a, e, position), d, events)
    BY <2>2, <2>3, <2>5, ApplyDbEventKeeps
  <2>8. LoopReports(ApplyDbEvent(a, e, position), d, events, position)
    BY <2>2, <2>3, <2>5, ApplyDbEventReports
  <2>9. LET new == With(a.models, q, With(ModifiedModel(es[n], a.models), META_POSITION, position))
        IN  PendingReports(es, n, q, new)
    BY <2>1, <2>3, <2>4, PendingReportsNext
  <2>10. PendingReports(es, n, q, g[n].models)
    BY <2>6, <2>9 DEF e
  <2>11. DOMAIN g[n].dbEvents # {}
    <3> DEFINE s == a.dbEvents
    <3>1. s \in Seq(ToSet(s))
      BY <2>3 DEF LoopInv
    <3> HIDE DEF s
    <3>2. DOMAIN Append(s, e) = 1..(Len(s) + 1) /\ Len(s) \in Nat
      BY <3>1, AppendFacts
    <3>3. 1 \in DOMAIN Append(s, e)
      BY <3>2
    <3> QED
      BY <2>6, <3>3 DEF s
  <2> QED
    BY <2>1, <2>7, <2>8, <2>10, <2>11 DEF Ok
<1> HIDE DEF Ok
<1>6. 0 \in S /\ \A n \in 1..N : n - 1 \in S => n \in S
  BY <1>1, <1>4, <1>5
<1>7. Ok(N)
  <2>1. \A n \in 0..N : n \in S
    <3> HIDE DEF S
    <3> QED
      BY <1>1, <1>6, Turns
  <2> QED
    BY <1>1, <2>1
<1> QED
  BY <1>1, <1>3, <1>7 DEF Ok

\* One event of the request.
LEMMA LoopStepReports ==
    ASSUME NEW acc, NEW d, NEW events, LoopInv(acc, d, events), GoodEvents(events),
           NEW n \in DOMAIN events, NEW position, LoopReports(acc, d, events, position)
    PROVE  LET new == LoopStep(acc, events[n], position)
           IN  /\ LoopReports(new, d, events, position)
               /\ new.error = "ok" => DOMAIN new.dbEvents # {}
<1> DEFINE t == Translate(events[n], acc.models)
           step == LoopStep(acc, events[n], position)
<1>1. CASE acc.error # "ok"
  BY <1>1 DEF LoopStep
<1>2. CASE acc.error = "ok" /\ t.error # "ok"
  <2> DEFINE new == [acc EXCEPT !.error = t.error]
  <2>1. step = new
    BY <1>2 DEF LoopStep
  <2>2. /\ new.models = acc.models /\ new.dbEvents = acc.dbEvents /\ new.modified = acc.modified
        /\ new.error = t.error
    BY DEF LoopInv
  <2> HIDE DEF new, step, t
  <2>3. LoopReports(new, d, events, position)
    BY <2>2 DEF LoopReports
  <2> QED
    BY <1>2, <2>1, <2>2, <2>3 DEF step
<1>3. CASE acc.error = "ok" /\ t.error = "ok"
  <2>1. step = ApplyDbEvents(acc, t.events, position)
    BY <1>3 DEF LoopStep
  <2>2. /\ ParseError(events[n]) = "ok"
        /\ events[n].type \in {"create", "update", "delete", "restore"}
    BY DEF GoodEvents
  <2> DEFINE q == events[n].fqid
             es == t.events
  <2>3. GoodDbEvents(es, q)
    BY <1>3, <2>2, TranslateFacts
  <2>4. DOMAIN es # {} /\ AloneOrFields(es) /\ PendingReports(es, 0, q, acc.models)
    <3>1. DeletedKnown(acc.models)
      BY DEF LoopInv
    <3> QED
      BY <1>3, <2>2, <3>1, TranslateReports
  <2>5. \E j \in DOMAIN events : q = events[j].fqid
    OBVIOUS
  <2> HIDE DEF t, q, es, step
  <2>6. LET new == ApplyDbEvents(acc, es, position)
        IN  LoopReports(new, d, events, position) /\ DOMAIN new.dbEvents # {}
    BY <2>3, <2>4, <2>5, ApplyDbEventsReport
  <2> QED
    BY <1>3, <2>1, <2>6 DEF es, step
<1> QED
  BY <1>1, <1>2, <1>3

\* The whole loop of insert_events; a request has an event at least.
LEMMA LoopReportsAll ==
    ASSUME NEW d, DeletedKnown(d.models), NEW events, GoodEvents(events), events # <<>>,
           NEW position
    PROVE  LET loop == Loop(d, events, position)
           IN  /\ LoopReports(loop, d, events, position)
               /\ loop.error = "ok" => DOMAIN loop.dbEvents # {}
<1> DEFINE N == Len(events)
           g == CHOOSE g : LoopRun(g, d, events, position, N)
<1>1. N \in Nat /\ DOMAIN events = 1..N /\ N # 0
  BY DEF GoodEvents
<1>2. LoopRun(g, d, events, position, N)
  BY <1>1, LoopRunExists
<1>3. Loop(d, events, position) = g[N]
  BY DEF Loop, LoopRun
<1> HIDE DEF g, N
<1> DEFINE Ok(n) == /\ LoopInv(g[n], d, events) /\ LoopReports(g[n], d, events, position)
                    /\ n # 0 /\ g[n].error = "ok" => DOMAIN g[n].dbEvents # {}
           S == {n \in 0..N : Ok(n)}
<1>4. Ok(0)
  <2> DEFINE start == LoopStart(d, events)
  <2>1. g[0] = start
    BY <1>1, <1>2 DEF LoopRun
  <2>2. /\ DOMAIN start = {"error", "models", "dbEvents", "modified"}
        /\ start.dbEvents = <<>> /\ start.modified = <<>>
        /\ DOMAIN start.models = {events[i].fqid : i \in DOMAIN events} \cap DOMAIN d.models
        /\ \A q \in DOMAIN start.models : start.models[q] = d.models[q]
    BY DEF LoopStart
  <2>3. <<>> \in Seq(ToSet(<<>>)) /\ DOMAIN <<>> = {}
    OBVIOUS
  <2> HIDE DEF start
  <2>4. DeletedKnown(start.models)
    BY <2>2 DEF DeletedKnown
  <2>5. LoopInv(start, d, events)
    BY <2>2, <2>3, <2>4 DEF LoopInv
  <2>6. \A q \in DOMAIN start.models : \A f : ~Changed(d.models, start.models, q, f)
    BY <2>2, ValueOf DEF Changed, Raw
  <2>7. LoopReports(start, d, events, position)
    BY <2>2, <2>3, <2>6 DEF LoopReports
  <2> QED
    BY <2>1, <2>5, <2>7
<1>5. ASSUME NEW n \in 1..N, Ok(n - 1) PROVE Ok(n)
  <2> DEFINE a == g[n - 1]
  <2>1. n \in DOMAIN events /\ g[n] = LoopStep(a, events[n], position)
    BY <1>1, <1>2 DEF LoopRun
  <2>2. LoopInv(a, d, events) /\ LoopReports(a, d, events, position)
    BY <1>5
  <2> HIDE DEF a, Ok
  <2>3. LoopInv(LoopStep(a, events[n], position), d, events)
    BY <2>1, <2>2, LoopStepKeeps
  <2>4. LET new == LoopStep(a, events[n], position)
        IN  LoopReports(new, d, events, position) /\ (new.error = "ok" => DOMAIN new.dbEvents # {})
    BY <2>1, <2>2, LoopStepReports
  <2> QED
    BY <2>1, <2>3, <2>4 DEF Ok
<1> HIDE DEF Ok
<1>6. 0 \in S /\ \A n \in 1..N : n - 1 \in S => n \in S
  BY <1>1, <1>4, <1>5
<1>7. Ok(N)
  <2>1. \A n \in 0..N : n \in S
    <3> HIDE DEF S
    <3> QED
      BY <1>1, <1>6, Turns
  <2> QED
    BY <1>1, <2>1
<1> QED
  BY <1>1, <1>3, <1>7 DEF Ok

-----------------------------------------------------------------------------
(* insert_events: the tables                                                *)

\* The tables know that q changed field f with position p.
Noted(t, q, p, f) ==
    LET cf == CollectionfieldOf(q, f)
    IN  /\ cf \in DOMAIN t.collectionfields /\ t.collectionfields[cf] >= p
        /\ \E i \in DOMAIN t.events :
              /\ t.events[i].fqid = q /\ t.events[i].position = p
              /\ <<<<p, t.events[i].weight>>, cf>> \in t.events_to_collectionfields

\* From the tables t to the tables e nothing is forgotten.
Remembers(t, e) ==
    /\ \A i \in DOMAIN t.events : i \in DOMAIN e.events /\ e.events[i] = t.events[i]
    /\ \A cf \in DOMAIN t.collectionfields :
          cf \in DOMAIN e.collectionfields /\ t.collectionfields[cf] <= e.collectionfields[cf]
    /\ t.events_to_collectionfields \subseteq e.events_to_collectionfields

RestoredAt(e, q, p) ==
    \E i \in DOMAIN e.events :
        e.events[i].type = "restore" /\ e.events[i].fqid = q /\ e.events[i].position = p

\* An event of position p is connected to the collectionfield, which was touched last there.
Linked(e, cf, p) ==
    /\ e.collectionfields[cf] = p
    /\ \E i \in DOMAIN e.events :
          /\ e.events[i].position = p
          /\ <<<<p, e.events[i].weight>>, cf>> \in e.events_to_collectionfields

\* What an insertion at position p, which changes tables t to e, tells: modified is what it
\* returns for the message bus.
Told(t, e, p, modified) ==
    /\ Remembers(t, e) /\ DOMAIN modified # {}
    /\ \A q \in DOMAIN t.models : q \in DOMAIN e.models
    /\ \A cf \in DOMAIN e.collectionfields :
          \/ cf \in DOMAIN t.collectionfields /\ e.collectionfields[cf] = t.collectionfields[cf]
          \/ Linked(e, cf, p)
    /\ \A i \in DOMAIN e.events : i \notin DOMAIN t.events =>
          e.events[i].position = p /\ e.events[i].fqid \in DOMAIN modified
    /\ \A q, f : Changed(t.models, e.models, q, f) =>
          Noted(e, q, p, f) /\ q \in DOMAIN modified /\ f \in DOMAIN modified[q]
    /\ \A q \in DOMAIN modified :
          /\ q \in DOMAIN e.models /\ e.models[q][META_POSITION] = p
          /\ \E i \in DOMAIN e.events : e.events[i].fqid = q /\ e.events[i].position = p
          /\ \A f \in DOMAIN modified[q] : ~IsReserved(f) /\ ~RestoredAt(e, q, p) =>
                modified[q][f] = Value(e.models, q, f)
    /\ \A q \in DOMAIN e.models : q \notin DOMAIN modified =>
          q \in DOMAIN t.models /\ e.models[q] = t.models[q]

\* Every database event has its row, and every new row is one of a database event.
LEMMA RowOfEvent ==
    ASSUME NEW events, events \in Seq(ToSet(events)), NEW es, es \in Seq(ToSet(es)), NEW position
    PROVE  LET t == RowsWith(events, es, position)
           IN  /\ \A i \in DOMAIN events : i \in DOMAIN t /\ t[i] = events[i]
               /\ \A w \in DOMAIN es : \E i \in DOMAIN t : t[i] = EventRow(es[w], position, w)
               /\ \A i \in DOMAIN t : i \notin DOMAIN events =>
                     \E w \in DOMAIN es : t[i] = EventRow(es[w], position, w)
<1> DEFINE rows == [w \in DOMAIN es |-> EventRow(es[w], position, w)]
           t == events \o rows
           N == Len(events)
           K == Len(es)
<1>1. N \in Nat /\ K \in Nat /\ DOMAIN es = 1..K /\ DOMAIN events = 1..N
  OBVIOUS
<1>2. rows \in Seq(ToSet(rows)) /\ Len(rows) = K
  <2>1. rows = [w \in 1..K |-> rows[w]] /\ \A w \in 1..K : rows[w] \in ToSet(rows)
    BY <1>1 DEF ToSet
  <2> DEFINE V == ToSet(rows)
  <2> HIDE DEF rows, K, V
  <2>2. rows \in Seq(V) /\ Len(rows) = K
    BY <1>1, <2>1, SMTT(20) DEF V
  <2> QED
    BY <2>2 DEF V
<1>3. \A w \in 1..K : rows[w] = EventRow(es[w], position, w)
  BY <1>1
<1> HIDE DEF rows
<1>4. t \in Seq(ToSet(t))
  BY <1>2, ConcatFacts
<1>5. /\ Len(t) = N + K
      /\ \A n \in 1..N : t[n] = events[n]
      /\ \A n \in 1..(N + K) : n > N => t[n] = rows[n - N]
  <2> HIDE DEF K
  <2> QED
    BY <1>1, <1>2
<1> HIDE DEF t
<1>6. DOMAIN t = 1..(N + K)
  BY <1>4, <1>5
<1> HIDE DEF N, K
<1>7. \A i \in DOMAIN events : i \in DOMAIN t /\ t[i] = events[i]
  BY <1>1, <1>5, <1>6
<1>8. ASSUME NEW w \in DOMAIN es PROVE \E i \in DOMAIN t : t[i] = EventRow(es[w], position, w)
  <2>1. N + w \in 1..(N + K) /\ N + w > N /\ (N + w) - N = w /\ w \in 1..K
    BY <1>1
  <2>2. t[N + w] = rows[w]
    BY <1>5, <2>1
  <2>3. t[N + w] = EventRow(es[w], position, w)
    BY <1>3, <2>1, <2>2
  <2> QED
    BY <1>6, <2>1, <2>3
<1>9. ASSUME NEW i \in DOMAIN t, i \notin DOMAIN events
      PROVE  \E w \in DOMAIN es : t[i] = EventRow(es[w], position, w)
  <2>1. i \in 1..(N + K) /\ i > N /\ i - N \in 1..K
    BY <1>1, <1>6, <1>9
  <2>2. t[i] = EventRow(es[i - N], position, i - N)
    BY <1>3, <1>5, <2>1
  <2> QED
    BY <1>1, <2>1, <2>2
<1>10. RowsWith(events, es, position) = t
  BY DEF RowsWith, t, rows
<1> QED
  BY <1>7, <1>8, <1>9, <1>10

\* The collectionfields of database events, and their rows in events_to_collectionfields.
FieldsOf(es) == UNION {ModifiedCollectionfields(es[w]) : w \in DOMAIN es}

LinksOf(es, position) ==
    UNION {{<<<<position, w>>, cf>> : cf \in ModifiedCollectionfields(es[w])} : w \in DOMAIN es}

\* The collectionfield tables that insert_events writes.
LEMMA StoredFields ==
    ASSUME NEW d, DOMAIN d = Tables, NEW position, NEW index, NEW request, NEW loop
    PROVE  LET e == StoreEvents(d, position, index, request, loop)
               es == loop.dbEvents
           IN  /\ e.collectionfields = Over([cf \in FieldsOf(es) |-> position], d.collectionfields)
               /\ e.events_to_collectionfields =
                     d.events_to_collectionfields \cup LinksOf(es, position)
BY DEF StoreEvents, Tables, FieldsOf, LinksOf

\* All the tables of an insertion that succeeds, made of tables d and the loop over them.
LEMMA StoreTells ==
    ASSUME NEW d, TableInv(d), NEW e, NEW events, NEW position, position = d.position_seq + 1,
           NEW loop, LoopInv(loop, d, events), LoopReports(loop, d, events, position),
           DOMAIN loop.dbEvents # {},
           e.events = RowsWith(d.events, loop.dbEvents, position),
           e.models = Over(loop.models, d.models),
           e.collectionfields = Over([cf \in FieldsOf(loop.dbEvents) |-> position],
                                     d.collectionfields),
           e.events_to_collectionfields =
               d.events_to_collectionfields \cup LinksOf(loop.dbEvents, position)
    PROVE  Told(d, e, position, loop.modified)
<1> DEFINE s == d.events
           es == loop.dbEvents
           t == e.events
           modified == loop.modified
           touched == FieldsOf(es)
           links == LinksOf(es, position)
<1>1. s \in Seq(ToSet(s)) /\ es \in Seq(ToSet(es)) /\ position \in Int
  BY DEF TableInv, RowInv, PositionInv, LoopInv
<1>2. /\ \A i \in DOMAIN s : i \in DOMAIN t /\ t[i] = s[i]
      /\ \A w \in DOMAIN es : \E i \in DOMAIN t : t[i] = EventRow(es[w], position, w)
      /\ \A i \in DOMAIN t : i \notin DOMAIN s =>
            \E w \in DOMAIN es : t[i] = EventRow(es[w], position, w)
  <2>1. t = RowsWith(s, es, position)
    OBVIOUS
  <2> HIDE DEF s, es, t
  <2>2. LET u == RowsWith(s, es, position)
        IN  /\ \A i \in DOMAIN s : i \in DOMAIN u /\ u[i] = s[i]
            /\ \A w \in DOMAIN es : \E i \in DOMAIN u : u[i] = EventRow(es[w], position, w)
            /\ \A i \in DOMAIN u : i \notin DOMAIN s =>
                  \E w \in DOMAIN es : u[i] = EventRow(es[w], position, w)
    BY <1>1, RowOfEvent
  <2> QED
    BY <2>1, <2>2
<1>3. /\ DOMAIN e.collectionfields = touched \cup DOMAIN d.collectionfields
      /\ \A cf \in touched : e.collectionfields[cf] = position
      /\ \A cf \in DOMAIN d.collectionfields : cf \notin touched =>
            e.collectionfields[cf] = d.collectionfields[cf]
  BY DEF Over
<1>4. \A cf \in DOMAIN d.collectionfields :
         d.collectionfields[cf] \in Int /\ d.collectionfields[cf] <= position
  <2>1. \A cf \in DOMAIN d.collectionfields : d.collectionfields[cf] \in DOMAIN d.positions
    BY DEF TableInv, RowInv
  <2>2. \A p \in DOMAIN d.positions : p \in Int /\ p <= position
    BY DEF TableInv, PositionInv
  <2> QED
    BY <2>1, <2>2
<1>5. Remembers(d, e)
  <2>1. \A cf \in DOMAIN d.collectionfields :
           cf \in DOMAIN e.collectionfields /\ d.collectionfields[cf] <= e.collectionfields[cf]
    BY <1>3, <1>4
  <2> QED
    BY <1>2, <2>1 DEF Remembers
<1>6. /\ DOMAIN e.models = DOMAIN loop.models \cup DOMAIN d.models
      /\ \A q \in DOMAIN e.models :
            e.models[q] = IF q \in DOMAIN loop.models THEN loop.models[q] ELSE d.models[q]
  BY DEF Over
<1>7. ASSUME NEW q, NEW f, Reports(es, q, f)
      PROVE  Noted(e, q, position, f) /\ q \in DOMAIN modified /\ f \in DOMAIN modified[q]
  <2>1. PICK w \in DOMAIN es : es[w].fqid = q /\ f \in DOMAIN es[w].modified
    BY <1>7 DEF Reports
  <2> DEFINE cf == CollectionfieldOf(q, f)
  <2>2. cf \in ModifiedCollectionfields(es[w])
    BY <2>1 DEF ModifiedCollectionfields
  <2> HIDE DEF cf
  <2>3. cf \in touched /\ <<<<position, w>>, cf>> \in links
    BY <2>2 DEF FieldsOf, LinksOf
  <2>4. cf \in DOMAIN e.collectionfields /\ e.collectionfields[cf] >= position
    BY <1>1, <1>3, <2>3
  <2>5. PICK i \in DOMAIN t : t[i] = EventRow(es[w], position, w)
    BY <1>2
  <2>6. t[i].fqid = q /\ t[i].position = position /\ t[i].weight = w
    BY <2>1, <2>5 DEF EventRow
  <2>7. <<<<position, t[i].weight>>, cf>> \in e.events_to_collectionfields
    BY <2>3, <2>6
  <2>8. Noted(e, q, position, f)
    BY <2>4, <2>6, <2>7 DEF Noted, cf
  <2> QED
    BY <2>1, <2>8 DEF LoopReports
<1>8. ASSUME NEW q, NEW f, Changed(d.models, e.models, q, f) PROVE Reports(es, q, f)
  <2>1. CASE q \in DOMAIN loop.models
    <3>1. /\ Value(e.models, q, f) = Value(loop.models, q, f)
          /\ Raw(e.models, q, f) = Raw(loop.models, q, f)
      BY <1>6, <2>1, ValueOf DEF Raw
    <3>2. Changed(d.models, loop.models, q, f)
      BY <1>8, <3>1 DEF Changed
    <3> QED
      BY <2>1, <3>2 DEF LoopReports
  <2>2. CASE q \notin DOMAIN loop.models
    <3>1. /\ Value(e.models, q, f) = Value(d.models, q, f)
          /\ Raw(e.models, q, f) = Raw(d.models, q, f)
      BY <1>6, <2>2, ValueOf DEF Raw
    <3> QED
      BY <1>8, <3>1 DEF Changed
  <2> QED
    BY <2>1, <2>2
<1>9. ASSUME NEW q, Restored(es, q) PROVE RestoredAt(e, q, position)
  <2>1. PICK w \in DOMAIN es : es[w].type = "restore" /\ es[w].fqid = q
    BY <1>9 DEF Restored
  <2>2. PICK i \in DOMAIN t : t[i] = EventRow(es[w], position, w)
    BY <1>2
  <2>3. t[i].type = "restore" /\ t[i].fqid = q /\ t[i].position = position
    BY <2>1, <2>2 DEF EventRow
  <2> QED
    BY <2>3 DEF RestoredAt
<1>10. ASSUME NEW q \in DOMAIN modified
       PROVE  /\ q \in DOMAIN e.models /\ e.models[q][META_POSITION] = position
              /\ \E i \in DOMAIN t : t[i].fqid = q /\ t[i].position = position
              /\ \A f \in DOMAIN modified[q] : ~IsReserved(f) /\ ~RestoredAt(e, q, position) =>
                    modified[q][f] = Value(e.models, q, f)
  <2>1. q \in DOMAIN loop.models /\ loop.models[q][META_POSITION] = position
    BY DEF LoopReports
  <2>2. q \in DOMAIN e.models /\ e.models[q] = loop.models[q]
    BY <1>6, <2>1
  <2>3. \A f : Value(e.models, q, f) = ModelValue(loop.models[q], f)
    BY <2>2, ValueOf
  <2>4. PICK w \in DOMAIN es : es[w].fqid = q
    BY DEF LoopReports
  <2>5. PICK i \in DOMAIN t : t[i] = EventRow(es[w], position, w)
    BY <1>2
  <2>6. t[i].fqid = q /\ t[i].position = position
    BY <2>4, <2>5 DEF EventRow
  <2> QED
    BY <1>9, <2>1, <2>2, <2>3, <2>6 DEF LoopReports
<1>11. \A q \in DOMAIN e.models : q \notin DOMAIN modified =>
          q \in DOMAIN d.models /\ e.models[q] = d.models[q]
  BY <1>6 DEF LoopReports
<1>12. DOMAIN modified # {}
  BY DEF LoopReports
<1>13. ASSUME NEW cf \in touched PROVE Linked(e, cf, position)
  <2>1. PICK w \in DOMAIN es : cf \in ModifiedCollectionfields(es[w])
    BY DEF FieldsOf
  <2>2. <<<<position, w>>, cf>> \in links
    BY <2>1 DEF LinksOf
  <2>3. PICK i \in DOMAIN t : t[i] = EventRow(es[w], position, w)
    BY <1>2
  <2>4. t[i].position = position /\ t[i].weight = w
    BY <2>3 DEF EventRow
  <2>5. <<<<position, t[i].weight>>, cf>> \in e.events_to_collectionfields
    BY <2>2, <2>4
  <2> QED
    BY <1>3, <2>4, <2>5 DEF Linked
<1>14. \A cf \in DOMAIN e.collectionfields :
          \/ cf \in DOMAIN d.collectionfields /\ e.collectionfields[cf] = d.collectionfields[cf]
          \/ Linked(e, cf, position)
  BY <1>3, <1>13
<1>15. ASSUME NEW i \in DOMAIN t, i \notin DOMAIN s
       PROVE  t[i].position = position /\ t[i].fqid \in DOMAIN modified
  <2>1. PICK w \in DOMAIN es : t[i] = EventRow(es[w], position, w)
    BY <1>2, <1>15
  <2>2. t[i].position = position /\ t[i].fqid = es[w].fqid
    BY <2>1 DEF EventRow
  <2> QED
    BY <2>2 DEF LoopReports
<1> QED
  BY <1>5, <1>6, <1>7, <1>8, <1>10, <1>11, <1>12, <1>14, <1>15 DEF Told

\* insert_events
LEMMA InsertEventsTell ==
    ASSUME NEW d, TableInv(d), NEW index, NEW request,
           GoodEvents(request.events), request.events # <<>>
    PROVE  LET r == InsertEvents(d, index, request)
           IN  r.error = "ok" => Told(d, r.db, r.position, r.modified)
<1> DEFINE position == d.position_seq + 1
           drawn == [d EXCEPT !.position_seq = position]
           events == request.events
           loop == Loop(d, events, position)
           r == InsertEvents(d, index, request)
           e == StoreEvents(drawn, position, index, request, loop)
<1>1. /\ DOMAIN drawn = Tables
      /\ drawn.events = d.events /\ drawn.models = d.models
      /\ drawn.collectionfields = d.collectionfields
      /\ drawn.events_to_collectionfields = d.events_to_collectionfields
  <2>1. DOMAIN d = Tables
    BY DEF TableInv
  <2> QED
    BY <2>1 DEF Tables
<1>2. LoopInv(loop, d, events)
  BY LoopKeeps DEF TableInv
<1>3. /\ LoopReports(loop, d, events, position)
      /\ loop.error = "ok" => DOMAIN loop.dbEvents # {}
  BY LoopReportsAll DEF TableInv
<1>4. r.error = "ok" =>
         loop.error = "ok" /\ r.db = e /\ r.position = position /\ r.modified = loop.modified
  BY DEF InsertEvents
<1> HIDE DEF loop, drawn, r
<1> SUFFICES ASSUME r.error = "ok" PROVE Told(d, r.db, r.position, r.modified)
  BY DEF r
<1>5. position = d.position_seq + 1
  OBVIOUS
<1> HIDE DEF position, events
<1> DEFINE es == loop.dbEvents
<1>6. /\ e.events = RowsWith(d.events, es, position)
      /\ e.models = Over(loop.models, d.models)
  <2>1. LET f == StoreEvents(drawn, position, index, request, loop)
        IN  /\ f.position_seq = drawn.position_seq
            /\ f.events = RowsWith(drawn.events, loop.dbEvents, position)
            /\ f.models = Over(loop.models, drawn.models)
    BY <1>1, StoredTables
  <2> QED
    BY <1>1, <2>1
<1>7. /\ e.collectionfields = Over([cf \in FieldsOf(es) |-> position], d.collectionfields)
      /\ e.events_to_collectionfields =
            d.events_to_collectionfields \cup LinksOf(es, position)
  <2>1. LET f == StoreEvents(drawn, position, index, request, loop)
        IN  /\ f.collectionfields =
                  Over([cf \in FieldsOf(loop.dbEvents) |-> position], drawn.collectionfields)
            /\ f.events_to_collectionfields =
                  drawn.events_to_collectionfields \cup LinksOf(loop.dbEvents, position)
    BY <1>1, StoredFields
  <2> QED
    BY <1>1, <2>1
<1> HIDE DEF e
<1>8. DOMAIN loop.dbEvents # {}
  BY <1>3, <1>4
<1>9. Told(d, e, position, loop.modified)
  BY <1>2, <1>3, <1>5, <1>6, <1>7, <1>8, StoreTells
<1> QED
  BY <1>4, <1>9

-----------------------------------------------------------------------------
(* The collectionfield tables and the snapshots                             *)

Before(snaps, r) == IF r = 0 THEN <<>> ELSE snaps[r]

\* r is the newest of the positions, or 0 where there are none; the one before p.
Newest(snaps, r) == r \in DOMAIN snaps \cup {0} /\ \A x \in DOMAIN snaps : x <= r
Previous(snaps, p, r) ==
    r \in DOMAIN snaps \cup {0} /\ r < p /\ \A x \in DOMAIN snaps : x < p => x <= r

SameHistory(m, n) ==
    \A q : HasHistory(q) =>
        (q \in DOMAIN m <=> q \in DOMAIN n) /\ (q \in DOMAIN m => m[q] = n[q])

\* Changes of the positions that are not trimmed are noted.
NotedInv(t, snaps, trim) ==
    \A p \in DOMAIN snaps : \A r : p >= trim /\ Previous(snaps, p, r) =>
        \A q, f : HasHistory(q) /\ Changed(Before(snaps, r), snaps[p], q, f) => Noted(t, q, p, f)

\* No model with history vanishes; its meta_position is the position of an event of it, and
\* every snapshot since that position holds the model as it is.
KeptInv(t, snaps) ==
    /\ \A x \in DOMAIN snaps : \A q \in DOMAIN snaps[x] : HasHistory(q) => q \in DOMAIN t.models
    /\ \A q \in DOMAIN t.models : HasHistory(q) =>
          LET m == t.models[q][META_POSITION]
          IN  /\ m \in DOMAIN snaps
              /\ \E i \in DOMAIN t.events : t.events[i].fqid = q /\ t.events[i].position = m
              /\ \A x \in DOMAIN snaps : m <= x =>
                    q \in DOMAIN snaps[x] /\ snaps[x][q] = t.models[q]

\* Every collectionfield is connected to an event of its position.
FieldInv(t) ==
    \A cf \in DOMAIN t.collectionfields : Linked(t, cf, t.collectionfields[cf])

\* The meta_position of a model with history is that of its newest event.
NewestInv(t) ==
    \A i \in DOMAIN t.events : HasHistory(t.events[i].fqid) =>
        /\ t.events[i].fqid \in DOMAIN t.models
        /\ t.events[i].position <= t.models[t.events[i].fqid][META_POSITION]

\* The models table is the newest snapshot, but for models without history.
ChangeInv(t, snaps, trim) ==
    /\ DOMAIN snaps = DOMAIN t.positions
    /\ \A r : Newest(snaps, r) => SameHistory(Before(snaps, r), t.models)
    /\ NotedInv(t, snaps, trim)
    /\ KeptInv(t, snaps) /\ FieldInv(t) /\ NewestInv(t)

\* What is noted stays so while tables only grow.
LEMMA NotedStays ==
    ASSUME NEW t, TableInv(t), NEW e, TableInv(e), Remembers(t, e),
           NEW q, NEW p \in Int, NEW f, Noted(t, q, p, f)
    PROVE  Noted(e, q, p, f)
<1> DEFINE cf == CollectionfieldOf(q, f)
<1>1. cf \in DOMAIN t.collectionfields /\ t.collectionfields[cf] >= p
  BY DEF Noted
<1>2. PICK i \in DOMAIN t.events :
         /\ t.events[i].fqid = q /\ t.events[i].position = p
         /\ <<<<p, t.events[i].weight>>, cf>> \in t.events_to_collectionfields
  BY DEF Noted
<1> HIDE DEF cf
<1>3. cf \in DOMAIN e.collectionfields /\ t.collectionfields[cf] <= e.collectionfields[cf]
  BY <1>1 DEF Remembers
<1>4. t.collectionfields[cf] \in Int /\ e.collectionfields[cf] \in Int
  <2>1. /\ t.collectionfields[cf] \in DOMAIN t.positions
        /\ e.collectionfields[cf] \in DOMAIN e.positions
    BY <1>1, <1>3 DEF TableInv, RowInv
  <2> QED
    BY <2>1 DEF TableInv, PositionInv
<1>5. e.collectionfields[cf] >= p
  BY <1>1, <1>3, <1>4
<1>6. /\ i \in DOMAIN e.events /\ e.events[i] = t.events[i]
      /\ <<<<p, t.events[i].weight>>, cf>> \in e.events_to_collectionfields
  BY <1>2 DEF Remembers
<1> QED
  BY <1>2, <1>3, <1>5, <1>6 DEF Noted, cf

\* An insertion notes what it changes, also against the snapshot before it.
LEMMA InsertNotes ==
    ASSUME NEW t, TableInv(t), NEW e, TableInv(e), NEW snaps, NEW trim, ChangeInv(t, snaps, trim),
           NEW p, p = t.position_seq + 1, DOMAIN e.positions = DOMAIN t.positions \cup {p},
           NEW modified, Told(t, e, p, modified)
    PROVE  ChangeInv(e, With(snaps, p, e.models), trim)
<1> DEFINE new == With(snaps, p, e.models)
<1>1. /\ DOMAIN new = DOMAIN snaps \cup {p} /\ new[p] = e.models
      /\ \A x \in DOMAIN snaps : x # p => new[x] = snaps[x]
  BY DEF With
<1> HIDE DEF new
<1>2. /\ p \in Int /\ p > 0
      /\ \A x \in DOMAIN snaps : x \in Int /\ x > 0 /\ x < p
  <2>1. t.position_seq \in Nat /\ \A x \in DOMAIN t.positions : x \in 1..t.position_seq
    BY DEF TableInv, PositionInv
  <2>2. DOMAIN snaps = DOMAIN t.positions
    BY DEF ChangeInv
  <2> QED
    BY <2>1, <2>2
<1>3. DOMAIN new = DOMAIN e.positions
  BY <1>1 DEF ChangeInv
<1>4. ASSUME NEW r, Newest(new, r) PROVE SameHistory(Before(new, r), e.models)
  <2>1. r \in DOMAIN new \cup {0} /\ p <= r
    BY <1>1, <1>4 DEF Newest
  <2>2. r = p
    BY <1>1, <1>2, <2>1
  <2>3. Before(new, r) = e.models
    BY <1>1, <1>2, <2>2 DEF Before
  <2> QED
    BY <2>3 DEF SameHistory
<1>5. ASSUME NEW x \in DOMAIN new, NEW r, x >= trim, Previous(new, x, r),
             NEW q, NEW f, HasHistory(q), Changed(Before(new, r), new[x], q, f)
      PROVE  Noted(e, q, x, f)
  <2>1. r \in DOMAIN new \cup {0} /\ r < x /\ \A y \in DOMAIN new : y < x => y <= r
    BY <1>5 DEF Previous
  <2>2. r # p
    BY <1>1, <1>2, <2>1
  <2>3. r \in DOMAIN snaps \cup {0} /\ Before(new, r) = Before(snaps, r)
    BY <1>1, <2>1, <2>2 DEF Before
  <2>4. CASE x # p
    <3>1. x \in DOMAIN snaps /\ new[x] = snaps[x] /\ x \in Int
      BY <1>1, <1>2, <2>4
    <3>2. Previous(snaps, x, r)
      BY <1>1, <2>1, <2>3 DEF Previous
    <3>3. Noted(t, q, x, f)
      BY <1>5, <2>3, <3>1, <3>2 DEF ChangeInv, NotedInv
    <3>4. Remembers(t, e)
      BY DEF Told
    <3> QED
      BY <3>1, <3>3, <3>4, NotedStays
  <2>5. CASE x = p
    <3>1. Newest(snaps, r)
      BY <1>1, <1>2, <2>1, <2>3, <2>5 DEF Newest
    <3>2. SameHistory(Before(snaps, r), t.models)
      BY <3>1 DEF ChangeInv
    <3>3. /\ Value(Before(snaps, r), q, f) = Value(t.models, q, f)
          /\ Raw(Before(snaps, r), q, f) = Raw(t.models, q, f)
      BY <1>5, <3>2, ValueOf DEF SameHistory, Raw
    <3>4. Changed(t.models, e.models, q, f)
      BY <1>1, <1>5, <2>3, <2>5, <3>3 DEF Changed
    <3> QED
      BY <2>5, <3>4 DEF Told
  <2> QED
    BY <2>4, <2>5
<1>6. NotedInv(e, new, trim)
  BY <1>5 DEF NotedInv
<1>7. Remembers(t, e) /\ KeptInv(t, snaps) /\ FieldInv(t)
  BY DEF Told, ChangeInv
<1>8. ASSUME NEW x \in DOMAIN new, NEW q \in DOMAIN new[x], HasHistory(q) PROVE q \in DOMAIN e.models
  <2>1. CASE x = p
    BY <1>1, <2>1
  <2>2. CASE x # p
    <3>1. x \in DOMAIN snaps /\ q \in DOMAIN snaps[x]
      BY <1>1, <2>2
    <3>2. q \in DOMAIN t.models
      BY <1>7, <1>8, <3>1 DEF KeptInv
    <3> QED
      BY <3>2 DEF Told
  <2> QED
    BY <2>1, <2>2
<1>9. ASSUME NEW q \in DOMAIN e.models, HasHistory(q), NEW m, m = e.models[q][META_POSITION]
      PROVE  /\ m \in DOMAIN new
             /\ \E i \in DOMAIN e.events : e.events[i].fqid = q /\ e.events[i].position = m
             /\ \A x \in DOMAIN new : m <= x =>
                   q \in DOMAIN new[x] /\ new[x][q] = e.models[q]
  <2>1. CASE q \in DOMAIN modified
    <3>1. /\ m = p
          /\ \E i \in DOMAIN e.events : e.events[i].fqid = q /\ e.events[i].position = p
      BY <1>9, <2>1 DEF Told
    <3>2. \A x \in DOMAIN new : m <= x => x = p
      BY <1>1, <1>2, <3>1
    <3> QED
      BY <1>1, <3>1, <3>2
  <2>2. CASE q \notin DOMAIN modified
    <3>1. q \in DOMAIN t.models /\ e.models[q] = t.models[q]
      BY <2>2 DEF Told
    <3>2. /\ m \in DOMAIN snaps
          /\ \E i \in DOMAIN t.events : t.events[i].fqid = q /\ t.events[i].position = m
          /\ \A x \in DOMAIN snaps : m <= x => q \in DOMAIN snaps[x] /\ snaps[x][q] = t.models[q]
      BY <1>7, <1>9, <3>1 DEF KeptInv
    <3>3. \E i \in DOMAIN e.events : e.events[i].fqid = q /\ e.events[i].position = m
      BY <1>7, <3>2 DEF Remembers
    <3>4. ASSUME NEW x \in DOMAIN new, m <= x
          PROVE  q \in DOMAIN new[x] /\ new[x][q] = e.models[q]
      <4>1. CASE x = p
        BY <1>1, <4>1
      <4>2. CASE x # p
        BY <1>1, <3>1, <3>2, <3>4, <4>2
      <4> QED
        BY <4>1, <4>2
    <3> QED
      BY <1>1, <3>2, <3>3, <3>4
  <2> QED
    BY <2>1, <2>2
<1>10. KeptInv(e, new)
  BY <1>8, <1>9 DEF KeptInv
<1>11. ASSUME NEW cf \in DOMAIN e.collectionfields PROVE Linked(e, cf, e.collectionfields[cf])
  <2>1. CASE Linked(e, cf, p)
    BY <2>1 DEF Linked
  <2>2. CASE cf \in DOMAIN t.collectionfields /\ e.collectionfields[cf] = t.collectionfields[cf]
    <3>1. Linked(t, cf, t.collectionfields[cf])
      BY <1>7, <2>2 DEF FieldInv
    <3> QED
      BY <1>7, <2>2, <3>1 DEF Linked, Remembers
  <2> QED
    BY <2>1, <2>2 DEF Told
<1>12. ASSUME NEW i \in DOMAIN e.events, HasHistory(e.events[i].fqid)
       PROVE  /\ e.events[i].fqid \in DOMAIN e.models
              /\ e.events[i].position <= e.models[e.events[i].fqid][META_POSITION]
  <2> DEFINE q == e.events[i].fqid
             x == e.events[i].position
  <2>1. CASE i \notin DOMAIN t.events
    <3>1. x = p /\ q \in DOMAIN modified
      BY <2>1 DEF Told
    <3>2. q \in DOMAIN e.models /\ e.models[q][META_POSITION] = p
      BY <3>1 DEF Told
    <3> QED
      BY <1>2, <3>1, <3>2
  <2>2. CASE i \in DOMAIN t.events
    <3>1. t.events[i] = e.events[i]
      BY <1>7, <2>2 DEF Remembers
    <3>2. q \in DOMAIN t.models /\ x <= t.models[q][META_POSITION]
      BY <1>12, <2>2, <3>1 DEF ChangeInv, NewestInv
    <3>3. x \in DOMAIN snaps
      BY <2>2, <3>1 DEF TableInv, RowInv, ChangeInv
    <3> HIDE DEF q, x
    <3>4. CASE q \in DOMAIN modified
      <4>1. q \in DOMAIN e.models /\ e.models[q][META_POSITION] = p
        BY <3>4 DEF Told
      <4>2. x <= p
        BY <1>2, <3>3
      <4> QED
        BY <4>1, <4>2 DEF q, x
    <3>5. CASE q \notin DOMAIN modified
      <4>1. q \in DOMAIN e.models
        BY <3>2 DEF Told
      <4>2. e.models[q] = t.models[q]
        BY <3>5, <4>1 DEF Told
      <4> QED
        BY <3>2, <4>1, <4>2 DEF q, x
    <3> QED
      BY <3>4, <3>5
  <2> QED
    BY <2>1, <2>2
<1>13. ChangeInv(e, new, trim)
  BY <1>3, <1>4, <1>6, <1>10, <1>11, <1>12 DEF ChangeInv, FieldInv, NewestInv
<1> QED
  BY <1>13 DEF new

-----------------------------------------------------------------------------
(* The message                                                              *)

\* get_modified_fqfields
LEMMA FqfieldsFacts ==
    ASSUME NEW modified, NEW position
    PROVE  LET fresh == ModifiedFqfields(modified, position)
           IN  /\ \A q \in DOMAIN modified : \A f \in DOMAIN modified[q] \cup {META_POSITION} :
                     /\ <<q, f>> \in DOMAIN fresh
                     /\ fresh[<<q, f>>] = IF f = META_POSITION THEN position ELSE modified[q][f]
               /\ \A k \in DOMAIN fresh :
                     \E q \in DOMAIN modified : \E f \in DOMAIN modified[q] \cup {META_POSITION} :
                         k = <<q, f>>
<1> DEFINE keys == UNION {{<<q, f>> : f \in DOMAIN modified[q] \cup {META_POSITION}} :
                             q \in DOMAIN modified}
           fresh == ModifiedFqfields(modified, position)
<1>1. /\ DOMAIN fresh = keys
      /\ \A k \in keys : fresh[k] = IF k[2] = META_POSITION THEN position
                                    ELSE modified[k[1]][k[2]]
  BY DEF ModifiedFqfields
<1> HIDE DEF fresh
<1>2. \A q \in DOMAIN modified : \A f \in DOMAIN modified[q] \cup {META_POSITION} : <<q, f>> \in keys
  OBVIOUS
<1>3. \A k \in keys : \E q \in DOMAIN modified :
         \E f \in DOMAIN modified[q] \cup {META_POSITION} : k = <<q, f>>
  OBVIOUS
<1> HIDE DEF keys
<1>4. \A q, f : <<q, f>>[1] = q /\ <<q, f>>[2] = f
  OBVIOUS
<1>5. \A q \in DOMAIN modified : \A f \in DOMAIN modified[q] \cup {META_POSITION} :
         fresh[<<q, f>>] = IF f = META_POSITION THEN position ELSE modified[q][f]
  BY <1>1, <1>2, <1>4
<1> QED
  BY <1>1, <1>2, <1>3, <1>5 DEF fresh

RestoredSince(d, t, q) ==
    \E i \in DOMAIN t.events :
        /\ t.events[i].type = "restore" /\ t.events[i].fqid = q
        /\ t.events[i].position > d.position_seq

\* What a message says of the way from tables d to tables t.
MessageInv(d, t, message) ==
    /\ \A q, f : Changed(d.models, t.models, q, f) => <<q, f>> \in DOMAIN message
    /\ \A k \in DOMAIN message :
          /\ k = <<k[1], k[2]>> /\ k[1] \in DOMAIN t.models
          /\ <<k[1], META_POSITION>> \in DOMAIN message
          /\ message[<<k[1], META_POSITION>>] = t.models[k[1]][META_POSITION]
          /\ ~IsReserved(k[2]) /\ ~RestoredSince(d, t, k[1]) =>
                message[k] = Value(t.models, k[1], k[2])

\* One more position, laid over the message of the positions before it.
LEMMA InsertAnnounces ==
    ASSUME NEW d, TableInv(d), NEW t, TableInv(t), NEW e, d.position_seq <= t.position_seq,
           NEW message, MessageInv(d, t, message), NEW p, p = t.position_seq + 1,
           NEW modified, Told(t, e, p, modified)
    PROVE  LET new == Merge(ModifiedFqfields(modified, p), message)
           IN  MessageInv(d, e, new) /\ DOMAIN new # {}
<1> DEFINE fresh == ModifiedFqfields(modified, p)
           mp == META_POSITION
           new == Merge(fresh, message)
<1>1. /\ \A q \in DOMAIN modified : \A f \in DOMAIN modified[q] \cup {mp} :
            /\ <<q, f>> \in DOMAIN fresh
            /\ fresh[<<q, f>>] = IF f = mp THEN p ELSE modified[q][f]
      /\ \A k \in DOMAIN fresh :
            \E q \in DOMAIN modified : \E f \in DOMAIN modified[q] \cup {mp} : k = <<q, f>>
  BY FqfieldsFacts
<1> HIDE DEF fresh
<1>2. /\ DOMAIN new = DOMAIN fresh \cup DOMAIN message
      /\ \A k \in DOMAIN new : new[k] = IF k \in DOMAIN fresh THEN fresh[k] ELSE message[k]
  BY DEF Merge, Over
<1> HIDE DEF new
<1>3. d.position_seq \in Int /\ t.position_seq \in Int /\ p \in Int /\ p > d.position_seq
  BY DEF TableInv, PositionInv
<1>4. \A q : RestoredAt(e, q, p) => RestoredSince(d, e, q)
  BY <1>3 DEF RestoredAt, RestoredSince
<1>5. \A q : RestoredSince(d, t, q) => RestoredSince(d, e, q)
  BY DEF RestoredSince, Told, Remembers
<1>6. \A q, f : Changed(t.models, e.models, q, f) => <<q, f>> \in DOMAIN fresh
  BY <1>1 DEF Told
<1>7. ASSUME NEW q, NEW f, Changed(d.models, e.models, q, f) PROVE <<q, f>> \in DOMAIN new
  <2>1. CASE Changed(t.models, e.models, q, f)
    BY <1>2, <1>6, <2>1
  <2>2. CASE ~Changed(t.models, e.models, q, f)
    <3>1. Changed(d.models, t.models, q, f)
      BY <1>7, <2>2 DEF Changed
    <3> QED
      BY <1>2, <3>1 DEF MessageInv
  <2> QED
    BY <2>1, <2>2
<1>8. ASSUME NEW q \in DOMAIN modified
      PROVE  /\ q \in DOMAIN e.models /\ <<q, mp>> \in DOMAIN new
             /\ new[<<q, mp>>] = e.models[q][mp]
  <2>1. <<q, mp>> \in DOMAIN fresh /\ fresh[<<q, mp>>] = p
    BY <1>1
  <2>2. q \in DOMAIN e.models /\ e.models[q][mp] = p
    BY DEF Told
  <2> QED
    BY <1>2, <2>1, <2>2
<1>9. ASSUME NEW q, NEW f, <<q, f>> \in DOMAIN fresh
      PROVE  /\ q \in DOMAIN modified
             /\ ~IsReserved(f) /\ ~RestoredSince(d, e, q) =>
                   new[<<q, f>>] = Value(e.models, q, f)
  <2>1. PICK q2 \in DOMAIN modified : \E f2 \in DOMAIN modified[q2] \cup {mp} : <<q, f>> = <<q2, f2>>
    BY <1>1, <1>9
  <2>2. q \in DOMAIN modified /\ f \in DOMAIN modified[q] \cup {mp}
    BY <2>1
  <2>3. new[<<q, f>>] = IF f = mp THEN p ELSE modified[q][f]
    BY <1>1, <1>2, <1>9, <2>2
  <2>4. ASSUME ~IsReserved(f), ~RestoredSince(d, e, q)
        PROVE  new[<<q, f>>] = Value(e.models, q, f)
    <3>1. f # mp /\ f \in DOMAIN modified[q]
      BY <2>2, <2>4 DEF IsReserved
    <3>2. ~RestoredAt(e, q, p)
      BY <1>4, <2>4
    <3> QED
      BY <2>2, <2>3, <2>4, <3>1, <3>2 DEF Told
  <2> QED
    BY <2>2, <2>4
<1>10. ASSUME NEW k \in DOMAIN message, k \notin DOMAIN fresh, NEW q, NEW f, q = k[1], f = k[2]
       PROVE  /\ k = <<q, f>> /\ q \in DOMAIN e.models /\ <<q, mp>> \in DOMAIN new
              /\ new[<<q, mp>>] = e.models[q][mp]
              /\ ~IsReserved(f) /\ ~RestoredSince(d, e, q) => new[k] = Value(e.models, q, f)
  <2>1. /\ k = <<q, f>> /\ q \in DOMAIN t.models /\ <<q, mp>> \in DOMAIN message
        /\ message[<<q, mp>>] = t.models[q][mp]
        /\ ~IsReserved(f) /\ ~RestoredSince(d, t, q) => message[k] = Value(t.models, q, f)
    BY <1>10 DEF MessageInv
  <2>2. q \in DOMAIN e.models
    BY <2>1 DEF Told
  <2>3. <<q, mp>> \in DOMAIN new /\ new[<<q, mp>>] = e.models[q][mp]
    <3>1. CASE q \in DOMAIN modified
      BY <1>8, <3>1
    <3>2. CASE q \notin DOMAIN modified
      <4>1. e.models[q] = t.models[q]
        BY <2>2, <3>2 DEF Told
      <4>2. <<q, mp>> \notin DOMAIN fresh
        BY <1>9, <3>2
      <4> QED
        BY <1>2, <2>1, <4>1, <4>2
    <3> QED
      BY <3>1, <3>2
  <2>4. ASSUME ~IsReserved(f), ~RestoredSince(d, e, q) PROVE new[k] = Value(e.models, q, f)
    <3>1. f # mp /\ ~Changed(t.models, e.models, q, f)
      BY <1>6, <1>10, <2>1, <2>4 DEF IsReserved
    <3>2. Value(t.models, q, f) = Value(e.models, q, f)
      BY <3>1 DEF Changed
    <3> QED
      BY <1>2, <1>5, <1>10, <2>1, <2>4, <3>2
  <2> QED
    BY <2>1, <2>2, <2>3, <2>4
<1>11. ASSUME NEW k \in DOMAIN new
       PROVE  /\ k = <<k[1], k[2]>> /\ k[1] \in DOMAIN e.models
              /\ <<k[1], mp>> \in DOMAIN new
              /\ new[<<k[1], mp>>] = e.models[k[1]][mp]
              /\ ~IsReserved(k[2]) /\ ~RestoredSince(d, e, k[1]) =>
                    new[k] = Value(e.models, k[1], k[2])
  <2>1. CASE k \in DOMAIN fresh
    <3>0. PICK q \in DOMAIN modified : \E f \in DOMAIN modified[q] \cup {mp} : k = <<q, f>>
      BY <1>1, <2>1
    <3>1. PICK f \in DOMAIN modified[q] \cup {mp} : k = <<q, f>>
      BY <3>0
    <3>2. k[1] = q /\ k[2] = f
      BY <3>1
    <3>3. ~IsReserved(f) /\ ~RestoredSince(d, e, q) => new[k] = Value(e.models, q, f)
      BY <1>9, <2>1, <3>1
    <3> QED
      BY <1>8, <3>1, <3>2, <3>3
  <2>2. CASE k \notin DOMAIN fresh
    <3>1. k \in DOMAIN message
      BY <1>2, <2>2
    <3> QED
      BY <1>10, <2>2, <3>1
  <2> QED
    BY <2>1, <2>2
<1>12. MessageInv(d, e, new)
  BY <1>7, <1>11 DEF MessageInv
<1>13. DOMAIN new # {}
  BY <1>8 DEF Told
<1> QED
  BY <1>12, <1>13 DEF new, fresh

-----------------------------------------------------------------------------
(* WriterService.write                                                      *)

\* The snapshots of a call are laid over the old ones.
LEMMA OverWith ==
    ASSUME NEW s, NEW p, NEW m, NEW old
    PROVE  Over(With(s, p, m), old) = With(Over(s, old), p, m)
<1> DEFINE a == Over(With(s, p, m), old)
           b == With(Over(s, old), p, m)
<1>1. /\ DOMAIN With(s, p, m) = DOMAIN s \cup {p}
      /\ \A x \in DOMAIN s \cup {p} : With(s, p, m)[x] = IF x = p THEN m ELSE s[x]
  BY DEF With
<1>2. /\ DOMAIN Over(s, old) = DOMAIN s \cup DOMAIN old
      /\ \A x \in DOMAIN s \cup DOMAIN old :
            Over(s, old)[x] = IF x \in DOMAIN s THEN s[x] ELSE old[x]
  BY DEF Over
<1>3. /\ a = [x \in DOMAIN With(s, p, m) \cup DOMAIN old |->
                 IF x \in DOMAIN With(s, p, m) THEN With(s, p, m)[x] ELSE old[x]]
      /\ b = [x \in DOMAIN Over(s, old) \cup {p} |-> IF x = p THEN m ELSE Over(s, old)[x]]
  BY DEF With, Over
<1>4. DOMAIN With(s, p, m) \cup DOMAIN old = DOMAIN Over(s, old) \cup {p}
  BY <1>1, <1>2
<1>5. ASSUME NEW x \in DOMAIN Over(s, old) \cup {p}
      PROVE  (IF x \in DOMAIN With(s, p, m) THEN With(s, p, m)[x] ELSE old[x])
                = (IF x = p THEN m ELSE Over(s, old)[x])
  BY <1>1, <1>2
<1> QED
  BY <1>3, <1>4, <1>5

\* The invariant of the snapshots is about their values only.
LEMMA SameSnaps ==
    ASSUME NEW t, NEW a, NEW b, NEW trim, DOMAIN a = DOMAIN b,
           \A x \in DOMAIN a : a[x] = b[x], ChangeInv(t, a, trim)
    PROVE  ChangeInv(t, b, trim)
<1>1. \A r \in DOMAIN a \cup {0} : Before(a, r) = Before(b, r)
  BY DEF Before
<1>2. DOMAIN b = DOMAIN t.positions
  BY DEF ChangeInv
<1>3. ASSUME NEW r, Newest(b, r) PROVE SameHistory(Before(b, r), t.models)
  <2>1. Newest(a, r) /\ r \in DOMAIN a \cup {0}
    BY <1>3 DEF Newest
  <2> QED
    BY <1>1, <2>1 DEF ChangeInv
<1>4. ASSUME NEW p \in DOMAIN b, NEW r, p >= trim, Previous(b, p, r),
             NEW q, NEW f, HasHistory(q), Changed(Before(b, r), b[p], q, f)
      PROVE  Noted(t, q, p, f)
  <2>1. Previous(a, p, r) /\ r \in DOMAIN a \cup {0}
    BY <1>4 DEF Previous
  <2>2. Changed(Before(a, r), a[p], q, f)
    BY <1>1, <1>4, <2>1
  <2> QED
    BY <1>4, <2>1, <2>2 DEF ChangeInv, NotedInv
<1>5. KeptInv(t, b)
  BY DEF ChangeInv, KeptInv
<1> QED
  BY <1>2, <1>3, <1>4, <1>5 DEF ChangeInv, NotedInv

\* What the requests of a call so far, which began with tables d and snapshots old, tell.
ChangeWritten(d, old, trim, acc) ==
    acc.error = "ok" =>
        /\ ChangeInv(acc.db, Over(acc.snapshots, old), trim)
        /\ MessageInv(d, acc.db, acc.message)
        /\ DOMAIN acc.snapshots # {} => DOMAIN acc.message # {}
        /\ \A x \in DOMAIN acc.snapshots : x > d.position_seq

\* One more request.
LEMMA WriteNextTells ==
    ASSUME NEW d, TableInv(d), NEW old, NEW trim, NEW acc, TableInv(acc.db),
           d.position_seq <= acc.db.position_seq, ChangeWritten(d, old, trim, acc),
           NEW request, GoodRequest(request), request.events # <<>>
    PROVE  ChangeWritten(d, old, trim, WriteNext(acc, request))
<1> DEFINE b == acc.db
           r == WriteWithDatabaseContext(b, request)
           new == WriteNext(acc, request)
<1>1. CASE acc.error # "ok"
  BY <1>1 DEF WriteNext
<1>2. CASE acc.error = "ok" /\ r.error # "ok"
  <2>1. new.error # "ok"
    BY <1>2 DEF WriteNext
  <2> HIDE DEF new
  <2>2. ChangeWritten(d, old, trim, new)
    BY <2>1 DEF ChangeWritten
  <2> QED
    BY <2>2 DEF new
<1>3. CASE acc.error = "ok" /\ r.error = "ok"
  <2> DEFINE e == r.db
             p == r.position
             modified == r.modified
             snaps == Over(acc.snapshots, old)
             message == Merge(ModifiedFqfields(modified, p), acc.message)
  <2>1. /\ new.db = e /\ new.error = "ok" /\ new.message = message
        /\ new.snapshots = With(acc.snapshots, p, e.models)
    BY <1>3 DEF WriteNext
  <2>2. /\ ChangeInv(b, snaps, trim) /\ MessageInv(d, b, acc.message) /\ TableInv(b)
        /\ d.position_seq <= b.position_seq
    BY <1>3 DEF ChangeWritten
  <2>3. MigrationIndexError(b, request) = "ok" /\ LocksHold(b, request)
    BY <1>3 DEF WriteWithDatabaseContext, Failed
  <2> DEFINE index == IndexFor(b, request)
             i == InsertEvents(b, index, request)
  <2>4. r = i
    BY <2>3 DEF WriteWithDatabaseContext, IndexFor
  <2>5. index \in Int /\ \A x \in DOMAIN b.positions : b.positions[x].migration_index = index
    BY <2>2, <2>3, IndexForFits
  <2>6. GoodEvents(request.events)
    BY DEF GoodRequest
  <2> HIDE DEF index, b, r, snaps
  <2>7. LET j == InsertEvents(b, index, request)
        IN  Inserted(b, j.db, j.error, j.position)
    BY <2>2, <2>5, <2>6, InsertEventsKeeps
  <2>8. LET j == InsertEvents(b, index, request)
        IN  j.error = "ok" => Told(b, j.db, j.position, j.modified)
    BY <2>2, <2>6, InsertEventsTell
  <2>9. Inserted(b, e, "ok", p) /\ Told(b, e, p, modified)
    BY <1>3, <2>4, <2>7, <2>8
  <2> HIDE DEF e, p, modified, i, new
  <2>10. /\ TableInv(e) /\ p = b.position_seq + 1
         /\ DOMAIN e.positions = DOMAIN b.positions \cup {p}
    BY <2>9 DEF Inserted
  <2>11. ChangeInv(e, With(snaps, p, e.models), trim)
    BY <2>2, <2>9, <2>10, InsertNotes
  <2>12. LET m == Merge(ModifiedFqfields(modified, p), acc.message)
         IN  MessageInv(d, e, m) /\ DOMAIN m # {}
    BY <2>2, <2>9, <2>10, InsertAnnounces
  <2>13. Over(With(acc.snapshots, p, e.models), old) = With(snaps, p, e.models)
    BY OverWith DEF snaps
  <2>14. ChangeInv(new.db, Over(new.snapshots, old), trim)
    BY <2>1, <2>11, <2>13
  <2>15. MessageInv(d, new.db, new.message) /\ DOMAIN new.message # {}
    BY <2>1, <2>12
  <2>16. \A x \in DOMAIN new.snapshots : x > d.position_seq
    <3>1. \A x \in DOMAIN acc.snapshots : x > d.position_seq
      BY <1>3 DEF ChangeWritten
    <3>2. d.position_seq \in Int /\ b.position_seq \in Int
      BY <2>2 DEF TableInv, PositionInv
    <3>3. p > d.position_seq
      BY <2>2, <2>10, <3>2
    <3> QED
      BY <2>1, <3>1, <3>3 DEF With
  <2>17. ChangeWritten(d, old, trim, new)
    BY <2>14, <2>15, <2>16 DEF ChangeWritten
  <2> QED
    BY <2>17 DEF new
<1> QED
  BY <1>1, <1>2, <1>3

\* The requests of one call.
LEMMA TransactionTells ==
    ASSUME NEW d, TableInv(d), NEW old, NEW trim, ChangeInv(d, old, trim),
           NEW requests, GoodRequests(requests),
           \A i \in DOMAIN requests : requests[i].events # <<>>
    PROVE  ChangeWritten(d, old, trim, WriteTransaction(d, requests))
<1> DEFINE N == Len(requests)
           g == CHOOSE g : WriteRun(g, d, requests, N)
<1>1. N \in Nat /\ DOMAIN requests = 1..N
  BY DEF GoodRequests
<1>2. WriteRun(g, d, requests, N)
  BY <1>1, WriteRunExists
<1>3. WriteTransaction(d, requests) = g[N]
  BY DEF WriteTransaction, WriteRun, StartOf
<1> HIDE DEF g, N
<1> DEFINE Ok(n) == Written(d, g[n], n) /\ ChangeWritten(d, old, trim, g[n])
           S == {n \in 0..N : Ok(n)}
<1>4. Ok(0)
  <2>1. g[0] = StartOf(d)
    BY <1>1, <1>2 DEF WriteRun
  <2>2. /\ g[0].db = d /\ DOMAIN g[0].snapshots = {} /\ DOMAIN g[0].message = {}
    BY <2>1 DEF StartOf
  <2>3. d.position_seq \in Nat /\ Grows(d, d)
    BY DEF TableInv, PositionInv, IdInv, Grows
  <2>4. Written(d, g[0], 0)
    BY <2>2, <2>3 DEF Written
  <2> DEFINE now == Over(g[0].snapshots, old)
  <2>5. DOMAIN old = DOMAIN now /\ \A x \in DOMAIN old : old[x] = now[x]
    BY <2>2 DEF Over
  <2> HIDE DEF now
  <2>6. ChangeInv(d, now, trim)
    BY <2>5, SameSnaps
  <2>7. MessageInv(d, d, g[0].message)
    BY <2>2 DEF MessageInv, Changed
  <2> QED
    BY <2>2, <2>4, <2>6, <2>7 DEF ChangeWritten, now
<1>5. ASSUME NEW n \in 1..N, Ok(n - 1) PROVE Ok(n)
  <2> DEFINE a == g[n - 1]
             request == requests[n]
  <2>1. n \in DOMAIN requests /\ g[n] = WriteNext(a, request)
    BY <1>1, <1>2 DEF WriteRun
  <2>2. n - 1 \in Nat /\ (n - 1) + 1 = n
    BY <1>1
  <2>3. GoodRequest(request) /\ request.events # <<>>
    BY <2>1 DEF GoodRequests
  <2>4. /\ Written(d, a, n - 1) /\ ChangeWritten(d, old, trim, a) /\ TableInv(a.db)
        /\ d.position_seq <= a.db.position_seq
    BY <1>5 DEF Written
  <2> HIDE DEF a, request, Ok
  <2>5. Written(d, WriteNext(a, request), (n - 1) + 1)
    BY <2>2, <2>3, <2>4, WriteNextKeeps
  <2>6. ChangeWritten(d, old, trim, WriteNext(a, request))
    BY <2>3, <2>4, WriteNextTells
  <2> QED
    BY <2>1, <2>2, <2>5, <2>6 DEF Ok
<1> HIDE DEF Ok
<1>6. 0 \in S /\ \A n \in 1..N : n - 1 \in S => n \in S
  BY <1>1, <1>4, <1>5
<1>7. Ok(N)
  <2>1. \A n \in 0..N : n \in S
    <3> HIDE DEF S
    <3> QED
      BY <1>1, <1>6, Turns
  <2> QED
    BY <1>1, <2>1
<1> QED
  BY <1>3, <1>7 DEF Ok

-----------------------------------------------------------------------------
(* The operations                                                           *)

\* The inductive invariant of the changes.
ChangesInv == StoreInv /\ trimmed \in Int /\ ChangeInv(db, snapshots, trimmed)

\* What an operation leaves that writes no events and touches no model with history.
Quiet(t, e) ==
    /\ DOMAIN e.positions = DOMAIN t.positions /\ e.events = t.events
    /\ e.collectionfields = t.collectionfields
    /\ e.events_to_collectionfields = t.events_to_collectionfields
    /\ \A q \in DOMAIN t.models : HasHistory(q) => q \in DOMAIN e.models
    /\ \A q \in DOMAIN e.models : HasHistory(q) =>
          q \in DOMAIN t.models /\ e.models[q] = t.models[q]

\* Such an operation keeps the invariant.
LEMMA QuietTells ==
    ASSUME NEW t, NEW e, Quiet(t, e), NEW snaps, NEW trim, ChangeInv(t, snaps, trim)
    PROVE  ChangeInv(e, snaps, trim)
<1>1. DOMAIN snaps = DOMAIN e.positions
  BY DEF ChangeInv, Quiet
<1>2. ASSUME NEW r, Newest(snaps, r) PROVE SameHistory(Before(snaps, r), e.models)
  <2>1. SameHistory(Before(snaps, r), t.models)
    BY <1>2 DEF ChangeInv
  <2> QED
    BY <2>1 DEF SameHistory, Quiet
<1>3. \A q, p, f : Noted(t, q, p, f) => Noted(e, q, p, f)
  BY DEF Noted, Quiet
<1>4. NotedInv(e, snaps, trim)
  BY <1>3 DEF ChangeInv, NotedInv
<1>5. KeptInv(e, snaps)
  BY DEF ChangeInv, KeptInv, Quiet
<1>6. FieldInv(e)
  BY DEF ChangeInv, FieldInv, Linked, Quiet
<1>7. NewestInv(e)
  BY DEF ChangeInv, NewestInv, Quiet
<1> QED
  BY <1>1, <1>2, <1>4, <1>5, <1>6, <1>7 DEF ChangeInv

\* write, rolled back, reserve_ids, write_without_events and delete_history_information.
LEMMA QuietOperations ==
    ASSUME StoreInv,
           \/ \E requests : WriteRejected(requests)
           \/ \E c, amount : ReserveIds(c, amount)
           \/ \E event \in EventlessUpdates : WriteWithoutEvents(event)
           \/ \E fqids \in EventlessDeletes : DeleteWithoutEvents(fqids)
           \/ DeleteHistoryInformation
    PROVE  Quiet(db, db') /\ UNCHANGED <<snapshots, trimmed>>
<1>1. DOMAIN db = Tables
  BY DEF StoreInv, TableInv
<1>2. ASSUME NEW requests, WriteRejected(requests)
      PROVE  Quiet(db, db') /\ UNCHANGED <<snapshots, trimmed>>
  <2>1. PICK x : db' = [db EXCEPT !.position_seq = x]
    BY <1>2 DEF WriteRejected
  <2> QED
    BY <1>1, <1>2, <2>1 DEF Tables, WriteRejected, Quiet
<1>3. ASSUME NEW c, NEW amount, ReserveIds(c, amount)
      PROVE  Quiet(db, db') /\ UNCHANGED <<snapshots, trimmed>>
  <2>1. PICK x : db' = [db EXCEPT !.id_sequences = x]
    BY <1>3 DEF ReserveIds
  <2> QED
    BY <1>1, <1>3, <2>1 DEF Tables, ReserveIds, Quiet
<1>4. ASSUME \/ \E event \in EventlessUpdates : WriteWithoutEvents(event)
             \/ \E fqids \in EventlessDeletes : DeleteWithoutEvents(fqids)
      PROVE  Quiet(db, db') /\ UNCHANGED <<snapshots, trimmed>>
  <2>1. PICK models :
           /\ db' = [db EXCEPT !.models = models] /\ UNCHANGED <<snapshots, trimmed>>
           /\ \A q \in DOMAIN db.models : HasHistory(q) => q \in DOMAIN models
           /\ \A q \in DOMAIN models : HasHistory(q) =>
                 q \in DOMAIN db.models /\ models[q] = db.models[q]
    BY <1>4, EventlessModels
  <2>2. /\ db'.models = models /\ db'.positions = db.positions /\ db'.events = db.events
        /\ db'.collectionfields = db.collectionfields
        /\ db'.events_to_collectionfields = db.events_to_collectionfields
    BY <1>1, <2>1 DEF Tables
  <2> QED
    BY <2>1, <2>2 DEF Quiet
<1>5. ASSUME DeleteHistoryInformation
      PROVE  Quiet(db, db') /\ UNCHANGED <<snapshots, trimmed>>
  <2> DEFINE rows == [p \in DOMAIN db.positions |->
                         [db.positions[p] EXCEPT !.information = None]]
  <2>1. db' = [db EXCEPT !.positions = rows] /\ UNCHANGED <<snapshots, trimmed>>
    BY <1>5 DEF DeleteHistoryInformation
  <2>2. DOMAIN rows = DOMAIN db.positions
    OBVIOUS
  <2> HIDE DEF rows
  <2>3. /\ db'.models = db.models /\ db'.positions = rows /\ db'.events = db.events
        /\ db'.collectionfields = db.collectionfields
        /\ db'.events_to_collectionfields = db.events_to_collectionfields
    BY <1>1, <2>1 DEF Tables
  <2> QED
    BY <2>1, <2>2, <2>3 DEF Quiet
<1> QED
  BY <1>2, <1>3, <1>4, <1>5

\* What an accepted call of write leaves, and what it announces.
LEMMA WriteTells ==
    ASSUME ChangesInv, NEW requests, GoodRequests(requests), Write(requests)
    PROVE  /\ ChangeInv(db', snapshots', trimmed')
           /\ \A x \in DOMAIN snapshots : x \in DOMAIN snapshots' /\ snapshots'[x] = snapshots[x]
           /\ \E message :
                /\ MessageInv(db, db', message) /\ stream' = Xadd(stream, message)
                /\ NewPositions # {} => DOMAIN message # {}
<1> DEFINE t == WriteTransaction(db, requests)
<1>1. /\ WriteFits(requests) /\ t.error = "ok" /\ db' = t.db
      /\ stream' = Xadd(stream, t.message)
      /\ snapshots' = Over(t.snapshots, snapshots) /\ trimmed' = trimmed
  BY DEF Write
<1>2. GoodRequests(requests)
  OBVIOUS
<1>3. \A i \in DOMAIN requests : requests[i].events # <<>>
  BY <1>1 DEF WriteFits, WellFormed
<1>4. TableInv(db) /\ ChangeInv(db, snapshots, trimmed)
  BY DEF ChangesInv, StoreInv
<1>5. ChangeWritten(db, snapshots, trimmed, t)
  BY <1>2, <1>3, <1>4, TransactionTells
<1>6. Written(db, t, Len(requests))
  BY <1>2, <1>4, TransactionKeeps
<1> HIDE DEF t
<1>7. /\ ChangeInv(db', snapshots', trimmed') /\ MessageInv(db, db', t.message)
      /\ DOMAIN t.snapshots # {} => DOMAIN t.message # {}
  BY <1>1, <1>5 DEF ChangeWritten
<1>8. NewPositions # {} => DOMAIN t.snapshots # {}
  BY <1>1, <1>6 DEF Written, NewPositions
<1>9. ASSUME NEW x \in DOMAIN snapshots
      PROVE  x \in DOMAIN snapshots' /\ snapshots'[x] = snapshots[x]
  <2>1. x \in Int /\ db.position_seq \in Int /\ x <= db.position_seq
    BY DEF ChangesInv, StoreInv, TableInv, PositionInv, ChangeInv
  <2>2. \A y \in DOMAIN t.snapshots : y > db.position_seq
    BY <1>1, <1>5 DEF ChangeWritten
  <2>3. x \notin DOMAIN t.snapshots
    BY <2>1, <2>2
  <2> QED
    BY <1>1, <2>3 DEF Over
<1> QED
  BY <1>1, <1>7, <1>8, <1>9

\* There is a newest position below any other.
LEMMA MaxOfBounded ==
    ASSUME NEW n \in Nat, NEW S, S # {}, S \subseteq 0..n
    PROVE  Max(S) \in S /\ Max(S) \in Nat /\ \A x \in S : x <= Max(S)
<1> DEFINE f == [i \in 1..(n + 1) |-> i - 1]
<1>1. n + 1 \in Nat /\ \A i \in 1..(n + 1) : f[i] \in Nat
  OBVIOUS
<1>2. ASSUME NEW x \in S PROVE \E i \in 1..(n + 1) : x = f[i]
  <2>1. x \in 0..n /\ x + 1 \in 1..(n + 1) /\ f[x + 1] = x
    OBVIOUS
  <2> QED
    BY <2>1
<1> HIDE DEF f
<1> QED
  BY <1>1, <1>2, MaxOfValues

\* The thresholds that the trimming script is tried with are numbers.
LEMMA ThresholdIsInt ==
    ASSUME StoreInv, NEW threshold \in DOMAIN db.positions \cup {MaxOfPositions(db) + 1}
    PROVE  threshold \in Int
<1>1. db.position_seq \in Nat /\ DOMAIN db.positions \subseteq 1..db.position_seq
  BY DEF StoreInv, TableInv, PositionInv
<1>2. MaxOfPositions(db) \in Int
  <2>1. CASE DOMAIN db.positions # {}
    <3> DEFINE n == db.position_seq
               S == DOMAIN db.positions
    <3>1. n \in Nat /\ S # {} /\ S \subseteq 0..n
      BY <1>1, <2>1
    <3> HIDE DEF n, S
    <3>2. Max(S) \in Nat
      BY <3>1, MaxOfBounded
    <3> QED
      BY <3>1, <3>2 DEF MaxOfPositions, S
  <2>2. CASE DOMAIN db.positions = {}
    BY <2>2 DEF MaxOfPositions
  <2> QED
    BY <2>1, <2>2
<1> QED
  BY <1>1, <1>2

\* cli/trim_collectionfield_tables.py: what is noted of the threshold and after it stays.
LEMMA TrimTells ==
    ASSUME ChangesInv, NEW threshold \in DOMAIN db.positions \cup {MaxOfPositions(db) + 1},
           TrimCollectionfieldTables(threshold)
    PROVE  trimmed' \in Int /\ ChangeInv(db', snapshots', trimmed')
<1> DEFINE d == db
           e == db'
           kept == {cf \in DOMAIN d.collectionfields : d.collectionfields[cf] >= threshold}
           fields == [cf \in kept |-> d.collectionfields[cf]]
           links == {r \in d.events_to_collectionfields : r[2] \in kept /\ r[1][1] >= threshold}
<1>1. /\ threshold > trimmed /\ trimmed' = threshold /\ snapshots' = snapshots
      /\ e = [d EXCEPT !.collectionfields = fields, !.events_to_collectionfields = links]
  BY DEF TrimCollectionfieldTables
<1>2. threshold \in Int /\ trimmed \in Int
  BY ThresholdIsInt DEF ChangesInv
<1>3. TableInv(d) /\ ChangeInv(d, snapshots, trimmed)
  BY DEF ChangesInv, StoreInv
<1>4. DOMAIN fields = kept /\ \A cf \in kept : fields[cf] = d.collectionfields[cf]
  OBVIOUS
<1>5. ASSUME NEW p, NEW w, NEW cf \in kept, p >= threshold,
             <<<<p, w>>, cf>> \in d.events_to_collectionfields
      PROVE  <<<<p, w>>, cf>> \in links
  <2>1. <<<<p, w>>, cf>>[2] = cf /\ <<<<p, w>>, cf>>[1][1] = p
    OBVIOUS
  <2> HIDE DEF kept
  <2> QED
    BY <1>5, <2>1
<1>6. \A cf \in DOMAIN d.collectionfields : d.collectionfields[cf] >= threshold => cf \in kept
  OBVIOUS
<1> HIDE DEF d, kept, fields, links
<1>7. /\ e.collectionfields = fields /\ e.events_to_collectionfields = links
      /\ e.positions = d.positions /\ e.events = d.events /\ e.models = d.models
  BY <1>1, <1>3 DEF TableInv, Tables
<1> HIDE DEF e
<1>8. ASSUME NEW q, NEW p \in Int, NEW f, p >= threshold, Noted(d, q, p, f)
      PROVE  Noted(e, q, p, f)
  <2> DEFINE cf == CollectionfieldOf(q, f)
  <2>1. cf \in DOMAIN d.collectionfields /\ d.collectionfields[cf] >= p
    BY <1>8 DEF Noted
  <2>2. PICK i \in DOMAIN d.events :
           /\ d.events[i].fqid = q /\ d.events[i].position = p
           /\ <<<<p, d.events[i].weight>>, cf>> \in d.events_to_collectionfields
    BY <1>8 DEF Noted
  <2> HIDE DEF cf
  <2>3. d.collectionfields[cf] \in Int
    <3>1. d.collectionfields[cf] \in DOMAIN d.positions
      BY <1>3, <2>1 DEF TableInv, RowInv
    <3> QED
      BY <1>3, <3>1 DEF TableInv, PositionInv
  <2>4. cf \in kept
    <3>1. d.collectionfields[cf] >= threshold
      BY <1>2, <1>8, <2>1, <2>3
    <3> QED
      BY <1>6, <2>1, <3>1
  <2>5. cf \in DOMAIN e.collectionfields /\ e.collectionfields[cf] >= p
    BY <1>4, <1>7, <2>1, <2>4
  <2>6. <<<<p, d.events[i].weight>>, cf>> \in e.events_to_collectionfields
    BY <1>5, <1>7, <1>8, <2>2, <2>4
  <2> QED
    BY <1>7, <2>2, <2>5, <2>6 DEF Noted, cf
<1>9. \A p \in DOMAIN snapshots : p \in Int
  BY <1>3 DEF ChangeInv, TableInv, PositionInv
<1>10. ASSUME NEW p \in DOMAIN snapshots, NEW r, p >= threshold, Previous(snapshots, p, r),
              NEW q, NEW f, HasHistory(q), Changed(Before(snapshots, r), snapshots[p], q, f)
       PROVE  Noted(e, q, p, f)
  <2>1. p \in Int /\ p >= trimmed
    BY <1>1, <1>2, <1>9, <1>10
  <2>2. Noted(d, q, p, f)
    BY <1>3, <1>10, <2>1 DEF ChangeInv, NotedInv
  <2> QED
    BY <1>8, <1>10, <2>1, <2>2
<1>11. NotedInv(e, snapshots, threshold)
  BY <1>10 DEF NotedInv
<1>12. KeptInv(e, snapshots)
  BY <1>3, <1>7 DEF ChangeInv, KeptInv
<1>13. ASSUME NEW cf \in DOMAIN e.collectionfields PROVE Linked(e, cf, e.collectionfields[cf])
  <2> DEFINE p == d.collectionfields[cf]
  <2>1. cf \in kept /\ cf \in DOMAIN d.collectionfields /\ p >= threshold
        /\ e.collectionfields[cf] = p
    BY <1>4, <1>7 DEF kept
  <2>2. Linked(d, cf, p)
    BY <1>3, <2>1 DEF ChangeInv, FieldInv
  <2> HIDE DEF p
  <2>3. PICK i \in DOMAIN d.events :
           /\ d.events[i].position = p
           /\ <<<<p, d.events[i].weight>>, cf>> \in d.events_to_collectionfields
    BY <2>2 DEF Linked
  <2>4. <<<<p, d.events[i].weight>>, cf>> \in e.events_to_collectionfields
    BY <1>5, <1>7, <2>1, <2>3
  <2> QED
    BY <1>7, <2>1, <2>3, <2>4 DEF Linked
<1>14. NewestInv(e)
  BY <1>3, <1>7 DEF ChangeInv, NewestInv
<1>15. ChangeInv(e, snapshots, threshold)
  BY <1>3, <1>7, <1>11, <1>12, <1>13, <1>14 DEF ChangeInv, FieldInv
<1> QED
  BY <1>1, <1>2, <1>15 DEF e

\* The empty tables, at the start and after truncate_db.
LEMMA EmptyTells == ChangeInv(EmptyDb, <<>>, 0)
<1>1. DOMAIN EmptyDb.positions = {} /\ EmptyDb.models = <<>> /\ DOMAIN <<>> = {}
  BY DEF EmptyDb
<1>2. \A r : Newest(<<>>, r) => Before(<<>>, r) = <<>>
  BY <1>1 DEF Newest, Before
<1>3. SameHistory(<<>>, <<>>)
  BY DEF SameHistory
<1>4. NotedInv(EmptyDb, <<>>, 0)
  BY <1>1 DEF NotedInv
<1>5. KeptInv(EmptyDb, <<>>)
  BY <1>1 DEF KeptInv
<1>6. FieldInv(EmptyDb)
  BY DEF FieldInv, EmptyDb
<1>7. NewestInv(EmptyDb)
  BY <1>1 DEF NewestInv, EmptyDb
<1> QED
  BY <1>1, <1>2, <1>3, <1>4, <1>5, <1>6, <1>7 DEF ChangeInv

\* Every operation of the writer keeps the invariant.
LEMMA ChangesStep == ChangesInv /\ [Next]_vars => ChangesInv'
<1> SUFFICES ASSUME ChangesInv, [Next]_vars PROVE ChangesInv'
  OBVIOUS
<1>1. StoreInv /\ StoreInv' /\ trimmed \in Int /\ ChangeInv(db, snapshots, trimmed)
  BY StoreStep DEF ChangesInv
<1>2. ASSUME NEW requests \in WriteRequestLists, Write(requests) PROVE ChangesInv'
  <2>1. trimmed' = trimmed
    BY <1>2 DEF Write
  <2>2. GoodRequests(requests)
    BY <1>2, RequestsGood DEF Write
  <2>3. ChangeInv(db', snapshots', trimmed')
    BY <1>2, <2>2, WriteTells
  <2> QED
    BY <1>1, <2>1, <2>3 DEF ChangesInv
<1>3. ASSUME \/ \E requests \in WriteRequestLists : WriteRejected(requests)
             \/ \E c, amount : ReserveIds(c, amount)
             \/ \E event \in EventlessUpdates : WriteWithoutEvents(event)
             \/ \E fqids \in EventlessDeletes : DeleteWithoutEvents(fqids)
             \/ DeleteHistoryInformation
      PROVE  ChangesInv'
  <2>1. Quiet(db, db') /\ UNCHANGED <<snapshots, trimmed>>
    BY <1>1, <1>3, QuietOperations
  <2>2. ChangeInv(db', snapshots, trimmed)
    BY <1>1, <2>1, QuietTells
  <2> QED
    BY <1>1, <2>1, <2>2 DEF ChangesInv
<1>4. CASE TruncateDb
  <2>1. db' = EmptyDb /\ snapshots' = <<>> /\ trimmed' = 0
    BY <1>4 DEF TruncateDb
  <2> QED
    BY <1>1, <2>1, EmptyTells DEF ChangesInv
<1>5. ASSUME NEW threshold \in DOMAIN db.positions \cup {MaxOfPositions(db) + 1},
             TrimCollectionfieldTables(threshold)
      PROVE  ChangesInv'
  <2>1. trimmed' \in Int /\ ChangeInv(db', snapshots', trimmed')
    BY <1>5, TrimTells
  <2> QED
    BY <1>1, <2>1 DEF ChangesInv
<1>6. CASE UNCHANGED vars
  <2>1. db' = db /\ snapshots' = snapshots /\ trimmed' = trimmed
    BY <1>6 DEF vars
  <2>2. trimmed' \in Int /\ ChangeInv(db', snapshots', trimmed')
    BY <1>1, <2>1
  <2> QED
    BY <1>1, <2>2 DEF ChangesInv
<1> QED
  BY <1>2, <1>3, <1>4, <1>5, <1>6 DEF Next

\* The inductive invariant of the changes: the models table agrees, on the models with
\* history, with the snapshot of the newest position; and whatever changed between two
\* neighbouring snapshots above the trimming threshold is noted in the collectionfield
\* tables, with an event of that position and that fqid connected to the collectionfield. The
\* snapshots since the meta_position of a model hold it as it is, no event of a model is
\* newer than its meta_position, and every collectionfield is connected to an event of its
\* position.
THEOREM ChangeInvariant == Spec => []ChangesInv
<1>1. Init => ChangesInv
  <2> SUFFICES ASSUME Init PROVE ChangesInv
    OBVIOUS
  <2>1. db = EmptyDb /\ snapshots = <<>> /\ trimmed = 0
    BY DEF Init
  <2> QED
    BY <2>1, StoreInit, EmptyTells DEF ChangesInv
<1> QED
  BY <1>1, ChangesStep, PTL DEF Spec

\* ChangedFields lists pairs of a model with history and a changed field.
LEMMA ChangedFieldsFacts ==
    ASSUME NEW before, NEW after, NEW k \in ChangedFields(before, after)
    PROVE  k = <<k[1], k[2]>> /\ HasHistory(k[1]) /\ Changed(before, after, k[1], k[2])
<1>1. \/ \E q \in DOMAIN after : k \in {q} \X DOMAIN after[q]
      \/ \E q \in DOMAIN before : k \in {q} \X DOMAIN before[q]
  BY DEF ChangedFields
<1>2. k = <<k[1], k[2]>>
  BY <1>1
<1>3. /\ k[2] # META_POSITION /\ HasHistory(k[1])
      /\ Value(before, k[1], k[2]) # Value(after, k[1], k[2])
  BY DEF ChangedFields
<1> QED
  BY <1>2, <1>3 DEF Changed

\* What is noted is found by the queries of the locker.
LEMMA NotedIsTouched ==
    ASSUME NEW t, NEW q, NEW p, NEW f, Noted(t, q, p, f)
    PROVE  <<q, p, CollectionfieldOf(q, f)>> \in TouchedFields(t)
<1> DEFINE cf == CollectionfieldOf(q, f)
           pairs == {r \in (DOMAIN t.events) \X (DOMAIN t.collectionfields) :
                       <<<<t.events[r[1]].position, t.events[r[1]].weight>>, r[2]>>
                           \in t.events_to_collectionfields}
<1>1. cf \in DOMAIN t.collectionfields
  BY DEF Noted
<1>2. PICK i \in DOMAIN t.events :
         /\ t.events[i].fqid = q /\ t.events[i].position = p
         /\ <<<<p, t.events[i].weight>>, cf>> \in t.events_to_collectionfields
  BY DEF Noted
<1> HIDE DEF cf
<1> DEFINE k == <<i, cf>>
<1>3. k[1] = i /\ k[2] = cf /\ k \in (DOMAIN t.events) \X (DOMAIN t.collectionfields)
  BY <1>1
<1> HIDE DEF k
<1>4. k \in pairs
  BY <1>2, <1>3
<1>5. \A x \in pairs : <<t.events[x[1]].fqid, t.events[x[1]].position, x[2]>> \in TouchedFields(t)
  BY DEF TouchedFields
<1> HIDE DEF pairs
<1>6. <<t.events[k[1]].fqid, t.events[k[1]].position, k[2]>> \in TouchedFields(t)
  BY <1>4, <1>5
<1>7. <<q, p, cf>> \in TouchedFields(t)
  BY <1>2, <1>3, <1>6, Zenon
<1> QED
  BY <1>7 DEF cf

\* The collectionfield tables, against which locks are checked, miss no change since the
\* trimming threshold, for every list of requests and every order of writes, eventless
\* writes, trimmings and truncations: neither the fields an event reports as modified,
\* nor the upsert of their positions, nor the trimming script loses one.
THEOREM LockTablesCompleteHolds == Spec => []LockTablesComplete
<1>1. ChangesInv => LockTablesComplete
  <2> SUFFICES ASSUME ChangesInv PROVE LockTablesComplete
    OBVIOUS
  <2> SUFFICES ASSUME NEW p \in DOMAIN snapshots, p >= trimmed, NEW before,
                      before = IF PreviousPosition(p) = 0 THEN <<>>
                               ELSE snapshots[PreviousPosition(p)],
                      NEW k \in ChangedFields(before, snapshots[p])
               PROVE  LET cf == CollectionfieldOf(k[1], k[2])
                      IN  /\ cf \in DOMAIN db.collectionfields
                          /\ db.collectionfields[cf] >= p
                          /\ <<k[1], p, cf>> \in TouchedFields(db)
    BY DEF LockTablesComplete
  <2> DEFINE q == k[1]
             f == k[2]
             S == {0} \cup {r \in DOMAIN snapshots : r < p}
             r == Max(S)
             n == db.position_seq
  <2>1. n \in Nat /\ \A x \in DOMAIN snapshots : x \in 1..n
    BY DEF ChangesInv, StoreInv, TableInv, PositionInv, ChangeInv
  <2>2. S # {} /\ S \subseteq 0..n /\ \A x \in S : x < p
    <3> HIDE DEF n
    <3> QED
      BY <2>1
  <2>3. PreviousPosition(p) = r
    BY DEF PreviousPosition
  <2>4. r \in S /\ \A x \in S : x <= r
    <3> HIDE DEF S, n
    <3> QED
      BY <2>1, <2>2, MaxOfBounded
  <2> HIDE DEF r, n, q, f
  <2>5. Previous(snapshots, p, r)
    BY <2>2, <2>4 DEF Previous
  <2>6. before = Before(snapshots, r)
    BY <2>3 DEF Before
  <2>7. HasHistory(q) /\ Changed(before, snapshots[p], q, f)
    BY ChangedFieldsFacts DEF q, f
  <2>8. Noted(db, q, p, f)
    <3> HIDE DEF S
    <3> QED
      BY <2>5, <2>6, <2>7 DEF ChangesInv, ChangeInv, NotedInv
  <2>9. <<q, p, CollectionfieldOf(q, f)>> \in TouchedFields(db)
    BY <2>8, NotedIsTouched
  <2> QED
    BY <2>8, <2>9 DEF Noted, q, f
<1> QED
  BY <1>1, ChangeInvariant, PTL

\* The step of BusAnnouncesChanges.
AnnouncesChanges ==
    NewPositions # {} =>
        /\ Len(stream') = Len(stream) + 1
        /\ LET message == Last(stream')
           IN  /\ ChangedFields(db.models, db'.models) \subseteq DOMAIN message
               /\ \A k \in DOMAIN message :
                     k[1] \notin RestoredIn(NewPositions) /\ ~IsReserved(k[2]) =>
                         message[k] = Value(db'.models, k[1], k[2])
               /\ \A q \in {k[1] : k \in DOMAIN message} :
                     message[<<q, META_POSITION>>] = db'.models[q][META_POSITION]

\* A restoration after the tables db is one of a new position.
LEMMA RestoredIsNew ==
    ASSUME StoreInv, StoreInv', NEW q, RestoredSince(db, db', q)
    PROVE  q \in RestoredIn(NewPositions)
<1> DEFINE d == db
           e == db'
           new == DOMAIN e.positions \ DOMAIN d.positions
<1>1. TableInv(d) /\ TableInv(e)
  BY DEF StoreInv
<1>2. PICK i \in DOMAIN e.events :
         /\ e.events[i].type = "restore" /\ e.events[i].fqid = q
         /\ e.events[i].position > d.position_seq
  BY DEF RestoredSince
<1>3. NewPositions = new
  BY DEF NewPositions
<1>4. RestoredIn(new) = {e.events[j].fqid : j \in {x \in DOMAIN e.events :
                            e.events[x].type = "restore" /\ e.events[x].position \in new}}
  BY DEF RestoredIn
<1> HIDE DEF d, e
<1>5. e.events[i].position \in new
  <2>1. /\ e.events[i].position \in DOMAIN e.positions /\ DOMAIN e.positions \subseteq Int
        /\ d.position_seq \in Nat /\ DOMAIN d.positions \subseteq 1..d.position_seq
    BY <1>1 DEF TableInv, RowInv, PositionInv
  <2> QED
    BY <1>2, <2>1
<1> HIDE DEF new
<1>6. q \in RestoredIn(new)
  BY <1>2, <1>4, <1>5
<1> QED
  BY <1>3, <1>6

\* write, accepted.
LEMMA WriteAnnounces ==
    ASSUME ChangesInv, StoreInv', NEW requests \in WriteRequestLists, Write(requests)
    PROVE  AnnouncesChanges
<1> SUFFICES ASSUME NewPositions # {} PROVE AnnouncesChanges
  BY DEF AnnouncesChanges
<1>1. PICK message :
         /\ MessageInv(db, db', message) /\ stream' = Xadd(stream, message)
         /\ DOMAIN message # {}
  <2>1. GoodRequests(requests)
    BY RequestsGood DEF Write
  <2> QED
    BY <2>1, WriteTells
<1>2. stream' = Append(stream, message)
  BY <1>1 DEF Xadd
<1>3. Len(stream') = Len(stream) + 1 /\ stream'[Len(stream) + 1] = message
  BY <1>2, AppendFacts DEF ChangesInv, StoreInv, BookInv
<1>4. Last(stream') = message
  BY <1>3 DEF Last
<1>5. ChangedFields(db.models, db'.models) \subseteq DOMAIN message
  <2> SUFFICES ASSUME NEW k \in ChangedFields(db.models, db'.models) PROVE k \in DOMAIN message
    OBVIOUS
  <2>1. k = <<k[1], k[2]>> /\ Changed(db.models, db'.models, k[1], k[2])
    BY ChangedFieldsFacts
  <2>2. <<k[1], k[2]>> \in DOMAIN message
    BY <1>1, <2>1 DEF MessageInv
  <2> QED
    BY <2>1, <2>2, Zenon
<1>6. ASSUME NEW k \in DOMAIN message, k[1] \notin RestoredIn(NewPositions), ~IsReserved(k[2])
      PROVE  message[k] = Value(db'.models, k[1], k[2])
  <2>1. ~RestoredSince(db, db', k[1])
    BY <1>6, RestoredIsNew DEF ChangesInv
  <2> QED
    BY <1>1, <1>6, <2>1 DEF MessageInv
<1>7. ASSUME NEW k \in DOMAIN message
      PROVE  message[<<k[1], META_POSITION>>] = db'.models[k[1]][META_POSITION]
  BY <1>1 DEF MessageInv
<1> QED
  BY <1>3, <1>4, <1>5, <1>6, <1>7 DEF AnnouncesChanges

\* A successful write sends one message that announces every field whose stored value
\* changed over all the requests of the call, with the value a reader sees afterwards and
\* the position of the model, for every list of requests: however the requests of a call
\* overwrite, delete and recreate each other's fields. Only the fields of models that the
\* call restores are announced without their values.
THEOREM BusAnnouncesChangesHolds == Spec => BusAnnouncesChanges
<1>1. ChangesInv /\ ChangesInv' /\ [Next]_vars => [AnnouncesChanges]_vars
  <2> SUFFICES ASSUME ChangesInv, ChangesInv', Next PROVE AnnouncesChanges
    OBVIOUS
  <2>1. StoreInv /\ StoreInv'
    BY DEF ChangesInv
  <2>2. ASSUME NEW requests \in WriteRequestLists, Write(requests) PROVE AnnouncesChanges
    BY <2>1, <2>2, WriteAnnounces
  <2>3. ASSUME \/ \E requests \in WriteRequestLists : WriteRejected(requests)
               \/ \E c, amount : ReserveIds(c, amount)
               \/ \E event \in EventlessUpdates : WriteWithoutEvents(event)
               \/ \E fqids \in EventlessDeletes : DeleteWithoutEvents(fqids)
               \/ DeleteHistoryInformation
        PROVE  AnnouncesChanges
    <3>1. DOMAIN db'.positions = DOMAIN db.positions
      BY <2>1, <2>3, QuietOperations DEF Quiet
    <3>2. NewPositions = {}
      BY <3>1 DEF NewPositions
    <3> QED
      BY <3>2 DEF AnnouncesChanges
  <2>4. CASE TruncateDb
    <3>1. DOMAIN db'.positions = {}
      BY <2>4, EmptyKeeps DEF TruncateDb
    <3>2. NewPositions = {}
      BY <3>1 DEF NewPositions
    <3> QED
      BY <3>2 DEF AnnouncesChanges
  <2>5. ASSUME NEW threshold, TrimCollectionfieldTables(threshold) PROVE AnnouncesChanges
    <3>1. PICK x, y : db' = [db EXCEPT !.collectionfields = x, !.events_to_collectionfields = y]
      BY <2>5 DEF TrimCollectionfieldTables
    <3>2. db'.positions = db.positions
      BY <2>1, <3>1 DEF StoreInv, TableInv, Tables
    <3>3. NewPositions = {}
      BY <3>2 DEF NewPositions
    <3> QED
      BY <3>3 DEF AnnouncesChanges
  <2> QED
    BY <2>2, <2>3, <2>4, <2>5 DEF Next
<1>2. Spec => [][AnnouncesChanges]_vars
  BY <1>1, ChangeInvariant, PTL DEF Spec
<1> QED
  BY <1>2, PTL DEF BusAnnouncesChanges, AnnouncesChanges

=============================================================================
