-------------------------- MODULE EventStore_proofs --------------------------
(***************************************************************************)
(* What the transactions of the writer keep in the tables, for any         *)
(* requests and any number of positions: the loops over the requests of a  *)
(* call, over the events of a request and over the database events of an   *)
(* event are followed by induction.                                        *)
(***************************************************************************)
EXTENDS EventStore, FiniteSetTheorems, NaturalsInduction, WellFoundedInduction, TLAPS

-----------------------------------------------------------------------------
(* Induction, sequences and maxima                                          *)

\* A loop that goes wrong has a first turn at which it does.
LEMMA LeastNat ==
    ASSUME NEW T \in SUBSET Nat, T # {}
    PROVE  \E m \in T : \A k \in T : ~(k < m)
<1> DEFINE R == OpToRel(<, Nat)
<1>1. IsWellFoundedOn(R, Nat)
  BY NatLessThanWellFounded
<1>2. \A k, m \in Nat : k < m => <<k, m>> \in R
  BY DEF OpToRel
<1> HIDE DEF R
<1>3. T \subseteq Nat /\ T # {}
  OBVIOUS
<1>4. \E m \in T : \A k \in T : ~(<<k, m>> \in R)
  BY <1>1, <1>3, WFMin, Zenon
<1> QED
  BY <1>2, <1>3, <1>4

\* The ids that a call creates have a greatest one, as max() in insert_events supposes.
LEMMA MaxOfValues ==
    ASSUME NEW n \in Nat, NEW f, \A i \in 1..n : f[i] \in Nat,
           NEW S, S # {}, \A x \in S : \E i \in 1..n : x = f[i]
    PROVE  Max(S) \in S /\ Max(S) \in Nat /\ \A x \in S : x <= Max(S)
<1>1. \A m \in 0..n : \E b \in Nat : \A i \in 1..m : f[i] <= b
  <2> DEFINE T == {m \in 0..n : ~ \E b \in Nat : \A i \in 1..m : f[i] <= b}
  <2> SUFFICES ASSUME T # {} PROVE FALSE
    OBVIOUS
  <2>1. T \in SUBSET Nat
    OBVIOUS
  <2>2. PICK m \in T : \A k \in T : ~(k < m)
    <3> HIDE DEF T
    <3> QED
      BY <2>1, LeastNat
  <2>3. m # 0
    <3>1. \A i \in 1..0 : f[i] <= 0
      OBVIOUS
    <3> QED
      BY <3>1
  <2>4. m - 1 \in 0..n /\ m - 1 \notin T
    <3>1. m \in 0..n
      OBVIOUS
    <3>2. m - 1 \in 0..n /\ m - 1 < m
      BY <2>3, <3>1
    <3> HIDE DEF T
    <3> QED
      BY <2>2, <3>2
  <2>5. PICK b \in Nat : \A i \in 1..(m - 1) : f[i] <= b
    BY <2>4
  <2>6. f[m] \in Nat
    BY <2>3
  <2>7. \A i \in 1..m : f[i] <= b + f[m]
    <3> SUFFICES ASSUME NEW i \in 1..m PROVE f[i] <= b + f[m]
      OBVIOUS
    <3>1. f[i] \in Nat
      OBVIOUS
    <3>2. CASE i = m
      BY <2>6, <3>2
    <3>3. CASE i # m
      BY <2>5, <2>6, <3>1, <3>3
    <3> QED
      BY <3>2, <3>3
  <2>8. b + f[m] \in Nat
    BY <2>6
  <2> QED
    BY <2>7, <2>8
<1>2. PICK b \in Nat : \A i \in 1..n : f[i] <= b
  <2>1. n \in 0..n
    OBVIOUS
  <2> QED
    BY <1>1, <2>1
<1>3. S \in SUBSET Nat /\ \A x \in S : x <= b
  BY <1>2
<1> DEFINE T == {k \in Nat : \A x \in S : x <= k}
<1>4. T \in SUBSET Nat /\ T # {}
  BY <1>3
<1>5. PICK k \in T : \A m \in T : ~(m < k)
  <2> HIDE DEF T
  <2> QED
    BY <1>4, LeastNat
<1>6. k \in Nat /\ \A x \in S : x <= k
  BY <1>5
<1>7. k \in S
  <2> SUFFICES ASSUME k \notin S PROVE FALSE
    OBVIOUS
  <2>1. \A x \in S : x <= k - 1
    BY <1>3, <1>6
  <2>2. k - 1 \in Nat
    <3>1. PICK x \in S : TRUE
      OBVIOUS
    <3> QED
      BY <1>3, <1>6, <2>1
  <2> QED
    BY <1>5, <1>6, <2>1, <2>2
<1>8. \E x \in S : \A y \in S : x >= y
  BY <1>3, <1>6, <1>7
<1>9. Max(S) \in S /\ \A y \in S : Max(S) >= y
  BY <1>8 DEF Max
<1> QED
  BY <1>3, <1>9

\* Lists of rows that grow by one ...
LEMMA AppendFacts ==
    ASSUME NEW s, s \in Seq(ToSet(s)), NEW e
    PROVE  LET t == Append(s, e)
           IN  /\ t \in Seq(ToSet(t)) /\ Len(t) = Len(s) + 1 /\ DOMAIN t = 1..(Len(s) + 1)
               /\ DOMAIN s = 1..Len(s) /\ Len(s) \in Nat
               /\ \A i \in DOMAIN s : t[i] = s[i]
               /\ t[Len(s) + 1] = e
<1> DEFINE V == ToSet(s) \cup {e}
           t == Append(s, e)
<1>1. ToSet(s) \subseteq V /\ e \in V
  OBVIOUS
<1> HIDE DEF V
<1>2. s \in Seq(V)
  BY <1>1
<1>3. /\ Len(t) = Len(s) + 1 /\ DOMAIN t = 1..(Len(s) + 1) /\ Len(s) \in Nat
      /\ DOMAIN s = 1..Len(s) /\ t[Len(s) + 1] = e /\ t \in Seq(V)
      /\ \A i \in 1..Len(s) : t[i] = s[i]
  BY <1>1, <1>2
<1> HIDE DEF t
<1>4. \A i \in 1..Len(t) : t[i] \in ToSet(t)
  BY <1>3 DEF ToSet
<1>5. t \in Seq(ToSet(t))
  BY <1>3, <1>4
<1> QED
  BY <1>3, <1>5 DEF t

\* ... or by several.
LEMMA ConcatFacts ==
    ASSUME NEW s, s \in Seq(ToSet(s)), NEW r, r \in Seq(ToSet(r))
    PROVE  LET t == s \o r
           IN  /\ t \in Seq(ToSet(t))
               /\ \A i \in DOMAIN t : \/ i \in DOMAIN s /\ t[i] = s[i]
                                      \/ \E j \in DOMAIN r : t[i] = r[j]
<1> DEFINE V == ToSet(s) \cup ToSet(r)
           t == s \o r
<1>1. ToSet(s) \subseteq V /\ ToSet(r) \subseteq V
  OBVIOUS
<1> HIDE DEF V
<1>2. s \in Seq(V) /\ r \in Seq(V)
  BY <1>1
<1>3. /\ Len(t) = Len(s) + Len(r) /\ DOMAIN t = 1..Len(t) /\ Len(s) \in Nat /\ Len(r) \in Nat
      /\ DOMAIN s = 1..Len(s) /\ DOMAIN r = 1..Len(r) /\ t \in Seq(V)
      /\ \A i \in 1..Len(s) : t[i] = s[i]
      /\ \A i \in 1..(Len(s) + Len(r)) : i > Len(s) => t[i] = r[i - Len(s)]
  BY <1>2
<1> HIDE DEF t
<1>4. \A i \in 1..Len(t) : t[i] \in ToSet(t)
  BY <1>3 DEF ToSet
<1>5. t \in Seq(ToSet(t))
  BY <1>3, <1>4
<1>6. ASSUME NEW i \in DOMAIN t
      PROVE  (i \in DOMAIN s /\ t[i] = s[i]) \/ \E j \in DOMAIN r : t[i] = r[j]
  <2>1. CASE i <= Len(s)
    BY <1>3, <2>1
  <2>2. CASE i > Len(s)
    <3>1. i - Len(s) \in DOMAIN r /\ t[i] = r[i - Len(s)]
      BY <1>3, <2>2
    <3> QED
      BY <3>1
  <2> QED
    BY <1>3, <2>1, <2>2
<1> QED
  BY <1>5, <1>6 DEF t

-----------------------------------------------------------------------------
(* event_translator.py                                                      *)

\* A database event of fqid q that leaves meta_deleted to creation, deletion and restoration.
GoodDbEvent(e, q) ==
    /\ e.fqid = q
    /\ e.type \in {"create", "update", "deletefields", "listfields", "delete", "restore"}
    /\ e.type \in {"update", "listfields"} => META_DELETED \notin DOMAIN e.modified
    /\ e.type = "deletefields" => META_DELETED \notin e.data.unset

GoodDbEvents(es, q) ==
    es \in Seq(ToSet(es)) /\ \A i \in DOMAIN es : GoodDbEvent(es[i], q)

\* A translator's list of no event or one ...
LEMMA FewGood ==
    ASSUME NEW e, NEW q
    PROVE  /\ GoodDbEvents(<<>>, q)
           /\ GoodDbEvent(e, q) => GoodDbEvents(<<e>>, q)
<1>1. GoodDbEvents(<<>>, q)
  BY DEF GoodDbEvents
<1>2. ASSUME GoodDbEvent(e, q) PROVE GoodDbEvents(<<e>>, q)
  <2>1. <<e>> \in Seq({e}) /\ DOMAIN <<e>> = {1} /\ <<e>>[1] = e
    OBVIOUS
  <2>2. ToSet(<<e>>) = {e}
    BY <2>1 DEF ToSet
  <2> QED
    BY <1>2, <2>1, <2>2 DEF GoodDbEvents
<1> QED
  BY <1>1, <1>2

\* ... and two lists one after the other.
LEMMA ConcatGood ==
    ASSUME NEW q, NEW s, GoodDbEvents(s, q), NEW r, GoodDbEvents(r, q)
    PROVE  GoodDbEvents(s \o r, q)
<1> DEFINE t == s \o r
<1>1. /\ t \in Seq(ToSet(t))
      /\ \A i \in DOMAIN t : \/ i \in DOMAIN s /\ t[i] = s[i]
                             \/ \E j \in DOMAIN r : t[i] = r[j]
  BY ConcatFacts DEF GoodDbEvents
<1> HIDE DEF t
<1>2. GoodDbEvents(t, q)
  BY <1>1 DEF GoodDbEvents
<1> QED
  BY <1>2 DEF t

\* An event that the constructors accept names no reserved field.
LEMMA NoReservedKeys ==
    ASSUME NEW event, ParseError(event) = "ok"
    PROVE  META_DELETED \notin AllKeys(event)
BY DEF ParseError, IsReserved

\* create_update_events
LEMMA UpdateEventsGood ==
    ASSUME NEW event, NEW model, ParseError(event) = "ok",
           CreateUpdateEvents(event, model).error = "ok"
    PROVE  GoodDbEvents(CreateUpdateEvents(event, model).events, event.fqid)
<1> DEFINE updated == {f \in DOMAIN event.fields : event.fields[f] # None}
           deleted == DOMAIN event.fields \ updated
           listed == DOMAIN event.add \cup DOMAIN event.remove
           u == DbUpdateEvent(event.fqid, [f \in updated |-> event.fields[f]])
           d == DbDeleteFieldsEvent(event.fqid, deleted)
           l == DbListUpdateEvent(event.fqid, event.add, event.remove, model)
           us == IF updated # {} THEN <<u>> ELSE <<>>
           ds == IF deleted # {} THEN <<d>> ELSE <<>>
           ls == IF listed # {} THEN <<l>> ELSE <<>>
<1>1. CreateUpdateEvents(event, model).events = us \o ds \o ls
  BY DEF CreateUpdateEvents, Rejected, Translated
<1>2. /\ META_DELETED \notin DOMAIN event.fields /\ META_DELETED \notin DOMAIN event.add
      /\ META_DELETED \notin DOMAIN event.remove
  BY NoReservedKeys DEF AllKeys
<1>3. GoodDbEvent(u, event.fqid)
  BY <1>2 DEF GoodDbEvent, DbUpdateEvent
<1>4. GoodDbEvent(d, event.fqid)
  BY <1>2 DEF GoodDbEvent, DbDeleteFieldsEvent, EventData
<1>5. GoodDbEvent(l, event.fqid)
  <2>1. META_DELETED \notin DOMAIN ApplyFields(model, event.add, event.remove)
    BY <1>2 DEF ApplyFields, Over
  <2> QED
    BY <2>1 DEF GoodDbEvent, DbListUpdateEvent
<1> HIDE DEF u, d, l
<1>6. GoodDbEvents(us, event.fqid) /\ GoodDbEvents(ds, event.fqid) /\ GoodDbEvents(ls, event.fqid)
  BY <1>3, <1>4, <1>5, FewGood
<1> HIDE DEF us, ds, ls
<1>7. GoodDbEvents(us \o ds \o ls, event.fqid)
  BY <1>6, ConcatGood
<1> QED
  BY <1>1, <1>7

\* EventTranslatorService.translate: all events are of the fqid that was asked for, which
\* has a model unless it is created.
LEMMA TranslateFacts ==
    ASSUME NEW event, NEW models, ParseError(event) = "ok",
           event.type \in {"create", "update", "delete", "restore"},
           Translate(event, models).error = "ok"
    PROVE  LET es == Translate(event, models).events
           IN  /\ GoodDbEvents(es, event.fqid)
               /\ \/ event.fqid \in DOMAIN models
                  \/ \A i \in DOMAIN es : es[i].type = "create"
<1> DEFINE q == event.fqid
<1>1. CASE event.type = "create"
  <2> DEFINE e == DbCreateEvent(q, event.fields)
  <2>1. Translate(event, models).events = <<e>>
    BY <1>1 DEF Translate, Rejected, Translated
  <2>2. GoodDbEvent(e, q) /\ e.type = "create"
    BY DEF GoodDbEvent, DbCreateEvent
  <2> HIDE DEF e
  <2>3. GoodDbEvents(<<e>>, q) /\ \A i \in DOMAIN <<e>> : <<e>>[i].type = "create"
    BY <2>2, FewGood
  <2> QED
    BY <2>1, <2>3
<1>2. CASE event.type = "update"
  <2>1. /\ q \in DOMAIN models
        /\ Translate(event, models) = CreateUpdateEvents(event, models[q])
    BY <1>2 DEF Translate, Rejected, Exists
  <2> QED
    BY <2>1, UpdateEventsGood
<1>3. CASE event.type \in {"delete", "restore"}
  <2>1. PICK e \in {DbDeleteEvent(q, models[q]), DbRestoreEvent(q, models[q])} :
           Translate(event, models).events = <<e>> /\ q \in DOMAIN models
    BY <1>3 DEF Translate, Rejected, Translated, Exists, IsDeleted
  <2>2. GoodDbEvent(e, q)
    BY DEF GoodDbEvent, DbDeleteEvent, DbRestoreEvent
  <2> QED
    BY <2>1, <2>2, FewGood
<1> QED
  BY <1>1, <1>2, <1>3

-----------------------------------------------------------------------------
(* insert_events: the loop over the events of a request                     *)

GoodEvents(events) ==
    /\ events \in Seq(ToSet(events))
    /\ \A j \in DOMAIN events :
          /\ IdOf(events[j].fqid) \in Nat
          /\ events[j].type \in {"create", "update", "delete", "restore"}
          /\ ParseError(events[j]) = "ok"

\* The value is compared, as the provers take a stored Boolean for a value like any other.
DeletedKnown(models) ==
    \A q \in DOMAIN models :
        META_DELETED \in DOMAIN models[q] /\ models[q][META_DELETED] \in {TRUE, FALSE}

\* What the loop carries, for a request with the given events on tables d: a model that was
\* not there before has an event that creates it.
LoopInv(acc, d, events) ==
    /\ DOMAIN acc = {"error", "models", "dbEvents", "modified"}
    /\ acc.dbEvents \in Seq(ToSet(acc.dbEvents))
    /\ \A i \in DOMAIN acc.dbEvents :
          \E j \in DOMAIN events : acc.dbEvents[i].fqid = events[j].fqid
    /\ \A q \in DOMAIN acc.models :
          \/ q \in DOMAIN d.models
          \/ \E i \in DOMAIN acc.dbEvents :
                acc.dbEvents[i].type = "create" /\ acc.dbEvents[i].fqid = q
    /\ DeletedKnown(acc.models)

\* apply_event_to_models gives a model that is marked deleted or not.
LEMMA ModifiedModelFacts ==
    ASSUME NEW models, DeletedKnown(models), NEW q, NEW e, GoodDbEvent(e, q),
           q \in DOMAIN models \/ e.type = "create", NEW position
    PROVE  LET new == ApplyEventToModels(e, models, position)
           IN  DOMAIN new = DOMAIN models \cup {q} /\ DeletedKnown(new)
<1> DEFINE m == ModifiedModel(e, models)
           md == META_DELETED
<1>1. md # META_POSITION
  BY DEF META_DELETED, META_POSITION
<1>2. md \in DOMAIN m /\ m[md] \in {TRUE, FALSE}
  <2>1. CASE e.type = "create"
    <3>1. m = With(e.data.set, md, FALSE)
      BY <2>1 DEF ModifiedModel
    <3> HIDE DEF m, md
    <3> QED
      BY <3>1 DEF With
  <2>2. CASE e.type # "create"
    <3>1. md \in DOMAIN models[q] /\ models[q][md] \in {TRUE, FALSE} /\ e.fqid = q
      BY <2>2 DEF DeletedKnown, GoodDbEvent
    <3>2. CASE e.type \in {"update", "listfields"}
      <4>1. m = Over(e.modified, models[q]) /\ md \notin DOMAIN e.modified
        BY <3>1, <3>2 DEF ModifiedModel, GoodDbEvent
      <4> HIDE DEF m, md
      <4> QED
        BY <3>1, <4>1 DEF Over
    <3>3. CASE e.type = "deletefields"
      <4>1. m = Omit(models[q], e.data.unset) /\ md \notin e.data.unset
        BY <3>1, <3>3 DEF ModifiedModel, GoodDbEvent
      <4> HIDE DEF m, md
      <4> QED
        BY <3>1, <4>1 DEF Omit
    <3>4. CASE e.type = "delete"
      <4>1. m = With(models[q], md, e.type = "delete")
        BY <3>1, <3>4 DEF ModifiedModel
      <4> HIDE DEF m, md
      <4> QED
        BY <3>4, <4>1 DEF With
    <3>5. CASE e.type = "restore"
      <4>1. m = With(models[q], md, e.type = "delete")
        BY <3>1, <3>5 DEF ModifiedModel
      <4> HIDE DEF m, md
      <4> QED
        BY <3>5, <4>1 DEF With
    <3> QED
      BY <2>2, <3>2, <3>3, <3>4, <3>5 DEF GoodDbEvent
  <2> QED
    BY <2>1, <2>2
<1> HIDE DEF m, md
<1> DEFINE w == With(m, META_POSITION, position)
<1>3. md \in DOMAIN w /\ w[md] \in {TRUE, FALSE}
  BY <1>1, <1>2 DEF With
<1>4. ApplyEventToModels(e, models, position) = With(models, q, w)
  BY DEF ApplyEventToModels, GoodDbEvent, m
<1> HIDE DEF w
<1> QED
  BY <1>3, <1>4 DEF With, DeletedKnown, md

\* One database event.
LEMMA ApplyDbEventKeeps ==
    ASSUME NEW acc, NEW d, NEW events, LoopInv(acc, d, events),
           NEW q, NEW e, GoodDbEvent(e, q), q \in DOMAIN acc.models \/ e.type = "create",
           \E j \in DOMAIN events : q = events[j].fqid, NEW position
    PROVE  LET new == ApplyDbEvent(acc, e, position)
           IN  /\ LoopInv(new, d, events) /\ new.error = acc.error
               /\ q \in DOMAIN new.models
<1> DEFINE new == ApplyDbEvent(acc, e, position)
<1>1. /\ DOMAIN new = DOMAIN acc /\ new.error = acc.error
      /\ new.models = ApplyEventToModels(e, acc.models, position)
      /\ new.dbEvents = Append(acc.dbEvents, e)
  <2>1. DOMAIN acc = {"error", "models", "dbEvents", "modified"}
    BY DEF LoopInv
  <2> QED
    BY <2>1 DEF ApplyDbEvent
<1> HIDE DEF new
<1>2. DOMAIN new.models = DOMAIN acc.models \cup {q} /\ DeletedKnown(new.models)
  <2>1. DeletedKnown(acc.models)
    BY DEF LoopInv
  <2>2. LET m == ApplyEventToModels(e, acc.models, position)
        IN  DOMAIN m = DOMAIN acc.models \cup {q} /\ DeletedKnown(m)
    BY <2>1, ModifiedModelFacts
  <2> QED
    BY <1>1, <2>2
<1>3. /\ new.dbEvents \in Seq(ToSet(new.dbEvents))
      /\ DOMAIN acc.dbEvents = 1..Len(acc.dbEvents) /\ Len(acc.dbEvents) \in Nat
      /\ DOMAIN new.dbEvents = 1..(Len(acc.dbEvents) + 1)
      /\ \A i \in DOMAIN acc.dbEvents : new.dbEvents[i] = acc.dbEvents[i]
      /\ new.dbEvents[Len(acc.dbEvents) + 1] = e
  BY <1>1, AppendFacts DEF LoopInv
<1>4. \A i \in DOMAIN new.dbEvents :
         \E j \in DOMAIN events : new.dbEvents[i].fqid = events[j].fqid
  <2> SUFFICES ASSUME NEW i \in DOMAIN new.dbEvents
               PROVE  \E j \in DOMAIN events : new.dbEvents[i].fqid = events[j].fqid
    OBVIOUS
  <2>1. CASE i \in DOMAIN acc.dbEvents
    BY <1>3, <2>1 DEF LoopInv
  <2>2. CASE i = Len(acc.dbEvents) + 1
    BY <1>3, <2>2 DEF GoodDbEvent
  <2> QED
    BY <1>3, <2>1, <2>2
<1>5. ASSUME NEW r \in DOMAIN new.models
      PROVE  \/ r \in DOMAIN d.models
             \/ \E i \in DOMAIN new.dbEvents :
                   new.dbEvents[i].type = "create" /\ new.dbEvents[i].fqid = r
  <2>1. CASE r \in DOMAIN acc.models
    <3>1. CASE r \in DOMAIN d.models
      BY <3>1
    <3>2. CASE r \notin DOMAIN d.models
      <4>1. PICK i \in DOMAIN acc.dbEvents :
               acc.dbEvents[i].type = "create" /\ acc.dbEvents[i].fqid = r
        BY <2>1, <3>2 DEF LoopInv
      <4>2. i \in DOMAIN new.dbEvents /\ new.dbEvents[i] = acc.dbEvents[i]
        BY <1>3
      <4> QED
        BY <4>1, <4>2
    <3> QED
      BY <3>1, <3>2
  <2>2. CASE r \notin DOMAIN acc.models
    <3>1. r = q /\ e.type = "create" /\ e.fqid = r
      BY <1>2, <2>2 DEF GoodDbEvent
    <3>2. Len(acc.dbEvents) + 1 \in DOMAIN new.dbEvents
      BY <1>3
    <3> QED
      BY <1>3, <3>1, <3>2
  <2> QED
    BY <2>1, <2>2
<1>6. LoopInv(new, d, events) /\ q \in DOMAIN new.models
  BY <1>1, <1>2, <1>3, <1>4, <1>5 DEF LoopInv
<1> QED
  BY <1>1, <1>6 DEF new

\* The values that acc takes while the database events of one event are applied.
ApplyRun(g, acc, es, position, m) ==
    g = [n \in 0..m |-> IF n = 0 THEN acc ELSE ApplyDbEvent(g[n - 1], es[n], position)]

\* There are such values, so that the recursive definition of ApplyDbEvents means them.
LEMMA ApplyRunExists ==
    ASSUME NEW acc, NEW es, NEW position, NEW N \in Nat
    PROVE  \E g : ApplyRun(g, acc, es, position, N)
<1> DEFINE T == {m \in Nat : ~ \E g : ApplyRun(g, acc, es, position, m)}
<1> SUFFICES ASSUME T # {} PROVE FALSE
  OBVIOUS
<1>1. PICK m \in T : \A k \in T : ~(k < m)
  <2>1. T \in SUBSET Nat
    OBVIOUS
  <2> HIDE DEF T
  <2> QED
    BY <2>1, LeastNat
<1>2. CASE m = 0
  <2>1. ApplyRun([n \in 0..0 |-> acc], acc, es, position, 0)
    BY DEF ApplyRun
  <2> QED
    BY <1>2, <2>1
<1>3. CASE m # 0
  <2>1. m - 1 \in Nat /\ m - 1 \notin T
    BY <1>1, <1>3
  <2>2. PICK g : ApplyRun(g, acc, es, position, m - 1)
    BY <2>1
  <2> DEFINE h == [n \in 0..m |-> IF n = m THEN ApplyDbEvent(g[m - 1], es[m], position) ELSE g[n]]
  <2>3. \A n \in 0..m : h[n] = IF n = 0 THEN acc ELSE ApplyDbEvent(h[n - 1], es[n], position)
    BY <1>3, <2>2 DEF ApplyRun
  <2>4. ApplyRun(h, acc, es, position, m)
    BY <2>3 DEF ApplyRun
  <2> QED
    BY <2>4
<1> QED
  BY <1>2, <1>3

\* All database events of one event.
LEMMA ApplyDbEventsKeep ==
    ASSUME NEW acc, NEW d, NEW events, LoopInv(acc, d, events),
           NEW q, NEW es, GoodDbEvents(es, q),
           q \in DOMAIN acc.models \/ \A i \in DOMAIN es : es[i].type = "create",
           \E j \in DOMAIN events : q = events[j].fqid, NEW position
    PROVE  LoopInv(ApplyDbEvents(acc, es, position), d, events)
<1> DEFINE N == Len(es)
           g == CHOOSE g : ApplyRun(g, acc, es, position, N)
<1>1. N \in Nat /\ DOMAIN es = 1..N
  BY DEF GoodDbEvents
<1>2. ApplyRun(g, acc, es, position, N)
  BY <1>1, ApplyRunExists
<1>3. ApplyDbEvents(acc, es, position) = g[N]
  BY DEF ApplyDbEvents, ApplyRun
<1> HIDE DEF g, N
<1> DEFINE Ok(n) == /\ LoopInv(g[n], d, events)
                    /\ q \in DOMAIN g[n].models \/ \A i \in DOMAIN es : es[i].type = "create"
           T == {n \in 0..N : ~Ok(n)}
<1>4. Ok(0)
  BY <1>1, <1>2 DEF ApplyRun
<1>5. ASSUME NEW n \in 0..N, n # 0, Ok(n - 1) PROVE Ok(n)
  <2>1. n \in DOMAIN es /\ g[n] = ApplyDbEvent(g[n - 1], es[n], position)
    BY <1>1, <1>2, <1>5 DEF ApplyRun
  <2>2. GoodDbEvent(es[n], q) /\ (q \in DOMAIN g[n - 1].models \/ es[n].type = "create")
    BY <1>5, <2>1 DEF GoodDbEvents
  <2> QED
    BY <1>5, <2>1, <2>2, ApplyDbEventKeeps
<1> HIDE DEF Ok
<1>6. T = {}
  <2> SUFFICES ASSUME T # {} PROVE FALSE
    OBVIOUS
  <2>1. T \in SUBSET Nat
    BY <1>1
  <2>2. PICK m \in T : \A k \in T : ~(k < m)
    <3> HIDE DEF T
    <3> QED
      BY <2>1, LeastNat
  <2>3. m \in 0..N /\ ~Ok(m) /\ m # 0
    BY <1>4
  <2>4. m - 1 \in 0..N /\ m - 1 < m
    BY <1>1, <2>3
  <2>5. Ok(m - 1)
    BY <2>2, <2>4
  <2> QED
    BY <1>5, <2>3, <2>5
<1>7. Ok(N)
  BY <1>1, <1>6
<1> QED
  BY <1>3, <1>7 DEF Ok

\* One event of the request.
LEMMA LoopStepKeeps ==
    ASSUME NEW acc, NEW d, NEW events, LoopInv(acc, d, events), GoodEvents(events),
           NEW n \in DOMAIN events, NEW position
    PROVE  LoopInv(LoopStep(acc, events[n], position), d, events)
<1> DEFINE t == Translate(events[n], acc.models)
<1>1. CASE acc.error # "ok"
  BY <1>1 DEF LoopStep
<1>2. CASE acc.error = "ok" /\ t.error # "ok"
  <2> DEFINE new == [acc EXCEPT !.error = t.error]
  <2>1. LoopStep(acc, events[n], position) = new
    BY <1>2 DEF LoopStep
  <2>2. DOMAIN new = DOMAIN acc /\ new.models = acc.models /\ new.dbEvents = acc.dbEvents
    BY DEF LoopInv
  <2> HIDE DEF new
  <2> QED
    BY <2>1, <2>2 DEF LoopInv
<1>3. CASE acc.error = "ok" /\ t.error = "ok"
  <2>1. LoopStep(acc, events[n], position) = ApplyDbEvents(acc, t.events, position)
    BY <1>3 DEF LoopStep
  <2>2. /\ ParseError(events[n]) = "ok"
        /\ events[n].type \in {"create", "update", "delete", "restore"}
    BY DEF GoodEvents
  <2> DEFINE q == events[n].fqid
  <2>3. /\ GoodDbEvents(t.events, q)
        /\ q \in DOMAIN acc.models \/ \A i \in DOMAIN t.events : t.events[i].type = "create"
    BY <1>3, <2>2, TranslateFacts
  <2>4. \E j \in DOMAIN events : q = events[j].fqid
    OBVIOUS
  <2> HIDE DEF t, q
  <2> QED
    BY <2>1, <2>3, <2>4, ApplyDbEventsKeep
<1> QED
  BY <1>1, <1>2, <1>3

\* The values that the loop takes.
LoopRun(g, d, events, position, m) ==
    g = [n \in 0..m |-> IF n = 0 THEN LoopStart(d, events)
                        ELSE LoopStep(g[n - 1], events[n], position)]

\* There are such values.
LEMMA LoopRunExists ==
    ASSUME NEW d, NEW events, NEW position, NEW N \in Nat
    PROVE  \E g : LoopRun(g, d, events, position, N)
<1> DEFINE T == {m \in Nat : ~ \E g : LoopRun(g, d, events, position, m)}
<1> SUFFICES ASSUME T # {} PROVE FALSE
  OBVIOUS
<1>1. PICK m \in T : \A k \in T : ~(k < m)
  <2>1. T \in SUBSET Nat
    OBVIOUS
  <2> HIDE DEF T
  <2> QED
    BY <2>1, LeastNat
<1>2. CASE m = 0
  <2>1. LoopRun([n \in 0..0 |-> LoopStart(d, events)], d, events, position, 0)
    BY DEF LoopRun
  <2> QED
    BY <1>2, <2>1
<1>3. CASE m # 0
  <2>1. m - 1 \in Nat /\ m - 1 \notin T
    BY <1>1, <1>3
  <2>2. PICK g : LoopRun(g, d, events, position, m - 1)
    BY <2>1
  <2> DEFINE h == [n \in 0..m |-> IF n = m THEN LoopStep(g[m - 1], events[m], position) ELSE g[n]]
  <2>3. \A n \in 0..m : h[n] = IF n = 0 THEN LoopStart(d, events) ELSE LoopStep(h[n - 1], events[n], position)
    BY <1>3, <2>2 DEF LoopRun
  <2>4. LoopRun(h, d, events, position, m)
    BY <2>3 DEF LoopRun
  <2> QED
    BY <2>4
<1> QED
  BY <1>2, <1>3

\* The loop over the events of a request.
LEMMA LoopKeeps ==
    ASSUME NEW d, DeletedKnown(d.models), NEW events, GoodEvents(events), NEW position
    PROVE  LoopInv(Loop(d, events, position), d, events)
<1> DEFINE N == Len(events)
           g == CHOOSE g : LoopRun(g, d, events, position, N)
<1>1. N \in Nat /\ DOMAIN events = 1..N
  BY DEF GoodEvents
<1>2. LoopRun(g, d, events, position, N)
  BY <1>1, LoopRunExists
<1>3. Loop(d, events, position) = g[N]
  BY DEF Loop, LoopRun
<1> HIDE DEF g, N
<1> DEFINE T == {n \in 0..N : ~LoopInv(g[n], d, events)}
<1>4. LoopInv(g[0], d, events)
  <2>1. g[0] = LoopStart(d, events)
    BY <1>1, <1>2 DEF LoopRun
  <2> DEFINE start == LoopStart(d, events)
  <2>2. /\ DOMAIN start = {"error", "models", "dbEvents", "modified"}
        /\ start.dbEvents = <<>>
        /\ DOMAIN start.models \subseteq DOMAIN d.models
        /\ \A q \in DOMAIN start.models : start.models[q] = d.models[q]
    BY DEF LoopStart
  <2>3. <<>> \in Seq(ToSet(<<>>)) /\ DOMAIN <<>> = {}
    OBVIOUS
  <2> HIDE DEF start
  <2>4. DeletedKnown(start.models)
    BY <2>2 DEF DeletedKnown
  <2>5. LoopInv(start, d, events)
    BY <2>2, <2>3, <2>4 DEF LoopInv
  <2> QED
    BY <2>1, <2>5 DEF start
<1>5. ASSUME NEW n \in 0..N, n # 0, LoopInv(g[n - 1], d, events)
      PROVE  LoopInv(g[n], d, events)
  <2>1. n \in DOMAIN events /\ g[n] = LoopStep(g[n - 1], events[n], position)
    BY <1>1, <1>2, <1>5 DEF LoopRun
  <2> QED
    BY <1>5, <2>1, LoopStepKeeps
<1>6. T = {}
  <2> SUFFICES ASSUME T # {} PROVE FALSE
    OBVIOUS
  <2>1. T \in SUBSET Nat
    BY <1>1
  <2>2. PICK m \in T : \A k \in T : ~(k < m)
    <3> HIDE DEF T
    <3> QED
      BY <2>1, LeastNat
  <2>3. m \in 0..N /\ ~LoopInv(g[m], d, events) /\ m # 0
    BY <1>4
  <2>4. m - 1 \in 0..N /\ m - 1 < m
    BY <1>1, <2>3
  <2>5. LoopInv(g[m - 1], d, events)
    BY <2>2, <2>4
  <2> QED
    BY <1>5, <2>3, <2>5
<1>7. N \in 0..N
  BY <1>1
<1> QED
  BY <1>3, <1>6, <1>7

-----------------------------------------------------------------------------
(* insert_events: the tables                                                *)

\* Positions come from the sequence and have one migration index.
PositionInv(d) ==
    /\ d.position_seq \in Nat
    /\ DOMAIN d.positions \subseteq 1..d.position_seq
    /\ \A p \in DOMAIN d.positions :
          /\ DOMAIN d.positions[p] = {"migration_index", "information"}
          /\ d.positions[p].migration_index \in Int
    /\ \A p, r \in DOMAIN d.positions :
          d.positions[p].migration_index = d.positions[r].migration_index

\* Rows refer to rows that exist.
RowInv(d) ==
    /\ d.events \in Seq(ToSet(d.events))
    /\ \A i \in DOMAIN d.events :
          d.events[i].position \in DOMAIN d.positions /\ d.events[i].weight \in Nat \ {0}
    /\ \A cf \in DOMAIN d.collectionfields : d.collectionfields[cf] \in DOMAIN d.positions
    /\ \A r \in d.events_to_collectionfields : r[2] \in DOMAIN d.collectionfields

\* The next id of a collection is above the ids of its models.
IdInv(d) ==
    /\ \A c \in DOMAIN d.id_sequences : d.id_sequences[c] \in Int
    /\ \A q \in DOMAIN d.models : HasHistory(q) =>
          /\ IdOf(q) \in Int /\ CollectionOf(q) \in DOMAIN d.id_sequences
          /\ IdOf(q) < d.id_sequences[CollectionOf(q)]

\* Ids are numbers, and a table has a last row.
KeyInv(models) == IsFiniteSet(DOMAIN models) /\ \A q \in DOMAIN models : IdOf(q) \in Nat

Tables == {"positions", "position_seq", "events", "models", "id_sequences",
           "collectionfields", "events_to_collectionfields"}

TableInv(d) ==
    /\ DOMAIN d = Tables
    /\ PositionInv(d) /\ RowInv(d) /\ DeletedKnown(d.models) /\ KeyInv(d.models) /\ IdInv(d)

\* From the tables d to the tables e no sequence of ids went back.
Grows(d, e) ==
    \A c \in DOMAIN d.id_sequences :
        c \in DOMAIN e.id_sequences /\ d.id_sequences[c] <= e.id_sequences[c]

\* The upsert with greatest() is above the stored value and above every id created.
LEMMA NextIdFacts ==
    ASSUME NEW old \in Int, NEW created, Max(created) \in Nat,
           \A x \in created : x \in Nat /\ x <= Max(created)
    PROVE  LET new == NextId(old, created)
           IN  new \in Int /\ old <= new /\ \A x \in created : x < new
<1> DEFINE m == Max(created)
           S == {old, m + 1}
<1>1. m \in Nat /\ m + 1 \in Int
  OBVIOUS
<1> HIDE DEF m
<1>2. \E x \in S : \A y \in S : x >= y
  BY <1>1
<1>3. Max(S) \in S /\ \A y \in S : Max(S) >= y
  BY <1>2 DEF Max
<1>4. NextId(old, created) = Max(S)
  BY DEF NextId, m
<1>5. Max(S) \in Int /\ old <= Max(S) /\ m + 1 <= Max(S)
  BY <1>1, <1>3
<1>6. \A x \in created : x \in Nat /\ x <= m
  BY DEF m
<1> HIDE DEF S
<1> QED
  BY <1>1, <1>4, <1>5, <1>6

\* update_id_sequences moves sequences forward, above every id that was created.
LEMMA UpdateIdSequencesFacts ==
    ASSUME NEW sequences, \A c \in DOMAIN sequences : sequences[c] \in Int,
           NEW es, es \in Seq(ToSet(es)), \A i \in DOMAIN es : IdOf(es[i].fqid) \in Nat
    PROVE  LET new == UpdateIdSequences(sequences, es)
           IN  /\ \A c \in DOMAIN new : new[c] \in Int
               /\ \A c \in DOMAIN sequences : c \in DOMAIN new /\ sequences[c] <= new[c]
               /\ \A i \in DOMAIN es : es[i].type = "create" =>
                     /\ CollectionOf(es[i].fqid) \in DOMAIN new
                     /\ IdOf(es[i].fqid) < new[CollectionOf(es[i].fqid)]
<1> DEFINE Created(c) == {IdOf(es[i].fqid) : i \in {j \in DOMAIN es :
                             /\ es[j].type = "create"
                             /\ CollectionOf(es[j].fqid) = c}}
           collections == {c \in {CollectionOf(es[i].fqid) : i \in DOMAIN es} : Created(c) # {}}
           Old(c) == IF c \in DOMAIN sequences THEN sequences[c] ELSE 0
           new == UpdateIdSequences(sequences, es)
<1>1. /\ DOMAIN new = collections \cup DOMAIN sequences
      /\ \A c \in DOMAIN new :
            new[c] = IF c \in collections THEN NextId(Old(c), Created(c)) ELSE sequences[c]
  BY DEF UpdateIdSequences, Over
<1> HIDE DEF new
<1>2. ASSUME NEW c \in collections
      PROVE  /\ NextId(Old(c), Created(c)) \in Int /\ Old(c) <= NextId(Old(c), Created(c))
             /\ \A x \in Created(c) : x < NextId(Old(c), Created(c))
  <2> DEFINE f == [i \in DOMAIN es |-> IdOf(es[i].fqid)]
             S == Created(c)
  <2>1. /\ Len(es) \in Nat /\ DOMAIN es = 1..Len(es)
        /\ \A i \in 1..Len(es) : f[i] \in Nat
    OBVIOUS
  <2>2. S # {} /\ \A x \in S : \E i \in 1..Len(es) : x = f[i]
    BY <2>1
  <2> HIDE DEF f, S
  <2>3. Max(S) \in S /\ Max(S) \in Nat /\ \A x \in S : x <= Max(S)
    BY <2>1, <2>2, MaxOfValues
  <2>4. \A x \in S : x \in Nat /\ x <= Max(S)
    BY <2>1, <2>2, <2>3
  <2>5. Old(c) \in Int
    OBVIOUS
  <2> HIDE DEF Old
  <2>6. LET n == NextId(Old(c), S)
        IN  n \in Int /\ Old(c) <= n /\ \A x \in S : x < n
    BY <2>3, <2>4, <2>5, NextIdFacts
  <2> QED
    BY <2>6 DEF S
<1>3. \A c \in DOMAIN new : new[c] \in Int
  <2> SUFFICES ASSUME NEW c \in DOMAIN new PROVE new[c] \in Int
    OBVIOUS
  <2> HIDE DEF collections, Created, Old
  <2> QED
    BY <1>1, <1>2
<1>4. \A c \in DOMAIN sequences : c \in DOMAIN new /\ sequences[c] <= new[c]
  <2> SUFFICES ASSUME NEW c \in DOMAIN sequences PROVE c \in DOMAIN new /\ sequences[c] <= new[c]
    OBVIOUS
  <2>1. Old(c) = sequences[c]
    OBVIOUS
  <2> HIDE DEF collections, Created, Old
  <2>2. c \in DOMAIN new
    BY <1>1
  <2>3. CASE c \in collections
    BY <1>1, <1>2, <2>1, <2>2, <2>3
  <2>4. CASE c \notin collections
    BY <1>1, <2>2, <2>4
  <2> QED
    BY <2>2, <2>3, <2>4
<1>5. ASSUME NEW i \in DOMAIN es, es[i].type = "create"
      PROVE  /\ CollectionOf(es[i].fqid) \in DOMAIN new
             /\ IdOf(es[i].fqid) < new[CollectionOf(es[i].fqid)]
  <2> DEFINE c == CollectionOf(es[i].fqid)
  <2>1. IdOf(es[i].fqid) \in Created(c)
    BY <1>5
  <2>2. c \in collections
    BY <2>1
  <2> HIDE DEF collections, Created, Old
  <2> QED
    BY <1>1, <1>2, <2>1, <2>2
<1> QED
  BY <1>3, <1>4, <1>5 DEF new

\* Models that database events have created are models of rows, as many as there are.
LEMMA MoreKeys ==
    ASSUME NEW old, KeyInv(old), NEW es, es \in Seq(ToSet(es)),
           \A i \in DOMAIN es : IdOf(es[i].fqid) \in Nat, NEW models,
           \A q \in DOMAIN models : q \in DOMAIN old \/ \E i \in DOMAIN es : es[i].fqid = q
    PROVE  KeyInv(models)
<1> DEFINE I == DOMAIN es
           f == [i \in I |-> es[i].fqid]
           T == {es[i].fqid : i \in I}
<1>1. IsFiniteSet(I)
  <2>1. Len(es) \in Nat /\ I = 1..Len(es)
    OBVIOUS
  <2> QED
    BY <2>1, FS_Interval
<1>2. f \in Surjection(I, T)
  BY DEF Surjection
<1> HIDE DEF f
<1>3. IsFiniteSet(T)
  <2> HIDE DEF I, T
  <2> QED
    BY <1>1, <1>2, FS_Surjection
<1>4. DOMAIN models \in SUBSET (T \cup DOMAIN old)
  OBVIOUS
<1>5. IsFiniteSet(T \cup DOMAIN old)
  <2> HIDE DEF T
  <2> QED
    BY <1>3, FS_Union DEF KeyInv
<1>6. \A q \in T : IdOf(q) \in Nat
  OBVIOUS
<1> HIDE DEF T
<1>7. IsFiniteSet(DOMAIN models)
  BY <1>4, <1>5, FS_Subset
<1> QED
  BY <1>4, <1>6, <1>7 DEF KeyInv

\* What a call of insert_events with the given index leaves behind: tables d become e.
Inserted(d, e, error, position) ==
    /\ TableInv(e) /\ Grows(d, e)
    /\ e.position_seq = d.position_seq + 1 /\ position = d.position_seq + 1
    /\ DOMAIN e.positions = IF error = "ok" THEN DOMAIN d.positions \cup {position}
                            ELSE DOMAIN d.positions

\* create_position: what it drew stays drawn when the transaction fails after it.
LEMMA DrawnKeeps ==
    ASSUME NEW d, TableInv(d), NEW s \in Nat, d.position_seq <= s
    PROVE  LET e == [d EXCEPT !.position_seq = s]
           IN  /\ TableInv(e) /\ Grows(d, e) /\ e.position_seq = s
               /\ e.positions = d.positions
<1> DEFINE e == [d EXCEPT !.position_seq = s]
<1>1. /\ DOMAIN e = Tables /\ e.position_seq = s
      /\ e.positions = d.positions /\ e.events = d.events /\ e.models = d.models
      /\ e.id_sequences = d.id_sequences /\ e.collectionfields = d.collectionfields
      /\ e.events_to_collectionfields = d.events_to_collectionfields
  <2>1. DOMAIN d = Tables
    BY DEF TableInv
  <2> QED
    BY <2>1 DEF Tables
<1> HIDE DEF e
<1>2. d.position_seq \in Nat /\ 1..d.position_seq \subseteq 1..s
  BY DEF TableInv, PositionInv
<1>3. PositionInv(e)
  BY <1>1, <1>2 DEF TableInv, PositionInv
<1>4. RowInv(e)
  BY <1>1 DEF TableInv, RowInv
<1>5. IdInv(e) /\ Grows(d, e)
  BY <1>1 DEF TableInv, IdInv, Grows
<1>6. TableInv(e)
  BY <1>1, <1>3, <1>4, <1>5 DEF TableInv
<1> QED
  BY <1>1, <1>5, <1>6 DEF e

\* All the tables of an insertion that succeeds.
LEMMA StoreEventsKeeps ==
    ASSUME NEW d, TableInv(d), d.position_seq > 0, d.position_seq \notin DOMAIN d.positions,
           NEW index \in Int,
           \A p \in DOMAIN d.positions : d.positions[p].migration_index = index,
           NEW request, GoodEvents(request.events),
           NEW loop, LoopInv(loop, d, request.events)
    PROVE  LET e == StoreEvents(d, d.position_seq, index, request, loop)
           IN  /\ TableInv(e) /\ Grows(d, e) /\ e.position_seq = d.position_seq
               /\ DOMAIN e.positions = DOMAIN d.positions \cup {d.position_seq}
<1> DEFINE position == d.position_seq
           es == loop.dbEvents
           n == DOMAIN es
           row == [migration_index |-> index, information |-> request.information]
           touched == UNION {ModifiedCollectionfields(es[w]) : w \in n}
           rows == [w \in n |-> EventRow(es[w], position, w)]
           links == UNION {{<<<<position, w>>, cf>> : cf \in ModifiedCollectionfields(es[w])} : w \in n}
           e == StoreEvents(d, position, index, request, loop)
<1>1. /\ DOMAIN e = Tables /\ e.position_seq = d.position_seq
      /\ e.positions = With(d.positions, position, row)
      /\ e.id_sequences = UpdateIdSequences(d.id_sequences, es)
      /\ e.models = Over(loop.models, d.models)
      /\ e.events = d.events \o rows
      /\ e.collectionfields = Over([cf \in touched |-> position], d.collectionfields)
      /\ e.events_to_collectionfields = d.events_to_collectionfields \cup links
  <2>1. DOMAIN d = Tables
    BY DEF TableInv
  <2> QED
    BY <2>1 DEF Tables, StoreEvents
<1> HIDE DEF e
<1>2. /\ position \in Nat /\ position \in 1..position
      /\ es \in Seq(ToSet(es)) /\ Len(es) \in Nat /\ n = 1..Len(es)
  BY DEF TableInv, PositionInv, LoopInv
<1>3. DOMAIN e.positions = DOMAIN d.positions \cup {position}
  BY <1>1 DEF With
<1>4. PositionInv(e)
  <2>1. \A p \in DOMAIN e.positions :
           /\ DOMAIN e.positions[p] = {"migration_index", "information"}
           /\ e.positions[p].migration_index = index
    <3>1. DOMAIN row = {"migration_index", "information"} /\ row.migration_index = index
      OBVIOUS
    <3> HIDE DEF row
    <3> QED
      BY <1>1, <3>1 DEF With, TableInv, PositionInv
  <2>2. DOMAIN e.positions \subseteq 1..e.position_seq
    BY <1>1, <1>2, <1>3 DEF TableInv, PositionInv
  <2> QED
    BY <1>1, <1>2, <2>1, <2>2 DEF PositionInv
<1>5. RowInv(e)
  <2>1. rows \in Seq(ToSet(rows)) /\ \A w \in DOMAIN rows :
           rows[w].position = position /\ rows[w].weight \in Nat \ {0}
    <3>1. \A w \in n : rows[w] \in ToSet(rows) /\ DOMAIN rows = n
      BY DEF ToSet
    <3>2. \A w \in n : rows[w].position = position /\ rows[w].weight = w
      BY DEF EventRow
    <3> HIDE DEF rows
    <3>3. rows = [w \in 1..Len(es) |-> rows[w]]
      BY <1>2 DEF rows
    <3>4. rows \in Seq(ToSet(rows))
      <4> DEFINE k == Len(es)
                 V == ToSet(rows)
      <4>1. k \in Nat /\ rows = [w \in 1..k |-> rows[w]] /\ \A w \in 1..k : rows[w] \in V
        BY <1>2, <3>1, <3>3
      <4> HIDE DEF k, V
      <4>2. rows \in Seq(V)
        BY <4>1
      <4> QED
        BY <4>2 DEF V
    <3>5. \A w \in n : w \in Nat \ {0}
      BY <1>2
    <3>6. DOMAIN rows = n
      BY DEF rows
    <3> QED
      BY <3>2, <3>4, <3>5, <3>6
  <2> HIDE DEF rows
  <2>2. d.events \in Seq(ToSet(d.events))
    BY DEF TableInv, RowInv
  <2>3. /\ e.events \in Seq(ToSet(e.events))
        /\ \A i \in DOMAIN e.events : \/ i \in DOMAIN d.events /\ e.events[i] = d.events[i]
                                      \/ \E j \in DOMAIN rows : e.events[i] = rows[j]
    BY <1>1, <2>1, <2>2, ConcatFacts
  <2>4. \A i \in DOMAIN e.events :
           e.events[i].position \in DOMAIN e.positions /\ e.events[i].weight \in Nat \ {0}
    BY <1>3, <2>1, <2>3 DEF TableInv, RowInv
  <2> HIDE DEF links, touched
  <2>5. DOMAIN e.collectionfields = touched \cup DOMAIN d.collectionfields
    BY <1>1 DEF Over
  <2>6. \A cf \in DOMAIN e.collectionfields : e.collectionfields[cf] \in DOMAIN e.positions
    BY <1>1, <1>3, <2>5 DEF Over, TableInv, RowInv
  <2>7. \A r \in links : r[2] \in touched
    BY DEF links, touched
  <2>8. \A r \in e.events_to_collectionfields : r[2] \in DOMAIN e.collectionfields
    BY <1>1, <2>5, <2>7 DEF TableInv, RowInv
  <2> QED
    BY <2>3, <2>4, <2>6, <2>8 DEF RowInv
<1>6. DeletedKnown(e.models)
  <2>1. DeletedKnown(loop.models) /\ DeletedKnown(d.models)
    BY DEF LoopInv, TableInv
  <2>2. DOMAIN e.models = DOMAIN loop.models \cup DOMAIN d.models
    BY <1>1 DEF Over
  <2>3. \A q \in DOMAIN e.models :
           e.models[q] = IF q \in DOMAIN loop.models THEN loop.models[q] ELSE d.models[q]
    BY <1>1 DEF Over
  <2> QED
    BY <2>1, <2>2, <2>3 DEF DeletedKnown
<1>7. \A i \in DOMAIN es : IdOf(es[i].fqid) \in Nat
  BY DEF LoopInv, GoodEvents
<1> DEFINE new == e.id_sequences
<1>8. /\ \A c \in DOMAIN new : new[c] \in Int
      /\ \A c \in DOMAIN d.id_sequences : c \in DOMAIN new /\ d.id_sequences[c] <= new[c]
      /\ \A i \in DOMAIN es : es[i].type = "create" =>
            /\ CollectionOf(es[i].fqid) \in DOMAIN new
            /\ IdOf(es[i].fqid) < new[CollectionOf(es[i].fqid)]
  <2>1. \A c \in DOMAIN d.id_sequences : d.id_sequences[c] \in Int
    BY DEF TableInv, IdInv
  <2> QED
    BY <1>1, <1>2, <1>7, <2>1, UpdateIdSequencesFacts
<1>9. Grows(d, e)
  BY <1>8 DEF Grows
<1>10. IdInv(e)
  <2> SUFFICES ASSUME NEW q \in DOMAIN e.models, HasHistory(q)
               PROVE  /\ IdOf(q) \in Int /\ CollectionOf(q) \in DOMAIN new
                      /\ IdOf(q) < new[CollectionOf(q)]
    BY <1>8 DEF IdInv
  <2>1. CASE q \in DOMAIN d.models
    <3> DEFINE c == CollectionOf(q)
    <3>1. IdOf(q) \in Int /\ c \in DOMAIN d.id_sequences /\ IdOf(q) < d.id_sequences[c]
      BY <2>1 DEF TableInv, IdInv
    <3>2. d.id_sequences[c] \in Int
      BY <3>1 DEF TableInv, IdInv
    <3> HIDE DEF c
    <3>3. c \in DOMAIN new /\ d.id_sequences[c] <= new[c] /\ new[c] \in Int
      BY <1>8, <3>1
    <3> HIDE DEF new
    <3>4. IdOf(q) < new[c]
      BY <3>1, <3>2, <3>3
    <3> QED
      BY <3>1, <3>3, <3>4 DEF c
  <2>2. CASE q \notin DOMAIN d.models
    <3>1. q \in DOMAIN loop.models
      BY <1>1, <2>2 DEF Over
    <3>2. PICK i \in DOMAIN es : es[i].type = "create" /\ es[i].fqid = q
      BY <2>2, <3>1 DEF LoopInv
    <3> QED
      BY <1>7, <1>8, <3>2
  <2> QED
    BY <2>1, <2>2
<1>11. KeyInv(e.models)
  <2> DEFINE models == e.models
             old == d.models
  <2>1. KeyInv(old) /\ es \in Seq(ToSet(es)) /\ \A i \in DOMAIN es : IdOf(es[i].fqid) \in Nat
    BY <1>2, <1>7 DEF TableInv
  <2>2. DOMAIN models = DOMAIN loop.models \cup DOMAIN old
    BY <1>1 DEF Over
  <2>3. \A q \in DOMAIN loop.models : q \in DOMAIN old \/ \E i \in DOMAIN es : es[i].fqid = q
    BY DEF LoopInv
  <2>4. \A q \in DOMAIN models : q \in DOMAIN old \/ \E i \in DOMAIN es : es[i].fqid = q
    BY <2>2, <2>3
  <2> HIDE DEF es, models, old
  <2>5. KeyInv(models)
    BY <2>1, <2>4, MoreKeys
  <2> QED
    BY <2>5 DEF models
<1>12. TableInv(e)
  BY <1>1, <1>4, <1>5, <1>6, <1>10, <1>11 DEF TableInv
<1> QED
  BY <1>1, <1>3, <1>9, <1>12 DEF e

\* insert_events
LEMMA InsertEventsKeeps ==
    ASSUME NEW d, TableInv(d), NEW index \in Int,
           \A p \in DOMAIN d.positions : d.positions[p].migration_index = index,
           NEW request, GoodEvents(request.events)
    PROVE  LET r == InsertEvents(d, index, request)
           IN  Inserted(d, r.db, r.error, r.position)
<1> DEFINE position == d.position_seq + 1
           drawn == [d EXCEPT !.position_seq = position]
           loop == Loop(d, request.events, position)
           r == InsertEvents(d, index, request)
<1>1. /\ TableInv(drawn) /\ Grows(d, drawn) /\ drawn.position_seq = position
      /\ drawn.positions = d.positions
  <2>1. position \in Nat /\ d.position_seq <= position
    BY DEF TableInv, PositionInv
  <2> HIDE DEF position
  <2> QED
    BY <2>1, DrawnKeeps
<1>2. drawn.models = d.models /\ drawn.id_sequences = d.id_sequences
  <2>1. DOMAIN d = Tables
    BY DEF TableInv
  <2> QED
    BY <2>1 DEF Tables
<1>3. position \in Nat /\ position > 0 /\ position \notin DOMAIN d.positions
  BY DEF TableInv, PositionInv
<1>4. LoopInv(loop, d, request.events)
  BY LoopKeeps DEF TableInv
<1>5. LoopInv(loop, drawn, request.events)
  <2> HIDE DEF loop, drawn
  <2> QED
    BY <1>2, <1>4 DEF LoopInv
<1>6. /\ r.position = position
      /\ loop.error # "ok" => r.error # "ok" /\ r.db = drawn
      /\ loop.error = "ok" =>
            r.error = "ok" /\ r.db = StoreEvents(drawn, position, index, request, loop)
  BY DEF InsertEvents
<1> HIDE DEF loop, drawn, r, position
<1>7. CASE loop.error # "ok"
  <2>1. Inserted(d, r.db, r.error, r.position)
    BY <1>1, <1>6, <1>7 DEF Inserted, position
  <2> QED
    BY <2>1 DEF r
<1>8. CASE loop.error = "ok"
  <2> DEFINE e == StoreEvents(drawn, position, index, request, loop)
  <2>1. /\ TableInv(e) /\ Grows(drawn, e) /\ e.position_seq = position
        /\ DOMAIN e.positions = DOMAIN drawn.positions \cup {position}
    BY <1>1, <1>3, <1>5, StoreEventsKeeps
  <2> HIDE DEF e
  <2>2. Grows(d, e)
    BY <1>2, <2>1 DEF Grows
  <2>3. Inserted(d, r.db, r.error, r.position)
    BY <1>1, <1>6, <1>8, <2>1, <2>2 DEF Inserted, position, e
  <2> QED
    BY <2>3 DEF r
<1> QED
  BY <1>7, <1>8

-----------------------------------------------------------------------------
(* WriterService.write                                                      *)

GoodRequest(request) ==
    GoodEvents(request.events) /\ request.migration_index \in Int \cup {None}

\* The index a request is stored with: that of all positions, or any in an empty database.
IndexFor(d, request) ==
    IF request.migration_index = None THEN CurrentMigrationIndex(d) ELSE request.migration_index

\* get_current_migration_index and the check for an empty database.
LEMMA IndexForFits ==
    ASSUME NEW d, TableInv(d), NEW request, GoodRequest(request),
           MigrationIndexError(d, request) = "ok"
    PROVE  /\ IndexFor(d, request) \in Int
           /\ \A p \in DOMAIN d.positions :
                 d.positions[p].migration_index = IndexFor(d, request)
<1>1. CASE request.migration_index # None
  <2>1. d.positions = <<>>
    BY <1>1 DEF MigrationIndexError
  <2>2. DOMAIN d.positions = {}
    BY <2>1
  <2> QED
    BY <1>1, <2>2 DEF IndexFor, GoodRequest
<1>2. CASE request.migration_index = None /\ DOMAIN d.positions = {}
  <2>1. MigrationIndices(d) = {}
    BY <1>2 DEF MigrationIndices
  <2> QED
    BY <1>2, <2>1 DEF IndexFor, CurrentMigrationIndex
<1>3. CASE request.migration_index = None /\ DOMAIN d.positions # {}
  <2>1. PICK p \in DOMAIN d.positions : TRUE
    BY <1>3
  <2> DEFINE i == d.positions[p].migration_index
  <2>2. i \in Int /\ \A r \in DOMAIN d.positions : d.positions[r].migration_index = i
    BY DEF TableInv, PositionInv
  <2>3. MigrationIndices(d) = {i}
    BY <2>2 DEF MigrationIndices
  <2> HIDE DEF i
  <2>4. CurrentMigrationIndex(d) = i
    BY <2>2, <2>3 DEF CurrentMigrationIndex, Max
  <2> QED
    BY <1>3, <2>2, <2>4 DEF IndexFor
<1> QED
  BY <1>1, <1>2, <1>3

\* What n requests of a call leave of the tables d.
Written(d, acc, n) ==
    /\ TableInv(acc.db) /\ Grows(d, acc.db)
    /\ d.position_seq <= acc.db.position_seq /\ acc.db.position_seq <= d.position_seq + n
    /\ DOMAIN acc.db.positions = DOMAIN d.positions \cup DOMAIN acc.snapshots

\* One more request, whether it is accepted or not.
LEMMA WriteNextKeeps ==
    ASSUME NEW d, TableInv(d), NEW acc, NEW n \in Nat, Written(d, acc, n),
           NEW request, GoodRequest(request)
    PROVE  Written(d, WriteNext(acc, request), n + 1)
<1> DEFINE b == acc.db
           r == WriteWithDatabaseContext(b, request)
           new == WriteNext(acc, request)
<1>1. /\ TableInv(b) /\ Grows(d, b) /\ b.position_seq \in Nat /\ d.position_seq \in Nat
      /\ d.position_seq <= b.position_seq /\ b.position_seq <= d.position_seq + n
      /\ DOMAIN b.positions = DOMAIN d.positions \cup DOMAIN acc.snapshots
  BY DEF Written, TableInv, PositionInv
<1>2. CASE acc.error # "ok"
  <2>1. new = acc
    BY <1>2 DEF WriteNext
  <2>2. Written(d, acc, n + 1)
    BY <1>1 DEF Written
  <2> QED
    BY <2>1, <2>2
<1>3. CASE acc.error = "ok" /\ r.error # "ok" /\ r.db = b
  <2>1. new.db = b /\ new.snapshots = acc.snapshots
    BY <1>3 DEF WriteNext
  <2> HIDE DEF new
  <2>2. Written(d, new, n + 1)
    BY <1>1, <2>1 DEF Written
  <2> QED
    BY <2>2 DEF new
<1>4. CASE acc.error = "ok" /\ Inserted(b, r.db, r.error, r.position)
  <2>1. /\ new.db = r.db
        /\ new.snapshots = IF r.error # "ok" THEN acc.snapshots
                           ELSE With(acc.snapshots, r.position, r.db.models)
    BY <1>4 DEF WriteNext
  <2> HIDE DEF r, new
  <2>2. /\ TableInv(r.db) /\ Grows(b, r.db) /\ r.db.position_seq = b.position_seq + 1
        /\ DOMAIN r.db.positions = IF r.error = "ok" THEN DOMAIN b.positions \cup {r.position}
                                   ELSE DOMAIN b.positions
    BY <1>4 DEF Inserted
  <2>3. Grows(d, r.db)
    <3> SUFFICES ASSUME NEW c \in DOMAIN d.id_sequences
                 PROVE  /\ c \in DOMAIN r.db.id_sequences
                        /\ d.id_sequences[c] <= r.db.id_sequences[c]
      BY DEF Grows
    <3>1. c \in DOMAIN b.id_sequences /\ d.id_sequences[c] <= b.id_sequences[c]
      BY <1>1 DEF Grows
    <3>2. c \in DOMAIN r.db.id_sequences /\ b.id_sequences[c] <= r.db.id_sequences[c]
      BY <2>2, <3>1 DEF Grows
    <3>3. /\ d.id_sequences[c] \in Int /\ b.id_sequences[c] \in Int
          /\ r.db.id_sequences[c] \in Int
      BY <1>1, <2>2, <3>1, <3>2 DEF TableInv, IdInv
    <3> QED
      BY <3>1, <3>2, <3>3
  <2>4. DOMAIN new.snapshots = IF r.error # "ok" THEN DOMAIN acc.snapshots
                               ELSE DOMAIN acc.snapshots \cup {r.position}
    BY <2>1 DEF With
  <2>5. DOMAIN r.db.positions = DOMAIN d.positions \cup DOMAIN new.snapshots
    BY <1>1, <2>2, <2>4
  <2>6. d.position_seq <= r.db.position_seq /\ r.db.position_seq <= d.position_seq + (n + 1)
    BY <1>1, <2>2
  <2>7. Written(d, new, n + 1)
    BY <2>1, <2>2, <2>3, <2>5, <2>6 DEF Written
  <2> QED
    BY <2>7 DEF new
<1>5. (r.error # "ok" /\ r.db = b) \/ Inserted(b, r.db, r.error, r.position)
  <2>1. CASE MigrationIndexError(b, request) # "ok" \/ ~LocksHold(b, request)
    BY <2>1 DEF WriteWithDatabaseContext, Failed
  <2>2. CASE MigrationIndexError(b, request) = "ok" /\ LocksHold(b, request)
    <3> DEFINE index == IndexFor(b, request)
    <3>1. r = InsertEvents(b, index, request)
      BY <2>2 DEF WriteWithDatabaseContext, IndexFor
    <3>2. index \in Int /\ \A p \in DOMAIN b.positions : b.positions[p].migration_index = index
      BY <1>1, <2>2, IndexForFits
    <3> HIDE DEF index, b, r
    <3>3. LET i == InsertEvents(b, index, request)
          IN  Inserted(b, i.db, i.error, i.position)
      BY <1>1, <3>2, InsertEventsKeeps DEF GoodRequest
    <3> QED
      BY <3>1, <3>3
  <2> QED
    BY <2>1, <2>2
<1> QED
  BY <1>2, <1>3, <1>4, <1>5

StartOf(d) == [error |-> "ok", db |-> d, message |-> <<>>, snapshots |-> <<>>]

\* The values that the loop over the requests takes.
WriteRun(g, d, requests, m) ==
    g = [n \in 0..m |-> IF n = 0 THEN StartOf(d) ELSE WriteNext(g[n - 1], requests[n])]

\* There are such values.
LEMMA WriteRunExists ==
    ASSUME NEW d, NEW requests, NEW N \in Nat
    PROVE  \E g : WriteRun(g, d, requests, N)
<1> DEFINE T == {m \in Nat : ~ \E g : WriteRun(g, d, requests, m)}
<1> SUFFICES ASSUME T # {} PROVE FALSE
  OBVIOUS
<1>1. PICK m \in T : \A k \in T : ~(k < m)
  <2>1. T \in SUBSET Nat
    OBVIOUS
  <2> HIDE DEF T
  <2> QED
    BY <2>1, LeastNat
<1>2. CASE m = 0
  <2>1. WriteRun([n \in 0..0 |-> StartOf(d)], d, requests, 0)
    BY DEF WriteRun
  <2> QED
    BY <1>2, <2>1
<1>3. CASE m # 0
  <2>1. m - 1 \in Nat /\ m - 1 \notin T
    BY <1>1, <1>3
  <2>2. PICK g : WriteRun(g, d, requests, m - 1)
    BY <2>1
  <2> DEFINE h == [n \in 0..m |-> IF n = m THEN WriteNext(g[m - 1], requests[m]) ELSE g[n]]
  <2>3. \A n \in 0..m : h[n] = IF n = 0 THEN StartOf(d) ELSE WriteNext(h[n - 1], requests[n])
    BY <1>3, <2>2 DEF WriteRun
  <2>4. WriteRun(h, d, requests, m)
    BY <2>3 DEF WriteRun
  <2> QED
    BY <2>4
<1> QED
  BY <1>2, <1>3

GoodRequests(requests) ==
    requests \in Seq(ToSet(requests)) /\ \A i \in DOMAIN requests : GoodRequest(requests[i])

\* The requests of one call, accepted or not.
LEMMA TransactionKeeps ==
    ASSUME NEW d, TableInv(d), NEW requests, GoodRequests(requests)
    PROVE  Written(d, WriteTransaction(d, requests), Len(requests))
<1> DEFINE N == Len(requests)
           g == CHOOSE g : WriteRun(g, d, requests, N)
<1>1. N \in Nat /\ DOMAIN requests = 1..N
  BY DEF GoodRequests
<1>2. WriteRun(g, d, requests, N)
  BY <1>1, WriteRunExists
<1>3. WriteTransaction(d, requests) = g[N]
  BY DEF WriteTransaction, WriteRun, StartOf
<1> HIDE DEF g, N
<1> DEFINE T == {n \in 0..N : ~Written(d, g[n], n)}
<1>4. Written(d, g[0], 0)
  <2>1. g[0] = StartOf(d)
    BY <1>1, <1>2 DEF WriteRun
  <2>2. g[0].db = d /\ DOMAIN g[0].snapshots = {}
    BY <2>1 DEF StartOf
  <2>3. d.position_seq \in Nat /\ Grows(d, d)
    BY DEF TableInv, PositionInv, IdInv, Grows
  <2> QED
    BY <2>2, <2>3 DEF Written
<1>5. ASSUME NEW n \in 0..N, n # 0, Written(d, g[n - 1], n - 1)
      PROVE  Written(d, g[n], n)
  <2>1. n \in DOMAIN requests /\ g[n] = WriteNext(g[n - 1], requests[n])
    BY <1>1, <1>2, <1>5 DEF WriteRun
  <2>2. n - 1 \in Nat /\ (n - 1) + 1 = n
    BY <1>1, <1>5
  <2>3. GoodRequest(requests[n])
    BY <2>1 DEF GoodRequests
  <2>4. Written(d, WriteNext(g[n - 1], requests[n]), (n - 1) + 1)
    BY <1>5, <2>2, <2>3, WriteNextKeeps
  <2> QED
    BY <2>1, <2>2, <2>4
<1>6. T = {}
  <2> SUFFICES ASSUME T # {} PROVE FALSE
    OBVIOUS
  <2>1. T \in SUBSET Nat
    BY <1>1
  <2>2. PICK m \in T : \A k \in T : ~(k < m)
    <3> HIDE DEF T
    <3> QED
      BY <2>1, LeastNat
  <2>3. m \in 0..N /\ ~Written(d, g[m], m) /\ m # 0
    BY <1>4
  <2>4. m - 1 \in 0..N /\ m - 1 < m
    BY <1>1, <2>3
  <2>5. Written(d, g[m - 1], m - 1)
    BY <2>2, <2>4
  <2> QED
    BY <1>5, <2>3, <2>5
<1>7. N \in 0..N
  BY <1>1
<1>8. Written(d, g[N], N)
  BY <1>6, <1>7
<1> QED
  BY <1>3, <1>8 DEF N

-----------------------------------------------------------------------------
(* The operations                                                           *)

\* Every reservation lies below the sequence of its collection.
ReservationInv ==
    /\ reservations \in Seq(ToSet(reservations))
    /\ \A i \in DOMAIN reservations :
          LET r == reservations[i]
          IN  /\ r.first \in Int /\ r.last \in Int
              /\ r.collection \in DOMAIN db.id_sequences
              /\ r.last < db.id_sequences[r.collection]
    /\ ReservationsDisjoint

BookInv ==
    /\ db.position_seq <= MaxPosition
    /\ DOMAIN snapshots = DOMAIN db.positions
    /\ stream \in Seq(ToSet(stream)) /\ Len(stream) <= MaxMessages

\* The inductive invariant.
StoreInv == TableInv(db) /\ BookInv /\ ReservationInv

\* Reservations stay below sequences that only grow.
LEMMA ReservationsStay ==
    ASSUME StoreInv, Grows(db, db'), IdInv(db'), UNCHANGED reservations
    PROVE  ReservationInv'
<1>1. reservations' = reservations /\ reservations \in Seq(ToSet(reservations))
  BY DEF StoreInv, ReservationInv
<1>2. ReservationsDisjoint'
  BY <1>1 DEF StoreInv, ReservationInv, ReservationsDisjoint
<1>3. ASSUME NEW i \in DOMAIN reservations
      PROVE  LET r == reservations[i]
             IN  /\ r.first \in Int /\ r.last \in Int
                 /\ r.collection \in DOMAIN db'.id_sequences
                 /\ r.last < db'.id_sequences[r.collection]
  <2> DEFINE r == reservations[i]
             c == r.collection
  <2>1. /\ r.first \in Int /\ r.last \in Int /\ c \in DOMAIN db.id_sequences
        /\ r.last < db.id_sequences[c]
    BY DEF StoreInv, ReservationInv
  <2>2. c \in DOMAIN db'.id_sequences /\ db.id_sequences[c] <= db'.id_sequences[c]
    BY <2>1 DEF Grows
  <2>3. db.id_sequences[c] \in Int /\ db'.id_sequences[c] \in Int
    BY <2>1, <2>2 DEF StoreInv, TableInv, IdInv
  <2> HIDE DEF r, c
  <2>4. r.last < db'.id_sequences[c]
    BY <2>1, <2>2, <2>3
  <2> QED
    BY <2>1, <2>2, <2>4 DEF r, c
<1> QED
  BY <1>1, <1>2, <1>3 DEF ReservationInv

\* The requests of a call that is looked at are well formed.
LEMMA RequestsGood ==
    ASSUME NEW requests \in WriteRequestLists, WriteFits(requests)
    PROVE  GoodRequests(requests) /\ Len(requests) \in Nat
<1>1. requests \in Seq(ToSet(requests))
  BY RequestAssumption
<1>2. ASSUME NEW i \in DOMAIN requests PROVE GoodRequest(requests[i])
  <2> DEFINE request == requests[i]
  <2>1. WellFormed(request)
    BY DEF WriteFits
  <2>2. \A j \in DOMAIN request.events : ParseError(request.events[j]) = "ok"
    BY <2>1 DEF WellFormed
  <2>3. /\ request.migration_index \in Int \cup {None}
        /\ request.events \in Seq(ToSet(request.events))
        /\ \A j \in DOMAIN request.events :
              /\ IdOf(request.events[j].fqid) \in Nat
              /\ request.events[j].type \in {"create", "update", "delete", "restore"}
    BY RequestAssumption
  <2> QED
    BY <2>2, <2>3 DEF GoodRequest, GoodEvents
<1>3. Len(requests) \in Nat
  BY <1>1
<1> QED
  BY <1>1, <1>2, <1>3 DEF GoodRequests

\* The bus gets one message more, or none.
LEMMA XaddKeeps ==
    ASSUME NEW message, stream \in Seq(ToSet(stream)), Len(stream) < MaxMessages,
           stream' = Xadd(stream, message)
    PROVE  stream' \in Seq(ToSet(stream')) /\ Len(stream') <= MaxMessages
<1>1. MaxMessages \in Nat /\ Len(stream) \in Nat
  BY RequestAssumption
<1>2. CASE message = <<>>
  BY <1>1, <1>2 DEF Xadd
<1>3. CASE message # <<>>
  <2>1. stream' = Append(stream, message)
    BY <1>3 DEF Xadd
  <2>2. stream' \in Seq(ToSet(stream')) /\ Len(stream') = Len(stream) + 1
    BY <2>1, AppendFacts
  <2> QED
    BY <1>1, <2>2
<1> QED
  BY <1>2, <1>3

\* write, accepted.
LEMMA WriteKeeps ==
    ASSUME StoreInv, NEW requests, GoodRequests(requests), Write(requests)
    PROVE  StoreInv'
<1> DEFINE t == WriteTransaction(db, requests)
<1>1. /\ WriteFits(requests) /\ db' = t.db /\ stream' = Xadd(stream, t.message)
      /\ snapshots' = Over(t.snapshots, snapshots) /\ UNCHANGED <<trimmed, reservations>>
  BY DEF Write
<1>2. GoodRequests(requests) /\ Len(requests) \in Nat
  BY DEF GoodRequests
<1>3. Written(db, t, Len(requests))
  BY <1>2, TransactionKeeps DEF StoreInv
<1> HIDE DEF t
<1>4. /\ TableInv(db') /\ Grows(db, db')
      /\ db'.position_seq <= db.position_seq + Len(requests)
      /\ DOMAIN db'.positions = DOMAIN db.positions \cup DOMAIN t.snapshots
  BY <1>1, <1>3 DEF Written
<1>5. DOMAIN snapshots' = DOMAIN db'.positions
  BY <1>1, <1>4 DEF Over, StoreInv, BookInv
<1>6. db'.position_seq <= MaxPosition
  <2>1. db.position_seq \in Nat /\ db'.position_seq \in Nat
    BY <1>4 DEF StoreInv, TableInv, PositionInv
  <2>2. db.position_seq + Len(requests) <= MaxPosition /\ MaxPosition \in Nat
    BY <1>1, RequestAssumption DEF WriteFits
  <2> QED
    BY <1>2, <1>4, <2>1, <2>2
<1>7. stream' \in Seq(ToSet(stream')) /\ Len(stream') <= MaxMessages
  <2>1. stream \in Seq(ToSet(stream)) /\ Len(stream) < MaxMessages
    BY <1>1 DEF StoreInv, BookInv, WriteFits
  <2> QED
    BY <1>1, <2>1, XaddKeeps
<1>8. BookInv'
  BY <1>5, <1>6, <1>7 DEF BookInv
<1>9. ReservationInv'
  BY <1>1, <1>4, ReservationsStay DEF TableInv
<1> QED
  BY <1>4, <1>8, <1>9 DEF StoreInv

\* write, rolled back.
LEMMA WriteRejectedKeeps ==
    ASSUME StoreInv, NEW requests, GoodRequests(requests), WriteRejected(requests)
    PROVE  StoreInv'
<1> DEFINE t == WriteTransaction(db, requests)
           s == t.db.position_seq
<1>1. /\ WriteFits(requests) /\ db' = [db EXCEPT !.position_seq = s]
      /\ UNCHANGED <<stream, snapshots, trimmed, reservations>>
  BY DEF WriteRejected
<1>2. GoodRequests(requests) /\ Len(requests) \in Nat
  BY DEF GoodRequests
<1>3. Written(db, t, Len(requests))
  BY <1>2, TransactionKeeps DEF StoreInv
<1> HIDE DEF t
<1>4. s \in Nat /\ db.position_seq <= s /\ s <= db.position_seq + Len(requests)
  BY <1>3 DEF Written, TableInv, PositionInv
<1> HIDE DEF s
<1>5. /\ TableInv(db') /\ Grows(db, db') /\ db'.position_seq = s
      /\ db'.positions = db.positions
  BY <1>1, <1>4, DrawnKeeps DEF StoreInv
<1>6. s <= MaxPosition
  <2>1. db.position_seq \in Nat
    BY DEF StoreInv, TableInv, PositionInv
  <2>2. db.position_seq + Len(requests) <= MaxPosition /\ MaxPosition \in Nat
    BY <1>1, RequestAssumption DEF WriteFits
  <2> QED
    BY <1>2, <1>4, <2>1, <2>2
<1>7. BookInv'
  BY <1>1, <1>5, <1>6 DEF BookInv, StoreInv
<1>8. ReservationInv'
  BY <1>1, <1>5, ReservationsStay DEF TableInv
<1> QED
  BY <1>5, <1>7, <1>8 DEF StoreInv

\* The value that reserve_next_ids stores and the row it returns.
NewSequence(c, amount) ==
    IF c \in DOMAIN db.id_sequences THEN db.id_sequences[c] + amount ELSE amount + 1
NewReservation(c, amount) ==
    [collection |-> c, first |-> NewSequence(c, amount) - amount,
     last |-> NewSequence(c, amount) - 1]

\* A reservation begins where the sequence was, and moves it behind its last id.
LEMMA ReservationFacts ==
    ASSUME TableInv(db), NEW c, NEW amount \in Int, amount > 0
    PROVE  LET r == NewReservation(c, amount)
               n == NewSequence(c, amount)
           IN  /\ r.first \in Int /\ r.last \in Int /\ n \in Int /\ r.last < n
               /\ r.collection = c
               /\ c \in DOMAIN db.id_sequences =>
                     r.first = db.id_sequences[c] /\ db.id_sequences[c] <= n
<1> DEFINE n == NewSequence(c, amount)
           r == NewReservation(c, amount)
<1>1. r.first = n - amount /\ r.last = n - 1 /\ r.collection = c
  BY DEF NewReservation
<1>2. CASE c \in DOMAIN db.id_sequences
  <2>1. n = db.id_sequences[c] + amount /\ db.id_sequences[c] \in Int
    BY <1>2 DEF NewSequence, TableInv, IdInv
  <2> HIDE DEF n, r
  <2>2. /\ r.first \in Int /\ r.last \in Int /\ n \in Int /\ r.last < n
        /\ r.first = db.id_sequences[c] /\ db.id_sequences[c] <= n
    BY <1>1, <2>1
  <2> QED
    BY <1>1, <2>2 DEF n, r
<1>3. CASE c \notin DOMAIN db.id_sequences
  <2>1. n = amount + 1
    BY <1>3 DEF NewSequence
  <2> HIDE DEF n, r
  <2>2. r.first \in Int /\ r.last \in Int /\ n \in Int /\ r.last < n
    BY <1>1, <2>1
  <2> QED
    BY <1>1, <1>3, <2>2 DEF n, r
<1> QED
  BY <1>2, <1>3

\* reserve_ids
LEMMA ReserveKeeps ==
    ASSUME StoreInv, NEW c, NEW amount \in Int, ReserveIds(c, amount)
    PROVE  StoreInv'
<1> DEFINE n == NewSequence(c, amount)
           row == NewReservation(c, amount)
<1>1. /\ amount > 0 /\ db' = [db EXCEPT !.id_sequences = With(@, c, n)]
      /\ reservations' = Append(reservations, row)
      /\ UNCHANGED <<stream, snapshots, trimmed>>
  BY DEF ReserveIds, NewSequence, NewReservation
<1>2. /\ row.first \in Int /\ row.last \in Int /\ n \in Int /\ row.last < n
      /\ row.collection = c
      /\ c \in DOMAIN db.id_sequences =>
            row.first = db.id_sequences[c] /\ db.id_sequences[c] <= n
  BY <1>1, ReservationFacts DEF StoreInv
<1> HIDE DEF n, row
<1>3. /\ DOMAIN db' = Tables /\ db'.id_sequences = With(db.id_sequences, c, n)
      /\ db'.positions = db.positions /\ db'.position_seq = db.position_seq
      /\ db'.events = db.events /\ db'.models = db.models
      /\ db'.collectionfields = db.collectionfields
      /\ db'.events_to_collectionfields = db.events_to_collectionfields
  <2>1. DOMAIN db = Tables
    BY DEF StoreInv, TableInv
  <2> QED
    BY <1>1, <2>1 DEF Tables
<1>4. /\ DOMAIN db'.id_sequences = DOMAIN db.id_sequences \cup {c}
      /\ db'.id_sequences[c] = n
      /\ \A x \in DOMAIN db.id_sequences : x # c => db'.id_sequences[x] = db.id_sequences[x]
  BY <1>3 DEF With
<1>5. \A x \in DOMAIN db.id_sequences : db.id_sequences[x] \in Int
  BY DEF StoreInv, TableInv, IdInv
<1>6. Grows(db, db')
  BY <1>2, <1>4, <1>5 DEF Grows
<1>7. \A x \in DOMAIN db'.id_sequences : db'.id_sequences[x] \in Int
  BY <1>2, <1>4, <1>5
<1>8. IdInv(db')
  <2> SUFFICES ASSUME NEW q \in DOMAIN db'.models, HasHistory(q)
               PROVE  /\ IdOf(q) \in Int /\ CollectionOf(q) \in DOMAIN db'.id_sequences
                      /\ IdOf(q) < db'.id_sequences[CollectionOf(q)]
    BY <1>7 DEF IdInv
  <2> DEFINE x == CollectionOf(q)
  <2>1. IdOf(q) \in Int /\ x \in DOMAIN db.id_sequences /\ IdOf(q) < db.id_sequences[x]
    BY <1>3 DEF StoreInv, TableInv, IdInv
  <2> HIDE DEF x
  <2>2. x \in DOMAIN db'.id_sequences /\ db.id_sequences[x] <= db'.id_sequences[x]
    BY <1>6, <2>1 DEF Grows
  <2>3. IdOf(q) < db'.id_sequences[x]
    BY <1>5, <1>7, <2>1, <2>2
  <2> QED
    BY <2>1, <2>2, <2>3 DEF x
<1>9. TableInv(db')
  BY <1>3, <1>8 DEF StoreInv, TableInv, PositionInv, RowInv
<1>10. BookInv'
  BY <1>1, <1>3 DEF StoreInv, BookInv
<1>11. /\ reservations' \in Seq(ToSet(reservations'))
       /\ Len(reservations) \in Nat /\ DOMAIN reservations = 1..Len(reservations)
       /\ DOMAIN reservations' = 1..(Len(reservations) + 1)
       /\ \A i \in DOMAIN reservations : reservations'[i] = reservations[i]
       /\ reservations'[Len(reservations) + 1] = row
  BY <1>1, AppendFacts DEF StoreInv, ReservationInv
<1>12. ASSUME NEW i \in DOMAIN reservations
       PROVE  LET r == reservations[i]
              IN  /\ r.first \in Int /\ r.last \in Int
                  /\ r.collection \in DOMAIN db'.id_sequences
                  /\ r.last < db'.id_sequences[r.collection]
                  /\ r.collection = c => r.last < row.first
  <2> DEFINE r == reservations[i]
             x == r.collection
  <2>1. /\ r.first \in Int /\ r.last \in Int /\ x \in DOMAIN db.id_sequences
        /\ r.last < db.id_sequences[x]
    BY DEF StoreInv, ReservationInv
  <2>2. x \in DOMAIN db'.id_sequences /\ db.id_sequences[x] <= db'.id_sequences[x]
    BY <1>6, <2>1 DEF Grows
  <2> HIDE DEF r, x
  <2>3. r.last < db'.id_sequences[x]
    BY <1>5, <1>7, <2>1, <2>2
  <2>4. x = c => r.last < row.first
    BY <1>2, <2>1
  <2> QED
    BY <2>1, <2>2, <2>3, <2>4 DEF r, x
<1>13. \A i \in DOMAIN reservations' :
          LET r == reservations'[i]
          IN  /\ r.first \in Int /\ r.last \in Int
              /\ r.collection \in DOMAIN db'.id_sequences
              /\ r.last < db'.id_sequences[r.collection]
  <2> SUFFICES ASSUME NEW i \in DOMAIN reservations'
               PROVE  LET r == reservations'[i]
                      IN  /\ r.first \in Int /\ r.last \in Int
                          /\ r.collection \in DOMAIN db'.id_sequences
                          /\ r.last < db'.id_sequences[r.collection]
    OBVIOUS
  <2>1. CASE i \in DOMAIN reservations
    BY <1>11, <1>12, <2>1
  <2>2. CASE i = Len(reservations) + 1
    BY <1>2, <1>4, <1>11, <2>2
  <2> QED
    BY <1>11, <2>1, <2>2
<1>14. ReservationsDisjoint'
  <2> SUFFICES ASSUME NEW i \in DOMAIN reservations', NEW j \in DOMAIN reservations', i < j,
                      reservations'[i].collection = reservations'[j].collection
               PROVE  reservations'[i].last < reservations'[j].first
    BY DEF ReservationsDisjoint
  <2>1. CASE j \in DOMAIN reservations
    <3>1. i \in DOMAIN reservations
      BY <1>11, <2>1
    <3>2. reservations'[i] = reservations[i] /\ reservations'[j] = reservations[j]
      BY <1>11, <2>1, <3>1
    <3> QED
      BY <2>1, <3>1, <3>2 DEF StoreInv, ReservationInv, ReservationsDisjoint
  <2>2. CASE j = Len(reservations) + 1
    <3>1. i \in DOMAIN reservations
      BY <1>11, <2>2
    <3>2. reservations'[i] = reservations[i] /\ reservations'[j] = row
      BY <1>11, <2>2, <3>1
    <3> QED
      BY <1>2, <1>12, <3>1, <3>2
  <2> QED
    BY <1>11, <2>1, <2>2
<1>15. ReservationInv'
  BY <1>11, <1>13, <1>14 DEF ReservationInv
<1> QED
  BY <1>9, <1>10, <1>15 DEF StoreInv

\* Models without history come and go: no sequence has to know of them.
LEMMA EventlessKeeps ==
    ASSUME StoreInv, NEW models, DeletedKnown(models), KeyInv(models),
           \A q \in DOMAIN models : HasHistory(q) => q \in DOMAIN db.models,
           db' = [db EXCEPT !.models = models],
           stream' \in Seq(ToSet(stream')), Len(stream') <= MaxMessages,
           UNCHANGED <<snapshots, trimmed, reservations>>
    PROVE  StoreInv'
<1>1. /\ DOMAIN db' = Tables /\ db'.models = models
      /\ db'.positions = db.positions /\ db'.position_seq = db.position_seq
      /\ db'.events = db.events /\ db'.id_sequences = db.id_sequences
      /\ db'.collectionfields = db.collectionfields
      /\ db'.events_to_collectionfields = db.events_to_collectionfields
  <2>1. DOMAIN db = Tables
    BY DEF StoreInv, TableInv
  <2> QED
    BY <2>1 DEF Tables
<1>2. PositionInv(db') /\ RowInv(db')
  BY <1>1 DEF StoreInv, TableInv, PositionInv, RowInv
<1>3. IdInv(db')
  BY <1>1 DEF StoreInv, TableInv, IdInv
<1>4. TableInv(db')
  BY <1>1, <1>2, <1>3 DEF TableInv
<1>5. Grows(db, db')
  BY <1>1 DEF StoreInv, TableInv, IdInv, Grows
<1>6. BookInv'
  BY <1>1 DEF StoreInv, BookInv
<1>7. ReservationInv'
  BY <1>3, <1>5, ReservationsStay
<1> QED
  BY <1>4, <1>6, <1>7 DEF StoreInv

\* write_without_events, storing
LEMMA WriteWithoutEventsKeeps ==
    ASSUME StoreInv, NEW event \in EventlessUpdates, WriteWithoutEvents(event)
    PROVE  StoreInv'
<1> DEFINE old == IF event.fqid \in DOMAIN db.models THEN db.models[event.fqid] ELSE NoFields
           model == With(Over(event.fields, old), META_DELETED, FALSE)
           models == With(db.models, event.fqid, model)
           message == ModifiedFqfields(With(NoFields, event.fqid, event.fields), 0)
<1>1. /\ Len(stream) < MaxMessages /\ db' = [db EXCEPT !.models = models]
      /\ stream' = Xadd(stream, message) /\ UNCHANGED <<snapshots, trimmed, reservations>>
  BY DEF WriteWithoutEvents
<1>2. META_DELETED \in DOMAIN model /\ model[META_DELETED] = FALSE
  BY DEF With
<1> HIDE DEF model
<1>3. DOMAIN models = DOMAIN db.models \cup {event.fqid}
  BY DEF With
<1>4. \A q \in DOMAIN models :
         models[q] = IF q = event.fqid THEN model ELSE db.models[q]
  BY DEF With
<1>5. ~HasHistory(event.fqid)
  BY EventlessAssumption DEF HasHistory
<1> HIDE DEF models, message
<1>6. DeletedKnown(models)
  <2>1. DeletedKnown(db.models)
    BY DEF StoreInv, TableInv
  <2> QED
    BY <1>2, <1>3, <1>4, <2>1 DEF DeletedKnown
<1>7. \A q \in DOMAIN models : HasHistory(q) => q \in DOMAIN db.models
  BY <1>3, <1>5
<1>8. stream' \in Seq(ToSet(stream')) /\ Len(stream') <= MaxMessages
  <2>1. stream \in Seq(ToSet(stream))
    BY DEF StoreInv, BookInv
  <2> QED
    BY <1>1, <2>1, XaddKeeps
<1>9. KeyInv(models)
  <2>1. KeyInv(db.models) /\ IdOf(event.fqid) \in Nat
    BY RequestAssumption DEF StoreInv, TableInv
  <2>2. IsFiniteSet(DOMAIN db.models \cup {event.fqid})
    BY <2>1, FS_AddElement DEF KeyInv
  <2> QED
    BY <1>3, <2>1, <2>2 DEF KeyInv
<1> QED
  BY <1>1, <1>6, <1>7, <1>8, <1>9, EventlessKeeps

\* write_without_events, deleting
LEMMA DeleteWithoutEventsKeeps ==
    ASSUME StoreInv, NEW fqids, DeleteWithoutEvents(fqids)
    PROVE  StoreInv'
<1> DEFINE models == [q \in DOMAIN db.models \ fqids |-> db.models[q]]
<1>1. /\ db' = [db EXCEPT !.models = models]
      /\ UNCHANGED <<stream, snapshots, trimmed, reservations>>
  BY DEF DeleteWithoutEvents
<1>2. DOMAIN models \subseteq DOMAIN db.models
  OBVIOUS
<1>3. \A q \in DOMAIN models : models[q] = db.models[q]
  OBVIOUS
<1> HIDE DEF models
<1>4. DeletedKnown(models)
  <2>1. DeletedKnown(db.models)
    BY DEF StoreInv, TableInv
  <2> QED
    BY <1>2, <1>3, <2>1 DEF DeletedKnown
<1>5. stream' \in Seq(ToSet(stream')) /\ Len(stream') <= MaxMessages
  BY <1>1 DEF StoreInv, BookInv
<1>6. UNCHANGED <<snapshots, trimmed, reservations>>
  BY <1>1
<1>7. KeyInv(models)
  <2>1. KeyInv(db.models)
    BY DEF StoreInv, TableInv
  <2>2. IsFiniteSet(DOMAIN models)
    BY <1>2, <2>1, FS_Subset DEF KeyInv
  <2> QED
    BY <1>2, <2>1, <2>2 DEF KeyInv
<1> QED
  BY <1>1, <1>2, <1>4, <1>5, <1>6, <1>7, EventlessKeeps

\* delete_history_information
LEMMA DeleteHistoryInformationKeeps ==
    ASSUME StoreInv, DeleteHistoryInformation
    PROVE  StoreInv'
<1> DEFINE rows == [p \in DOMAIN db.positions |->
                       [db.positions[p] EXCEPT !.information = None]]
<1>1. /\ db' = [db EXCEPT !.positions = rows]
      /\ UNCHANGED <<stream, snapshots, trimmed, reservations>>
  BY DEF DeleteHistoryInformation
<1>2. /\ DOMAIN db' = Tables /\ db'.positions = rows
      /\ db'.models = db.models /\ db'.position_seq = db.position_seq
      /\ db'.events = db.events /\ db'.id_sequences = db.id_sequences
      /\ db'.collectionfields = db.collectionfields
      /\ db'.events_to_collectionfields = db.events_to_collectionfields
  <2>1. DOMAIN db = Tables
    BY DEF StoreInv, TableInv
  <2> HIDE DEF rows
  <2> QED
    BY <1>1, <2>1 DEF Tables
<1>3. DOMAIN rows = DOMAIN db.positions
  OBVIOUS
<1>4. \A p \in DOMAIN rows :
         /\ DOMAIN rows[p] = {"migration_index", "information"}
         /\ rows[p].migration_index = db.positions[p].migration_index
  BY DEF StoreInv, TableInv, PositionInv
<1> HIDE DEF rows
<1>5. PositionInv(db')
  BY <1>2, <1>3, <1>4 DEF StoreInv, TableInv, PositionInv
<1>6. RowInv(db')
  BY <1>2, <1>3 DEF StoreInv, TableInv, RowInv
<1>7. IdInv(db') /\ Grows(db, db')
  BY <1>2 DEF StoreInv, TableInv, IdInv, Grows
<1>8. TableInv(db')
  BY <1>2, <1>5, <1>6, <1>7 DEF StoreInv, TableInv
<1>9. BookInv'
  BY <1>1, <1>2, <1>3 DEF StoreInv, BookInv
<1>10. ReservationInv'
  BY <1>1, <1>7, ReservationsStay
<1> QED
  BY <1>8, <1>9, <1>10 DEF StoreInv

\* The empty tables, at the start and after truncate_db.
LEMMA EmptyKeeps ==
    TableInv(EmptyDb) /\ EmptyDb.position_seq = 0 /\ DOMAIN EmptyDb.positions = {}
<1> DEFINE d == EmptyDb
<1>1. /\ DOMAIN d = Tables /\ d.position_seq = 0 /\ d.positions = <<>> /\ d.events = <<>>
      /\ d.models = <<>> /\ d.id_sequences = <<>> /\ d.collectionfields = <<>>
      /\ d.events_to_collectionfields = {}
  BY DEF EmptyDb, Tables
<1>2. <<>> \in Seq(ToSet(<<>>)) /\ DOMAIN <<>> = {}
  OBVIOUS
<1> HIDE DEF d
<1>3. PositionInv(d) /\ RowInv(d)
  BY <1>1, <1>2 DEF PositionInv, RowInv
<1>4. DeletedKnown(d.models) /\ IdInv(d) /\ KeyInv(d.models)
  BY <1>1, <1>2, FS_EmptySet DEF DeletedKnown, IdInv, KeyInv
<1>5. TableInv(d)
  BY <1>1, <1>3, <1>4 DEF TableInv
<1> QED
  BY <1>1, <1>2, <1>5 DEF d

\* truncate_db
LEMMA TruncateKeeps ==
    ASSUME StoreInv, TruncateDb
    PROVE  StoreInv'
<1>1. /\ db' = EmptyDb /\ snapshots' = <<>> /\ reservations' = <<>> /\ stream' = stream
  BY DEF TruncateDb
<1>2. <<>> \in Seq(ToSet(<<>>)) /\ DOMAIN <<>> = {}
  OBVIOUS
<1>3. /\ TableInv(db') /\ db'.position_seq = 0 /\ DOMAIN db'.positions = {}
  BY <1>1, EmptyKeeps
<1>4. MaxPosition \in Nat
  BY RequestAssumption
<1>5. BookInv'
  BY <1>1, <1>2, <1>3, <1>4 DEF StoreInv, BookInv
<1>6. ReservationInv'
  BY <1>1, <1>2 DEF ReservationInv, ReservationsDisjoint
<1> QED
  BY <1>3, <1>5, <1>6 DEF StoreInv

\* cli/trim_collectionfield_tables.py
LEMMA TrimKeeps ==
    ASSUME StoreInv, NEW threshold, TrimCollectionfieldTables(threshold)
    PROVE  StoreInv'
<1> DEFINE kept == {cf \in DOMAIN db.collectionfields : db.collectionfields[cf] >= threshold}
           fields == [cf \in kept |-> db.collectionfields[cf]]
           links == {r \in db.events_to_collectionfields : r[2] \in kept /\ r[1][1] >= threshold}
<1>1. /\ db' = [db EXCEPT !.collectionfields = fields, !.events_to_collectionfields = links]
      /\ UNCHANGED <<stream, snapshots, reservations>>
  BY DEF TrimCollectionfieldTables
<1>2. /\ DOMAIN fields = kept /\ kept \subseteq DOMAIN db.collectionfields
      /\ \A cf \in kept : fields[cf] = db.collectionfields[cf]
      /\ \A r \in links : r[2] \in kept
  OBVIOUS
<1> HIDE DEF kept, fields, links
<1>3. /\ DOMAIN db' = Tables /\ db'.positions = db.positions
      /\ db'.models = db.models /\ db'.position_seq = db.position_seq
      /\ db'.events = db.events /\ db'.id_sequences = db.id_sequences
      /\ db'.collectionfields = fields /\ db'.events_to_collectionfields = links
  <2>1. DOMAIN db = Tables
    BY DEF StoreInv, TableInv
  <2> QED
    BY <1>1, <2>1 DEF Tables
<1>4. RowInv(db')
  BY <1>2, <1>3 DEF StoreInv, TableInv, RowInv
<1>5. PositionInv(db') /\ IdInv(db') /\ Grows(db, db')
  BY <1>3 DEF StoreInv, TableInv, PositionInv, IdInv, Grows
<1>6. TableInv(db')
  BY <1>3, <1>4, <1>5 DEF StoreInv, TableInv
<1>7. BookInv'
  BY <1>1, <1>3 DEF StoreInv, BookInv
<1>8. ReservationInv'
  BY <1>1, <1>5, ReservationsStay
<1> QED
  BY <1>6, <1>7, <1>8 DEF StoreInv

-----------------------------------------------------------------------------
(* The invariant and what follows from it                                   *)

\* The new database.
LEMMA StoreInit == Init => StoreInv
<1> SUFFICES ASSUME Init PROVE StoreInv
  OBVIOUS
<1>1. db = EmptyDb /\ stream = <<>> /\ snapshots = <<>> /\ reservations = <<>>
  BY DEF Init
<1>2. <<>> \in Seq(ToSet(<<>>)) /\ DOMAIN <<>> = {} /\ Len(<<>>) = 0
  OBVIOUS
<1>3. TableInv(db) /\ db.position_seq = 0 /\ DOMAIN db.positions = {}
  BY <1>1, EmptyKeeps
<1>4. MaxPosition \in Nat /\ MaxMessages \in Nat
  BY RequestAssumption
<1>5. BookInv
  BY <1>1, <1>2, <1>3, <1>4 DEF BookInv
<1>6. ReservationInv
  BY <1>1, <1>2 DEF ReservationInv, ReservationsDisjoint
<1> QED
  BY <1>3, <1>5, <1>6 DEF StoreInv

\* Every operation of the writer keeps the invariant.
LEMMA StoreStep == StoreInv /\ [Next]_vars => StoreInv'
<1> SUFFICES ASSUME StoreInv, [Next]_vars PROVE StoreInv'
  OBVIOUS
<1>1. ASSUME NEW requests \in WriteRequestLists, Write(requests) PROVE StoreInv'
  <2>1. GoodRequests(requests)
    BY <1>1, RequestsGood DEF Write
  <2> QED
    BY <1>1, <2>1, WriteKeeps
<1>2. ASSUME NEW requests \in WriteRequestLists, WriteRejected(requests) PROVE StoreInv'
  <2>1. GoodRequests(requests)
    BY <1>2, RequestsGood DEF WriteRejected
  <2> QED
    BY <1>2, <2>1, WriteRejectedKeeps
<1>3. ASSUME NEW r \in ReserveAmounts, ReserveIds(r[1], r[2]) PROVE StoreInv'
  <2>1. r[2] \in Int
    BY RequestAssumption
  <2> QED
    BY <1>3, <2>1, ReserveKeeps
<1>4. ASSUME NEW event \in EventlessUpdates, WriteWithoutEvents(event) PROVE StoreInv'
  BY <1>4, WriteWithoutEventsKeeps
<1>5. ASSUME NEW fqids \in EventlessDeletes, DeleteWithoutEvents(fqids) PROVE StoreInv'
  BY <1>5, DeleteWithoutEventsKeeps
<1>6. CASE DeleteHistoryInformation
  BY <1>6, DeleteHistoryInformationKeeps
<1>7. CASE TruncateDb
  BY <1>7, TruncateKeeps
<1>8. ASSUME NEW threshold, TrimCollectionfieldTables(threshold) PROVE StoreInv'
  BY <1>8, TrimKeeps
<1>9. CASE UNCHANGED vars
  <2>1. /\ db' = db /\ stream' = stream /\ snapshots' = snapshots
        /\ reservations' = reservations
    BY <1>9 DEF vars
  <2>2. TableInv(db') /\ BookInv'
    BY <2>1 DEF StoreInv, BookInv
  <2>3. ReservationInv'
    BY <2>1 DEF StoreInv, ReservationInv, ReservationsDisjoint
  <2> QED
    BY <2>2, <2>3 DEF StoreInv
<1> QED
  BY <1>1, <1>2, <1>3, <1>4, <1>5, <1>6, <1>7, <1>8, <1>9 DEF Next

\* The inductive invariant of the writer's tables: the rows fit together, the positions
\* carry one migration index, and the id sequence of a collection is above the ids of
\* its models and above everything that reserve_ids returned.
THEOREM StoreInvariant == Spec => []StoreInv
<1> QED
  BY StoreInit, StoreStep, PTL DEF Spec

\* The shape of the tables, for every list of requests and any bound: events and
\* collectionfields refer to stored positions, the events connected to a collectionfield
\* to a stored collectionfield (the foreign keys of schema.sql), after every write,
\* rejection, trimming and truncation.
THEOREM TypeCorrect == Spec => []TypeOk
<1>1. StoreInv => TypeOk
  <2> SUFFICES ASSUME StoreInv PROVE TypeOk
    OBVIOUS
  <2>1. db.position_seq \in 0..MaxPosition
    BY RequestAssumption DEF StoreInv, TableInv, PositionInv, BookInv
  <2>2. Len(stream) \in 0..MaxMessages
    BY RequestAssumption DEF StoreInv, BookInv
  <2>3. \A q \in DOMAIN db.models : db.models[q][META_DELETED] \in BOOLEAN
    BY DEF StoreInv, TableInv, DeletedKnown
  <2> QED
    BY <2>1, <2>2, <2>3 DEF TypeOk, StoreInv, TableInv, PositionInv, RowInv, BookInv
<1> QED
  BY <1>1, StoreInvariant, PTL

\* All positions carry one migration index, so that get_current_migration_index never
\* raises in a database that only the writer changes.
THEOREM UniformMigrationIndexHolds == Spec => []UniformMigrationIndex
<1>1. StoreInv => UniformMigrationIndex
  <2> SUFFICES ASSUME StoreInv PROVE UniformMigrationIndex
    OBVIOUS
  <2> DEFINE S == MigrationIndices(db)
  <2>1. \A x, y \in S : x = y
    BY DEF MigrationIndices, StoreInv, TableInv, PositionInv
  <2> HIDE DEF S
  <2>2. CASE S = {}
    BY <2>2, FS_EmptySet DEF UniformMigrationIndex, S
  <2>3. CASE S # {}
    <3>1. PICK x \in S : TRUE
      BY <2>3
    <3>2. S = {x}
      BY <2>1, <3>1
    <3>3. Cardinality(S) = 1
      BY <3>2, FS_Singleton
    <3> QED
      BY <3>3 DEF UniformMigrationIndex, S
  <2> QED
    BY <2>2, <2>3
<1> QED
  BY <1>1, StoreInvariant, PTL

\* reserve_ids never returns an id twice, whatever is created or reserved in between.
THEOREM ReservationsDisjointHolds == Spec => []ReservationsDisjoint
<1>1. StoreInv => ReservationsDisjoint
  BY DEF StoreInv, ReservationInv
<1> QED
  BY <1>1, StoreInvariant, PTL

\* The step of ReservedIdsAreFree.
ReservesFreeIds ==
    Len(reservations') > Len(reservations) =>
      LET r == Last(reservations')
      IN  \A q \in DOMAIN db.models : HasHistory(q) =>
             ~(CollectionOf(q) = r.collection /\ IdOf(q) \in r.first..r.last)

\* A reservation begins at the sequence, which is above the ids of the models there are.
LEMMA ReserveTakesFree ==
    ASSUME StoreInv, NEW c, NEW amount \in Int, ReserveIds(c, amount)
    PROVE  ReservesFreeIds
<1> DEFINE row == NewReservation(c, amount)
<1>1. amount > 0 /\ reservations' = Append(reservations, row)
  BY DEF ReserveIds, NewSequence, NewReservation
<1>2. /\ row.first \in Int /\ row.last \in Int /\ row.collection = c
      /\ c \in DOMAIN db.id_sequences => row.first = db.id_sequences[c]
  BY <1>1, ReservationFacts DEF StoreInv
<1> HIDE DEF row
<1>3. /\ Len(reservations') = Len(reservations) + 1
      /\ reservations'[Len(reservations) + 1] = row
  BY <1>1, AppendFacts DEF StoreInv, ReservationInv
<1>4. Last(reservations') = row
  BY <1>3 DEF Last
<1>5. ASSUME NEW q \in DOMAIN db.models, HasHistory(q), CollectionOf(q) = row.collection,
             IdOf(q) \in row.first..row.last
      PROVE  FALSE
  <2> DEFINE i == IdOf(q)
  <2>1. /\ i \in Int /\ c \in DOMAIN db.id_sequences /\ i < db.id_sequences[c]
        /\ db.id_sequences[c] \in Int
    BY <1>2, <1>5 DEF StoreInv, TableInv, IdInv
  <2>2. i \in row.first..row.last
    BY <1>5
  <2> HIDE DEF i
  <2> QED
    BY <1>2, <2>1, <2>2
<1> QED
  BY <1>4, <1>5 DEF ReservesFreeIds

\* Every other operation leaves the list of reservations as it is or empties it.
LEMMA OthersReserveNothing ==
    ASSUME StoreInv, reservations' = reservations \/ reservations' = <<>>
    PROVE  ReservesFreeIds
<1>1. Len(reservations) \in Nat /\ Len(<<>>) = 0
  BY DEF StoreInv, ReservationInv
<1>2. ~(Len(reservations') > Len(reservations))
  BY <1>1
<1> QED
  BY <1>2 DEF ReservesFreeIds

\* reserve_ids never returns the id of a model with history that exists or existed: the
\* sequence is moved by every creation.
THEOREM ReservedIdsAreFreeHolds == Spec => ReservedIdsAreFree
<1>1. StoreInv /\ [Next]_vars => [ReservesFreeIds]_vars
  <2> SUFFICES ASSUME StoreInv, Next PROVE ReservesFreeIds
    OBVIOUS
  <2>1. ASSUME NEW requests \in WriteRequestLists, Write(requests) \/ WriteRejected(requests)
        PROVE  reservations' = reservations
    BY <2>1 DEF Write, WriteRejected
  <2>2. ASSUME NEW r \in ReserveAmounts, ReserveIds(r[1], r[2]) PROVE ReservesFreeIds
    <3>1. r[2] \in Int
      BY RequestAssumption
    <3> QED
      BY <2>2, <3>1, ReserveTakesFree
  <2>3. ASSUME NEW event \in EventlessUpdates, WriteWithoutEvents(event)
        PROVE  reservations' = reservations
    BY <2>3 DEF WriteWithoutEvents
  <2>4. ASSUME NEW fqids \in EventlessDeletes, DeleteWithoutEvents(fqids)
        PROVE  reservations' = reservations
    BY <2>4 DEF DeleteWithoutEvents
  <2>5. ASSUME DeleteHistoryInformation PROVE reservations' = reservations
    BY <2>5 DEF DeleteHistoryInformation
  <2>6. ASSUME TruncateDb PROVE reservations' = <<>>
    BY <2>6 DEF TruncateDb
  <2>7. ASSUME NEW threshold, TrimCollectionfieldTables(threshold)
        PROVE  reservations' = reservations
    BY <2>7 DEF TrimCollectionfieldTables
  <2> QED
    BY <2>1, <2>2, <2>3, <2>4, <2>5, <2>6, <2>7, OthersReserveNothing DEF Next
<1>2. Spec => [][ReservesFreeIds]_vars
  BY <1>1, StoreInvariant, PTL DEF Spec
<1> QED
  BY <1>2 DEF ReservedIdsAreFree, ReservesFreeIds

=============================================================================
