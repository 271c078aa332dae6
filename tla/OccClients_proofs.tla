-------------------------- MODULE OccClients_proofs --------------------------
(***************************************************************************)
(* Optimistic locking keeps its promises, for any models, fields, requests *)
(* of other clients, trimmings and lock positions: a write that is         *)
(* accepted finds what its locks name as it was when the client read it,   *)
(* and a client that is turned away gets newer locks by reading again.     *)
(***************************************************************************)
EXTENDS OccClients, EventStore_changes

-----------------------------------------------------------------------------
(* The tables against which locks are checked                               *)

\* There is a newest position, and one before each.
LEMMA NewestExists ==
    ASSUME NEW snaps, NEW n \in Nat, \A x \in DOMAIN snaps : x \in 1..n, NEW p
    PROVE  /\ \E r : Newest(snaps, r)
           /\ p \in Nat /\ p > 0 => \E r : Previous(snaps, p, r)
<1> DEFINE S == {0} \cup DOMAIN snaps
           B == {0} \cup {x \in DOMAIN snaps : x < p}
<1>1. S # {} /\ S \subseteq 0..n /\ \A x \in DOMAIN snaps : x \in S
  OBVIOUS
<1>2. Newest(snaps, Max(S))
  <2>1. Max(S) \in S /\ \A x \in S : x <= Max(S)
    <3> HIDE DEF S
    <3> QED
      BY <1>1, MaxOfBounded
  <2> QED
    BY <2>1 DEF Newest
<1>3. ASSUME p \in Nat, p > 0 PROVE Previous(snaps, p, Max(B))
  <2>1. B # {} /\ B \subseteq 0..n /\ \A x \in B : x < p
    BY <1>3
  <2>2. Max(B) \in B /\ \A x \in B : x <= Max(B)
    <3> HIDE DEF B
    <3> QED
      BY <2>1, MaxOfBounded
  <2> QED
    BY <2>1, <2>2 DEF Previous
<1> QED
  BY <1>2, <1>3

\* A field that differs between the position of a lock and now was changed by a position in
\* between, the first of which the tables know, unless it was trimmed away.
LEMMA ChangeIsNoted ==
    ASSUME NEW t, TableInv(t), NEW snaps, NEW trim \in Int, ChangeInv(t, snaps, trim),
           NEW l \in DOMAIN snaps, trim <= l + 1,
           NEW q, HasHistory(q), NEW f, Changed(snaps[l], t.models, q, f)
    PROVE  \E p \in DOMAIN snaps : p > l /\ Noted(t, q, p, f)
<1> DEFINE n == t.position_seq
<1>1. n \in Nat /\ \A x \in DOMAIN snaps : x \in 1..n
  BY DEF TableInv, PositionInv, ChangeInv
<1> HIDE DEF n
<1>2. \A x \in DOMAIN snaps : x \in Nat /\ x > 0
  BY <1>1
<1>3. PICK r : Newest(snaps, r)
  BY <1>1, NewestExists
<1>4. r \in DOMAIN snaps /\ l <= r
  BY <1>2, <1>3 DEF Newest
<1>5. SameHistory(snaps[r], t.models)
  <2>1. Before(snaps, r) = snaps[r]
    BY <1>2, <1>4 DEF Before
  <2> QED
    BY <1>3, <2>1 DEF ChangeInv
<1>6. Value(snaps[r], q, f) = Value(t.models, q, f) /\ Raw(snaps[r], q, f) = Raw(t.models, q, f)
  BY <1>5, ValueOf DEF SameHistory, Raw
<1>7. Changed(snaps[l], snaps[r], q, f)
  BY <1>6 DEF Changed
<1>8. \A x : ~Changed(x, x, q, f)
  BY DEF Changed
<1> DEFINE T == {x \in DOMAIN snaps : x > l /\ Changed(snaps[l], snaps[x], q, f)}
<1>9. r \in T
  BY <1>2, <1>4, <1>7, <1>8
<1>10. PICK p \in T : \A x \in T : ~(x < p)
  <2>1. T \in SUBSET Nat /\ T # {}
    BY <1>2, <1>9
  <2> HIDE DEF T
  <2> QED
    BY <2>1, LeastNat
<1>11. p \in DOMAIN snaps /\ p > l /\ Changed(snaps[l], snaps[p], q, f) /\ p \in Nat /\ p > 0
  BY <1>2
<1>12. PICK b : Previous(snaps, p, b)
  BY <1>1, <1>11, NewestExists
<1>13. b \in DOMAIN snaps /\ l <= b /\ b < p
  BY <1>2, <1>11, <1>12 DEF Previous
<1>14. ~Changed(snaps[l], snaps[b], q, f)
  <2>1. CASE b = l
    BY <1>8, <2>1
  <2>2. CASE b # l
    BY <1>2, <1>10, <1>13, <2>2
  <2> QED
    BY <2>1, <2>2
<1> HIDE DEF T
<1>15. Changed(Before(snaps, b), snaps[p], q, f)
  <2>1. Before(snaps, b) = snaps[b]
    BY <1>2, <1>13 DEF Before
  <2> QED
    BY <1>11, <1>14, <2>1 DEF Changed
<1>16. p >= trim
  BY <1>2, <1>11
<1>17. Noted(t, q, p, f)
  BY <1>11, <1>12, <1>15, <1>16 DEF ChangeInv, NotedInv
<1> QED
  BY <1>11, <1>17

\* The rows that the locker joins are those of events and their collectionfields.
LEMMA TouchedFacts ==
    ASSUME NEW t, NEW i \in DOMAIN t.events, NEW cf \in DOMAIN t.collectionfields,
           <<<<t.events[i].position, t.events[i].weight>>, cf>> \in t.events_to_collectionfields
    PROVE  <<t.events[i].fqid, t.events[i].position, cf>> \in TouchedFields(t)
<1> DEFINE pairs == {r \in (DOMAIN t.events) \X (DOMAIN t.collectionfields) :
                       <<<<t.events[r[1]].position, t.events[r[1]].weight>>, r[2]>>
                           \in t.events_to_collectionfields}
           k == <<i, cf>>
<1>1. k[1] = i /\ k[2] = cf /\ k \in (DOMAIN t.events) \X (DOMAIN t.collectionfields)
  OBVIOUS
<1> HIDE DEF k
<1>2. k \in pairs
  BY <1>1
<1>3. \A x \in pairs : <<t.events[x[1]].fqid, t.events[x[1]].position, x[2]>> \in TouchedFields(t)
  BY DEF TouchedFields
<1> HIDE DEF pairs
<1>4. <<t.events[k[1]].fqid, t.events[k[1]].position, k[2]>> \in TouchedFields(t)
  BY <1>2, <1>3
<1> QED
  BY <1>1, <1>4, Zenon

\* A collectionfield newer than a position was touched by an event newer than it.
LEMMA NewerIsTouched ==
    ASSUME NEW t, FieldInv(t), NEW cf \in DOMAIN t.collectionfields,
           NEW l, t.collectionfields[cf] > l
    PROVE  \E u \in TouchedFields(t) : u[2] > l /\ cf = u[3]
<1> DEFINE p == t.collectionfields[cf]
<1>1. Linked(t, cf, p)
  BY DEF FieldInv
<1>2. PICK i \in DOMAIN t.events :
         /\ t.events[i].position = p
         /\ <<<<p, t.events[i].weight>>, cf>> \in t.events_to_collectionfields
  BY <1>1 DEF Linked
<1> HIDE DEF p
<1> DEFINE u == <<t.events[i].fqid, t.events[i].position, cf>>
<1>3. u \in TouchedFields(t)
  BY <1>2, TouchedFacts
<1>4. u[2] = p /\ u[3] = cf
  BY <1>2
<1> QED
  BY <1>3, <1>4 DEF p

-----------------------------------------------------------------------------
(* The request of the client                                                *)

\* The parts of the request that the client sends.
LEMMA LockedRequestFacts ==
    LET request == LockedRequest
        l == client.positions["all"]
    IN  /\ request.events = ClientEvents /\ request.migration_index = None
        /\ request.locked_fqids = IF client.mode = "fqid" THEN [q \in {Target} |-> l] ELSE <<>>
        /\ request.locked_fqfields =
              IF client.mode = "fqfield"
              THEN [k \in {<<Target, f>> : f \in DOMAIN client.positions} |->
                       client.positions[k[2]]]
              ELSE <<>>
        /\ request.locked_collectionfields =
              IF client.mode \in {"aggregate", "filter", "scope"}
              THEN [cf \in {<<Collection, Filter.field>>} |->
                       IF client.mode = "scope" THEN FilterLock(l, Filter) ELSE IntLock(l)]
              ELSE <<>>
BY DEF LockedRequest

\* A sequence of one.
LEMMA OneRequest ==
    ASSUME NEW request
    PROVE  /\ <<request>> \in Seq(ToSet(<<request>>)) /\ Len(<<request>>) = 1
           /\ DOMAIN <<request>> = {1} /\ <<request>>[1] = request
<1>1. /\ Len(<<request>>) = 1 /\ DOMAIN <<request>> = {1} /\ <<request>>[1] = request
  OBVIOUS
<1>2. request \in ToSet(<<request>>)
  BY <1>1 DEF ToSet
<1> DEFINE V == ToSet(<<request>>)
<1> HIDE DEF V
<1>3. <<request>> \in Seq(V)
  BY <1>2 DEF V
<1> QED
  BY <1>1, <1>3 DEF V

\* The client's request is well formed where the writer looks at it.
LEMMA ClientRequestGood ==
    ASSUME WriteFits(<<LockedRequest>>)
    PROVE  GoodRequests(<<LockedRequest>>)
<1> DEFINE request == LockedRequest
<1>1. request.events = ClientEvents /\ request.migration_index = None
  BY LockedRequestFacts
<1>2. /\ <<request>> \in Seq(ToSet(<<request>>))
      /\ DOMAIN <<request>> = {1} /\ <<request>>[1] = request
  BY OneRequest
<1> HIDE DEF request
<1>3. WellFormed(request)
  BY <1>2 DEF WriteFits, request
<1>4. GoodRequest(request)
  BY <1>1, <1>3, ClientAssumption DEF WellFormed, GoodRequest, GoodEvents
<1>5. GoodRequests(<<request>>)
  BY <1>2, <1>4 DEF GoodRequests
<1> QED
  BY <1>5 DEF request

\* assert_locked_fields has passed when a call with one request succeeds.
LEMMA AcceptedHolds ==
    ASSUME NEW d, NEW request, WriteTransaction(d, <<request>>).error = "ok"
    PROVE  LocksHold(d, request)
<1> DEFINE requests == <<request>>
           g == CHOOSE g : WriteRun(g, d, requests, 1)
<1>1. Len(requests) = 1 /\ requests[1] = request
  BY OneRequest
<1>2. WriteRun(g, d, requests, 1)
  BY WriteRunExists
<1> HIDE DEF requests
<1>3. WriteTransaction(d, requests) = g[1]
  BY <1>1 DEF WriteTransaction, WriteRun, StartOf
<1> HIDE DEF g
<1>4. g[0] = StartOf(d) /\ g[1] = WriteNext(g[0], request)
  BY <1>1, <1>2 DEF WriteRun
<1>5. WriteNext(StartOf(d), request).error = "ok"
  BY <1>3, <1>4 DEF requests
<1>6. WriteWithDatabaseContext(d, request).error = "ok"
  BY <1>5 DEF WriteNext, StartOf
<1> QED
  BY <1>6 DEF WriteWithDatabaseContext, Failed

\* The pairs that name the fields of the client's locks.
LEMMA LockedFieldFacts ==
    ASSUME NEW locked, locked = [k \in {<<Target, f>> : f \in DOMAIN client.positions} |->
                                    client.positions[k[2]]]
    PROVE  /\ \A f \in DOMAIN client.positions :
                 <<Target, f>> \in DOMAIN locked /\ locked[<<Target, f>>] = client.positions[f]
           /\ \A k \in DOMAIN locked : \E f \in DOMAIN client.positions : k = <<Target, f>>
<1>1. DOMAIN locked = {<<Target, f>> : f \in DOMAIN client.positions}
  OBVIOUS
<1>2. \A f : <<Target, f>>[2] = f
  OBVIOUS
<1>3. \A f \in DOMAIN client.positions : <<Target, f>> \in DOMAIN locked
  BY <1>1
<1>4. \A k \in DOMAIN locked : locked[k] = client.positions[k[2]]
  OBVIOUS
<1>5. \A f \in DOMAIN client.positions : locked[<<Target, f>>] = client.positions[f]
  BY <1>2, <1>3, <1>4
<1> QED
  BY <1>1, <1>3, <1>5

-----------------------------------------------------------------------------
(* Rejection                                                                *)

\* get_locked_fqids: a broken lock on the model.
LEMMA FqidBroken ==
    ASSUME client.mode = "fqid", ~LocksHold(db, LockedRequest)
    PROVE  \E i \in DOMAIN db.events : /\ db.events[i].fqid = Target
                                       /\ db.events[i].position > client.positions["all"]
<1> DEFINE request == LockedRequest
           l == client.positions["all"]
<1>1. /\ request.locked_fqids = [q \in {Target} |-> l]
      /\ DOMAIN request.locked_fqfields = {} /\ DOMAIN request.locked_collectionfields = {}
  BY LockedRequestFacts
<1> HIDE DEF request
<1>2. GetLockedFqfields(db, request.locked_fqfields) = {}
  BY <1>1 DEF GetLockedFqfields
<1>3. GetLockedCollectionfields(db, request.locked_collectionfields) = {}
  BY <1>1 DEF GetLockedCollectionfields
<1>4. GetLockedFqids(db, request.locked_fqids) # {}
  BY <1>2, <1>3 DEF LocksHold, request
<1> QED
  BY <1>1, <1>4 DEF GetLockedFqids

\* get_locked_fqfields: a broken lock on a field.
LEMMA FqfieldBroken ==
    ASSUME client.mode = "fqfield", ~LocksHold(db, LockedRequest)
    PROVE  \E f, oldest \in DOMAIN client.positions : \E t \in TouchedFields(db) :
              /\ Target = t[1] /\ t[2] > client.positions[oldest]
              /\ CollectionfieldOf(Target, f) = t[3]
<1> DEFINE request == LockedRequest
           locked == request.locked_fqfields
<1>1. /\ DOMAIN request.locked_fqids = {} /\ DOMAIN request.locked_collectionfields = {}
      /\ locked = [k \in {<<Target, f>> : f \in DOMAIN client.positions} |->
                      client.positions[k[2]]]
  BY LockedRequestFacts
<1> HIDE DEF request
<1>2. GetLockedFqids(db, request.locked_fqids) = {}
  BY <1>1 DEF GetLockedFqids
<1>3. GetLockedCollectionfields(db, request.locked_collectionfields) = {}
  BY <1>1 DEF GetLockedCollectionfields
<1>4. GetLockedFqfields(db, locked) # {}
  BY <1>2, <1>3 DEF LocksHold, request
<1>5. /\ \A f \in DOMAIN client.positions : locked[<<Target, f>>] = client.positions[f]
      /\ \A k \in DOMAIN locked : \E f \in DOMAIN client.positions : k = <<Target, f>>
  BY <1>1, LockedFieldFacts
<1> HIDE DEF locked
<1>6. PICK t \in TouchedFields(db) :
         /\ \E k \in DOMAIN locked : k[1] = t[1] /\ t[2] > locked[k]
         /\ \E k \in DOMAIN locked : k[1] = t[1] /\ CollectionfieldOf(k[1], k[2]) = t[3]
  BY <1>4 DEF GetLockedFqfields
<1>7. PICK oldest \in DOMAIN client.positions : Target = t[1] /\ t[2] > client.positions[oldest]
  <2>1. PICK k \in DOMAIN locked : k[1] = t[1] /\ t[2] > locked[k]
    BY <1>6
  <2>2. PICK f \in DOMAIN client.positions : k = <<Target, f>>
    BY <1>5
  <2>3. k[1] = Target /\ locked[k] = client.positions[f]
    BY <1>5, <2>2
  <2> QED
    BY <2>1, <2>3
<1>8. PICK f \in DOMAIN client.positions : CollectionfieldOf(Target, f) = t[3]
  <2>1. PICK k \in DOMAIN locked : k[1] = t[1] /\ CollectionfieldOf(k[1], k[2]) = t[3]
    BY <1>6
  <2>2. PICK f \in DOMAIN client.positions : k = <<Target, f>>
    BY <1>5
  <2>3. k[1] = Target /\ k[2] = f
    BY <2>2
  <2> QED
    BY <2>1, <2>3
<1> QED
  BY <1>7, <1>8

\* get_locked_collectionfields: a broken lock on a field of all models, with a filter or not.
LEMMA CollectionfieldBroken ==
    ASSUME client.mode \notin {"fqid", "fqfield"}, ~LocksHold(db, LockedRequest), FieldInv(db)
    PROVE  \E t \in TouchedFields(db) :
              t[2] > client.positions["all"] /\ <<Collection, Filter.field>> = t[3]
<1> DEFINE request == LockedRequest
           locked == request.locked_collectionfields
           l == client.positions["all"]
           cf == <<Collection, Filter.field>>
           lock == IF client.mode = "scope" THEN FilterLock(l, Filter) ELSE IntLock(l)
<1>1. /\ DOMAIN request.locked_fqids = {} /\ DOMAIN request.locked_fqfields = {}
      /\ locked = IF client.mode \in {"aggregate", "filter", "scope"}
                  THEN [x \in {cf} |-> lock] ELSE <<>>
  BY LockedRequestFacts
<1> HIDE DEF request
<1>2. GetLockedFqids(db, request.locked_fqids) = {}
  BY <1>1 DEF GetLockedFqids
<1>3. GetLockedFqfields(db, request.locked_fqfields) = {}
  BY <1>1 DEF GetLockedFqfields
<1>4. GetLockedCollectionfields(db, locked) # {}
  BY <1>2, <1>3 DEF LocksHold, request
<1> HIDE DEF locked, lock, cf
<1>5. PICK x \in DOMAIN locked \cap DOMAIN db.collectionfields :
         IF locked[x].kind = "int"
         THEN \E y \in locked[x].locks : db.collectionfields[x] > y.position
         ELSE \E y \in locked[x].locks : \E t \in TouchedFields(db) : t[3] = x /\ t[2] > y.position
  BY <1>4 DEF GetLockedCollectionfields
<1>6. DOMAIN locked # {}
  BY <1>5
<1>7. locked = [y \in {cf} |-> lock]
  BY <1>1, <1>6
<1>8. x = cf /\ locked[x] = lock /\ cf \in DOMAIN db.collectionfields
  BY <1>5, <1>7
<1>9. \A y \in lock.locks : y.position = l
  BY DEF lock, IntLock, FilterLock
<1>10. CASE lock.kind = "int"
  <2>1. db.collectionfields[cf] > l
    BY <1>5, <1>8, <1>9, <1>10
  <2> HIDE DEF l
  <2>2. \E t \in TouchedFields(db) : t[2] > l /\ cf = t[3]
    BY <1>8, <2>1, NewerIsTouched
  <2> QED
    BY <2>2 DEF cf, l
<1>11. CASE lock.kind # "int"
  <2>1. \E t \in TouchedFields(db) : t[3] = cf /\ t[2] > l
    BY <1>5, <1>8, <1>9, <1>11
  <2> QED
    BY <2>1 DEF cf
<1> QED
  BY <1>10, <1>11

-----------------------------------------------------------------------------
(* What the client has read                                                 *)

ClientShape == DOMAIN client = {"phase", "mode", "view", "positions"}

\* While the client holds locks, their positions are committed ones, and what it has read
\* is what the datastore held at them. The request for filter reads its rows before the
\* position, so nothing is said of them.
ReadInv ==
    /\ client.mode \in {"fqid", "fqfield", "aggregate", "filter", "scope"}
    /\ \A k \in DOMAIN client.positions : client.positions[k] \in DOMAIN snapshots
    /\ client.mode # "fqfield" => DOMAIN client.positions = {"all"}
    /\ client.mode = "fqfield" =>
          /\ DOMAIN client.positions \subseteq TargetFields
          /\ client.view = [f \in DOMAIN client.positions |-> client.view[f]]
          /\ \A f \in DOMAIN client.positions :
                client.view[f] = Value(snapshots[client.positions[f]], Target, f)
    /\ client.mode = "fqid" =>
          /\ Target \in DOMAIN snapshots[client.positions["all"]]
          /\ client.view = snapshots[client.positions["all"]][Target]
    /\ client.mode \in {"aggregate", "scope"} =>
          client.view = Scope(snapshots[client.positions["all"]])

ClientInv ==
    /\ ClientShape
    /\ client.phase = "data" => client.mode = "filter"
    /\ client.phase = "read" => ReadInv

\* Committed positions stay as they were committed.
SnapshotsStand ==
    \A x \in DOMAIN snapshots : x \in DOMAIN snapshots' /\ snapshots'[x] = snapshots[x]

\* What was read stays true of the position it was read at.
LEMMA ReadStands ==
    ASSUME ClientInv, SnapshotsStand, client' = client
    PROVE  ClientInv'
<1>1. ASSUME client.phase = "read" PROVE ReadInv'
  <2>1. ReadInv
    BY <1>1 DEF ClientInv
  <2>2. \A k \in DOMAIN client.positions :
           /\ client.positions[k] \in DOMAIN snapshots'
           /\ snapshots'[client.positions[k]] = snapshots[client.positions[k]]
    BY <2>1 DEF ReadInv, SnapshotsStand
  <2>3. CASE client.mode = "fqfield"
    BY <2>1, <2>2, <2>3 DEF ReadInv, Value
  <2>4. CASE client.mode # "fqfield"
    <3>1. snapshots'[client.positions["all"]] = snapshots[client.positions["all"]]
      BY <2>1, <2>2, <2>4 DEF ReadInv
    <3> QED
      BY <2>1, <2>2, <2>4, <3>1 DEF ReadInv, Scope
  <2> QED
    BY <2>3, <2>4
<1> QED
  BY <1>1 DEF ClientInv, ClientShape

\* A model is in the newest snapshot, and in that of its meta_position.
LEMMA ReadModel ==
    ASSUME ChangesInv, Target \in DOMAIN db.models, NEW m, m = db.models[Target][META_POSITION]
    PROVE  /\ m \in DOMAIN snapshots /\ Target \in DOMAIN snapshots[m]
           /\ snapshots[m][Target] = db.models[Target]
<1>1. HasHistory(Target)
  BY ClientAssumption DEF HasHistory
<1>2. KeptInv(db, snapshots)
  BY DEF ChangesInv, ChangeInv
<1>3. /\ m \in DOMAIN snapshots
      /\ \A x \in DOMAIN snapshots : m <= x =>
            Target \in DOMAIN snapshots[x] /\ snapshots[x][Target] = db.models[Target]
  BY <1>1, <1>2 DEF KeptInv
<1>4. m \in Int
  BY <1>3 DEF ChangesInv, ChangeInv, StoreInv, TableInv, PositionInv
<1> QED
  BY <1>3, <1>4

\* Models that agree on those with history agree on what the filter finds.
LEMMA SameScope ==
    ASSUME NEW m, NEW n, SameHistory(m, n)
    PROVE  Scope(m) = Scope(n)
<1>1. \A q : CollectionOf(q) = Collection => HasHistory(q)
  BY ClientAssumption DEF HasHistory
<1> QED
  BY <1>1 DEF Scope, SameHistory

\* max(position) is the position of the models as they are.
LEMMA ReadScope ==
    ASSUME ChangesInv, DOMAIN db.positions # {}
    PROVE  /\ MaxOfPositions(db) \in DOMAIN snapshots
           /\ Scope(snapshots[MaxOfPositions(db)]) = Scope(db.models)
<1> DEFINE n == db.position_seq
           S == DOMAIN db.positions
           m == MaxOfPositions(db)
<1>1. n \in Nat /\ S # {} /\ S \subseteq 0..n /\ DOMAIN snapshots = S /\ \A x \in S : x > 0
  BY DEF ChangesInv, ChangeInv, StoreInv, TableInv, PositionInv
<1>2. m = Max(S)
  BY DEF MaxOfPositions
<1> HIDE DEF n, S, m
<1>3. m \in S /\ \A x \in S : x <= m
  BY <1>1, <1>2, MaxOfBounded
<1>4. Newest(snapshots, m) /\ Before(snapshots, m) = snapshots[m]
  BY <1>1, <1>3 DEF Newest, Before
<1>5. SameHistory(snapshots[m], db.models)
  BY <1>4 DEF ChangesInv, ChangeInv
<1> QED
  BY <1>1, <1>3, <1>5, SameScope DEF m

\* get
LEMMA GetReads ==
    ASSUME ChangesInv, Get
    PROVE  ClientInv'
<1> DEFINE m == db.models[Target][META_POSITION]
<1>1. /\ client' = [phase |-> "read", mode |-> "fqid", view |-> db.models[Target],
                    positions |-> Lock(m)]
      /\ snapshots' = snapshots /\ Target \in DOMAIN db.models
  BY DEF Get, vars, Exists
<1> HIDE DEF m
<1>2. /\ m \in DOMAIN snapshots /\ Target \in DOMAIN snapshots[m]
      /\ snapshots[m][Target] = db.models[Target]
  BY <1>1, ReadModel DEF m
<1>3. DOMAIN Lock(m) = {"all"} /\ Lock(m)["all"] = m
  BY DEF Lock
<1>4. /\ DOMAIN client' = {"phase", "mode", "view", "positions"}
      /\ client'.phase = "read" /\ client'.mode = "fqid" /\ client'.view = db.models[Target]
      /\ DOMAIN client'.positions = {"all"} /\ client'.positions["all"] = m
  BY <1>1, <1>3
<1>5. ReadInv'
  BY <1>1, <1>2, <1>4 DEF ReadInv
<1> QED
  BY <1>4, <1>5 DEF ClientInv, ClientShape

\* get with mapped fields
LEMMA GetFieldReads ==
    ASSUME ChangesInv, ClientInv, NEW f \in TargetFields, GetField(f)
    PROVE  ClientInv'
<1> DEFINE m == db.models[Target][META_POSITION]
           v == Value(db.models, Target, f)
           old == IF client.phase = "read" THEN client ELSE [NoClient EXCEPT !.view = <<>>]
           view == With(old.view, f, v)
           positions == With(old.positions, f, m)
<1>1. /\ client' = [phase |-> "read", mode |-> "fqfield", view |-> view, positions |-> positions]
      /\ snapshots' = snapshots /\ Target \in DOMAIN db.models
      /\ client.phase = "read" => client.mode = "fqfield"
  BY DEF GetField, vars, Exists, MayRead
<1>2. /\ DOMAIN old.view = DOMAIN old.positions /\ DOMAIN old.positions \subseteq TargetFields
      /\ \A g \in DOMAIN old.positions :
            /\ old.positions[g] \in DOMAIN snapshots
            /\ old.view[g] = Value(snapshots[old.positions[g]], Target, g)
  <2>1. CASE client.phase = "read"
    BY <1>1, <2>1 DEF ClientInv, ReadInv
  <2>2. CASE client.phase # "read"
    <3>1. DOMAIN old.view = {} /\ DOMAIN old.positions = {}
      BY <2>2 DEF NoClient
    <3> QED
      BY <3>1
  <2> QED
    BY <2>1, <2>2
<1>3. m \in DOMAIN snapshots /\ Value(snapshots[m], Target, f) = v
  <2>1. /\ m \in DOMAIN snapshots /\ Target \in DOMAIN snapshots[m]
        /\ snapshots[m][Target] = db.models[Target]
    BY <1>1, ReadModel
  <2> QED
    BY <1>1, <2>1, ValueOf
<1> HIDE DEF m, v, old
<1>4. /\ DOMAIN view = DOMAIN old.view \cup {f} /\ DOMAIN positions = DOMAIN old.positions \cup {f}
      /\ view[f] = v /\ positions[f] = m
      /\ \A g \in DOMAIN old.view : g # f => view[g] = old.view[g]
      /\ \A g \in DOMAIN old.positions : g # f => positions[g] = old.positions[g]
      /\ view = [g \in DOMAIN view |-> view[g]]
  BY DEF With
<1> HIDE DEF view, positions
<1>5. /\ DOMAIN client' = {"phase", "mode", "view", "positions"}
      /\ client'.phase = "read" /\ client'.mode = "fqfield"
      /\ client'.view = view /\ client'.positions = positions
  BY <1>1
<1>6. /\ DOMAIN positions \subseteq TargetFields /\ DOMAIN view = DOMAIN positions
      /\ \A g \in DOMAIN positions :
            /\ positions[g] \in DOMAIN snapshots
            /\ view[g] = Value(snapshots[positions[g]], Target, g)
  BY <1>2, <1>3, <1>4
<1>7. view = [g \in DOMAIN positions |-> view[g]]
  BY <1>4, <1>6
<1>8. /\ client'.view = [g \in DOMAIN client'.positions |-> client'.view[g]]
      /\ DOMAIN client'.positions \subseteq TargetFields
      /\ \A g \in DOMAIN client'.positions :
            /\ client'.positions[g] \in DOMAIN snapshots'
            /\ client'.view[g] = Value(snapshots'[client'.positions[g]], Target, g)
  BY <1>1, <1>5, <1>6, <1>7
<1>9. ReadInv'
  BY <1>5, <1>8 DEF ReadInv, Value
<1> QED
  BY <1>5, <1>9 DEF ClientInv, ClientShape

\* count, exists, min and max
LEMMA AggregateReads ==
    ASSUME ChangesInv, NEW mode, Aggregate(mode)
    PROVE  ClientInv'
<1> DEFINE m == MaxOfPositions(db)
<1>1. /\ client' = [phase |-> "read", mode |-> mode, view |-> Scope(db.models),
                    positions |-> Lock(m)]
      /\ snapshots' = snapshots /\ DOMAIN db.positions # {} /\ mode \in {"aggregate", "scope"}
  BY DEF Aggregate, vars
<1>2. m \in DOMAIN snapshots /\ Scope(snapshots[m]) = Scope(db.models)
  BY <1>1, ReadScope
<1> HIDE DEF m
<1>3. DOMAIN Lock(m) = {"all"} /\ Lock(m)["all"] = m
  BY DEF Lock
<1>4. /\ DOMAIN client' = {"phase", "mode", "view", "positions"}
      /\ client'.phase = "read" /\ client'.mode = mode /\ client'.view = Scope(db.models)
      /\ DOMAIN client'.positions = {"all"} /\ client'.positions["all"] = m
  BY <1>1, <1>3
<1>5. Scope(snapshots[client.positions["all"]])' = Scope(snapshots[m])
  BY <1>1, <1>4 DEF Scope
<1>6. ReadInv'
  BY <1>1, <1>2, <1>4, <1>5 DEF ReadInv
<1> QED
  BY <1>4, <1>6 DEF ClientInv, ClientShape

\* The two statements of filter.
LEMMA FilterReads ==
    ASSUME ChangesInv, ClientInv, FilterData \/ FilterPosition
    PROVE  ClientInv'
<1>1. CASE FilterData
  <2>1. client' = [phase |-> "data", mode |-> "filter", view |-> Scope(db.models),
                   positions |-> <<>>]
    BY <1>1 DEF FilterData
  <2>2. /\ DOMAIN client' = {"phase", "mode", "view", "positions"}
        /\ client'.phase = "data" /\ client'.mode = "filter"
    BY <2>1
  <2> QED
    BY <2>2 DEF ClientInv, ClientShape
<1>2. CASE FilterPosition
  <2> DEFINE m == MaxOfPositions(db)
  <2>1. /\ client.phase = "data" /\ DOMAIN db.positions # {} /\ snapshots' = snapshots
        /\ client' = [client EXCEPT !.phase = "read", !.positions = Lock(m)]
    BY <1>2 DEF FilterPosition, vars
  <2>2. ClientShape /\ client.mode = "filter" /\ m \in DOMAIN snapshots
    BY <2>1, ReadScope DEF ClientInv
  <2> HIDE DEF m
  <2>3. DOMAIN Lock(m) = {"all"} /\ Lock(m)["all"] = m
    BY DEF Lock
  <2>4. /\ DOMAIN client' = {"phase", "mode", "view", "positions"}
        /\ client'.phase = "read" /\ client'.mode = "filter"
        /\ DOMAIN client'.positions = {"all"} /\ client'.positions["all"] = m
    BY <2>1, <2>2, <2>3 DEF ClientShape
  <2>5. ReadInv'
    BY <2>1, <2>2, <2>4 DEF ReadInv
  <2> QED
    BY <2>4, <2>5 DEF ClientInv, ClientShape
<1> QED
  BY <1>1, <1>2

-----------------------------------------------------------------------------
(* The steps                                                                *)

\* Nothing but truncate_db takes committed positions back.
LEMMA OthersLeaveSnapshots ==
    ASSUME ChangesInv, ~AllowTruncate, Next
    PROVE  SnapshotsStand
<1>1. ASSUME NEW requests \in WriteRequestLists, Write(requests) PROVE SnapshotsStand
  <2>1. GoodRequests(requests)
    BY <1>1, RequestsGood DEF Write
  <2> QED
    BY <1>1, <2>1, WriteTells DEF SnapshotsStand
<1>2. ASSUME \/ \E requests \in WriteRequestLists : WriteRejected(requests)
             \/ \E c, amount : ReserveIds(c, amount)
             \/ \E event \in EventlessUpdates : WriteWithoutEvents(event)
             \/ \E fqids \in EventlessDeletes : DeleteWithoutEvents(fqids)
             \/ DeleteHistoryInformation
      PROVE  SnapshotsStand
  <2>1. StoreInv
    BY DEF ChangesInv
  <2>2. snapshots' = snapshots
    BY <1>2, <2>1, QuietOperations
  <2> QED
    BY <2>2 DEF SnapshotsStand
<1>3. ASSUME NEW threshold, TrimCollectionfieldTables(threshold) PROVE SnapshotsStand
  <2>1. snapshots' = snapshots
    BY <1>3 DEF TrimCollectionfieldTables
  <2> QED
    BY <2>1 DEF SnapshotsStand
<1>4. ~TruncateDb
  BY DEF TruncateDb
<1> QED
  BY <1>1, <1>2, <1>3, <1>4 DEF Next

\* The client's own write.
LEMMA AcceptedTells ==
    ASSUME ChangesInv, WriteAccepted
    PROVE  ChangesInv' /\ SnapshotsStand /\ LocksHold(db, LockedRequest)
<1>1. Write(<<LockedRequest>>)
  BY DEF WriteAccepted
<1>2. /\ WriteFits(<<LockedRequest>>) /\ trimmed' = trimmed
      /\ WriteTransaction(db, <<LockedRequest>>).error = "ok"
  BY <1>1 DEF Write
<1>3. GoodRequests(<<LockedRequest>>)
  BY <1>2, ClientRequestGood
<1>4. LocksHold(db, LockedRequest)
  BY <1>2, AcceptedHolds
<1> DEFINE requests == <<LockedRequest>>
<1> HIDE DEF requests
<1>5. GoodRequests(requests) /\ Write(requests) /\ StoreInv /\ trimmed \in Int
  BY <1>1, <1>3 DEF requests, ChangesInv
<1>6. StoreInv'
  BY <1>5, WriteKeeps
<1>7. ChangeInv(db', snapshots', trimmed') /\ SnapshotsStand
  BY <1>5, WriteTells DEF SnapshotsStand
<1> QED
  BY <1>2, <1>4, <1>5, <1>6, <1>7 DEF ChangesInv

\* A write of the client that fails for another reason.
LEMMA FailedTells ==
    ASSUME ChangesInv, WriteFailed
    PROVE  ChangesInv'
<1>1. WriteRejected(<<LockedRequest>>)
  BY DEF WriteFailed
<1>2. WriteFits(<<LockedRequest>>)
  BY <1>1 DEF WriteRejected
<1>3. GoodRequests(<<LockedRequest>>)
  BY <1>2, ClientRequestGood
<1> DEFINE requests == <<LockedRequest>>
<1> HIDE DEF requests
<1>4. GoodRequests(requests) /\ WriteRejected(requests) /\ StoreInv
  BY <1>1, <1>3 DEF requests, ChangesInv
<1>5. StoreInv'
  BY <1>4, WriteRejectedKeeps
<1>6. Quiet(db, db') /\ UNCHANGED <<snapshots, trimmed>>
  BY <1>4, QuietOperations
<1>7. trimmed \in Int /\ ChangeInv(db, snapshots, trimmed)
  BY DEF ChangesInv
<1>8. ChangeInv(db', snapshots, trimmed)
  BY <1>6, <1>7, QuietTells
<1> QED
  BY <1>5, <1>6, <1>7, <1>8 DEF ChangesInv

\* Reading, and being turned away, leaves the datastore alone.
LEMMA ReadingLeaves ==
    ASSUME \/ Get
           \/ \E f \in TargetFields : GetField(f)
           \/ \E mode \in {"aggregate", "scope"} : Aggregate(mode)
           \/ FilterData
           \/ FilterPosition
           \/ WriteLocked
    PROVE  UNCHANGED vars
BY DEF Get, GetField, Aggregate, FilterData, FilterPosition, WriteLocked

\* The client's steps keep the invariant of the changes too.
LEMMA OccChangesStep == ChangesInv /\ [OccNext]_occVars => ChangesInv'
<1> SUFFICES ASSUME ChangesInv, [OccNext]_occVars PROVE ChangesInv'
  OBVIOUS
<1>1. CASE [Next]_vars
  BY <1>1, ChangesStep
<1>2. CASE WriteAccepted
  BY <1>2, AcceptedTells
<1>3. CASE WriteFailed
  BY <1>3, FailedTells
<1>4. \/ UNCHANGED vars \/ Next \/ WriteAccepted \/ WriteFailed
  BY ReadingLeaves DEF OccNext, OthersWrite, occVars
<1> QED
  BY <1>1, <1>2, <1>3, <1>4

\* The inductive invariant of the client.
LEMMA ClientStep ==
    ASSUME ~AllowTruncate, ChangesInv, ClientInv, [OccNext]_occVars
    PROVE  ClientInv'
<1>1. CASE OthersWrite
  <2>1. SnapshotsStand /\ client' = client
    BY <1>1, OthersLeaveSnapshots DEF OthersWrite
  <2> QED
    BY <2>1, ReadStands
<1>2. CASE UNCHANGED occVars
  <2>1. SnapshotsStand /\ client' = client
    BY <1>2 DEF occVars, vars, SnapshotsStand
  <2> QED
    BY <2>1, ReadStands
<1>3. CASE WriteAccepted \/ WriteLocked
  <2>1. \E phase \in {"accepted", "rejected"} : client' = [client EXCEPT !.phase = phase]
    BY <1>3 DEF WriteAccepted, WriteLocked
  <2>2. /\ DOMAIN client' = {"phase", "mode", "view", "positions"}
        /\ client'.phase \in {"accepted", "rejected"}
    BY <2>1 DEF ClientInv, ClientShape
  <2> QED
    BY <2>2 DEF ClientInv, ClientShape
<1>4. CASE WriteFailed
  <2>1. client' = NoClient
    BY <1>4 DEF WriteFailed
  <2>2. /\ DOMAIN client' = {"phase", "mode", "view", "positions"}
        /\ client'.phase = "idle"
    BY <2>1 DEF NoClient
  <2> QED
    BY <2>2 DEF ClientInv, ClientShape
<1> QED
  BY <1>1, <1>2, <1>3, <1>4, GetReads, GetFieldReads, AggregateReads, FilterReads DEF OccNext

\* Which step accepts and which rejects.
LEMMA OutcomeStep ==
    ASSUME OccNext, DOMAIN client = {"phase", "mode", "view", "positions"}
    PROVE  /\ Accepts => WriteAccepted
           /\ Rejects => WriteLocked
<1>1. /\ Get => client'.phase = "read"
      /\ \A f : GetField(f) => client'.phase = "read"
      /\ \A mode : Aggregate(mode) => client'.phase = "read"
      /\ FilterPosition => client'.phase = "read"
  <2>1. Get => client'.phase = "read"
    BY DEF Get
  <2>2. \A f : GetField(f) => client'.phase = "read"
    BY DEF GetField
  <2>3. \A mode : Aggregate(mode) => client'.phase = "read"
    BY DEF Aggregate
  <2>4. FilterPosition => client'.phase = "read"
    BY DEF FilterPosition
  <2> QED
    BY <2>1, <2>2, <2>3, <2>4
<1>2. FilterData => client'.phase = "data"
  BY DEF FilterData
<1>3. WriteFailed => client'.phase = "idle"
  BY DEF WriteFailed, NoClient
<1>4. WriteAccepted => client'.phase = "accepted"
  BY DEF WriteAccepted
<1>5. WriteLocked => client'.phase = "rejected"
  BY DEF WriteLocked
<1>6. OthersWrite => client'.phase = client.phase
  BY DEF OthersWrite
<1> QED
  BY <1>1, <1>2, <1>3, <1>4, <1>5, <1>6 DEF OccNext, Accepts, Rejects

\* The client is always a record of the same fields.
LEMMA ShapeStep == ClientShape /\ [OccNext]_occVars => ClientShape'
<1> SUFFICES ASSUME ClientShape, [OccNext]_occVars PROVE ClientShape'
  OBVIOUS
<1>1. Get => ClientShape'
  BY DEF Get, ClientShape
<1>2. \A f : GetField(f) => ClientShape'
  BY DEF GetField, ClientShape
<1>3. \A mode : Aggregate(mode) => ClientShape'
  BY DEF Aggregate, ClientShape
<1>4. FilterData \/ FilterPosition => ClientShape'
  BY DEF FilterData, FilterPosition, ClientShape
<1>5. WriteAccepted \/ WriteLocked => ClientShape'
  BY DEF WriteAccepted, WriteLocked, ClientShape
<1>6. WriteFailed => ClientShape'
  BY DEF WriteFailed, NoClient, ClientShape
<1>7. OthersWrite \/ UNCHANGED occVars => ClientShape'
  BY DEF OthersWrite, occVars, ClientShape
<1> QED
  BY <1>1, <1>2, <1>3, <1>4, <1>5, <1>6, <1>7 DEF OccNext

\* In the beginning the datastore is empty and the client has read nothing.
LEMMA OccStarts ==
    ASSUME OccInit
    PROVE  ChangesInv /\ ClientInv /\ ClientShape
<1>1. Init /\ client = NoClient
  BY DEF OccInit
<1>2. ChangesInv
  <2>1. db = EmptyDb /\ snapshots = <<>> /\ trimmed = 0
    BY <1>1 DEF Init
  <2> QED
    BY <1>1, <2>1, StoreInit, EmptyTells DEF ChangesInv
<1>3. ClientInv /\ ClientShape
  BY <1>1 DEF NoClient, ClientInv, ClientShape
<1> QED
  BY <1>2, <1>3

-----------------------------------------------------------------------------
(* What it means that the locks hold                                        *)

\* get_locked_fqids: no event of the model is newer than its lock.
LEMMA FqidHolds ==
    ASSUME client.mode = "fqid", LocksHold(db, LockedRequest)
    PROVE  \A i \in DOMAIN db.events :
              db.events[i].fqid = Target => ~(db.events[i].position > client.positions["all"])
<1> DEFINE request == LockedRequest
           l == client.positions["all"]
<1>1. request.locked_fqids = [q \in {Target} |-> l]
  BY LockedRequestFacts
<1>2. GetLockedFqids(db, request.locked_fqids) = {}
  BY DEF LocksHold
<1> HIDE DEF request
<1> QED
  BY <1>1, <1>2 DEF GetLockedFqids

\* get_locked_fqfields: no event of the model that is newer than the lock on a field has the
\* collectionfield of it.
LEMMA FqfieldHolds ==
    ASSUME client.mode = "fqfield", LocksHold(db, LockedRequest), NEW f \in DOMAIN client.positions,
           NEW p, <<Target, p, CollectionfieldOf(Target, f)>> \in TouchedFields(db)
    PROVE  ~(p > client.positions[f])
<1> DEFINE request == LockedRequest
           locked == request.locked_fqfields
           k == <<Target, f>>
           cf == CollectionfieldOf(Target, f)
           t == <<Target, p, cf>>
<1>1. /\ locked = [x \in {<<Target, g>> : g \in DOMAIN client.positions} |->
                      client.positions[x[2]]]
  BY LockedRequestFacts
<1>2. GetLockedFqfields(db, locked) = {}
  BY DEF LocksHold
<1> HIDE DEF request, locked
<1>3. k \in DOMAIN locked /\ locked[k] = client.positions[f]
  BY <1>1, LockedFieldFacts
<1>4. k[1] = Target /\ k[2] = f /\ t[1] = Target /\ t[2] = p /\ t[3] = cf
  OBVIOUS
<1>5. t \in TouchedFields(db) /\ CollectionfieldOf(k[1], k[2]) = cf
  BY <1>4
<1> HIDE DEF k, t, cf
<1>6. ~(/\ \E x \in DOMAIN locked : x[1] = t[1] /\ t[2] > locked[x]
        /\ \E x \in DOMAIN locked : x[1] = t[1] /\ CollectionfieldOf(x[1], x[2]) = t[3])
  BY <1>2, <1>5 DEF GetLockedFqfields
<1> QED
  BY <1>3, <1>4, <1>5, <1>6

\* get_locked_collectionfields without a filter: the collectionfield is not newer than the
\* lock.
LEMMA CollectionfieldHolds ==
    ASSUME client.mode \in {"aggregate", "filter"}, LocksHold(db, LockedRequest),
           <<Collection, Filter.field>> \in DOMAIN db.collectionfields
    PROVE  ~(db.collectionfields[<<Collection, Filter.field>>] > client.positions["all"])
<1> DEFINE request == LockedRequest
           locked == request.locked_collectionfields
           l == client.positions["all"]
           cf == <<Collection, Filter.field>>
           lock == IntLock(l)
<1>1. locked = [x \in {cf} |-> lock]
  BY LockedRequestFacts
<1>2. GetLockedCollectionfields(db, locked) = {}
  BY DEF LocksHold
<1>3. /\ lock.kind = "int" /\ lock.kind # "list"
      /\ \E y \in lock.locks : y.position = l
  BY DEF IntLock
<1> HIDE DEF request, locked, lock, cf, l
<1>4. /\ DOMAIN locked = {cf} /\ locked[cf] = lock
  BY <1>1
<1>5. ~(\E x \in DOMAIN locked : locked[x].kind = "list")
  BY <1>3, <1>4
<1>6. cf \in DOMAIN locked \cap DOMAIN db.collectionfields
  BY <1>4 DEF cf
<1>7. ~(\E y \in locked[cf].locks : db.collectionfields[cf] > y.position)
  BY <1>2, <1>3, <1>4, <1>5, <1>6 DEF GetLockedCollectionfields
<1> QED
  BY <1>3, <1>4, <1>7 DEF cf, l

\* get_locked_collectionfields with a filter: no model that an event newer than the lock
\* touched in this collectionfield is found by the filter.
LEMMA ScopeHolds ==
    ASSUME client.mode = "scope", LocksHold(db, LockedRequest),
           <<Collection, Filter.field>> \in DOMAIN db.collectionfields,
           NEW q \in DOMAIN db.models, NEW p, p > client.positions["all"],
           <<q, p, <<Collection, Filter.field>>>> \in TouchedFields(db)
    PROVE  ~Matches(db.models[q], Filter)
<1> DEFINE request == LockedRequest
           locked == request.locked_collectionfields
           l == client.positions["all"]
           cf == <<Collection, Filter.field>>
           lock == FilterLock(l, Filter)
           t == <<q, p, cf>>
<1>1. locked = [x \in {cf} |-> lock]
  BY LockedRequestFacts
<1>2. GetLockedCollectionfields(db, locked) = {}
  BY DEF LocksHold
<1>3. lock.kind # "int" /\ \E y \in lock.locks : y.position = l /\ y.filter = Filter
  BY DEF FilterLock
<1>4. t \in TouchedFields(db) /\ t[1] = q /\ t[2] = p /\ t[3] = cf
  OBVIOUS
<1> HIDE DEF request, locked, lock, cf, l, t
<1>5. DOMAIN locked = {cf} /\ locked[cf] = lock
  BY <1>1
<1>6. cf \in DOMAIN locked \cap DOMAIN db.collectionfields
  BY <1>5 DEF cf
<1>7. ~(\E y \in locked[cf].locks :
           \E u \in {x \in TouchedFields(db) : x[3] = cf /\ x[1] \in DOMAIN db.models} :
              u[2] > y.position /\ (y.filter = None \/ Matches(db.models[u[1]], y.filter)))
  BY <1>2, <1>3, <1>5, <1>6 DEF GetLockedCollectionfields
<1> QED
  BY <1>3, <1>4, <1>5, <1>7 DEF l

-----------------------------------------------------------------------------
(* Acceptance                                                               *)

\* The positions are numbers.
LEMMA PositionsAreInts ==
    ASSUME ChangesInv
    PROVE  /\ TableInv(db) /\ trimmed \in Int /\ ChangeInv(db, snapshots, trimmed)
           /\ \A x \in DOMAIN snapshots : x \in Int
           /\ \A cf \in DOMAIN db.collectionfields : db.collectionfields[cf] \in Int
<1>1. TableInv(db) /\ trimmed \in Int /\ ChangeInv(db, snapshots, trimmed)
  BY DEF ChangesInv, StoreInv
<1>2. DOMAIN snapshots = DOMAIN db.positions /\ \A x \in DOMAIN db.positions : x \in Int
  BY <1>1 DEF TableInv, PositionInv, ChangeInv
<1>3. \A cf \in DOMAIN db.collectionfields : db.collectionfields[cf] \in DOMAIN db.positions
  BY <1>1 DEF TableInv, RowInv
<1> QED
  BY <1>1, <1>2, <1>3

\* A model whose lock holds is as it was: an event of it is at its meta_position, which is
\* therefore not above the lock, and no snapshot since then differs.
LEMMA FqidSound ==
    ASSUME ChangesInv, ReadInv, client.mode = "fqid", LocksHold(db, LockedRequest)
    PROVE  snapshots[client.positions["all"]][Target] = db.models[Target]
<1> DEFINE l == client.positions["all"]
           m == db.models[Target][META_POSITION]
<1>1. l \in DOMAIN snapshots /\ Target \in DOMAIN snapshots[l]
  BY DEF ReadInv
<1>2. HasHistory(Target) /\ KeptInv(db, snapshots)
  BY ClientAssumption DEF HasHistory, ChangesInv, ChangeInv
<1>3. Target \in DOMAIN db.models
  BY <1>1, <1>2 DEF KeptInv
<1>4. /\ m \in DOMAIN snapshots
      /\ \E i \in DOMAIN db.events : db.events[i].fqid = Target /\ db.events[i].position = m
      /\ \A x \in DOMAIN snapshots : m <= x => snapshots[x][Target] = db.models[Target]
  BY <1>2, <1>3 DEF KeptInv
<1>5. ~(m > l)
  BY <1>4, FqidHolds
<1>6. l \in Int /\ m \in Int
  BY <1>1, <1>4, PositionsAreInts
<1> HIDE DEF l, m
<1>7. m <= l
  BY <1>5, <1>6
<1>8. snapshots[l][Target] = db.models[Target]
  BY <1>1, <1>4, <1>7
<1> QED
  BY <1>8 DEF l

\* A field whose lock holds has the value it had.
LEMMA FqfieldSound ==
    ASSUME ChangesInv, ReadInv, client.mode = "fqfield", LocksHold(db, LockedRequest),
           NEW f \in DOMAIN client.positions, trimmed <= client.positions[f] + 1
    PROVE  Value(snapshots[client.positions[f]], Target, f) = Value(db.models, Target, f)
<1> DEFINE l == client.positions[f]
<1>1. l \in DOMAIN snapshots /\ f \in TargetFields
  BY DEF ReadInv
<1>2. HasHistory(Target) /\ f # META_POSITION
  BY <1>1, ClientAssumption DEF HasHistory
<1> SUFFICES ASSUME Changed(snapshots[l], db.models, Target, f) PROVE FALSE
  BY <1>2 DEF Changed
<1>3. PICK p \in DOMAIN snapshots : p > l /\ Noted(db, Target, p, f)
  <2>1. TableInv(db) /\ trimmed \in Int /\ ChangeInv(db, snapshots, trimmed) /\ trimmed <= l + 1
    BY PositionsAreInts
  <2> HIDE DEF l
  <2> QED
    BY <1>1, <1>2, <2>1, ChangeIsNoted
<1>4. <<Target, p, CollectionfieldOf(Target, f)>> \in TouchedFields(db)
  BY <1>3, NotedIsTouched
<1> QED
  BY <1>3, <1>4, FqfieldHolds

\* A model is found by the filter when the field has the value, in a deleted model too.
LEMMA ScopeRaw ==
    ASSUME NEW models, NEW q
    PROVE  q \in Scope(models) <=>
              CollectionOf(q) = Collection /\ Raw(models, q, Filter.field) = Filter.value
<1>1. Filter.value # None
  BY ClientAssumption
<1> QED
  BY <1>1 DEF Scope, Matches, Raw, ModelRaw

\* A model that entered or left the scope of the filter since the lock was touched in the
\* collectionfield.
LEMMA ScopeChangeIsNoted ==
    ASSUME ChangesInv, NEW l \in DOMAIN snapshots, trimmed <= l + 1, NEW q,
           ~(q \in Scope(snapshots[l]) <=> q \in Scope(db.models))
    PROVE  \E p \in DOMAIN snapshots :
              /\ p > l /\ CollectionfieldOf(q, Filter.field) = <<Collection, Filter.field>>
              /\ Noted(db, q, p, Filter.field)
<1> DEFINE f == Filter.field
<1>1. /\ CollectionOf(q) = Collection
      /\ Raw(snapshots[l], q, f) # Raw(db.models, q, f)
  BY ScopeRaw
<1>2. HasHistory(q) /\ f # META_POSITION
  BY <1>1, ClientAssumption DEF HasHistory
<1> HIDE DEF f
<1>3. Changed(snapshots[l], db.models, q, f)
  BY <1>1, <1>2 DEF Changed
<1>4. TableInv(db) /\ trimmed \in Int /\ ChangeInv(db, snapshots, trimmed)
  BY PositionsAreInts
<1>5. \E p \in DOMAIN snapshots : p > l /\ Noted(db, q, p, f)
  BY <1>2, <1>3, <1>4, ChangeIsNoted
<1> QED
  BY <1>1, <1>5 DEF f, CollectionfieldOf

\* A collectionfield whose lock holds: the filter finds what it found.
LEMMA CollectionfieldSound ==
    ASSUME ChangesInv, ReadInv, client.mode \in {"aggregate", "filter"},
           LocksHold(db, LockedRequest), trimmed <= client.positions["all"] + 1
    PROVE  Scope(snapshots[client.positions["all"]]) = Scope(db.models)
<1> DEFINE l == client.positions["all"]
           cf == <<Collection, Filter.field>>
<1>1. l \in DOMAIN snapshots
  BY DEF ReadInv
<1>2. ASSUME NEW q, ~(q \in Scope(snapshots[l]) <=> q \in Scope(db.models)) PROVE FALSE
  <2>1. PICK p \in DOMAIN snapshots :
           p > l /\ CollectionfieldOf(q, Filter.field) = cf /\ Noted(db, q, p, Filter.field)
    <3> HIDE DEF l
    <3>1. trimmed <= l + 1
      BY DEF l
    <3> QED
      BY <1>1, <1>2, <3>1, ScopeChangeIsNoted
  <2>2. cf \in DOMAIN db.collectionfields /\ db.collectionfields[cf] >= p
    BY <2>1 DEF Noted
  <2>3. ~(db.collectionfields[cf] > l)
    BY <2>2, CollectionfieldHolds
  <2>4. l \in Int /\ p \in Int /\ db.collectionfields[cf] \in Int
    BY <1>1, <2>2, PositionsAreInts
  <2> HIDE DEF l, cf
  <2> QED
    BY <2>1, <2>2, <2>3, <2>4
<1>3. \A q : q \in Scope(snapshots[l]) <=> q \in Scope(db.models)
  BY <1>2
<1> QED
  BY <1>3

\* A collectionfield whose lock with the filter holds: no model entered the scope.
LEMMA ScopeSound ==
    ASSUME ChangesInv, ReadInv, client.mode = "scope",
           LocksHold(db, LockedRequest), trimmed <= client.positions["all"] + 1
    PROVE  Scope(db.models) \subseteq Scope(snapshots[client.positions["all"]])
<1> DEFINE l == client.positions["all"]
           cf == <<Collection, Filter.field>>
<1>1. l \in DOMAIN snapshots
  BY DEF ReadInv
<1>2. ASSUME NEW q \in Scope(db.models), q \notin Scope(snapshots[l]) PROVE FALSE
  <2>1. PICK p \in DOMAIN snapshots :
           p > l /\ CollectionfieldOf(q, Filter.field) = cf /\ Noted(db, q, p, Filter.field)
    <3> HIDE DEF l
    <3>1. trimmed <= l + 1
      BY DEF l
    <3> QED
      BY <1>1, <1>2, <3>1, ScopeChangeIsNoted
  <2>2. cf \in DOMAIN db.collectionfields
    BY <2>1 DEF Noted
  <2>3. <<q, p, cf>> \in TouchedFields(db)
    BY <2>1, NotedIsTouched
  <2>4. q \in DOMAIN db.models /\ Matches(db.models[q], Filter)
    BY <1>2 DEF Scope
  <2> QED
    BY <2>1, <2>2, <2>3, <2>4, ScopeHolds
<1> QED
  BY <1>2

-----------------------------------------------------------------------------
(* Theorems                                                                 *)

\* The inductive invariant: the changes are noted in the lock tables, and while the client
\* holds locks, what it has read is what the datastore held at their positions. Without
\* truncate_db, which takes the positions of locks back.
THEOREM OccInvariant ==
    ASSUME ~AllowTruncate
    PROVE  OccSpec => [](ChangesInv /\ ClientInv)
<1>1. OccInit => ChangesInv /\ ClientInv
  BY OccStarts
<1>2. (ChangesInv /\ ClientInv) /\ [OccNext]_occVars => (ChangesInv /\ ClientInv)'
  BY OccChangesStep, ClientStep
<1> QED
  BY <1>1, <1>2, PTL DEF OccSpec

\* The step of LockerSound.
LockedAsRead ==
    Accepts /\ NotTrimmedAway =>
        LET At(k) == snapshots[client.positions[k]]
        IN  CASE client.mode = "fqid" -> At("all")[Target] = db.models[Target]
              [] client.mode = "fqfield" ->
                    \A f \in DOMAIN client.positions :
                        Value(At(f), Target, f) = Value(db.models, Target, f)
              [] client.mode = "scope" -> Scope(db.models) \subseteq Scope(At("all"))
              [] OTHER -> Scope(At("all")) = Scope(db.models)

\* What the locks of an accepted write name is as it was at their positions.
LEMMA AcceptedLocks ==
    ASSUME ChangesInv, ClientInv, [OccNext]_occVars, Accepts, NotTrimmedAway
    PROVE  /\ ReadInv
           /\ client.mode = "fqid" =>
                 snapshots[client.positions["all"]][Target] = db.models[Target]
           /\ client.mode = "fqfield" =>
                 \A f \in DOMAIN client.positions :
                    Value(snapshots[client.positions[f]], Target, f) = Value(db.models, Target, f)
           /\ client.mode = "scope" =>
                 Scope(db.models) \subseteq Scope(snapshots[client.positions["all"]])
           /\ client.mode \in {"aggregate", "filter"} =>
                 Scope(snapshots[client.positions["all"]]) = Scope(db.models)
<1>1. OccNext
  BY DEF Accepts, occVars
<1>2. WriteAccepted
  BY <1>1, OutcomeStep DEF ClientInv, ClientShape
<1>3. LocksHold(db, LockedRequest)
  BY <1>2, AcceptedTells
<1>4. ReadInv
  BY DEF ClientInv, Accepts
<1>5. client.mode # "fqfield" => trimmed <= client.positions["all"] + 1
  BY <1>4 DEF ReadInv, NotTrimmedAway
<1>6. \A f \in DOMAIN client.positions : trimmed <= client.positions[f] + 1
  BY DEF NotTrimmedAway
<1>7. client.mode = "fqid" => snapshots[client.positions["all"]][Target] = db.models[Target]
  BY <1>3, <1>4, FqidSound
<1>8. ASSUME client.mode = "fqfield", NEW f \in DOMAIN client.positions
      PROVE  Value(snapshots[client.positions[f]], Target, f) = Value(db.models, Target, f)
  BY <1>3, <1>4, <1>6, <1>8, FqfieldSound
<1>9. client.mode = "scope" =>
         Scope(db.models) \subseteq Scope(snapshots[client.positions["all"]])
  BY <1>3, <1>4, <1>5, ScopeSound
<1>10. client.mode \in {"aggregate", "filter"} =>
          Scope(snapshots[client.positions["all"]]) = Scope(db.models)
  BY <1>3, <1>4, <1>5, CollectionfieldSound
<1> QED
  BY <1>4, <1>7, <1>8, <1>9, <1>10

\* The locker is sound: when a write with locks is accepted, what they name is as it was at
\* their positions, for every kind of lock, whatever other clients wrote, and however the
\* tables were trimmed below the locks.
THEOREM LockerSoundHolds ==
    ASSUME ~AllowTruncate
    PROVE  OccSpec => LockerSound
<1>1. ChangesInv /\ ClientInv /\ [OccNext]_occVars => [LockedAsRead]_occVars
  <2> SUFFICES ASSUME ChangesInv, ClientInv, [OccNext]_occVars, Accepts, NotTrimmedAway
               PROVE  LockedAsRead
    BY DEF LockedAsRead
  <2> QED
    BY AcceptedLocks DEF LockedAsRead, ReadInv
<1>2. OccSpec => [](ChangesInv /\ ClientInv)
  BY OccInvariant
<1> QED
  BY <1>1, <1>2, PTL DEF OccSpec, LockerSound, LockedAsRead

\* The step of OccSoundUnfiltered.
ReadStillHolds ==
    Accepts /\ NotTrimmedAway /\ client.mode \notin {"filter", "scope"} =>
        client.view = View(db.models)

\* Optimistic concurrency control is sound for get, of a model or of fields read one after
\* the other, and for aggregates: an accepted write relies on data that a reader would
\* still get.
THEOREM OccSoundUnfilteredHolds ==
    ASSUME ~AllowTruncate
    PROVE  OccSpec => OccSoundUnfiltered
<1>1. ChangesInv /\ ClientInv /\ [OccNext]_occVars => [ReadStillHolds]_occVars
  <2> SUFFICES ASSUME ChangesInv, ClientInv, [OccNext]_occVars, Accepts, NotTrimmedAway,
                      client.mode \notin {"filter", "scope"}
               PROVE  client.view = View(db.models)
    BY DEF ReadStillHolds
  <2>1. /\ ReadInv
        /\ client.mode = "fqid" =>
              snapshots[client.positions["all"]][Target] = db.models[Target]
        /\ client.mode = "fqfield" =>
              \A f \in DOMAIN client.positions :
                 Value(snapshots[client.positions[f]], Target, f) = Value(db.models, Target, f)
        /\ client.mode \in {"aggregate", "filter"} =>
              Scope(snapshots[client.positions["all"]]) = Scope(db.models)
    BY AcceptedLocks
  <2>2. CASE client.mode = "fqid"
    BY <2>1, <2>2 DEF ReadInv, View
  <2>3. CASE client.mode = "fqfield"
    <3>1. /\ client.view = [f \in DOMAIN client.positions |-> client.view[f]]
          /\ \A f \in DOMAIN client.positions : client.view[f] = Value(db.models, Target, f)
      BY <2>1, <2>3 DEF ReadInv
    <3>2. DOMAIN client.view = DOMAIN client.positions
      BY <3>1
    <3>3. client.view = [f \in DOMAIN client.view |-> Value(db.models, Target, f)]
      BY <3>1, <3>2
    <3> QED
      BY <2>3, <3>3 DEF View
  <2>4. CASE client.mode = "aggregate"
    BY <2>1, <2>4 DEF ReadInv, View
  <2> QED
    BY <2>1, <2>2, <2>3, <2>4 DEF ReadInv
<1>2. OccSpec => [](ChangesInv /\ ClientInv)
  BY OccInvariant
<1> QED
  BY <1>1, <1>2, PTL DEF OccSpec, OccSoundUnfiltered, ReadStillHolds

-----------------------------------------------------------------------------
(* Reading again                                                            *)

\* The locks of the client are numbers; "all" is the key of the only one, but for fields.
LocksInv ==
    client.phase = "read" =>
        /\ \A k \in DOMAIN client.positions : client.positions[k] \in Int
        /\ client.mode # "fqfield" => "all" \in DOMAIN client.positions

\* max(position) is the newest of the positions.
LEMMA NewestPosition ==
    ASSUME ChangesInv, DOMAIN db.positions # {}
    PROVE  MaxOfPositions(db) \in Int /\ \A x \in DOMAIN db.positions : x <= MaxOfPositions(db)
<1> DEFINE n == db.position_seq
           S == DOMAIN db.positions
<1>1. n \in Nat /\ S # {} /\ S \subseteq 0..n
  BY DEF ChangesInv, StoreInv, TableInv, PositionInv
<1> HIDE DEF n, S
<1>2. Max(S) \in Nat /\ \A x \in S : x <= Max(S)
  BY <1>1, MaxOfBounded
<1> QED
  BY <1>1, <1>2 DEF MaxOfPositions, S

\* The meta_position of a model is a number.
LEMMA MetaPositionIsInt ==
    ASSUME ChangesInv, Target \in DOMAIN db.models
    PROVE  db.models[Target][META_POSITION] \in Int
BY ReadModel, PositionsAreInts

\* Every read gives numbers as locks, also after a truncation.
LEMMA LocksStep ==
    ASSUME ChangesInv, ClientShape, LocksInv, [OccNext]_occVars
    PROVE  LocksInv'
<1>1. \A position \in Int : /\ \A k \in DOMAIN Lock(position) : Lock(position)[k] \in Int
                            /\ "all" \in DOMAIN Lock(position)
  BY DEF Lock
<1>2. CASE Get
  <2> DEFINE m == db.models[Target][META_POSITION]
  <2>1. Target \in DOMAIN db.models /\ client'.positions = Lock(m)
    BY <1>2 DEF Get, Exists
  <2>2. m \in Int
    BY <2>1, MetaPositionIsInt
  <2> HIDE DEF m
  <2> QED
    BY <1>1, <2>1, <2>2 DEF LocksInv
<1>3. ASSUME NEW f \in TargetFields, GetField(f) PROVE LocksInv'
  <2> DEFINE m == db.models[Target][META_POSITION]
             old == IF client.phase = "read" THEN client ELSE [NoClient EXCEPT !.view = <<>>]
  <2>1. /\ Target \in DOMAIN db.models /\ client'.mode = "fqfield"
        /\ client'.positions = With(old.positions, f, m)
    BY <1>3 DEF GetField, Exists
  <2>2. m \in Int
    BY <2>1, MetaPositionIsInt
  <2>3. \A k \in DOMAIN old.positions : old.positions[k] \in Int
    <3>1. CASE client.phase = "read"
      BY <3>1 DEF LocksInv
    <3>2. CASE client.phase # "read"
      <4>1. old.positions = <<>> /\ DOMAIN <<>> = {}
        BY <3>2 DEF NoClient
      <4> QED
        BY <4>1
    <3> QED
      BY <3>1, <3>2
  <2> HIDE DEF m, old
  <2>4. \A k \in DOMAIN client'.positions : client'.positions[k] \in Int
    BY <2>1, <2>2, <2>3 DEF With
  <2> QED
    BY <2>1, <2>4 DEF LocksInv
<1>4. ASSUME (\E mode \in {"aggregate", "scope"} : Aggregate(mode)) \/ FilterPosition
      PROVE  LocksInv'
  <2>1. DOMAIN db.positions # {} /\ client'.positions = Lock(MaxOfPositions(db))
    <3>1. CASE FilterPosition
      <4>1. /\ DOMAIN db.positions # {}
            /\ client' = [client EXCEPT !.phase = "read",
                                        !.positions = Lock(MaxOfPositions(db))]
        BY <3>1 DEF FilterPosition
      <4> QED
        BY <4>1 DEF ClientShape
    <3>2. ASSUME NEW mode, Aggregate(mode)
          PROVE  DOMAIN db.positions # {} /\ client'.positions = Lock(MaxOfPositions(db))
      BY <3>2 DEF Aggregate
    <3> QED
      BY <1>4, <3>1, <3>2
  <2>2. MaxOfPositions(db) \in Int
    BY <2>1, NewestPosition
  <2> QED
    BY <1>1, <2>1, <2>2 DEF LocksInv
<1>5. CASE FilterData \/ WriteAccepted \/ WriteLocked \/ WriteFailed
  <2>1. client'.phase # "read"
    BY <1>5 DEF FilterData, WriteAccepted, WriteLocked, WriteFailed, NoClient, ClientShape
  <2> QED
    BY <2>1 DEF LocksInv
<1>6. CASE OthersWrite \/ UNCHANGED occVars
  <2>1. client' = client
    BY <1>6 DEF OthersWrite, occVars
  <2> QED
    BY <2>1 DEF LocksInv
<1> QED
  BY <1>2, <1>3, <1>4, <1>5, <1>6 DEF OccNext

\* An event of a collectionfield table is a row of the events table.
LEMMA TouchedByEvent ==
    ASSUME NEW t, NEW u \in TouchedFields(t)
    PROVE  \E i \in DOMAIN t.events : t.events[i].fqid = u[1] /\ t.events[i].position = u[2]
<1>1. PICK k \in (DOMAIN t.events) \X (DOMAIN t.collectionfields) :
         u = <<t.events[k[1]].fqid, t.events[k[1]].position, k[2]>>
  BY Zenon DEF TouchedFields
<1>2. k[1] \in DOMAIN t.events
  OBVIOUS
<1>3. u[1] = t.events[k[1]].fqid /\ u[2] = t.events[k[1]].position
  BY <1>1
<1> QED
  BY <1>2, <1>3

\* No event of the client's model is newer than its meta_position.
LEMMA EventsOfTarget ==
    ASSUME ChangesInv, NEW i \in DOMAIN db.events, db.events[i].fqid = Target
    PROVE  /\ db.events[i].position \in Int /\ db.models[Target][META_POSITION] \in Int
           /\ db.events[i].position <= db.models[Target][META_POSITION]
<1>1. HasHistory(Target)
  BY ClientAssumption DEF HasHistory
<1>2. /\ Target \in DOMAIN db.models
      /\ db.events[i].position <= db.models[Target][META_POSITION]
  BY <1>1 DEF ChangesInv, ChangeInv, NewestInv
<1>3. db.events[i].position \in DOMAIN db.positions
  BY DEF ChangesInv, StoreInv, TableInv, RowInv
<1>4. db.events[i].position \in Int
  BY <1>3, PositionsAreInts DEF ChangeInv
<1> QED
  BY <1>2, <1>4, MetaPositionIsInt

\* The step of ReadAgainIsNewer.
NewerNow == Rejects => \E k \in DOMAIN client.positions : client.positions[k] < PositionNow

\* A client that is turned away gets newer locks when it reads again, whether the datastore
\* was written to, trimmed or truncated in between: what the locker found is an event newer
\* than a lock, and the positions that the reader returns are not older than any event.
THEOREM ReadAgainIsNewerHolds == OccSpec => ReadAgainIsNewer
<1> DEFINE Inv == ChangesInv /\ ClientShape /\ LocksInv
<1>1. OccInit => Inv
  <2> SUFFICES ASSUME OccInit PROVE Inv
    OBVIOUS
  <2>1. client.phase = "idle"
    BY DEF OccInit, NoClient
  <2> QED
    BY <2>1, OccStarts DEF LocksInv
<1>2. Inv /\ [OccNext]_occVars => Inv'
  BY OccChangesStep, ShapeStep, LocksStep
<1>3. Inv /\ [OccNext]_occVars => [NewerNow]_occVars
  <2> SUFFICES ASSUME ChangesInv, ClientShape, LocksInv, [OccNext]_occVars, Rejects
               PROVE  \E k \in DOMAIN client.positions : client.positions[k] < PositionNow
    BY DEF NewerNow
  <2>1. OccNext
    BY DEF Rejects, occVars
  <2>2. WriteLocked
    BY <2>1, OutcomeStep DEF ClientShape
  <2>3. ~LocksHold(db, LockedRequest)
    BY <2>2 DEF WriteLocked
  <2>4. /\ \A k \in DOMAIN client.positions : client.positions[k] \in Int
        /\ client.mode # "fqfield" => "all" \in DOMAIN client.positions
    BY DEF LocksInv, Rejects
  <2>5. CASE client.mode = "fqid"
    <3>1. PICK i \in DOMAIN db.events : /\ db.events[i].fqid = Target
                                        /\ db.events[i].position > client.positions["all"]
      BY <2>3, <2>5, FqidBroken
    <3>2. client.positions["all"] < db.models[Target][META_POSITION]
      BY <2>4, <2>5, <3>1, EventsOfTarget
    <3> QED
      BY <2>4, <2>5, <3>2 DEF PositionNow
  <2>6. CASE client.mode = "fqfield"
    <3>1. PICK oldest \in DOMAIN client.positions : \E t \in TouchedFields(db) :
             Target = t[1] /\ t[2] > client.positions[oldest]
      BY <2>3, <2>6, FqfieldBroken
    <3>2. PICK i \in DOMAIN db.events : /\ db.events[i].fqid = Target
                                        /\ db.events[i].position > client.positions[oldest]
      BY <3>1, TouchedByEvent
    <3>3. client.positions[oldest] < db.models[Target][META_POSITION]
      BY <2>4, <3>2, EventsOfTarget
    <3> QED
      BY <2>6, <3>3 DEF PositionNow
  <2>7. CASE client.mode \notin {"fqid", "fqfield"}
    <3>1. FieldInv(db)
      BY DEF ChangesInv, ChangeInv
    <3>2. PICK t \in TouchedFields(db) : t[2] > client.positions["all"]
      BY <2>3, <2>7, <3>1, CollectionfieldBroken
    <3>3. PICK i \in DOMAIN db.events : db.events[i].position > client.positions["all"]
      BY <3>2, TouchedByEvent
    <3>4. db.events[i].position \in DOMAIN db.positions
      BY DEF ChangesInv, StoreInv, TableInv, RowInv
    <3>5. /\ MaxOfPositions(db) \in Int /\ db.events[i].position <= MaxOfPositions(db)
          /\ db.events[i].position \in Int
      BY <3>4, NewestPosition, PositionsAreInts DEF ChangeInv
    <3>6. client.positions["all"] < MaxOfPositions(db)
      BY <2>4, <2>7, <3>3, <3>5
    <3> QED
      BY <2>4, <2>7, <3>6 DEF PositionNow
  <2> QED
    BY <2>5, <2>6, <2>7
<1> QED
  BY <1>1, <1>2, <1>3, PTL DEF OccSpec, ReadAgainIsNewer, NewerNow

=============================================================================
