-------------------------- MODULE EventStore_history --------------------------
(***************************************************************************)
(* The history can be rebuilt: for every committed position, the model     *)
(* that a reader replays from the rows of the events table is the model    *)
(* that the writer had stored. The writer goes forward, one database event *)
(* after the other, and computes list fields against the model it holds;   *)
(* the reader goes through the stored rows again.                          *)
(***************************************************************************)
EXTENDS EventStore_proofs

-----------------------------------------------------------------------------
(* Reading rows                                                             *)

\* A loop of N turns keeps what its start has and each turn preserves.
LEMMA Turns ==
    ASSUME NEW N \in Nat, NEW S, 0 \in S,
           \A n \in 1..N : n - 1 \in S => n \in S
    PROVE  \A n \in 0..N : n \in S
<1> DEFINE T == {n \in 0..N : n \notin S}
<1> SUFFICES ASSUME T # {} PROVE FALSE
  OBVIOUS
<1>1. T \in SUBSET Nat
  OBVIOUS
<1>2. PICK m \in T : \A k \in T : ~(k < m)
  <2> HIDE DEF T
  <2> QED
    BY <1>1, LeastNat
<1>3. m \in 0..N /\ m # 0 /\ m \notin S
  OBVIOUS
<1>4. m - 1 \in 0..N /\ m - 1 < m
  BY <1>3
<1>5. m - 1 \in S
  BY <1>2, <1>4
<1> QED
  BY <1>3, <1>5

Matching(row, q, p) == row.fqid = q /\ row.position <= p

\* The rows found so far and one more that is looked at.
Found(rows, row, q, p) == IF Matching(row, q, p) THEN Append(rows, row) ELSE rows

\* The rows found among the first rows of s, as the query of the reader goes through them.
RowRun(g, s, q, p, m) ==
    g = [n \in 0..m |-> IF n = 0 THEN <<>>
                        ELSE Found(g[n - 1], s[n], q, p)]

\* There is such a run.
LEMMA RowRunExists ==
    ASSUME NEW s, NEW q, NEW p, NEW N \in Nat
    PROVE  \E g : RowRun(g, s, q, p, N)
<1> DEFINE S == {m \in Nat : \E g : RowRun(g, s, q, p, m)}
<1>1. 0 \in S
  <2>1. RowRun([n \in 0..0 |-> <<>>], s, q, p, 0)
    BY DEF RowRun
  <2> QED
    BY <2>1
<1>2. ASSUME NEW m \in 1..N, m - 1 \in S PROVE m \in S
  <2>1. PICK g : RowRun(g, s, q, p, m - 1)
    BY <1>2
  <2> DEFINE h == [n \in 0..m |-> IF n = m THEN Found(g[m - 1], s[m], q, p) ELSE g[n]]
  <2>2. \A n \in 0..m : h[n] = IF n = 0 THEN <<>> ELSE Found(h[n - 1], s[n], q, p)
    BY <2>1 DEF RowRun
  <2>3. RowRun(h, s, q, p, m)
    BY <2>2 DEF RowRun
  <2> QED
    BY <2>3
<1> HIDE DEF S
<1>3. N \in S
  BY <1>1, <1>2, Turns
<1> QED
  BY <1>3 DEF S

RowTurns(g, s, q, p, N) ==
    g[0] = <<>> /\ \A n \in 1..N : g[n] = Found(g[n - 1], s[n], q, p)

\* RowsOf is the end of such a run.
LEMMA RowsOfRun ==
    ASSUME NEW s, Len(s) \in Nat, NEW q, NEW p
    PROVE  \E g : RowTurns(g, s, q, p, Len(s)) /\ RowsOf(s, q, p) = g[Len(s)]
<1> DEFINE N == Len(s)
           g == CHOOSE g : RowRun(g, s, q, p, N)
<1>1. RowRun(g, s, q, p, N)
  BY RowRunExists
<1>2. RowsOf(s, q, p) = g[N]
  BY DEF RowsOf, RowRun, Found, Matching
<1>3. N \in Nat
  OBVIOUS
<1> HIDE DEF g, N
<1>4. RowTurns(g, s, q, p, N)
  BY <1>1, <1>3 DEF RowRun, RowTurns
<1> QED
  BY <1>2, <1>4 DEF N

\* Two runs that meet the same rows find the same; the position asked for may differ where
\* no row lies between, and rows that do not match may follow.
LEMMA SameRows ==
    ASSUME NEW s, NEW t, NEW N \in Nat, NEW M \in Nat, N = Len(s), M = Len(t), N <= M,
           NEW q, NEW p, NEW r,
           \A n \in 1..N : s[n] = t[n] /\ (Matching(s[n], q, p) <=> Matching(s[n], q, r)),
           \A n \in 1..M : n > N => ~Matching(t[n], q, r)
    PROVE  RowsOf(s, q, p) = RowsOf(t, q, r)
<1>1. PICK g : RowTurns(g, s, q, p, N) /\ RowsOf(s, q, p) = g[N]
  BY RowsOfRun
<1>2. PICK h : RowTurns(h, t, q, r, M) /\ RowsOf(t, q, r) = h[M]
  BY RowsOfRun
<1> DEFINE S == {n \in 0..M : h[n] = g[IF n <= N THEN n ELSE N]}
<1>3. 0 \in S
  BY <1>1, <1>2 DEF RowTurns
<1>4. ASSUME NEW n \in 1..M, n - 1 \in S PROVE n \in S
  <2>1. h[n - 1] = g[IF n - 1 <= N THEN n - 1 ELSE N] /\ h[n] = Found(h[n - 1], t[n], q, r)
    BY <1>2, <1>4 DEF RowTurns
  <2>2. CASE n <= N
    <3>1. /\ s[n] = t[n] /\ (Matching(s[n], q, p) <=> Matching(t[n], q, r))
          /\ h[n - 1] = g[n - 1] /\ g[n] = Found(g[n - 1], s[n], q, p)
      BY <1>1, <2>1, <2>2 DEF RowTurns
    <3>2. h[n] = g[n]
      BY <2>1, <3>1 DEF Found
    <3> QED
      BY <2>2, <3>2
  <2>3. CASE n > N
    <3>1. ~Matching(t[n], q, r) /\ h[n - 1] = g[N]
      BY <2>1, <2>3
    <3>2. h[n] = g[N]
      BY <2>1, <3>1 DEF Found
    <3> QED
      BY <2>3, <3>2
  <2> QED
    BY <2>2, <2>3
<1>5. M \in S
  <2> HIDE DEF S
  <2>1. \A n \in 0..M : n \in S
    BY <1>3, <1>4, Turns
  <2> QED
    BY <2>1
<1>6. h[M] = g[N]
  <2>1. h[M] = g[IF M <= N THEN M ELSE N]
    BY <1>5
  <2> QED
    BY <2>1
<1> QED
  BY <1>1, <1>2, <1>6

\* One more row is found or not.
LEMMA RowsAppend ==
    ASSUME NEW s, s \in Seq(ToSet(s)), NEW row, NEW q, NEW p
    PROVE  RowsOf(Append(s, row), q, p) = Found(RowsOf(s, q, p), row, q, p)
<1> DEFINE t == Append(s, row)
           N == Len(s)
<1>1. /\ N \in Nat /\ Len(t) = N + 1 /\ DOMAIN s = 1..N /\ t[N + 1] = row
      /\ \A n \in 1..N : t[n] = s[n]
  BY AppendFacts
<1> HIDE DEF t
<1>2. PICK g : RowTurns(g, s, q, p, N) /\ RowsOf(s, q, p) = g[N]
  BY <1>1, RowsOfRun
<1>3. PICK h : RowTurns(h, t, q, p, N + 1) /\ RowsOf(t, q, p) = h[N + 1]
  BY <1>1, RowsOfRun
<1> HIDE DEF N
<1> DEFINE S == {n \in 0..N : h[n] = g[n]}
<1>4. 0 \in S
  BY <1>1, <1>2, <1>3 DEF RowTurns
<1>5. ASSUME NEW n \in 1..N, n - 1 \in S PROVE n \in S
  <2>1. n \in 1..(N + 1) /\ h[n - 1] = g[n - 1] /\ t[n] = s[n]
    BY <1>1, <1>5
  <2> QED
    BY <1>1, <1>2, <1>3, <2>1 DEF RowTurns
<1>6. h[N] = g[N]
  <2>1. \A n \in 0..N : n \in S
    <3> HIDE DEF S
    <3> QED
      BY <1>1, <1>4, <1>5, Turns
  <2> QED
    BY <1>1, <2>1
<1>7. N + 1 \in 1..(N + 1) /\ (N + 1) - 1 = N
  BY <1>1
<1>8. h[N + 1] = Found(h[N], row, q, p)
  BY <1>1, <1>3, <1>7 DEF RowTurns
<1> QED
  BY <1>2, <1>3, <1>6, <1>8 DEF t

\* What is found is a list.
LEMMA RowsAreList ==
    ASSUME NEW s, Len(s) \in Nat, NEW q, NEW p
    PROVE  RowsOf(s, q, p) \in Seq(ToSet(RowsOf(s, q, p)))
<1> DEFINE N == Len(s)
<1>1. PICK g : RowTurns(g, s, q, p, N) /\ RowsOf(s, q, p) = g[N]
  BY RowsOfRun
<1>2. N \in Nat
  OBVIOUS
<1> HIDE DEF N
<1> DEFINE S == {n \in 0..N : g[n] \in Seq(ToSet(g[n]))}
<1>3. 0 \in S
  <2>1. <<>> \in Seq(ToSet(<<>>))
    OBVIOUS
  <2>2. g[0] = <<>>
    BY <1>1 DEF RowTurns
  <2>3. g[0] \in Seq(ToSet(g[0]))
    BY <2>1, <2>2, Zenon
  <2> QED
    BY <1>2, <2>3
<1>4. ASSUME NEW n \in 1..N, n - 1 \in S PROVE n \in S
  <2>1. g[n - 1] \in Seq(ToSet(g[n - 1])) /\ g[n] = Found(g[n - 1], s[n], q, p)
    BY <1>1, <1>4 DEF RowTurns
  <2>2. LET t == Append(g[n - 1], s[n]) IN t \in Seq(ToSet(t))
    BY <2>1, AppendFacts
  <2>3. g[n] \in Seq(ToSet(g[n]))
    BY <2>1, <2>2 DEF Found
  <2> QED
    BY <1>2, <2>3
<1>5. N \in S
  <2>1. \A n \in 0..N : n \in S
    <3> HIDE DEF S
    <3> QED
      BY <1>2, <1>3, <1>4, Turns
  <2> QED
    BY <1>2, <2>1
<1> QED
  BY <1>1, <1>5

-----------------------------------------------------------------------------
(* Replaying rows                                                           *)

\* The model after the first rows, as build_model_from_events goes through them.
ReplayRun(g, rows, m) ==
    g = [n \in 0..m |-> IF n = 0 THEN NoFields ELSE ReplayRow(g[n - 1], rows[n])]

ReplayTurns(g, rows, N) ==
    g[0] = NoFields /\ \A n \in 1..N : g[n] = ReplayRow(g[n - 1], rows[n])

\* There is such a run.
LEMMA ReplayRunExists ==
    ASSUME NEW rows, NEW N \in Nat
    PROVE  \E g : ReplayRun(g, rows, N)
<1> DEFINE S == {m \in Nat : \E g : ReplayRun(g, rows, m)}
<1>1. 0 \in S
  <2>1. ReplayRun([n \in 0..0 |-> NoFields], rows, 0)
    BY DEF ReplayRun
  <2> QED
    BY <2>1
<1>2. ASSUME NEW m \in 1..N, m - 1 \in S PROVE m \in S
  <2>1. PICK g : ReplayRun(g, rows, m - 1)
    BY <1>2
  <2> DEFINE h == [n \in 0..m |-> IF n = m THEN ReplayRow(g[m - 1], rows[m]) ELSE g[n]]
  <2>2. \A n \in 0..m : h[n] = IF n = 0 THEN NoFields ELSE ReplayRow(h[n - 1], rows[n])
    BY <2>1 DEF ReplayRun
  <2>3. ReplayRun(h, rows, m)
    BY <2>2 DEF ReplayRun
  <2> QED
    BY <2>3
<1> HIDE DEF S
<1>3. N \in S
  BY <1>1, <1>2, Turns
<1> QED
  BY <1>3 DEF S

\* Replay is the end of such a run.
LEMMA ReplayOfRun ==
    ASSUME NEW rows, Len(rows) \in Nat
    PROVE  \E g : ReplayTurns(g, rows, Len(rows)) /\ Replay(rows) = g[Len(rows)]
<1> DEFINE N == Len(rows)
           g == CHOOSE g : ReplayRun(g, rows, N)
<1>1. ReplayRun(g, rows, N)
  BY ReplayRunExists
<1>2. Replay(rows) = g[N]
  BY DEF Replay, ReplayRun
<1>3. N \in Nat
  OBVIOUS
<1> HIDE DEF g, N
<1>4. ReplayTurns(g, rows, N)
  BY <1>1, <1>3 DEF ReplayRun, ReplayTurns
<1> QED
  BY <1>2, <1>4 DEF N

\* One more row is applied to the model replayed so far.
LEMMA ReplayAppend ==
    ASSUME NEW s, s \in Seq(ToSet(s)), NEW row
    PROVE  Replay(Append(s, row)) = ReplayRow(Replay(s), row)
<1> DEFINE t == Append(s, row)
           N == Len(s)
<1>1. /\ N \in Nat /\ Len(t) = N + 1 /\ DOMAIN s = 1..N /\ t[N + 1] = row
      /\ \A n \in 1..N : t[n] = s[n]
  BY AppendFacts
<1> HIDE DEF t
<1>2. PICK g : ReplayTurns(g, s, N) /\ Replay(s) = g[N]
  BY <1>1, ReplayOfRun
<1>3. PICK h : ReplayTurns(h, t, N + 1) /\ Replay(t) = h[N + 1]
  BY <1>1, ReplayOfRun
<1> HIDE DEF N
<1> DEFINE S == {n \in 0..N : h[n] = g[n]}
<1>4. 0 \in S
  BY <1>1, <1>2, <1>3 DEF ReplayTurns
<1>5. ASSUME NEW n \in 1..N, n - 1 \in S PROVE n \in S
  <2>1. n \in 1..(N + 1) /\ h[n - 1] = g[n - 1] /\ t[n] = s[n]
    BY <1>1, <1>5
  <2> QED
    BY <1>1, <1>2, <1>3, <2>1 DEF ReplayTurns
<1>6. h[N] = g[N]
  <2>1. \A n \in 0..N : n \in S
    <3> HIDE DEF S
    <3> QED
      BY <1>1, <1>4, <1>5, Turns
  <2> QED
    BY <1>1, <2>1
<1>7. N + 1 \in 1..(N + 1) /\ (N + 1) - 1 = N
  BY <1>1
<1>8. h[N + 1] = ReplayRow(h[N], row)
  BY <1>1, <1>3, <1>7 DEF ReplayTurns
<1> QED
  BY <1>2, <1>3, <1>6, <1>8 DEF t

\* A model that is deleted.
Dead(model) == model[META_DELETED] = TRUE

\* The types of rows that decide whether a model is deleted.
Deciding == {"create", "delete", "restore"}

\* A deletion is followed by nothing but a restoration, and the last row that decides says
\* whether the model is deleted.
Settled(rows, model) ==
    /\ \A i, j \in DOMAIN rows : j = i + 1 /\ rows[i].type = "delete" => rows[j].type = "restore"
    /\ \E k \in DOMAIN rows :
          /\ rows[k].type \in Deciding
          /\ \A j \in DOMAIN rows : j > k => rows[j].type \notin Deciding
          /\ rows[k].type = "delete" <=> Dead(model)

\* The rows of q up to position p make the given model.
Recorded(events, q, p, model) ==
    LET rows == RowsOf(events, q, p)
    IN  Buildable(rows) /\ BuildModelFromEvents(rows) = model /\ Settled(rows, model)

\* One more row, of a model that is not deleted unless the row restores it.
LEMMA SettledAppend ==
    ASSUME NEW s, s \in Seq(ToSet(s)), NEW row, NEW old, NEW new,
           IF row.type = "create" THEN s = <<>> ELSE Settled(s, old),
           row.type \notin {"create", "restore"} => ~Dead(old),
           IF row.type \in Deciding THEN row.type = "delete" <=> Dead(new)
           ELSE Dead(new) <=> Dead(old)
    PROVE  Settled(Append(s, row), new)
<1> DEFINE t == Append(s, row)
           N == Len(s)
<1>1. /\ N \in Nat /\ DOMAIN t = 1..(N + 1) /\ DOMAIN s = 1..N
      /\ t[N + 1] = row /\ \A n \in 1..N : t[n] = s[n]
  BY AppendFacts
<1>2. row.type = "create" => N = 0
  OBVIOUS
<1> HIDE DEF t, N
<1>3. ASSUME NEW i \in DOMAIN t, NEW j \in DOMAIN t, j = i + 1, t[i].type = "delete"
      PROVE  t[j].type = "restore"
  <2>1. i \in 1..N /\ s[i].type = "delete" /\ row.type # "create"
    BY <1>1, <1>2, <1>3
  <2>2. CASE j \in 1..N
    BY <1>1, <1>3, <2>1, <2>2 DEF Settled
  <2>3. CASE j \notin 1..N
    <3>1. i = N /\ j = N + 1
      BY <1>1, <1>3, <2>1, <2>3
    <3>2. PICK k \in DOMAIN s :
             /\ \A x \in DOMAIN s : x > k => s[x].type \notin Deciding
             /\ s[k].type = "delete" <=> Dead(old)
      BY <2>1 DEF Settled
    <3>3. k = N
      BY <1>1, <2>1, <3>1, <3>2 DEF Deciding
    <3> QED
      BY <1>1, <2>1, <3>1, <3>2, <3>3
  <2> QED
    BY <2>2, <2>3
<1>4. \E k \in DOMAIN t :
         /\ t[k].type \in Deciding
         /\ \A j \in DOMAIN t : j > k => t[j].type \notin Deciding
         /\ t[k].type = "delete" <=> Dead(new)
  <2>1. CASE row.type \in Deciding
    <3>1. N + 1 \in DOMAIN t /\ \A j \in DOMAIN t : ~(j > N + 1)
      BY <1>1
    <3> QED
      BY <1>1, <2>1, <3>1
  <2>2. CASE row.type \notin Deciding
    <3>1. PICK k \in DOMAIN s :
             /\ s[k].type \in Deciding
             /\ \A x \in DOMAIN s : x > k => s[x].type \notin Deciding
             /\ s[k].type = "delete" <=> Dead(old)
      BY <2>2 DEF Settled, Deciding
    <3>2. k \in DOMAIN t /\ t[k] = s[k] /\ (Dead(new) <=> Dead(old))
      BY <1>1, <2>2, <3>1
    <3>3. \A j \in DOMAIN t : j > k => t[j].type \notin Deciding
      BY <1>1, <2>2, <3>1
    <3> QED
      BY <3>1, <3>2, <3>3
  <2> QED
    BY <2>1, <2>2
<1>5. Settled(t, new)
  BY <1>3, <1>4 DEF Settled
<1> QED
  BY <1>5 DEF t

\* A list of rows with one more: it begins with its only creation, if it did so before or
\* is empty, and the reader puts the position of the new row on the model.
LEMMA BuildAppend ==
    ASSUME NEW s, s \in Seq(ToSet(s)), NEW row,
           IF row.type = "create" THEN s = <<>> ELSE Buildable(s)
    PROVE  LET t == Append(s, row)
           IN  /\ Buildable(t)
               /\ BuildModelFromEvents(t) =
                     With(ReplayRow(Replay(s), row), META_POSITION, row.position)
<1> DEFINE t == Append(s, row)
           N == Len(s)
<1>1. /\ N \in Nat /\ Len(t) = N + 1 /\ DOMAIN t = 1..(N + 1) /\ DOMAIN s = 1..N
      /\ t[N + 1] = row /\ \A n \in 1..N : t[n] = s[n]
  BY AppendFacts
<1>2. Replay(t) = ReplayRow(Replay(s), row)
  BY ReplayAppend
<1>3. Last(t) = row
  BY <1>1 DEF Last
<1>4. t # <<>>
  <2>1. Len(<<>>) = 0
    OBVIOUS
  <2> HIDE DEF t
  <2> QED
    BY <1>1, <2>1
<1>5. CASE row.type = "create"
  <2>1. N = 0
    BY <1>5
  <2> HIDE DEF t, N
  <2>2. \A i \in DOMAIN t : i = 1 /\ t[i] = row
    BY <1>1, <2>1
  <2> QED
    BY <1>2, <1>3, <1>4, <1>5, <2>2 DEF Buildable, BuildModelFromEvents, t
<1>6. CASE row.type # "create"
  <2>1. s # <<>> /\ \A i \in 1..N : s[i].type = "create" <=> i = 1
    BY <1>1, <1>6 DEF Buildable
  <2>2. N # 0
    BY <2>1
  <2> HIDE DEF t, N
  <2>3. \A i \in DOMAIN t : t[i].type = "create" <=> i = 1
    <3> SUFFICES ASSUME NEW i \in DOMAIN t PROVE t[i].type = "create" <=> i = 1
      OBVIOUS
    <3>1. CASE i \in 1..N
      BY <1>1, <2>1, <3>1
    <3>2. CASE i = N + 1
      BY <1>1, <1>6, <2>2, <3>2
    <3> QED
      BY <1>1, <3>1, <3>2
  <2> QED
    BY <1>2, <1>3, <1>4, <2>3 DEF Buildable, BuildModelFromEvents, t
<1> QED
  BY <1>5, <1>6

-----------------------------------------------------------------------------
(* The writer's model and the reader's model                                *)

Listed(e) == DOMAIN e.data.add \cup DOMAIN e.data.remove

\* What the writer applies to the model is what the event stores: get_modified_fields of an
\* update is its data, and that of a list update was computed with this model. Only a deleted
\* model is restored, and nothing else happens to one.
Stored(e, model) ==
    /\ e.type # "restore" => ~Dead(model)
    /\ e.type = "update" => e.data.set = e.modified
    /\ e.type = "listfields" =>
          /\ META_POSITION \notin Listed(e)
          /\ e.modified = ApplyFields(model, e.data.add, e.data.remove)

\* Two models with the same fields in a set.
AgreeOn(fields, m, n) ==
    \A f \in fields : (f \in DOMAIN m <=> f \in DOMAIN n) /\ (f \in DOMAIN m => m[f] = n[f])

\* apply_fields looks at the listed fields only.
LEMMA ApplyFieldsLocal ==
    ASSUME NEW m, NEW n, NEW add, NEW remove, AgreeOn(DOMAIN add \cup DOMAIN remove, m, n)
    PROVE  ApplyFields(m, add, remove) = ApplyFields(n, add, remove)
<1> DEFINE Added(x) == [f \in DOMAIN add |->
               ListOf(x, f) \o Without(add[f], ToSet(ListOf(x, f)))]
           Removed(x, a) == [f \in DOMAIN remove \cap DOMAIN x |->
               Without(IF f \in DOMAIN a THEN a[f] ELSE x[f], ToSet(remove[f]))]
<1>1. \A f \in DOMAIN add : ListOf(m, f) = ListOf(n, f)
  BY DEF AgreeOn, ListOf
<1>2. Added(m) = Added(n) /\ DOMAIN Added(m) = DOMAIN add
  BY <1>1
<1>3. DOMAIN remove \cap DOMAIN m = DOMAIN remove \cap DOMAIN n
  BY DEF AgreeOn
<1>4. \A f \in DOMAIN remove \cap DOMAIN m : m[f] = n[f]
  BY DEF AgreeOn
<1>5. ASSUME NEW a PROVE Removed(m, a) = Removed(n, a)
  BY <1>3, <1>4
<1>6. /\ ApplyFields(m, add, remove) = Over(Removed(m, Added(m)), Added(m))
      /\ ApplyFields(n, add, remove) = Over(Removed(n, Added(n)), Added(n))
  BY DEF ApplyFields
<1> HIDE DEF Added, Removed
<1> QED
  BY <1>2, <1>5, <1>6

\* One database event: the writer's model and the replayed one differ in meta_position only,
\* before and after it.
LEMMA ReplayIsModified ==
    ASSUME NEW e, NEW q, GoodDbEvent(e, q), NEW models, NEW m, NEW old,
           e.type # "create" => models[q] = With(m, META_POSITION, old) /\ Stored(e, models[q]),
           NEW position, NEW w
    PROVE  With(ModifiedModel(e, models), META_POSITION, position)
              = With(ReplayRow(m, EventRow(e, position, w)), META_POSITION, position)
<1> DEFINE mp == META_POSITION
           row == EventRow(e, position, w)
           stored == models[q]
<1>1. row.type = e.type /\ row.data = e.data /\ e.fqid = q
  BY DEF EventRow, GoodDbEvent
<1>2. mp # META_DELETED
  BY DEF META_DELETED, META_POSITION
<1> HIDE DEF row
<1>3. CASE e.type = "create"
  <2>1. ModifiedModel(e, models) = With(e.data.set, META_DELETED, FALSE)
    BY <1>3 DEF ModifiedModel
  <2>2. ReplayRow(m, row) = With(e.data.set, META_DELETED, FALSE)
    BY <1>1, <1>3 DEF ReplayRow
  <2> QED
    BY <2>1, <2>2 DEF row
<1>4. ASSUME e.type # "create" PROVE stored = With(m, mp, old) /\ Stored(e, stored)
  BY <1>4
<1>5. CASE e.type = "update"
  <2>1. ModifiedModel(e, models) = Over(e.modified, stored)
    BY <1>1, <1>5 DEF ModifiedModel
  <2>2. ReplayRow(m, row) = Over(e.modified, m)
    BY <1>1, <1>4, <1>5 DEF ReplayRow, Stored
  <2>3. stored = With(m, mp, old)
    BY <1>4, <1>5
  <2> HIDE DEF stored, mp
  <2>4. With(Over(e.modified, With(m, mp, old)), mp, position)
           = With(Over(e.modified, m), mp, position)
    BY DEF With, Over
  <2> QED
    BY <2>1, <2>2, <2>3, <2>4 DEF row, mp
<1>6. CASE e.type = "listfields"
  <2>1. ModifiedModel(e, models) = Over(e.modified, stored)
    BY <1>1, <1>6 DEF ModifiedModel
  <2>2. ReplayRow(m, row) = Over(ApplyFields(m, e.data.add, e.data.remove), m)
    BY <1>1, <1>6 DEF ReplayRow
  <2>3. /\ stored = With(m, mp, old) /\ mp \notin DOMAIN e.data.add \cup DOMAIN e.data.remove
        /\ e.modified = ApplyFields(stored, e.data.add, e.data.remove)
    BY <1>4, <1>6 DEF Stored, Listed
  <2> HIDE DEF stored, mp
  <2>4. AgreeOn(DOMAIN e.data.add \cup DOMAIN e.data.remove, stored, m)
    BY <2>3 DEF AgreeOn, With
  <2>5. e.modified = ApplyFields(m, e.data.add, e.data.remove)
    BY <2>3, <2>4, ApplyFieldsLocal
  <2>6. With(Over(e.modified, With(m, mp, old)), mp, position)
           = With(Over(e.modified, m), mp, position)
    BY DEF With, Over
  <2> QED
    BY <2>1, <2>2, <2>3, <2>5, <2>6 DEF row, mp
<1>7. CASE e.type = "deletefields"
  <2>1. ModifiedModel(e, models) = Omit(stored, e.data.unset)
    BY <1>1, <1>7 DEF ModifiedModel
  <2>2. ReplayRow(m, row) = Omit(m, e.data.unset)
    BY <1>1, <1>7 DEF ReplayRow
  <2>3. stored = With(m, mp, old)
    BY <1>4, <1>7
  <2> HIDE DEF stored, mp
  <2>4. With(Omit(With(m, mp, old), e.data.unset), mp, position)
           = With(Omit(m, e.data.unset), mp, position)
    BY DEF With, Omit
  <2> QED
    BY <2>1, <2>2, <2>3, <2>4 DEF row, mp
<1>8. CASE e.type \in {"delete", "restore"}
  <2>1. PICK b \in {TRUE, FALSE} : /\ ModifiedModel(e, models) = With(stored, META_DELETED, b)
                                   /\ ReplayRow(m, row) = With(m, META_DELETED, b)
    <3>1. CASE e.type = "delete"
      BY <1>1, <3>1 DEF ModifiedModel, ReplayRow
    <3>2. CASE e.type = "restore"
      BY <1>1, <3>2 DEF ModifiedModel, ReplayRow
    <3> QED
      BY <1>8, <3>1, <3>2
  <2>2. stored = With(m, mp, old)
    BY <1>4, <1>8
  <2> DEFINE md == META_DELETED
  <2> HIDE DEF stored, mp, md
  <2>3. With(With(With(m, mp, old), md, b), mp, position) = With(With(m, md, b), mp, position)
    BY DEF With
  <2> QED
    BY <2>1, <2>2, <2>3 DEF row, mp, md
<1> QED
  BY <1>3, <1>5, <1>6, <1>7, <1>8 DEF GoodDbEvent, row

-----------------------------------------------------------------------------
(* insert_events: the loop over the events of a request                     *)

\* The events table as it will be when the database events so far are stored.
RowsWith(events, dbEvents, position) ==
    events \o [w \in DOMAIN dbEvents |-> EventRow(dbEvents[w], position, w)]

\* One more database event is one more row.
LEMMA RowsWithAppend ==
    ASSUME NEW events, events \in Seq(ToSet(events)), NEW es, es \in Seq(ToSet(es)),
           NEW e, NEW position
    PROVE  LET rows == RowsWith(events, es, position)
           IN  /\ rows \in Seq(ToSet(rows))
               /\ RowsWith(events, Append(es, e), position)
                     = Append(rows, EventRow(e, position, Len(es) + 1))
               /\ \A i \in DOMAIN rows : \/ i \in DOMAIN events /\ rows[i] = events[i]
                                         \/ \E w \in DOMAIN es : rows[i] = EventRow(es[w], position, w)
<1> DEFINE N == Len(es)
           new == [w \in DOMAIN es |-> EventRow(es[w], position, w)]
           rows == RowsWith(events, es, position)
           t == Append(es, e)
           row == EventRow(e, position, N + 1)
           all == [w \in DOMAIN t |-> EventRow(t[w], position, w)]
<1>1. /\ N \in Nat /\ DOMAIN es = 1..N /\ DOMAIN t = 1..(N + 1) /\ t[N + 1] = e
      /\ \A w \in 1..N : t[w] = es[w]
  BY AppendFacts
<1>2. rows = events \o new /\ RowsWith(events, t, position) = events \o all
  BY DEF RowsWith
<1> HIDE DEF t, N, rows
<1>3. new \in Seq(ToSet(new)) /\ Len(new) = N /\ DOMAIN new = 1..N
  <2>1. \A w \in 1..N : new[w] \in ToSet(new)
    BY <1>1 DEF ToSet
  <2>2. new = [w \in 1..N |-> new[w]]
    BY <1>1
  <2> DEFINE V == ToSet(new)
  <2>3. \A w \in 1..N : new[w] \in V
    BY <2>1
  <2> HIDE DEF new, V
  <2>4. new \in Seq(V) /\ Len(new) = N /\ DOMAIN new = 1..N
    BY <1>1, <2>2, <2>3
  <2> QED
    BY <2>4 DEF V
<1>4. /\ rows \in Seq(ToSet(rows))
      /\ \A i \in DOMAIN rows : \/ i \in DOMAIN events /\ rows[i] = events[i]
                                \/ \E w \in DOMAIN new : rows[i] = new[w]
  BY <1>2, <1>3, ConcatFacts
<1>5. all = Append(new, row)
  <2> DEFINE a == Append(new, row)
  <2>1. /\ DOMAIN a = 1..(N + 1) /\ a[N + 1] = row /\ \A w \in 1..N : a[w] = new[w]
        /\ a \in Seq(ToSet(a))
    <3> HIDE DEF new, row
    <3> QED
      BY <1>3, AppendFacts
  <2>2. \A w \in 1..N : a[w] = EventRow(t[w], position, w)
    BY <1>1, <2>1
  <2>3. a[N + 1] = EventRow(t[N + 1], position, N + 1)
    BY <1>1, <2>1
  <2>4. a = [w \in 1..(N + 1) |-> a[w]]
    <3> HIDE DEF a
    <3> QED
      BY <2>1
  <2> HIDE DEF a
  <2>5. \A w \in 1..(N + 1) : a[w] = EventRow(t[w], position, w)
    BY <1>1, <2>2, <2>3
  <2>6. all = [w \in 1..(N + 1) |-> a[w]]
    BY <1>1, <2>5
  <2>7. all = a
    BY <2>4, <2>6
  <2> QED
    BY <2>7 DEF a
<1>6. events \o Append(new, row) = Append(events \o new, row)
  <2> DEFINE V == ToSet(events) \cup ToSet(new) \cup {row}
  <2>1. ToSet(events) \subseteq V /\ ToSet(new) \subseteq V /\ row \in V
    OBVIOUS
  <2> HIDE DEF V, new, row
  <2>2. events \in Seq(V) /\ new \in Seq(V)
    BY <1>3, <2>1
  <2> QED
    BY <2>1, <2>2
<1>7. RowsWith(events, t, position) = Append(rows, row)
  BY <1>2, <1>5, <1>6
<1>8. \A w \in DOMAIN new : w \in DOMAIN es /\ new[w] = EventRow(es[w], position, w)
  OBVIOUS
<1> HIDE DEF new
<1> QED
  BY <1>4, <1>7, <1>8 DEF rows, t, N

\* Nothing is found where no row is of the fqid.
LEMMA NoRows ==
    ASSUME NEW s, s \in Seq(ToSet(s)), NEW q, NEW p, \A i \in DOMAIN s : s[i].fqid # q
    PROVE  RowsOf(s, q, p) = <<>>
<1>1. PICK g : RowTurns(g, <<>>, q, p, 0) /\ RowsOf(<<>>, q, p) = g[0]
  <2>1. Len(<<>>) = 0
    OBVIOUS
  <2> QED
    BY <2>1, RowsOfRun
<1>2. RowsOf(<<>>, q, p) = <<>>
  BY <1>1 DEF RowTurns
<1> DEFINE M == Len(s)
<1>3. M \in Nat /\ DOMAIN s = 1..M
  OBVIOUS
<1>4. \A n \in 1..M : n > 0 => ~Matching(s[n], q, p)
  BY <1>3 DEF Matching
<1>5. \A n \in 1..0 : /\ <<>>[n] = s[n]
                      /\ Matching(<<>>[n], q, p) <=> Matching(<<>>[n], q, p)
  OBVIOUS
<1>6. RowsOf(<<>>, q, p) = RowsOf(s, q, p)
  <2>1. 0 \in Nat /\ 0 = Len(<<>>) /\ M = Len(s) /\ 0 <= M
    BY <1>3
  <2> HIDE DEF M
  <2> QED
    BY <1>3, <1>4, <1>5, <2>1, SameRows
<1> QED
  BY <1>2, <1>6

\* The rows of tables d are of models that it has, and not above the position.
RowsKnown(d, position) ==
    /\ d.events \in Seq(ToSet(d.events)) /\ position \in Nat
    /\ \A i \in DOMAIN d.events : d.events[i].fqid \in DOMAIN d.models

\* What the loop has recorded: the model of every fqid is the one that its rows make.
LoopRecords(acc, d, events, position) ==
    /\ \A q \in DOMAIN acc.models :
          Recorded(RowsWith(d.events, acc.dbEvents, position), q, position, acc.models[q])
    /\ \A i \in DOMAIN acc.dbEvents : acc.dbEvents[i].fqid \in DOMAIN acc.models
    /\ \A j \in DOMAIN events :
          events[j].fqid \in DOMAIN d.models => events[j].fqid \in DOMAIN acc.models

\* What a database event does to meta_deleted.
LEMMA DeletedAfter ==
    ASSUME NEW e, NEW q, GoodDbEvent(e, q), NEW models, DeletedKnown(models), NEW position,
           e.type # "create" => q \in DOMAIN models
    PROVE  LET model == With(ModifiedModel(e, models), META_POSITION, position)
           IN  IF e.type \in Deciding THEN e.type = "delete" <=> Dead(model)
               ELSE Dead(model) <=> Dead(models[q])
<1> DEFINE m == ModifiedModel(e, models)
           old == models[q]
           model == With(m, META_POSITION, position)
<1>1. e.fqid = q /\ META_DELETED # META_POSITION
  BY DEF GoodDbEvent, META_DELETED, META_POSITION
<1>2. CASE e.type = "create"
  <2>1. m = With(e.data.set, META_DELETED, FALSE)
    BY <1>2 DEF ModifiedModel
  <2> HIDE DEF m
  <2>2. META_DELETED \in DOMAIN m /\ m[META_DELETED] = FALSE
    BY <2>1 DEF With
  <2>3. model[META_DELETED] = FALSE
    BY <1>1, <2>2 DEF With
  <2>4. ~Dead(model)
    BY <2>3, Zenon DEF Dead
  <2> QED
    BY <1>2, <2>4 DEF Deciding, m
<1>3. CASE e.type \in {"update", "listfields"}
  <2>1. m = Over(e.modified, old) /\ META_DELETED \notin DOMAIN e.modified
    BY <1>1, <1>3 DEF ModifiedModel, GoodDbEvent
  <2>2. META_DELETED \in DOMAIN old
    BY <1>3 DEF DeletedKnown
  <2> HIDE DEF m, old
  <2>3. META_DELETED \in DOMAIN m /\ m[META_DELETED] = old[META_DELETED]
    BY <2>1, <2>2 DEF Over
  <2>4. Dead(model) <=> Dead(old)
    BY <1>1, <2>3 DEF With, Dead
  <2> QED
    BY <1>3, <2>4 DEF Deciding, m, old
<1>4. CASE e.type = "deletefields"
  <2>1. m = Omit(old, e.data.unset) /\ META_DELETED \notin e.data.unset
    BY <1>1, <1>4 DEF ModifiedModel, GoodDbEvent
  <2>2. META_DELETED \in DOMAIN old
    BY <1>4 DEF DeletedKnown
  <2> HIDE DEF m, old
  <2>3. META_DELETED \in DOMAIN m /\ m[META_DELETED] = old[META_DELETED]
    BY <2>1, <2>2 DEF Omit
  <2>4. Dead(model) <=> Dead(old)
    BY <1>1, <2>3 DEF With, Dead
  <2> QED
    BY <1>4, <2>4 DEF Deciding, m, old
<1>5. CASE e.type \in {"delete", "restore"}
  <2> DEFINE v == (e.type = "delete")
  <2>1. m = With(old, META_DELETED, v)
    BY <1>1, <1>5 DEF ModifiedModel
  <2> HIDE DEF m, old, v
  <2>2. META_DELETED \in DOMAIN m /\ m[META_DELETED] = v
    BY <2>1 DEF With
  <2>3. model[META_DELETED] = v
    BY <1>1, <2>2 DEF With
  <2>4. Dead(model) <=> e.type = "delete"
    BY <2>3 DEF v, Dead
  <2> QED
    BY <1>5, <2>4 DEF Deciding, m
<1> QED
  BY <1>2, <1>3, <1>4, <1>5 DEF GoodDbEvent

\* One database event.
LEMMA ApplyDbEventRecords ==
    ASSUME NEW acc, NEW d, NEW events, LoopInv(acc, d, events), NEW position,
           RowsKnown(d, position), LoopRecords(acc, d, events, position),
           NEW q, NEW e, GoodDbEvent(e, q), \E j \in DOMAIN events : q = events[j].fqid,
           IF e.type = "create" THEN q \notin DOMAIN acc.models
           ELSE q \in DOMAIN acc.models /\ Stored(e, acc.models[q])
    PROVE  LET new == ApplyDbEvent(acc, e, position)
           IN  /\ LoopRecords(new, d, events, position)
               /\ new.models = With(acc.models, q,
                                    With(ModifiedModel(e, acc.models), META_POSITION, position))
<1> DEFINE new == ApplyDbEvent(acc, e, position)
           model == With(ModifiedModel(e, acc.models), META_POSITION, position)
           es == acc.dbEvents
           rows == RowsWith(d.events, es, position)
           row == EventRow(e, position, Len(es) + 1)
<1>1. new.models = With(acc.models, q, model) /\ new.dbEvents = Append(es, e)
  <2>1. DOMAIN acc = {"error", "models", "dbEvents", "modified"} /\ e.fqid = q
    BY DEF LoopInv, GoodDbEvent
  <2>2. /\ new.models = ApplyEventToModels(e, acc.models, position)
        /\ new.dbEvents = Append(es, e)
    BY <2>1 DEF ApplyDbEvent
  <2> QED
    BY <2>1, <2>2 DEF ApplyEventToModels
<1>2. row.fqid = q /\ row.type = e.type /\ row.position = position /\ position \in Nat
  BY DEF EventRow, GoodDbEvent, RowsKnown
<1>3. es \in Seq(ToSet(es)) /\ d.events \in Seq(ToSet(d.events))
  BY DEF LoopInv, RowsKnown
<1>4. /\ rows \in Seq(ToSet(rows))
      /\ RowsWith(d.events, new.dbEvents, position) = Append(rows, row)
      /\ \A i \in DOMAIN rows : \/ i \in DOMAIN d.events /\ rows[i] = d.events[i]
                                \/ \E w \in DOMAIN es : rows[i] = EventRow(es[w], position, w)
  <2>1. /\ rows \in Seq(ToSet(rows))
        /\ RowsWith(d.events, Append(es, e), position) = Append(rows, row)
        /\ \A i \in DOMAIN rows : \/ i \in DOMAIN d.events /\ rows[i] = d.events[i]
                                  \/ \E w \in DOMAIN es : rows[i] = EventRow(es[w], position, w)
    <3> DEFINE base == d.events
    <3>1. es \in Seq(ToSet(es)) /\ base \in Seq(ToSet(base))
      BY <1>3
    <3> HIDE DEF es, base
    <3>2. LET r == RowsWith(base, es, position)
          IN  /\ r \in Seq(ToSet(r))
              /\ RowsWith(base, Append(es, e), position)
                    = Append(r, EventRow(e, position, Len(es) + 1))
              /\ \A i \in DOMAIN r : \/ i \in DOMAIN base /\ r[i] = base[i]
                                     \/ \E w \in DOMAIN es : r[i] = EventRow(es[w], position, w)
      BY <3>1, RowsWithAppend
    <3> QED
      BY <3>2 DEF base
  <2> HIDE DEF new, rows, row
  <2> QED
    BY <1>1, <2>1
<1>5. /\ DOMAIN new.dbEvents = 1..(Len(es) + 1) /\ Len(es) \in Nat /\ DOMAIN es = 1..Len(es)
      /\ \A i \in DOMAIN es : new.dbEvents[i] = es[i]
      /\ new.dbEvents[Len(es) + 1] = e
  BY <1>1, <1>3, AppendFacts
<1>6. /\ DOMAIN new.models = DOMAIN acc.models \cup {q} /\ new.models[q] = model
      /\ \A x \in DOMAIN acc.models : x # q => new.models[x] = acc.models[x]
  <2> HIDE DEF model, new
  <2> QED
    BY <1>1 DEF With
<1>7. Len(rows) \in Nat
  BY <1>4
<1> HIDE DEF new, row, rows, model
<1>8. ASSUME NEW x \in DOMAIN acc.models, x # q
      PROVE  Recorded(Append(rows, row), x, position, new.models[x])
  <2>1. RowsOf(Append(rows, row), x, position) = RowsOf(rows, x, position)
    BY <1>2, <1>4, <1>8, RowsAppend DEF Found, Matching
  <2>2. Recorded(rows, x, position, acc.models[x])
    BY DEF LoopRecords, rows
  <2> QED
    BY <1>6, <1>8, <2>1, <2>2 DEF Recorded
<1>9. Recorded(Append(rows, row), q, position, model)
  <2> DEFINE s == RowsOf(rows, q, position)
             m == Replay(s)
             old == Last(s).position
  <2>1. RowsOf(Append(rows, row), q, position) = Append(s, row)
    BY <1>2, <1>4, RowsAppend DEF Found, Matching
  <2>2. s \in Seq(ToSet(s))
    BY <1>7, RowsAreList
  <2>3. IF row.type = "create" THEN s = <<>> ELSE Buildable(s)
    <3>1. CASE e.type = "create"
      <4>1. q \notin DOMAIN acc.models /\ q \notin DOMAIN d.models
        BY <3>1 DEF LoopRecords
      <4>2. \A i \in DOMAIN d.events : d.events[i].fqid # q
        BY <4>1 DEF RowsKnown
      <4>3. \A w \in DOMAIN es : EventRow(es[w], position, w).fqid # q
        BY <4>1 DEF LoopRecords, EventRow
      <4>4. \A i \in DOMAIN rows : rows[i].fqid # q
        BY <1>4, <4>2, <4>3
      <4>5. s = <<>>
        BY <1>4, <4>4, NoRows
      <4> QED
        BY <1>2, <3>1, <4>5
    <3>2. CASE e.type # "create"
      <4>1. Recorded(rows, q, position, acc.models[q])
        BY <3>2 DEF LoopRecords, rows
      <4> QED
        BY <1>2, <3>2, <4>1 DEF Recorded
    <3> QED
      BY <3>1, <3>2
  <2>4. e.type # "create" =>
           acc.models[q] = With(m, META_POSITION, old) /\ Stored(e, acc.models[q])
    <3> SUFFICES ASSUME e.type # "create"
                 PROVE  acc.models[q] = With(m, META_POSITION, old) /\ Stored(e, acc.models[q])
      OBVIOUS
    <3>1. Recorded(rows, q, position, acc.models[q])
      BY DEF LoopRecords, rows
    <3> QED
      BY <3>1 DEF Recorded, BuildModelFromEvents
  <2>7. Settled(Append(s, row), model)
    <3> DEFINE before == acc.models[q]
    <3>1. /\ row.type \notin {"create", "restore"} => ~Dead(before)
          /\ row.type # "create" => Settled(s, before)
      <4>1. e.type # "create" => Stored(e, before) /\ Recorded(rows, q, position, before)
        BY DEF LoopRecords, rows
      <4> QED
        BY <1>2, <4>1 DEF Stored, Recorded
    <3>2. IF e.type \in Deciding THEN e.type = "delete" <=> Dead(model)
          ELSE Dead(model) <=> Dead(before)
      <4>1. DeletedKnown(acc.models) /\ (e.type # "create" => q \in DOMAIN acc.models)
        BY DEF LoopInv
      <4> QED
        BY <4>1, DeletedAfter DEF model
    <3> HIDE DEF s, before
    <3> QED
      BY <1>2, <2>2, <2>3, <3>1, <3>2, SettledAppend
  <2> HIDE DEF s, m, old
  <2>5. model = With(ReplayRow(m, row), META_POSITION, position)
    BY <2>4, ReplayIsModified DEF model, row
  <2>6. LET t == Append(s, row)
        IN  Buildable(t) /\ BuildModelFromEvents(t) =
               With(ReplayRow(Replay(s), row), META_POSITION, row.position)
    BY <2>2, <2>3, BuildAppend
  <2> QED
    BY <1>2, <2>1, <2>5, <2>6, <2>7 DEF Recorded, m, s
<1>10. \A i \in DOMAIN new.dbEvents : new.dbEvents[i].fqid \in DOMAIN new.models
  <2> SUFFICES ASSUME NEW i \in DOMAIN new.dbEvents
               PROVE  new.dbEvents[i].fqid \in DOMAIN new.models
    OBVIOUS
  <2>1. CASE i \in DOMAIN es
    BY <1>5, <1>6, <2>1 DEF LoopRecords
  <2>2. CASE i = Len(es) + 1
    BY <1>5, <1>6, <2>2 DEF GoodDbEvent
  <2> QED
    BY <1>5, <2>1, <2>2
<1>11. \A x \in DOMAIN new.models :
          Recorded(RowsWith(d.events, new.dbEvents, position), x, position, new.models[x])
  BY <1>4, <1>6, <1>8, <1>9
<1>12. LoopRecords(new, d, events, position)
  BY <1>6, <1>10, <1>11 DEF LoopRecords
<1> QED
  BY <1>1, <1>12 DEF new, model

\* The fields that an update or a deletion of fields changes.
Touched(e) == IF e.type = "update" THEN DOMAIN e.modified ELSE e.data.unset

\* The database events of one event, in their order: a creation is alone, and a list update,
\* which was computed with the model before all of them, comes after events that leave its
\* fields alone.
Separate(es) ==
    \A i \in DOMAIN es :
        /\ es[i].type = "create" => i = 1
        /\ \A j \in DOMAIN es : j < i =>
              /\ es[j].type \in {"update", "deletefields"}
              /\ es[i].type = "listfields" => Touched(es[j]) \cap Listed(es[i]) = {}

\* Lists with one event.
LEMMA OneSeparate ==
    ASSUME NEW e
    PROVE  Separate(<<e>>) /\ DOMAIN <<e>> = {1} /\ <<e>>[1] = e
<1>1. DOMAIN <<e>> = {1} /\ <<e>>[1] = e
  OBVIOUS
<1> DEFINE s == <<e>>
<1>2. DOMAIN s = {1}
  BY <1>1
<1> HIDE DEF s
<1>3. Separate(s)
  BY <1>2 DEF Separate
<1> QED
  BY <1>1, <1>3 DEF s

\* Lists of at most one event each, one after the other.
InParts(all, us, u, ds, d, ls, l) ==
    /\ us = <<>> \/ us = <<u>>
    /\ ds = <<>> \/ ds = <<d>>
    /\ ls = <<>> \/ ls = <<l>>
    /\ all = us \o ds \o ls

\* The parts of an update keep their order.
LEMMA ThreeParts ==
    ASSUME NEW all, NEW us, NEW u, NEW ds, NEW d, NEW ls, NEW l, InParts(all, us, u, ds, d, ls, l)
    PROVE  /\ \A i \in DOMAIN all : all[i] \in {u, d, l}
           /\ \A i, j \in DOMAIN all : j < i => all[j] \in {u, d}
<1> DEFINE V == {u, d, l}
           a == us \o ds
           es == a \o ls
<1>1. us \in Seq({u, d}) /\ ds \in Seq({u, d})
  <2>1. <<>> \in Seq({u, d}) /\ <<u>> \in Seq({u, d}) /\ <<d>> \in Seq({u, d})
    OBVIOUS
  <2> QED
    BY <2>1, Zenon DEF InParts
<1>2. a \in Seq({u, d})
  BY <1>1
<1>3. ls \in Seq({l}) /\ Len(ls) \in {0, 1}
  <2>1. <<>> \in Seq({l}) /\ <<l>> \in Seq({l}) /\ Len(<<>>) = 0 /\ Len(<<l>>) = 1
    OBVIOUS
  <2> QED
    BY <2>1, Zenon DEF InParts
<1>4. a \in Seq(V) /\ ls \in Seq(V)
  BY <1>2, <1>3
<1>5. \A i \in DOMAIN a : a[i] \in {u, d}
  BY <1>2
<1>6. Len(a) \in Nat /\ DOMAIN a = 1..Len(a)
  BY <1>2
<1> HIDE DEF a, V
<1>7. es \in Seq(V) /\ DOMAIN es = 1..(Len(a) + Len(ls)) /\ \A i \in 1..Len(a) : es[i] = a[i]
  <2>1. es \in Seq(V)
    BY <1>4
  <2>2. Len(es) = Len(a) + Len(ls) /\ Len(ls) \in Nat
    BY <1>4
  <2>3. \A i \in 1..Len(a) : es[i] = a[i]
    BY <1>4, <1>6
  <2>4. DOMAIN es = 1..Len(es)
    <3> HIDE DEF es
    <3> QED
      BY <2>1
  <2> QED
    BY <2>1, <2>2, <2>3, <2>4
<1>8. \A i \in DOMAIN es : es[i] \in V
  BY <1>7
<1> HIDE DEF es
<1>9. \A i, j \in DOMAIN es : j < i => j \in 1..Len(a)
  <2> DEFINE n == Len(a)
             k == Len(ls)
  <2>1. n \in Nat /\ (k = 0 \/ k = 1) /\ DOMAIN es = 1..(n + k)
    BY <1>3, <1>6, <1>7
  <2> HIDE DEF n, k
  <2>2. \A i, j \in DOMAIN es : j < i => j \in 1..n
    BY <2>1
  <2> QED
    BY <2>2 DEF n
<1>10. \A i, j \in DOMAIN es : j < i => es[j] \in {u, d}
  BY <1>5, <1>6, <1>7, <1>9
<1> QED
  BY <1>8, <1>10 DEF InParts, es, a, V

\* create_update_events
LEMMA UpdateEventsStored ==
    ASSUME NEW event, NEW model, ParseError(event) = "ok", event.type = "update",
           CreateUpdateEvents(event, model).error = "ok", ~Dead(model)
    PROVE  LET es == CreateUpdateEvents(event, model).events
           IN  /\ Separate(es)
               /\ \A i \in DOMAIN es : es[i].type # "create" /\ Stored(es[i], model)
<1> DEFINE updated == {f \in DOMAIN event.fields : event.fields[f] # None}
           deleted == DOMAIN event.fields \ updated
           listed == DOMAIN event.add \cup DOMAIN event.remove
           u == DbUpdateEvent(event.fqid, [f \in updated |-> event.fields[f]])
           d == DbDeleteFieldsEvent(event.fqid, deleted)
           l == DbListUpdateEvent(event.fqid, event.add, event.remove, model)
           us == IF updated # {} THEN <<u>> ELSE <<>>
           ds == IF deleted # {} THEN <<d>> ELSE <<>>
           ls == IF listed # {} THEN <<l>> ELSE <<>>
           es == us \o ds \o ls
<1>1. CreateUpdateEvents(event, model).events = es
  BY DEF CreateUpdateEvents, Rejected, Translated
<1>2. /\ DOMAIN event.fields \cap listed = {} /\ META_POSITION \notin listed
  <2>1. DOMAIN event.fields \cap listed = {}
    BY DEF ParseError
  <2>2. \A f \in AllKeys(event) : ~IsReserved(f)
    BY DEF ParseError
  <2>3. listed \subseteq AllKeys(event) /\ IsReserved(META_POSITION)
    BY DEF AllKeys, IsReserved
  <2> QED
    BY <2>1, <2>2, <2>3
<1>3. /\ u.type = "update" /\ u.data.set = u.modified /\ Touched(u) = updated
  BY DEF DbUpdateEvent, EventData, Touched
<1>4. /\ d.type = "deletefields" /\ Touched(d) = deleted
  BY DEF DbDeleteFieldsEvent, EventData, Touched
<1>5. /\ l.type = "listfields" /\ Listed(l) = listed
      /\ l.modified = ApplyFields(model, l.data.add, l.data.remove)
  BY DEF DbListUpdateEvent, EventData, Listed
<1>6. (us = <<>> \/ us = <<u>>) /\ (ds = <<>> \/ ds = <<d>>) /\ (ls = <<>> \/ ls = <<l>>)
  OBVIOUS
<1>7. updated \cap listed = {} /\ deleted \cap listed = {}
  BY <1>2
<1> HIDE DEF u, d, l, us, ds, ls, updated, deleted, listed
<1>8. /\ \A i \in DOMAIN es : es[i] \in {u, d, l}
      /\ \A i, j \in DOMAIN es : j < i => es[j] \in {u, d}
  <2>1. InParts(es, us, u, ds, d, ls, l)
    BY <1>6 DEF InParts
  <2> HIDE DEF es
  <2> QED
    BY <2>1, ThreeParts
<1> HIDE DEF es
<1>9. Stored(u, model) /\ Stored(d, model) /\ Stored(l, model)
  BY <1>2, <1>3, <1>4, <1>5 DEF Stored
<1>10. \A i \in DOMAIN es : es[i].type # "create" /\ Stored(es[i], model)
  BY <1>3, <1>4, <1>5, <1>8, <1>9
<1>11. ASSUME NEW i \in DOMAIN es, NEW j \in DOMAIN es, j < i
       PROVE  /\ es[j].type \in {"update", "deletefields"}
              /\ es[i].type = "listfields" => Touched(es[j]) \cap Listed(es[i]) = {}
  <2>1. es[j] \in {u, d} /\ (es[i].type = "listfields" => es[i] = l)
    BY <1>3, <1>4, <1>8, <1>11
  <2> QED
    BY <1>3, <1>4, <1>5, <1>7, <2>1
<1>12. Separate(es)
  BY <1>10, <1>11 DEF Separate
<1> QED
  BY <1>1, <1>10, <1>12

\* Updates and deletions are of models that are not deleted.
LEMMA TranslatedLive ==
    ASSUME NEW event, NEW models, event.type \in {"update", "delete"},
           Translate(event, models).error = "ok"
    PROVE  ~Dead(models[event.fqid])
<1>1. event.fqid \in DOMAIN models /\ ~models[event.fqid][META_DELETED]
  BY DEF Translate, Rejected, Exists, IsDeleted
<1> QED
  BY <1>1, Zenon DEF Dead

\* EventTranslatorService.translate
LEMMA TranslateStored ==
    ASSUME NEW event, NEW models, ParseError(event) = "ok",
           event.type \in {"create", "update", "delete", "restore"},
           Translate(event, models).error = "ok"
    PROVE  LET es == Translate(event, models).events
               q == event.fqid
           IN  /\ Separate(es)
               /\ \A i \in DOMAIN es :
                     IF es[i].type = "create" THEN q \notin DOMAIN models
                     ELSE q \in DOMAIN models /\ Stored(es[i], models[q])
<1> DEFINE q == event.fqid
<1>1. CASE event.type = "create"
  <2> DEFINE e == DbCreateEvent(q, event.fields)
  <2>1. Translate(event, models).events = <<e>> /\ q \notin DOMAIN models
    BY <1>1 DEF Translate, Rejected, Translated, Exists
  <2>2. e.type = "create"
    BY DEF DbCreateEvent
  <2> HIDE DEF e
  <2> QED
    BY <2>1, <2>2, OneSeparate
<1>2. CASE event.type = "update"
  <2>1. /\ q \in DOMAIN models
        /\ Translate(event, models) = CreateUpdateEvents(event, models[q])
    BY <1>2 DEF Translate, Rejected, Exists
  <2>2. ~Dead(models[q])
    BY <1>2, TranslatedLive
  <2> QED
    BY <1>2, <2>1, <2>2, UpdateEventsStored
<1>3. CASE event.type \in {"delete", "restore"}
  <2> DEFINE e == IF event.type = "delete" THEN DbDeleteEvent(q, models[q])
                  ELSE DbRestoreEvent(q, models[q])
  <2>1. Translate(event, models).events = <<e>> /\ q \in DOMAIN models
    BY <1>3 DEF Translate, Rejected, Translated, Exists, IsDeleted
  <2>2. e.type = event.type
    BY <1>3, <2>1 DEF DbDeleteEvent, DbRestoreEvent
  <2>4. e.type # "restore" => ~Dead(models[q])
    BY <1>3, <2>2, TranslatedLive
  <2>3. Stored(e, models[q])
    BY <1>3, <2>2, <2>4 DEF Stored
  <2> HIDE DEF e
  <2> QED
    BY <1>3, <2>1, <2>2, <2>3, OneSeparate
<1> QED
  BY <1>1, <1>2, <1>3

\* The database events after the n-th can be applied to the models and mean the same as when
\* they were translated.
Pending(es, n, q, models) ==
    \A i \in DOMAIN es : i > n =>
        IF es[i].type = "create" THEN q \notin DOMAIN models
        ELSE q \in DOMAIN models /\ Stored(es[i], models[q])

\* The n-th database event leaves the following ones their meaning.
LEMMA PendingNext ==
    ASSUME NEW es, NEW q, GoodDbEvents(es, q), Separate(es), NEW n \in DOMAIN es, NEW models,
           Pending(es, n - 1, q, models), DeletedKnown(models), NEW position
    PROVE  LET new == With(models, q, With(ModifiedModel(es[n], models), META_POSITION, position))
           IN  Pending(es, n, q, new)
<1> DEFINE model == With(ModifiedModel(es[n], models), META_POSITION, position)
           new == With(models, q, model)
<1>1. q \in DOMAIN new /\ new[q] = model
  BY DEF With
<1> HIDE DEF new
<1>2. DOMAIN es = 1..Len(es) /\ Len(es) \in Nat
  BY DEF GoodDbEvents
<1> HIDE DEF model
<1> SUFFICES ASSUME NEW i \in DOMAIN es, i > n
             PROVE  /\ es[i].type # "create"
                    /\ Stored(es[i], model)
  <2>1. ASSUME \A i \in DOMAIN es : i > n => es[i].type # "create" /\ Stored(es[i], model)
        PROVE  Pending(es, n, q, new)
    BY <1>1, <2>1 DEF Pending
  <2> QED
    BY <2>1 DEF new, model
<1> USE DEF model
<1>3. i \in 1..Len(es) /\ n \in 1..Len(es) /\ i > n /\ i > n - 1 /\ n < i /\ n > n - 1
  BY <1>2
<1>4. es[i].type # "create"
  BY <1>3 DEF Separate
<1>5. Stored(es[i], models[q])
  BY <1>3, <1>4 DEF Pending
<1>8. Dead(model) <=> Dead(models[q])
  <2>1. /\ es[n].type \in {"update", "deletefields"} /\ GoodDbEvent(es[n], q)
        /\ q \in DOMAIN models
    BY <1>3, <1>4 DEF Separate, GoodDbEvents, Pending
  <2> QED
    <3>1. /\ es[n].type # "create" => q \in DOMAIN models
          /\ es[n].type \notin Deciding
      BY <2>1 DEF Deciding
    <3> QED
      BY <2>1, <3>1, DeletedAfter
<1>6. CASE es[i].type # "listfields"
  BY <1>4, <1>5, <1>6, <1>8 DEF Stored
<1>7. CASE es[i].type = "listfields"
  <2> DEFINE e == es[n]
             old == models[q]
             fields == Listed(es[i])
  <2>1. e.type \in {"update", "deletefields"} /\ Touched(e) \cap fields = {}
    BY <1>3, <1>7 DEF Separate
  <2>2. e.fqid = q
    BY DEF GoodDbEvents, GoodDbEvent
  <2>3. /\ META_POSITION \notin fields
        /\ es[i].modified = ApplyFields(old, es[i].data.add, es[i].data.remove)
        /\ fields = DOMAIN es[i].data.add \cup DOMAIN es[i].data.remove
    BY <1>5, <1>7 DEF Stored, Listed
  <2> DEFINE mp == META_POSITION
  <2>4. AgreeOn(fields, old, model)
    <3>1. CASE e.type = "update"
      <4>1. ModifiedModel(e, models) = Over(e.modified, old) /\ Touched(e) = DOMAIN e.modified
        BY <2>2, <3>1 DEF ModifiedModel, Touched
      <4>2. model = With(Over(e.modified, old), mp, position)
        BY <4>1
      <4>3. DOMAIN e.modified \cap fields = {} /\ mp \notin fields
        BY <2>1, <2>3, <4>1
      <4> HIDE DEF model, e, old, fields, mp
      <4> QED
        BY <4>2, <4>3 DEF AgreeOn, With, Over
    <3>2. CASE e.type = "deletefields"
      <4>1. ModifiedModel(e, models) = Omit(old, e.data.unset) /\ Touched(e) = e.data.unset
        BY <2>2, <3>2 DEF ModifiedModel, Touched
      <4>2. model = With(Omit(old, e.data.unset), mp, position)
        BY <4>1
      <4>3. e.data.unset \cap fields = {} /\ mp \notin fields
        BY <2>1, <2>3, <4>1
      <4> HIDE DEF model, e, old, fields, mp
      <4> QED
        BY <4>2, <4>3 DEF AgreeOn, With, Omit
    <3> QED
      BY <2>1, <3>1, <3>2
  <2> HIDE DEF model, old, fields
  <2>5. ApplyFields(old, es[i].data.add, es[i].data.remove)
           = ApplyFields(model, es[i].data.add, es[i].data.remove)
    BY <2>3, <2>4, ApplyFieldsLocal
  <2> QED
    BY <1>4, <1>5, <1>7, <1>8, <2>3, <2>5 DEF Stored, fields
<1> QED
  BY <1>4, <1>6, <1>7

\* All database events of one event.
LEMMA ApplyDbEventsRecord ==
    ASSUME NEW acc, NEW d, NEW events, LoopInv(acc, d, events), NEW position,
           RowsKnown(d, position), LoopRecords(acc, d, events, position),
           NEW q, NEW es, GoodDbEvents(es, q), Separate(es), Pending(es, 0, q, acc.models),
           \E j \in DOMAIN events : q = events[j].fqid
    PROVE  LoopRecords(ApplyDbEvents(acc, es, position), d, events, position)
<1> DEFINE N == Len(es)
           g == CHOOSE g : ApplyRun(g, acc, es, position, N)
<1>1. N \in Nat /\ DOMAIN es = 1..N
  BY DEF GoodDbEvents
<1>2. ApplyRun(g, acc, es, position, N)
  BY <1>1, ApplyRunExists
<1>3. ApplyDbEvents(acc, es, position) = g[N]
  BY DEF ApplyDbEvents, ApplyRun
<1> HIDE DEF g, N
<1> DEFINE Ok(n) == /\ LoopInv(g[n], d, events) /\ LoopRecords(g[n], d, events, position)
                    /\ Pending(es, n, q, g[n].models)
           S == {n \in 0..N : Ok(n)}
<1>4. Ok(0)
  BY <1>1, <1>2 DEF ApplyRun
<1>5. ASSUME NEW n \in 1..N, Ok(n - 1) PROVE Ok(n)
  <2> DEFINE a == g[n - 1]
             e == es[n]
  <2>1. n \in DOMAIN es /\ g[n] = ApplyDbEvent(a, e, position)
    BY <1>1, <1>2 DEF ApplyRun
  <2>2. GoodDbEvent(e, q)
    BY <2>1 DEF GoodDbEvents
  <2>3. LoopInv(a, d, events) /\ LoopRecords(a, d, events, position)
    BY <1>5
  <2>4. Pending(es, n - 1, q, a.models)
    BY <1>5
  <2>5. IF e.type = "create" THEN q \notin DOMAIN a.models
        ELSE q \in DOMAIN a.models /\ Stored(e, a.models[q])
    <3>1. n > n - 1
      BY <1>1
    <3> QED
      BY <2>1, <2>4, <3>1 DEF Pending
  <2> HIDE DEF a, e, Ok
  <2>6. LoopInv(ApplyDbEvent(a, e, position), d, events)
    BY <2>2, <2>3, <2>5, ApplyDbEventKeeps
  <2>7. LET new == ApplyDbEvent(a, e, position)
        IN  /\ LoopRecords(new, d, events, position)
            /\ new.models = With(a.models, q,
                                 With(ModifiedModel(e, a.models), META_POSITION, position))
    BY <2>2, <2>3, <2>5, ApplyDbEventRecords
  <2>8. LET new == With(a.models, q, With(ModifiedModel(es[n], a.models), META_POSITION, position))
        IN  Pending(es, n, q, new)
    BY <2>1, <2>3, <2>4, PendingNext DEF LoopInv
  <2>9. Pending(es, n, q, g[n].models)
    BY <2>1, <2>7, <2>8 DEF e
  <2> QED
    BY <2>1, <2>6, <2>7, <2>9 DEF Ok
<1> HIDE DEF Ok
<1>6. 0 \in S /\ \A n \in 1..N : n - 1 \in S => n \in S
  BY <1>1, <1>4, <1>5
<1>7. Ok(N)
  <2>1. \A n \in 0..N : n \in S
    <3> HIDE DEF S
    <3> QED
      BY <1>1, <1>6, Turns
  <2> QED
    BY <1>1, <2>1
<1> QED
  BY <1>3, <1>7 DEF Ok

\* One event of the request.
LEMMA LoopStepRecords ==
    ASSUME NEW acc, NEW d, NEW events, LoopInv(acc, d, events), GoodEvents(events),
           NEW n \in DOMAIN events, NEW position, RowsKnown(d, position),
           LoopRecords(acc, d, events, position)
    PROVE  LoopRecords(LoopStep(acc, events[n], position), d, events, position)
<1> DEFINE t == Translate(events[n], acc.models)
<1>1. CASE acc.error # "ok"
  BY <1>1 DEF LoopStep
<1>2. CASE acc.error = "ok" /\ t.error # "ok"
  <2> DEFINE new == [acc EXCEPT !.error = t.error]
  <2>1. LoopStep(acc, events[n], position) = new
    BY <1>2 DEF LoopStep
  <2>2. new.models = acc.models /\ new.dbEvents = acc.dbEvents
    BY DEF LoopInv
  <2> HIDE DEF new
  <2> QED
    BY <2>1, <2>2 DEF LoopRecords
<1>3. CASE acc.error = "ok" /\ t.error = "ok"
  <2>1. LoopStep(acc, events[n], position) = ApplyDbEvents(acc, t.events, position)
    BY <1>3 DEF LoopStep
  <2>2. /\ ParseError(events[n]) = "ok"
        /\ events[n].type \in {"create", "update", "delete", "restore"}
    BY DEF GoodEvents
  <2> DEFINE q == events[n].fqid
             es == t.events
  <2>3. GoodDbEvents(es, q)
    BY <1>3, <2>2, TranslateFacts
  <2>4. /\ Separate(es)
        /\ \A i \in DOMAIN es : IF es[i].type = "create" THEN q \notin DOMAIN acc.models
                                ELSE q \in DOMAIN acc.models /\ Stored(es[i], acc.models[q])
    BY <1>3, <2>2, TranslateStored
  <2>5. \E j \in DOMAIN events : q = events[j].fqid
    OBVIOUS
  <2> HIDE DEF t, q, es
  <2>6. Pending(es, 0, q, acc.models)
    BY <2>4 DEF Pending
  <2>7. LoopRecords(ApplyDbEvents(acc, es, position), d, events, position)
    BY <2>3, <2>4, <2>5, <2>6, ApplyDbEventsRecord
  <2> QED
    BY <2>1, <2>7 DEF es
<1> QED
  BY <1>1, <1>2, <1>3

\* What the tables say of the history: rows are of models with history, in the order of their
\* positions, and the model that the models table has is the one that its rows make.
RecordInv(d) ==
    /\ \A i, j \in DOMAIN d.events : i <= j => d.events[i].position <= d.events[j].position
    /\ \A i \in DOMAIN d.events :
          d.events[i].fqid \in DOMAIN d.models /\ HasHistory(d.events[i].fqid)
    /\ \A q \in DOMAIN d.models : HasHistory(q) =>
          Recorded(d.events, q, d.position_seq, d.models[q])

\* The rows do not depend on the position that is asked for, from the newest on.
LEMMA RecordedLater ==
    ASSUME NEW d, TableInv(d), NEW p \in Int, NEW r \in Int, d.position_seq <= p,
           d.position_seq <= r, NEW q, NEW model, Recorded(d.events, q, p, model)
    PROVE  Recorded(d.events, q, r, model)
<1> DEFINE s == d.events
           N == Len(s)
<1>1. s \in Seq(ToSet(s)) /\ N \in Nat /\ DOMAIN s = 1..N
  BY DEF TableInv, RowInv
<1>2. \A n \in 1..N : s[n].position \in Int /\ s[n].position <= d.position_seq
  BY <1>1 DEF TableInv, RowInv, PositionInv
<1>3. d.position_seq \in Int
  BY DEF TableInv, PositionInv
<1>4. \A n \in 1..N : s[n] = s[n] /\ (Matching(s[n], q, p) <=> Matching(s[n], q, r))
  BY <1>2, <1>3 DEF Matching
<1>5. \A n \in 1..N : n > N => ~Matching(s[n], q, r)
  BY <1>1
<1>6. N = Len(s) /\ N <= N
  BY <1>1
<1> HIDE DEF N, s
<1>7. RowsOf(s, q, p) = RowsOf(s, q, r)
  BY <1>1, <1>4, <1>5, <1>6, SameRows
<1> QED
  BY <1>7 DEF Recorded, s

\* Nothing is written yet: the rows are those of the table.
LEMMA RowsWithNone ==
    ASSUME NEW events, events \in Seq(ToSet(events)), NEW position
    PROVE  RowsWith(events, <<>>, position) = events
<1> DEFINE none == [w \in DOMAIN <<>> |-> EventRow(<<>>[w], position, w)]
<1>1. none = <<>>
  OBVIOUS
<1> HIDE DEF none
<1>2. events \o none = events
  BY <1>1
<1> QED
  BY <1>2 DEF RowsWith, none

\* The whole loop of insert_events, for events of models with history.
LEMMA LoopRecordsAll ==
    ASSUME NEW d, TableInv(d), RecordInv(d), NEW events, GoodEvents(events),
           \A j \in DOMAIN events : HasHistory(events[j].fqid)
    PROVE  LoopRecords(Loop(d, events, d.position_seq + 1), d, events, d.position_seq + 1)
<1> DEFINE N == Len(events)
           position == d.position_seq + 1
           g == CHOOSE g : LoopRun(g, d, events, position, N)
<1>1. N \in Nat /\ DOMAIN events = 1..N
  BY DEF GoodEvents
<1>2. LoopRun(g, d, events, position, N)
  BY <1>1, LoopRunExists
<1>3. Loop(d, events, position) = g[N]
  BY DEF Loop, LoopRun
<1>4. /\ position \in Nat /\ d.position_seq \in Int /\ d.position_seq <= position
      /\ d.position_seq <= d.position_seq /\ d.events \in Seq(ToSet(d.events))
  BY DEF TableInv, PositionInv, RowInv
<1> HIDE DEF g, N, position
<1>5. RowsKnown(d, position)
  BY <1>4 DEF RowsKnown, RecordInv
<1> DEFINE Ok(n) == LoopInv(g[n], d, events) /\ LoopRecords(g[n], d, events, position)
           S == {n \in 0..N : Ok(n)}
<1>6. Ok(0)
  <2> DEFINE start == LoopStart(d, events)
  <2>1. g[0] = start
    BY <1>1, <1>2 DEF LoopRun
  <2>2. /\ DOMAIN start = {"error", "models", "dbEvents", "modified"}
        /\ start.dbEvents = <<>>
        /\ DOMAIN start.models = {events[i].fqid : i \in DOMAIN events} \cap DOMAIN d.models
        /\ \A q \in DOMAIN start.models : start.models[q] = d.models[q]
    BY DEF LoopStart
  <2>3. <<>> \in Seq(ToSet(<<>>)) /\ DOMAIN <<>> = {}
    OBVIOUS
  <2> HIDE DEF start
  <2>4. DeletedKnown(start.models)
    BY <2>2 DEF DeletedKnown, TableInv
  <2>5. LoopInv(start, d, events)
    BY <2>2, <2>3, <2>4 DEF LoopInv
  <2>6. ASSUME NEW q \in DOMAIN start.models
        PROVE  Recorded(RowsWith(d.events, start.dbEvents, position), q, position, start.models[q])
    <3>1. RowsWith(d.events, start.dbEvents, position) = d.events
      BY <1>4, <2>2, RowsWithNone
    <3>2. Recorded(d.events, q, d.position_seq, d.models[q])
      BY <2>2 DEF RecordInv
    <3> DEFINE model == d.models[q]
    <3>3. position \in Int
      BY <1>4
    <3> HIDE DEF model
    <3>4. Recorded(d.events, q, position, model)
      BY <1>4, <3>2, <3>3, RecordedLater DEF model
    <3> QED
      BY <2>2, <3>1, <3>4 DEF model
  <2>7. LoopRecords(start, d, events, position)
    BY <2>2, <2>3, <2>6 DEF LoopRecords
  <2> QED
    BY <2>1, <2>5, <2>7
<1>7. ASSUME NEW n \in 1..N, Ok(n - 1) PROVE Ok(n)
  <2>1. n \in DOMAIN events /\ g[n] = LoopStep(g[n - 1], events[n], position)
    BY <1>1, <1>2 DEF LoopRun
  <2> DEFINE a == g[n - 1]
  <2>2. LoopInv(a, d, events) /\ LoopRecords(a, d, events, position)
    BY <1>7
  <2> HIDE DEF a, Ok
  <2>3. LoopInv(LoopStep(a, events[n], position), d, events)
    BY <2>1, <2>2, LoopStepKeeps
  <2>4. LoopRecords(LoopStep(a, events[n], position), d, events, position)
    BY <1>5, <2>1, <2>2, LoopStepRecords
  <2> QED
    BY <2>1, <2>3, <2>4 DEF a, Ok
<1> HIDE DEF Ok
<1>8. 0 \in S /\ \A n \in 1..N : n - 1 \in S => n \in S
  BY <1>1, <1>6, <1>7
<1>9. Ok(N)
  <2>1. \A n \in 0..N : n \in S
    <3> HIDE DEF S
    <3> QED
      BY <1>1, <1>8, Turns
  <2> QED
    BY <1>1, <2>1
<1> QED
  BY <1>3, <1>9 DEF Ok, position

-----------------------------------------------------------------------------
(* The tables                                                               *)

\* The events table of e is that of d with rows above the newest position of d.
Extended(d, e) ==
    /\ Len(d.events) <= Len(e.events) /\ d.position_seq <= e.position_seq
    /\ \A n \in 1..Len(d.events) : e.events[n] = d.events[n]
    /\ \A n \in 1..Len(e.events) : n > Len(d.events) => e.events[n].position > d.position_seq

\* What is recorded up to a position stays so when rows are added above it.
LEMMA RecordedStays ==
    ASSUME NEW d, TableInv(d), NEW e, TableInv(e), Extended(d, e),
           NEW p \in Int, p <= d.position_seq, NEW q, NEW model, Recorded(d.events, q, p, model)
    PROVE  Recorded(e.events, q, p, model)
<1> DEFINE s == d.events
           t == e.events
           N == Len(s)
           M == Len(t)
<1>1. N \in Nat /\ M \in Nat /\ DOMAIN s = 1..N /\ DOMAIN t = 1..M
  BY DEF TableInv, RowInv
<1>2. /\ d.position_seq \in Int
      /\ \A n \in 1..M : t[n].position \in Int
  <2>1. d.position_seq \in Int
    BY DEF TableInv, PositionInv
  <2>2. \A r \in DOMAIN e.positions : r \in Int
    BY DEF TableInv, PositionInv
  <2>3. \A n \in DOMAIN t : t[n].position \in DOMAIN e.positions
    BY DEF TableInv, RowInv
  <2> HIDE DEF M, t
  <2> QED
    BY <1>1, <2>1, <2>2, <2>3
<1>3. /\ N <= M /\ \A n \in 1..N : s[n] = t[n]
      /\ \A n \in 1..M : n > N => t[n].position > d.position_seq
  BY DEF Extended
<1> HIDE DEF N, M, s, t
<1>4. \A n \in 1..N : s[n] = t[n] /\ (Matching(s[n], q, p) <=> Matching(s[n], q, p))
  BY <1>3
<1>5. \A n \in 1..M : n > N => ~Matching(t[n], q, p)
  BY <1>2, <1>3 DEF Matching
<1>6. N = Len(s) /\ M = Len(t)
  BY DEF N, M
<1>7. RowsOf(s, q, p) = RowsOf(t, q, p)
  BY <1>1, <1>3, <1>4, <1>5, <1>6, SameRows
<1> QED
  BY <1>7 DEF Recorded, s, t

\* The snapshots of committed positions, and what the rows make of them.
SnapInv(d, snaps) ==
    \A p \in DOMAIN snaps :
        /\ p \in Int /\ p <= d.position_seq /\ DeletedKnown(snaps[p])
        /\ \A q \in DOMAIN snaps[p] : HasHistory(q) => Recorded(d.events, q, p, snaps[p][q])
        /\ \A i \in DOMAIN d.events :
              d.events[i].position <= p => d.events[i].fqid \in DOMAIN snaps[p]

\* They stay true when rows are added above the newest position.
LEMMA SnapshotsStay ==
    ASSUME NEW d, TableInv(d), NEW e, TableInv(e), Extended(d, e), NEW snaps, SnapInv(d, snaps)
    PROVE  SnapInv(e, snaps)
<1> SUFFICES ASSUME NEW p \in DOMAIN snaps
             PROVE  /\ p \in Int /\ p <= e.position_seq /\ DeletedKnown(snaps[p])
                    /\ \A q \in DOMAIN snaps[p] :
                          HasHistory(q) => Recorded(e.events, q, p, snaps[p][q])
                    /\ \A i \in DOMAIN e.events :
                          e.events[i].position <= p => e.events[i].fqid \in DOMAIN snaps[p]
  BY DEF SnapInv
<1>1. p \in Int /\ p <= d.position_seq /\ DeletedKnown(snaps[p])
  BY DEF SnapInv
<1>2. d.position_seq \in Int /\ e.position_seq \in Int /\ d.position_seq <= e.position_seq
  BY DEF TableInv, PositionInv, Extended
<1>3. ASSUME NEW q \in DOMAIN snaps[p], HasHistory(q)
      PROVE  Recorded(e.events, q, p, snaps[p][q])
  <2> DEFINE model == snaps[p][q]
  <2>1. Recorded(d.events, q, p, model)
    BY <1>3 DEF SnapInv
  <2> HIDE DEF model
  <2>2. Recorded(e.events, q, p, model)
    BY <1>1, <2>1, RecordedStays
  <2> QED
    BY <2>2 DEF model
<1>4. ASSUME NEW i \in DOMAIN e.events, e.events[i].position <= p
      PROVE  e.events[i].fqid \in DOMAIN snaps[p]
  <2>1. /\ DOMAIN e.events = 1..Len(e.events) /\ Len(e.events) \in Nat
        /\ DOMAIN d.events = 1..Len(d.events) /\ Len(d.events) \in Nat
        /\ e.events[i].position \in Int
    BY DEF TableInv, RowInv, PositionInv
  <2>2. ~(i > Len(d.events))
    BY <1>1, <1>2, <1>4, <2>1 DEF Extended
  <2>3. i \in DOMAIN d.events
    BY <2>1, <2>2
  <2>4. e.events[i] = d.events[i]
    BY <2>1, <2>3 DEF Extended
  <2> QED
    BY <1>4, <2>3, <2>4 DEF SnapInv
<1> QED
  BY <1>1, <1>2, <1>3, <1>4

\* Rows that were added before stay where they are.
LEMMA ExtendedTwice ==
    ASSUME NEW d, TableInv(d), NEW e, TableInv(e), NEW f, TableInv(f),
           Extended(d, e), Extended(e, f)
    PROVE  Extended(d, f)
<1> DEFINE N == Len(d.events)
           M == Len(e.events)
           K == Len(f.events)
           x == d.position_seq
           y == e.position_seq
           z == f.position_seq
<1>1. N \in Nat /\ M \in Nat /\ K \in Nat /\ x \in Int /\ y \in Int /\ z \in Int
  BY DEF TableInv, PositionInv, RowInv
<1>2. \A n \in 1..K : f.events[n].position \in Int
  <2>1. DOMAIN f.events = 1..K
    BY DEF TableInv, RowInv
  <2>2. \A n \in DOMAIN f.events : f.events[n].position \in DOMAIN f.positions
    BY DEF TableInv, RowInv
  <2>3. \A p \in DOMAIN f.positions : p \in Int
    BY DEF TableInv, PositionInv
  <2> HIDE DEF K
  <2> QED
    BY <2>1, <2>2, <2>3
<1>3. /\ N <= M /\ x <= y /\ \A n \in 1..N : e.events[n] = d.events[n]
      /\ \A n \in 1..M : n > N => e.events[n].position > x
      /\ M <= K /\ y <= z /\ \A n \in 1..M : f.events[n] = e.events[n]
      /\ \A n \in 1..K : n > M => f.events[n].position > y
  BY DEF Extended
<1> HIDE DEF N, M, K, x, y, z
<1>4. N <= K /\ x <= z /\ \A n \in 1..N : n \in 1..M /\ f.events[n] = d.events[n]
  BY <1>1, <1>3
<1>5. ASSUME NEW n \in 1..K, n > N PROVE f.events[n].position > x
  <2>1. CASE n > M
    BY <1>1, <1>2, <1>3, <2>1
  <2>2. CASE ~(n > M)
    <3>1. n \in 1..M
      BY <1>1, <2>2
    <3> QED
      BY <1>3, <1>5, <3>1
  <2> QED
    BY <2>1, <2>2
<1> QED
  BY <1>4, <1>5 DEF Extended, N, M, K, x, y, z

\* Tables with the events and models of others, and a sequence of positions that may have
\* gone on, record the same.
LEMMA RecordsSame ==
    ASSUME NEW d, TableInv(d), RecordInv(d), NEW e, TableInv(e), e.events = d.events,
           d.position_seq <= e.position_seq,
           \A q \in DOMAIN d.models : HasHistory(q) => q \in DOMAIN e.models,
           \A q \in DOMAIN e.models : HasHistory(q) =>
               q \in DOMAIN d.models /\ e.models[q] = d.models[q]
    PROVE  Extended(d, e) /\ RecordInv(e)
<1>1. d.position_seq \in Int /\ e.position_seq \in Int /\ d.position_seq <= d.position_seq
  BY DEF TableInv, PositionInv
<1>2. Len(d.events) \in Nat
  BY DEF TableInv, RowInv
<1>3. Extended(d, e)
  BY <1>2 DEF Extended
<1>4. ASSUME NEW q \in DOMAIN e.models, HasHistory(q)
      PROVE  Recorded(e.events, q, e.position_seq, e.models[q])
  <2> DEFINE model == e.models[q]
             r == e.position_seq
             p == d.position_seq
  <2>1. Recorded(d.events, q, p, model)
    BY <1>4 DEF RecordInv
  <2>2. r \in Int /\ p \in Int /\ d.position_seq <= r /\ d.position_seq <= p
    BY <1>1
  <2> HIDE DEF model, r, p
  <2>3. Recorded(d.events, q, r, model)
    BY <2>1, <2>2, RecordedLater
  <2> QED
    BY <2>3 DEF model, r
<1>5. /\ \A i \in DOMAIN e.events :
            e.events[i].fqid \in DOMAIN e.models /\ HasHistory(e.events[i].fqid)
      /\ \A i, j \in DOMAIN e.events : i <= j => e.events[i].position <= e.events[j].position
  BY DEF RecordInv
<1> QED
  BY <1>3, <1>4, <1>5 DEF RecordInv

\* Where the rows of a database that a successful insertion leaves come from.
LEMMA NewRows ==
    ASSUME NEW events, events \in Seq(ToSet(events)), NEW es, es \in Seq(ToSet(es)), NEW position
    PROVE  LET t == RowsWith(events, es, position)
           IN  /\ t \in Seq(ToSet(t)) /\ Len(events) <= Len(t)
               /\ \A n \in 1..Len(events) : t[n] = events[n]
               /\ \A n \in 1..Len(t) : n > Len(events) =>
                     \E w \in DOMAIN es : t[n].fqid = es[w].fqid /\ t[n].position = position
<1> DEFINE rows == [w \in DOMAIN es |-> EventRow(es[w], position, w)]
           t == events \o rows
           N == Len(events)
           K == Len(es)
<1>1. N \in Nat /\ K \in Nat /\ DOMAIN es = 1..K
  OBVIOUS
<1>2. rows \in Seq(ToSet(rows)) /\ Len(rows) = K
  <2>1. rows = [w \in 1..K |-> rows[w]] /\ \A w \in 1..K : rows[w] \in ToSet(rows)
    BY <1>1 DEF ToSet
  <2> DEFINE V == ToSet(rows)
  <2> HIDE DEF rows, K, V
  <2>2. rows \in Seq(V) /\ Len(rows) = K
    BY <1>1, <2>1 DEF V
  <2> QED
    BY <2>2 DEF V
<1>3. \A w \in 1..K : rows[w].fqid = es[w].fqid /\ rows[w].position = position
  BY <1>1 DEF EventRow
<1> HIDE DEF rows
<1>4. t \in Seq(ToSet(t))
  BY <1>2, ConcatFacts
<1>5. /\ Len(t) = N + K
      /\ \A n \in 1..N : t[n] = events[n]
      /\ \A n \in 1..(N + K) : n > N => t[n] = rows[n - N]
  <2> HIDE DEF K
  <2> QED
    BY <1>1, <1>2
<1> HIDE DEF N, K, t
<1>6. ASSUME NEW n \in 1..Len(t), n > N
      PROVE  \E w \in DOMAIN es : t[n].fqid = es[w].fqid /\ t[n].position = position
  <2>1. n - N \in 1..K
    BY <1>1, <1>5, <1>6
  <2>2. t[n] = rows[n - N]
    BY <1>5, <1>6
  <2>3. /\ rows[n - N].fqid = es[n - N].fqid /\ rows[n - N].position = position
        /\ n - N \in DOMAIN es
    BY <1>1, <1>3, <2>1
  <2> QED
    BY <2>2, <2>3
<1>7. N <= Len(t)
  BY <1>1, <1>5
<1>8. RowsWith(events, es, position) = t
  BY DEF RowsWith, t, rows
<1> QED
  BY <1>4, <1>5, <1>6, <1>7, <1>8 DEF N

\* Events that write_without_events is not for.
Historic(events) == \A j \in DOMAIN events : HasHistory(events[j].fqid)

\* All the tables of an insertion that succeeds, made of tables d and the loop over them.
LEMMA StoreEventsRecord ==
    ASSUME NEW d, TableInv(d), RecordInv(d), NEW e, TableInv(e),
           NEW events, Historic(events), NEW position, position = d.position_seq + 1,
           NEW loop, LoopInv(loop, d, events), LoopRecords(loop, d, events, position),
           e.position_seq = position,
           e.events = RowsWith(d.events, loop.dbEvents, position),
           e.models = Over(loop.models, d.models)
    PROVE  Extended(d, e) /\ RecordInv(e)
<1> DEFINE s == d.events
           es == loop.dbEvents
           t == e.events
           N == Len(s)
           M == Len(t)
           last == d.position_seq
<1>1. /\ s \in Seq(ToSet(s)) /\ es \in Seq(ToSet(es)) /\ last \in Nat /\ position \in Nat
      /\ last < position
  BY DEF TableInv, RowInv, PositionInv, LoopInv
<1>2. /\ t \in Seq(ToSet(t)) /\ N <= M
      /\ \A n \in 1..N : t[n] = s[n]
      /\ \A n \in 1..M : n > N =>
            \E w \in DOMAIN es : t[n].fqid = es[w].fqid /\ t[n].position = position
  <2>1. t = RowsWith(s, es, position)
    OBVIOUS
  <2> HIDE DEF s, es, t
  <2>2. LET u == RowsWith(s, es, position)
        IN  /\ u \in Seq(ToSet(u)) /\ Len(s) <= Len(u)
            /\ \A n \in 1..Len(s) : u[n] = s[n]
            /\ \A n \in 1..Len(u) : n > Len(s) =>
                  \E w \in DOMAIN es : u[n].fqid = es[w].fqid /\ u[n].position = position
    BY <1>1, NewRows
  <2> QED
    BY <2>1, <2>2
<1>3. N \in Nat /\ M \in Nat /\ DOMAIN s = 1..N /\ DOMAIN t = 1..M
  BY <1>1, <1>2
<1>4. \A n \in 1..N : s[n].position \in Int /\ s[n].position <= last
  <2>1. \A n \in DOMAIN s : s[n].position \in DOMAIN d.positions
    BY DEF TableInv, RowInv
  <2>2. \A p \in DOMAIN d.positions : p \in Int /\ p <= last
    BY DEF TableInv, PositionInv
  <2> HIDE DEF s, N, last
  <2> QED
    BY <1>3, <2>1, <2>2
<1>5. \A w \in DOMAIN es : es[w].fqid \in DOMAIN loop.models /\ HasHistory(es[w].fqid)
  BY DEF LoopRecords, LoopInv, Historic
<1>6. /\ DOMAIN e.models = DOMAIN loop.models \cup DOMAIN d.models
      /\ \A q \in DOMAIN e.models :
            e.models[q] = IF q \in DOMAIN loop.models THEN loop.models[q] ELSE d.models[q]
  BY DEF Over
<1>7. Extended(d, e)
  <2>1. \A n \in 1..M : n > N => t[n].position > last
    <3> HIDE DEF N, M, t, es, last
    <3> QED
      BY <1>1, <1>2
  <2> QED
    BY <1>1, <1>2, <2>1 DEF Extended
<1>8. \A i \in DOMAIN t : t[i].fqid \in DOMAIN e.models /\ HasHistory(t[i].fqid)
  <2> SUFFICES ASSUME NEW n \in 1..M
               PROVE  t[n].fqid \in DOMAIN e.models /\ HasHistory(t[n].fqid)
    BY <1>3
  <2>1. CASE n > N
    BY <1>2, <1>5, <1>6, <2>1
  <2>2. CASE ~(n > N)
    <3>1. n \in 1..N /\ n \in DOMAIN s
      BY <1>3, <2>2
    <3> QED
      BY <1>2, <1>6, <3>1 DEF RecordInv
  <2> QED
    BY <2>1, <2>2
<1>9. ASSUME NEW q \in DOMAIN e.models, HasHistory(q)
      PROVE  Recorded(t, q, position, e.models[q])
  <2>1. CASE q \in DOMAIN loop.models
    BY <1>6, <2>1 DEF LoopRecords
  <2>2. CASE q \notin DOMAIN loop.models
    <3>1. q \in DOMAIN d.models /\ e.models[q] = d.models[q]
      BY <1>6, <2>2
    <3>2. Recorded(s, q, last, d.models[q])
      BY <1>9, <3>1 DEF RecordInv
    <3> HIDE DEF N, M, s, t, es, last
    <3>3. \A n \in 1..N : s[n] = t[n] /\ (Matching(s[n], q, last) <=> Matching(s[n], q, position))
      BY <1>1, <1>2, <1>4 DEF Matching
    <3>4. \A n \in 1..M : n > N => ~Matching(t[n], q, position)
      BY <1>2, <1>5, <2>2 DEF Matching
    <3>5. N = Len(s) /\ M = Len(t)
      BY DEF N, M
    <3>6. RowsOf(s, q, last) = RowsOf(t, q, position)
      BY <1>2, <1>3, <3>3, <3>4, <3>5, SameRows, SMTT(20)
    <3> QED
      BY <3>1, <3>2, <3>6 DEF Recorded
  <2> QED
    BY <2>1, <2>2
<1>11. ASSUME NEW i \in DOMAIN t, NEW j \in DOMAIN t, i <= j
       PROVE  t[i].position <= t[j].position
  <2>1. \A n \in 1..M : n > N => t[n].position = position
    BY <1>2
  <2>2. \A n \in 1..N : t[n] = s[n]
    BY <1>2
  <2>3. \A x, y \in 1..N : x <= y => s[x].position <= s[y].position
    BY <1>3 DEF RecordInv
  <2> HIDE DEF N, M, t, s, es, last
  <2>4. CASE j \in 1..N
    <3>1. i \in 1..N
      BY <1>3, <1>11, <2>4
    <3> QED
      BY <1>11, <2>2, <2>3, <2>4, <3>1
  <2>5. CASE j \notin 1..N
    <3>1. t[j].position = position
      BY <1>3, <2>1, <2>5
    <3>2. CASE i \in 1..N
      BY <1>1, <1>4, <2>2, <3>1, <3>2
    <3>3. CASE i \notin 1..N
      BY <1>1, <1>3, <2>1, <3>1, <3>3
    <3> QED
      BY <3>2, <3>3
  <2> QED
    BY <2>4, <2>5
<1>10. RecordInv(e)
  BY <1>8, <1>9, <1>11 DEF RecordInv
<1> QED
  BY <1>7, <1>10

\* The tables that insert_events writes and that the history is read from.
LEMMA StoredTables ==
    ASSUME NEW d, DOMAIN d = Tables, NEW position, NEW index, NEW request, NEW loop
    PROVE  LET e == StoreEvents(d, position, index, request, loop)
           IN  /\ e.position_seq = d.position_seq
               /\ e.events = RowsWith(d.events, loop.dbEvents, position)
               /\ e.models = Over(loop.models, d.models)
<1> DEFINE rows == [w \in DOMAIN loop.dbEvents |-> EventRow(loop.dbEvents[w], position, w)]
           e == StoreEvents(d, position, index, request, loop)
<1>1. /\ e.position_seq = d.position_seq /\ e.events = d.events \o rows
      /\ e.models = Over(loop.models, d.models)
  BY DEF StoreEvents, Tables
<1> HIDE DEF e
<1> QED
  BY <1>1 DEF RowsWith, e

\* insert_events
LEMMA InsertEventsRecord ==
    ASSUME NEW d, TableInv(d), RecordInv(d), NEW index, NEW request,
           GoodEvents(request.events), Historic(request.events),
           TableInv(InsertEvents(d, index, request).db)
    PROVE  LET e == InsertEvents(d, index, request).db
           IN  Extended(d, e) /\ RecordInv(e)
<1> DEFINE position == d.position_seq + 1
           drawn == [d EXCEPT !.position_seq = position]
           events == request.events
           loop == Loop(d, events, position)
           e == InsertEvents(d, index, request).db
<1>1. /\ DOMAIN drawn = Tables /\ drawn.position_seq = position
      /\ drawn.events = d.events /\ drawn.models = d.models
  <2>1. DOMAIN d = Tables
    BY DEF TableInv
  <2> QED
    BY <2>1 DEF Tables
<1>2. d.position_seq <= position
  BY DEF TableInv, PositionInv
<1>3. LoopInv(loop, d, events)
  BY LoopKeeps DEF TableInv
<1>4. LoopRecords(loop, d, events, position)
  BY LoopRecordsAll DEF Historic
<1>5. /\ loop.error # "ok" => e = drawn
      /\ loop.error = "ok" => e = StoreEvents(drawn, position, index, request, loop)
  BY DEF InsertEvents
<1>6. TableInv(e)
  OBVIOUS
<1> HIDE DEF loop, drawn, e
<1>7. CASE loop.error # "ok"
  <2>1. Extended(d, e) /\ RecordInv(e)
    BY <1>1, <1>2, <1>5, <1>6, <1>7, RecordsSame
  <2> QED
    BY <2>1 DEF e
<1>8. CASE loop.error = "ok"
  <2>1. /\ e.position_seq = position
        /\ e.events = RowsWith(d.events, loop.dbEvents, position)
        /\ e.models = Over(loop.models, d.models)
    <3> HIDE DEF position
    <3>1. LET f == StoreEvents(drawn, position, index, request, loop)
          IN  /\ f.position_seq = drawn.position_seq
              /\ f.events = RowsWith(drawn.events, loop.dbEvents, position)
              /\ f.models = Over(loop.models, drawn.models)
      BY <1>1, StoredTables
    <3> QED
      BY <1>1, <1>5, <1>8, <3>1
  <2>2. position = d.position_seq + 1 /\ Historic(events)
    OBVIOUS
  <2> HIDE DEF position, events
  <2>3. Extended(d, e) /\ RecordInv(e)
    BY <1>3, <1>4, <1>6, <2>1, <2>2, StoreEventsRecord
  <2> QED
    BY <2>3 DEF e
<1> QED
  BY <1>7, <1>8

-----------------------------------------------------------------------------
(* WriterService.write                                                      *)

\* What the requests of a call so far leave of the tables d.
HistoryWritten(d, acc) ==
    Extended(d, acc.db) /\ RecordInv(acc.db) /\ SnapInv(acc.db, acc.snapshots)

\* One more request, whether it is accepted or not.
LEMMA WriteNextRecords ==
    ASSUME NEW d, TableInv(d), NEW acc, TableInv(acc.db), HistoryWritten(d, acc),
           NEW request, GoodRequest(request), Historic(request.events)
    PROVE  HistoryWritten(d, WriteNext(acc, request))
<1> DEFINE b == acc.db
           r == WriteWithDatabaseContext(b, request)
           new == WriteNext(acc, request)
<1>1. TableInv(b) /\ Extended(d, b) /\ RecordInv(b) /\ SnapInv(b, acc.snapshots)
  BY DEF HistoryWritten
<1>2. CASE acc.error # "ok"
  BY <1>2 DEF WriteNext
<1>3. CASE acc.error = "ok" /\ r.error # "ok" /\ r.db = b
  <2>1. new.db = b /\ new.snapshots = acc.snapshots
    BY <1>3 DEF WriteNext
  <2> HIDE DEF new, b
  <2>2. HistoryWritten(d, new)
    BY <1>1, <2>1 DEF HistoryWritten
  <2> QED
    BY <2>2 DEF new
<1>4. CASE /\ acc.error = "ok" /\ TableInv(r.db) /\ Extended(b, r.db) /\ RecordInv(r.db)
           /\ r.position = r.db.position_seq
  <2> DEFINE e == r.db
             p == r.position
  <2>1. /\ new.db = e
        /\ new.snapshots = IF r.error # "ok" THEN acc.snapshots
                           ELSE With(acc.snapshots, p, e.models)
    BY <1>4 DEF WriteNext
  <2>2. TableInv(e) /\ Extended(b, e) /\ RecordInv(e) /\ p = e.position_seq
    BY <1>4
  <2> HIDE DEF r, new, e, b, p
  <2>3. Extended(d, e)
    BY <1>1, <2>2, ExtendedTwice
  <2>4. SnapInv(e, acc.snapshots)
    BY <1>1, <2>2, SnapshotsStay
  <2>5. SnapInv(e, With(acc.snapshots, p, e.models))
    <3> DEFINE snaps == With(acc.snapshots, p, e.models)
    <3>1. /\ DOMAIN snaps = DOMAIN acc.snapshots \cup {p} /\ snaps[p] = e.models
          /\ \A x \in DOMAIN acc.snapshots : x # p => snaps[x] = acc.snapshots[x]
      BY DEF With
    <3>2. p \in Int /\ p <= e.position_seq /\ DeletedKnown(snaps[p])
      BY <2>2, <3>1 DEF TableInv, PositionInv
    <3>3. /\ \A q \in DOMAIN snaps[p] : HasHistory(q) => Recorded(e.events, q, p, snaps[p][q])
          /\ \A i \in DOMAIN e.events : e.events[i].fqid \in DOMAIN snaps[p]
      BY <2>2, <3>1 DEF RecordInv
    <3> HIDE DEF snaps
    <3>4. \A x \in DOMAIN snaps : x # p =>
             /\ x \in Int /\ x <= e.position_seq /\ DeletedKnown(snaps[x])
             /\ \A q \in DOMAIN snaps[x] : HasHistory(q) => Recorded(e.events, q, x, snaps[x][q])
             /\ \A i \in DOMAIN e.events :
                   e.events[i].position <= x => e.events[i].fqid \in DOMAIN snaps[x]
      BY <2>4, <3>1 DEF SnapInv
    <3>5. SnapInv(e, snaps)
      BY <3>2, <3>3, <3>4 DEF SnapInv
    <3> QED
      BY <3>5 DEF snaps
  <2>6. SnapInv(e, new.snapshots)
    BY <2>1, <2>4, <2>5
  <2>7. HistoryWritten(d, new)
    BY <2>1, <2>2, <2>3, <2>6 DEF HistoryWritten
  <2> QED
    BY <2>7 DEF new
<1>5. \/ r.error # "ok" /\ r.db = b
      \/ /\ TableInv(r.db) /\ Extended(b, r.db) /\ RecordInv(r.db)
         /\ r.position = r.db.position_seq
  <2>1. CASE MigrationIndexError(b, request) # "ok" \/ ~LocksHold(b, request)
    BY <2>1 DEF WriteWithDatabaseContext, Failed
  <2>2. CASE MigrationIndexError(b, request) = "ok" /\ LocksHold(b, request)
    <3> DEFINE index == IndexFor(b, request)
               i == InsertEvents(b, index, request)
    <3>1. r = i
      BY <2>2 DEF WriteWithDatabaseContext, IndexFor
    <3>2. index \in Int /\ \A p \in DOMAIN b.positions : b.positions[p].migration_index = index
      BY <1>1, <2>2, IndexForFits
    <3>3. GoodEvents(request.events)
      BY DEF GoodRequest
    <3> HIDE DEF index, b, r
    <3>4. LET j == InsertEvents(b, index, request)
          IN  Inserted(b, j.db, j.error, j.position)
      BY <1>1, <3>2, <3>3, InsertEventsKeeps
    <3>5. TableInv(i.db) /\ i.position = i.db.position_seq
      BY <3>4 DEF Inserted
    <3>6. LET f == InsertEvents(b, index, request).db
          IN  Extended(b, f) /\ RecordInv(f)
      BY <1>1, <3>3, <3>5, InsertEventsRecord
    <3> QED
      BY <3>1, <3>5, <3>6
  <2> QED
    BY <2>1, <2>2
<1> QED
  BY <1>2, <1>3, <1>4, <1>5

\* The requests of one call, accepted or not.
LEMMA TransactionRecords ==
    ASSUME NEW d, TableInv(d), RecordInv(d), NEW requests, GoodRequests(requests),
           \A i \in DOMAIN requests : Historic(requests[i].events)
    PROVE  HistoryWritten(d, WriteTransaction(d, requests))
<1> DEFINE N == Len(requests)
           g == CHOOSE g : WriteRun(g, d, requests, N)
<1>1. N \in Nat /\ DOMAIN requests = 1..N
  BY DEF GoodRequests
<1>2. WriteRun(g, d, requests, N)
  BY <1>1, WriteRunExists
<1>3. WriteTransaction(d, requests) = g[N]
  BY DEF WriteTransaction, WriteRun, StartOf
<1> HIDE DEF g, N
<1> DEFINE Ok(n) == Written(d, g[n], n) /\ HistoryWritten(d, g[n])
           S == {n \in 0..N : Ok(n)}
<1>4. Ok(0)
  <2>1. g[0] = StartOf(d)
    BY <1>1, <1>2 DEF WriteRun
  <2>2. g[0].db = d /\ DOMAIN g[0].snapshots = {}
    BY <2>1 DEF StartOf
  <2>3. d.position_seq \in Nat /\ Grows(d, d) /\ Len(d.events) \in Nat
    BY DEF TableInv, PositionInv, RowInv, IdInv, Grows
  <2>4. Extended(d, d)
    BY <2>3 DEF Extended
  <2>5. Written(d, g[0], 0)
    BY <2>2, <2>3 DEF Written
  <2>6. SnapInv(g[0].db, g[0].snapshots)
    BY <2>2 DEF SnapInv
  <2> QED
    BY <2>2, <2>4, <2>5, <2>6 DEF HistoryWritten
<1>5. ASSUME NEW n \in 1..N, Ok(n - 1) PROVE Ok(n)
  <2> DEFINE a == g[n - 1]
             request == requests[n]
  <2>1. n \in DOMAIN requests /\ g[n] = WriteNext(a, request)
    BY <1>1, <1>2 DEF WriteRun
  <2>2. n - 1 \in Nat /\ (n - 1) + 1 = n
    BY <1>1
  <2>3. GoodRequest(request) /\ Historic(request.events)
    BY <2>1 DEF GoodRequests
  <2>4. Written(d, a, n - 1) /\ HistoryWritten(d, a) /\ TableInv(a.db)
    BY <1>5 DEF Written
  <2> HIDE DEF a, request, Ok
  <2>5. Written(d, WriteNext(a, request), (n - 1) + 1)
    BY <2>2, <2>3, <2>4, WriteNextKeeps
  <2>6. HistoryWritten(d, WriteNext(a, request))
    BY <2>3, <2>4, WriteNextRecords
  <2> QED
    BY <2>1, <2>2, <2>5, <2>6 DEF Ok
<1> HIDE DEF Ok
<1>6. 0 \in S /\ \A n \in 1..N : n - 1 \in S => n \in S
  BY <1>1, <1>4, <1>5
<1>7. Ok(N)
  <2>1. \A n \in 0..N : n \in S
    <3> HIDE DEF S
    <3> QED
      BY <1>1, <1>6, Turns
  <2> QED
    BY <1>1, <2>1
<1> QED
  BY <1>3, <1>7 DEF Ok

-----------------------------------------------------------------------------
(* The operations                                                           *)

\* The inductive invariant of the history.
HistoryInv == StoreInv /\ RecordInv(db) /\ SnapInv(db, snapshots)

\* An operation that writes no events and touches no model with history.
LEMMA QuietKeeps ==
    ASSUME HistoryInv, StoreInv', db'.events = db.events, db.position_seq <= db'.position_seq,
           \A q \in DOMAIN db.models : HasHistory(q) => q \in DOMAIN db'.models,
           \A q \in DOMAIN db'.models : HasHistory(q) =>
               q \in DOMAIN db.models /\ db'.models[q] = db.models[q],
           snapshots' = snapshots
    PROVE  HistoryInv'
<1> DEFINE d == db
           e == db'
           snaps == snapshots
<1>1. TableInv(d) /\ RecordInv(d) /\ SnapInv(d, snaps) /\ TableInv(e)
  BY DEF HistoryInv, StoreInv
<1>2. /\ e.events = d.events /\ d.position_seq <= e.position_seq
      /\ \A q \in DOMAIN d.models : HasHistory(q) => q \in DOMAIN e.models
      /\ \A q \in DOMAIN e.models : HasHistory(q) =>
            q \in DOMAIN d.models /\ e.models[q] = d.models[q]
  OBVIOUS
<1> HIDE DEF d, e, snaps
<1>3. Extended(d, e) /\ RecordInv(e)
  BY <1>1, <1>2, RecordsSame
<1>4. SnapInv(e, snaps)
  BY <1>1, <1>3, SnapshotsStay
<1> QED
  BY <1>3, <1>4 DEF e, snaps, HistoryInv

\* An operation that changes neither the events nor the models.
LEMMA SameModelsKeep ==
    ASSUME HistoryInv, StoreInv', db'.events = db.events, db'.models = db.models,
           db.position_seq <= db'.position_seq, snapshots' = snapshots
    PROVE  HistoryInv'
BY QuietKeeps

\* The events of a call of /write are of models with history.
LEMMA RequestsHistoric ==
    ASSUME NEW requests \in WriteRequestLists
    PROVE  \A i \in DOMAIN requests : Historic(requests[i].events)
BY EventlessAssumption DEF Historic, HasHistory

\* write, accepted.
LEMMA WriteKeepsHistory ==
    ASSUME HistoryInv, StoreInv', NEW requests \in WriteRequestLists, Write(requests)
    PROVE  HistoryInv'
<1> DEFINE d == db
           e == db'
           t == WriteTransaction(db, requests)
           old == snapshots
           new == snapshots'
<1>1. WriteFits(requests) /\ e = t.db /\ new = Over(t.snapshots, old)
  BY DEF Write
<1>2. GoodRequests(requests) /\ \A i \in DOMAIN requests : Historic(requests[i].events)
  BY <1>1, RequestsGood, RequestsHistoric
<1>3. TableInv(d) /\ RecordInv(d) /\ SnapInv(d, old) /\ TableInv(e)
  BY DEF HistoryInv, StoreInv
<1>4. HistoryWritten(d, t)
  BY <1>2, <1>3, TransactionRecords
<1> HIDE DEF d, e, t, old, new
<1>5. Extended(d, e) /\ RecordInv(e) /\ SnapInv(e, t.snapshots)
  BY <1>1, <1>4 DEF HistoryWritten
<1>6. SnapInv(e, old)
  BY <1>3, <1>5, SnapshotsStay
<1>7. SnapInv(e, new)
  <2>1. /\ DOMAIN new = DOMAIN t.snapshots \cup DOMAIN old
        /\ \A p \in DOMAIN new :
              new[p] = IF p \in DOMAIN t.snapshots THEN t.snapshots[p] ELSE old[p]
    BY <1>1 DEF Over
  <2> QED
    BY <1>5, <1>6, <2>1 DEF SnapInv
<1> QED
  BY <1>5, <1>7 DEF HistoryInv, e, new

\* write, rolled back: the sequence of positions may have gone on.
LEMMA WriteRejectedKeepsHistory ==
    ASSUME HistoryInv, StoreInv', NEW requests \in WriteRequestLists, WriteRejected(requests)
    PROVE  HistoryInv'
<1> DEFINE t == WriteTransaction(db, requests)
           s == t.db.position_seq
<1>1. /\ WriteFits(requests) /\ db' = [db EXCEPT !.position_seq = s]
      /\ snapshots' = snapshots
  BY DEF WriteRejected
<1>2. GoodRequests(requests)
  BY <1>1, RequestsGood
<1>3. Written(db, t, Len(requests))
  BY <1>2, TransactionKeeps DEF HistoryInv, StoreInv
<1> HIDE DEF t
<1>4. db.position_seq <= s
  BY <1>3 DEF Written
<1> HIDE DEF s
<1>5. db'.events = db.events /\ db'.models = db.models /\ db'.position_seq = s
  <2>1. DOMAIN db = Tables
    BY DEF HistoryInv, StoreInv, TableInv
  <2> QED
    BY <1>1, <2>1 DEF Tables
<1> QED
  BY <1>1, <1>4, <1>5, SameModelsKeep

\* reserve_ids, delete_history_information and trim_collectionfield_tables.
LEMMA OtherTablesKeepHistory ==
    ASSUME HistoryInv, StoreInv',
           \/ \E c, amount : ReserveIds(c, amount)
           \/ DeleteHistoryInformation
           \/ \E threshold : TrimCollectionfieldTables(threshold)
    PROVE  HistoryInv'
<1>1. DOMAIN db = Tables /\ db.position_seq \in Nat
  BY DEF HistoryInv, StoreInv, TableInv, PositionInv
<1>2. ASSUME NEW c, NEW amount, ReserveIds(c, amount)
      PROVE  /\ db'.events = db.events /\ db'.models = db.models
             /\ db'.position_seq = db.position_seq /\ snapshots' = snapshots
  <2>1. PICK x : db' = [db EXCEPT !.id_sequences = x]
    BY <1>2 DEF ReserveIds
  <2> QED
    BY <1>1, <1>2, <2>1 DEF Tables, ReserveIds
<1>3. ASSUME DeleteHistoryInformation
      PROVE  /\ db'.events = db.events /\ db'.models = db.models
             /\ db'.position_seq = db.position_seq /\ snapshots' = snapshots
  <2>1. PICK x : db' = [db EXCEPT !.positions = x]
    BY <1>3 DEF DeleteHistoryInformation
  <2> QED
    BY <1>1, <1>3, <2>1 DEF Tables, DeleteHistoryInformation
<1>4. ASSUME NEW threshold, TrimCollectionfieldTables(threshold)
      PROVE  /\ db'.events = db.events /\ db'.models = db.models
             /\ db'.position_seq = db.position_seq /\ snapshots' = snapshots
  <2>1. PICK x, y : db' = [db EXCEPT !.collectionfields = x, !.events_to_collectionfields = y]
    BY <1>4 DEF TrimCollectionfieldTables
  <2> QED
    BY <1>1, <1>4, <2>1 DEF Tables, TrimCollectionfieldTables
<1>5. /\ db'.events = db.events /\ db'.models = db.models
      /\ db'.position_seq = db.position_seq /\ snapshots' = snapshots
  BY <1>2, <1>3, <1>4
<1>6. db.position_seq <= db'.position_seq
  BY <1>1, <1>5
<1> QED
  BY <1>5, <1>6, SameModelsKeep

\* write_without_events changes models without history only.
LEMMA EventlessModels ==
    ASSUME \/ \E event \in EventlessUpdates : WriteWithoutEvents(event)
           \/ \E fqids \in EventlessDeletes : DeleteWithoutEvents(fqids)
    PROVE  \E models :
             /\ db' = [db EXCEPT !.models = models] /\ UNCHANGED <<snapshots, trimmed>>
             /\ \A q \in DOMAIN db.models : HasHistory(q) => q \in DOMAIN models
             /\ \A q \in DOMAIN models : HasHistory(q) =>
                   q \in DOMAIN db.models /\ models[q] = db.models[q]
<1>1. ASSUME NEW event \in EventlessUpdates, WriteWithoutEvents(event)
      PROVE  \E models :
               /\ db' = [db EXCEPT !.models = models] /\ UNCHANGED <<snapshots, trimmed>>
               /\ \A q \in DOMAIN db.models : HasHistory(q) => q \in DOMAIN models
               /\ \A q \in DOMAIN models : HasHistory(q) =>
                     q \in DOMAIN db.models /\ models[q] = db.models[q]
  <2> DEFINE old == IF event.fqid \in DOMAIN db.models THEN db.models[event.fqid] ELSE NoFields
             model == With(Over(event.fields, old), META_DELETED, FALSE)
             models == With(db.models, event.fqid, model)
  <2>1. db' = [db EXCEPT !.models = models] /\ UNCHANGED <<snapshots, trimmed>>
    BY <1>1 DEF WriteWithoutEvents
  <2> HIDE DEF model
  <2>2. ~HasHistory(event.fqid)
    BY EventlessAssumption DEF HasHistory
  <2>3. /\ DOMAIN models = DOMAIN db.models \cup {event.fqid}
        /\ \A q \in DOMAIN models : q # event.fqid => models[q] = db.models[q]
    BY DEF With
  <2> HIDE DEF models
  <2>4. /\ \A q \in DOMAIN db.models : HasHistory(q) => q \in DOMAIN models
        /\ \A q \in DOMAIN models : HasHistory(q) =>
              q \in DOMAIN db.models /\ models[q] = db.models[q]
    BY <2>2, <2>3
  <2> QED
    BY <2>1, <2>4
<1>2. ASSUME NEW fqids \in EventlessDeletes, DeleteWithoutEvents(fqids)
      PROVE  \E models :
               /\ db' = [db EXCEPT !.models = models] /\ UNCHANGED <<snapshots, trimmed>>
               /\ \A q \in DOMAIN db.models : HasHistory(q) => q \in DOMAIN models
               /\ \A q \in DOMAIN models : HasHistory(q) =>
                     q \in DOMAIN db.models /\ models[q] = db.models[q]
  <2> DEFINE models == [q \in DOMAIN db.models \ fqids |-> db.models[q]]
  <2>1. db' = [db EXCEPT !.models = models] /\ UNCHANGED <<snapshots, trimmed>>
    BY <1>2 DEF DeleteWithoutEvents
  <2>2. \A q \in fqids : ~HasHistory(q)
    BY EventlessAssumption DEF HasHistory
  <2>3. /\ DOMAIN models = DOMAIN db.models \ fqids
        /\ \A q \in DOMAIN models : models[q] = db.models[q]
    OBVIOUS
  <2> HIDE DEF models
  <2>4. /\ \A q \in DOMAIN db.models : HasHistory(q) => q \in DOMAIN models
        /\ \A q \in DOMAIN models : HasHistory(q) =>
              q \in DOMAIN db.models /\ models[q] = db.models[q]
    BY <2>2, <2>3
  <2> QED
    BY <2>1, <2>4
<1> QED
  BY <1>1, <1>2

\* write_without_events, for collections without history.
LEMMA EventlessKeepsHistory ==
    ASSUME HistoryInv, StoreInv',
           \/ \E event \in EventlessUpdates : WriteWithoutEvents(event)
           \/ \E fqids \in EventlessDeletes : DeleteWithoutEvents(fqids)
    PROVE  HistoryInv'
<1>1. DOMAIN db = Tables /\ db.position_seq \in Nat
  BY DEF HistoryInv, StoreInv, TableInv, PositionInv
<1>2. PICK models :
         /\ db' = [db EXCEPT !.models = models] /\ snapshots' = snapshots
         /\ \A q \in DOMAIN db.models : HasHistory(q) => q \in DOMAIN models
         /\ \A q \in DOMAIN models : HasHistory(q) =>
               q \in DOMAIN db.models /\ models[q] = db.models[q]
  BY EventlessModels
<1>3. db'.events = db.events /\ db'.models = models /\ db'.position_seq = db.position_seq
  BY <1>1, <1>2 DEF Tables
<1>4. db.position_seq <= db'.position_seq
  BY <1>1, <1>3
<1> QED
  BY <1>2, <1>3, <1>4, QuietKeeps

\* The empty tables record nothing.
LEMMA EmptyRecords == RecordInv(EmptyDb) /\ SnapInv(EmptyDb, <<>>)
<1>1. EmptyDb.events = <<>> /\ EmptyDb.models = <<>> /\ DOMAIN <<>> = {}
  BY DEF EmptyDb
<1> QED
  BY <1>1 DEF RecordInv, SnapInv

\* Every operation of the writer keeps the history.
LEMMA HistoryStep == HistoryInv /\ [Next]_vars => HistoryInv'
<1> SUFFICES ASSUME HistoryInv, [Next]_vars PROVE HistoryInv'
  OBVIOUS
<1>1. StoreInv'
  BY StoreStep DEF HistoryInv
<1>2. ASSUME NEW requests \in WriteRequestLists, Write(requests) PROVE HistoryInv'
  BY <1>1, <1>2, WriteKeepsHistory
<1>3. ASSUME NEW requests \in WriteRequestLists, WriteRejected(requests) PROVE HistoryInv'
  BY <1>1, <1>3, WriteRejectedKeepsHistory
<1>4. ASSUME \/ \E c, amount : ReserveIds(c, amount)
             \/ DeleteHistoryInformation
             \/ \E threshold : TrimCollectionfieldTables(threshold)
      PROVE  HistoryInv'
  BY <1>1, <1>4, OtherTablesKeepHistory
<1>5. ASSUME \/ \E event \in EventlessUpdates : WriteWithoutEvents(event)
             \/ \E fqids \in EventlessDeletes : DeleteWithoutEvents(fqids)
      PROVE  HistoryInv'
  BY <1>1, <1>5, EventlessKeepsHistory
<1>6. CASE TruncateDb
  <2>1. db' = EmptyDb /\ snapshots' = <<>>
    BY <1>6 DEF TruncateDb
  <2>2. RecordInv(db') /\ SnapInv(db', snapshots')
    BY <2>1, EmptyRecords
  <2> QED
    BY <1>1, <2>2 DEF HistoryInv
<1>7. CASE UNCHANGED vars
  <2>1. db' = db /\ snapshots' = snapshots
    BY <1>7 DEF vars
  <2>2. RecordInv(db') /\ SnapInv(db', snapshots')
    BY <2>1 DEF HistoryInv
  <2> QED
    BY <1>1, <2>2 DEF HistoryInv
<1> QED
  BY <1>2, <1>3, <1>4, <1>5, <1>6, <1>7 DEF Next

\* The inductive invariant of the history: the rows of the events table belong to models
\* with history, the rows of a model begin with its only creation and make, replayed by
\* build_model_from_events, what the models table holds, and for every committed position
\* what it held then.
THEOREM HistoryInvariant == Spec => []HistoryInv
<1>1. Init => HistoryInv
  <2> SUFFICES ASSUME Init PROVE HistoryInv
    OBVIOUS
  <2>1. db = EmptyDb /\ snapshots = <<>>
    BY DEF Init
  <2> QED
    BY <2>1, StoreInit, EmptyRecords DEF HistoryInv
<1> QED
  BY <1>1, HistoryStep, PTL DEF Spec

\* The model that a reader builds from the events table for any committed position is the
\* model that the writer had stored there, and the models table is the newest of them,
\* for every list of requests, any values and any bound: the forward computation of
\* db_events.py and the replay of build_model_from_events agree after every sequence of
\* writes, rejections, reservations, trimmings, eventless writes and truncations.
THEOREM HistoryFaithfulHolds == Spec => []HistoryFaithful
<1>1. HistoryInv => HistoryFaithful
  <2> SUFFICES ASSUME HistoryInv PROVE HistoryFaithful
    OBVIOUS
  <2>1. ASSUME NEW p \in DOMAIN snapshots, NEW q \in DOMAIN snapshots[p], HasHistory(q)
        PROVE  /\ Buildable(RowsOf(db.events, q, p))
               /\ BuildModelFromEvents(RowsOf(db.events, q, p)) = snapshots[p][q]
    BY <2>1 DEF HistoryInv, SnapInv, Recorded
  <2>2. ASSUME NEW q \in DOMAIN db.models, HasHistory(q)
        PROVE  BuildModelFromEvents(RowsOf(db.events, q, db.position_seq)) = db.models[q]
    BY <2>2 DEF HistoryInv, RecordInv, Recorded
  <2> QED
    BY <2>1, <2>2 DEF HistoryFaithful
<1> QED
  BY <1>1, HistoryInvariant, PTL

=============================================================================
