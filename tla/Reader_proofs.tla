---------------------------- MODULE Reader_proofs ----------------------------
(***************************************************************************)
(* The two ways of the reader to answer the same question agree: what get  *)
(* and get_many rebuild from the events table for a position is what the   *)
(* models table would have answered then, and the history names what was   *)
(* written. And a data base filled from an export holds what was exported. *)
(***************************************************************************)
EXTENDS Transfer, EventStore_history

-----------------------------------------------------------------------------
(* Rows that a query finds                                                  *)

\* A list that a query builds in turns: v[n] is appended in the turns n of the set C.
Turning(g, C, v, N) ==
    /\ g[0] = <<>>
    /\ \A n \in 1..N : g[n] = IF n \in C THEN Append(g[n - 1], v[n]) ELSE g[n - 1]

\* The list has what the turns of C up to n appended, in their order.
ListedIn(list, C, v, n) ==
    /\ list \in Seq(ToSet(list))
    /\ \A i, j \in DOMAIN list : i <= j =>
          \E m, k \in C : m <= k /\ m \in 1..n /\ k \in 1..n /\ list[i] = v[m] /\ list[j] = v[k]
    /\ \A m \in 1..n : m \in C => \E i \in DOMAIN list : list[i] = v[m]

\* One more turn.
LEMMA OneMoreListed ==
    ASSUME NEW list, NEW C, NEW v, NEW n \in Nat, n # 0, ListedIn(list, C, v, n - 1)
    PROVE  ListedIn(IF n \in C THEN Append(list, v[n]) ELSE list, C, v, n)
<1>1. list \in Seq(ToSet(list))
  BY DEF ListedIn
<1>0. \A i, j \in DOMAIN list : i <= j =>
        \E m, k \in C : /\ m <= k /\ m \in 1..(n - 1) /\ k \in 1..(n - 1)
                        /\ list[i] = v[m] /\ list[j] = v[k]
  BY DEF ListedIn
<1>2. CASE n \notin C
  <2>1. \A m \in 1..n : m \in C => m \in 1..(n - 1)
    BY <1>2
  <2>2. \A m \in 1..(n - 1) : m \in 1..n
    OBVIOUS
  <2>3. ASSUME NEW i \in DOMAIN list, NEW j \in DOMAIN list, i <= j
        PROVE  \E m, k \in C : /\ m <= k /\ m \in 1..n /\ k \in 1..n
                               /\ list[i] = v[m] /\ list[j] = v[k]
    <3>1. PICK m \in C, k \in C : /\ m <= k /\ m \in 1..(n - 1) /\ k \in 1..(n - 1)
                                  /\ list[i] = v[m] /\ list[j] = v[k]
      BY <1>0, <2>3
    <3> QED
      BY <2>2, <3>1
  <2>4. \A m \in 1..n : m \in C => \E i \in DOMAIN list : list[i] = v[m]
    BY <2>1 DEF ListedIn
  <2>5. ListedIn(list, C, v, n)
    BY <1>1, <2>3, <2>4 DEF ListedIn
  <2> QED
    BY <1>2, <2>5
<1>3. CASE n \in C
  <2> DEFINE t == Append(list, v[n])
             N == Len(list)
  <2>1. /\ t \in Seq(ToSet(t)) /\ DOMAIN t = 1..(N + 1) /\ DOMAIN list = 1..N /\ N \in Nat
        /\ t[N + 1] = v[n] /\ \A i \in 1..N : t[i] = list[i]
    BY <1>1, AppendFacts
  <2> HIDE DEF t, N
  <2>2. ASSUME NEW i \in DOMAIN t, NEW j \in DOMAIN t, i <= j
        PROVE  \E m, k \in C : m <= k /\ m \in 1..n /\ k \in 1..n /\ t[i] = v[m] /\ t[j] = v[k]
    <3>1. CASE j \in 1..N
      <4>1. i \in 1..N
        BY <2>1, <2>2, <3>1
      <4>2. PICK m \in C, k \in C : /\ m <= k /\ m \in 1..(n - 1) /\ k \in 1..(n - 1)
                                    /\ list[i] = v[m] /\ list[j] = v[k]
        <5>1. i \in DOMAIN list /\ j \in DOMAIN list
          BY <2>1, <3>1, <4>1
        <5> QED
          BY <1>0, <2>2, <5>1
      <4>3. m \in 1..n /\ k \in 1..n /\ t[i] = v[m] /\ t[j] = v[k]
        BY <2>1, <3>1, <4>1, <4>2
      <4> QED
        BY <4>2, <4>3
    <3>2. CASE j \notin 1..N /\ i \in 1..N
      <4>1. j = N + 1 /\ t[j] = v[n] /\ n \in 1..n
        BY <2>1, <3>2
      <4>2. i <= i
        BY <2>1, <3>2
      <4>3. PICK m \in C : m \in 1..(n - 1) /\ list[i] = v[m]
        BY <1>0, <2>1, <3>2, <4>2
      <4>4. m <= n /\ m \in 1..n /\ t[i] = v[m]
        BY <2>1, <3>2, <4>3
      <4> QED
        BY <1>3, <4>1, <4>3, <4>4
    <3>3. CASE j \notin 1..N /\ i \notin 1..N
      <4>1. j = N + 1 /\ i = N + 1 /\ t[j] = v[n] /\ n \in 1..n /\ n <= n
        BY <2>1, <3>3
      <4> QED
        BY <1>3, <4>1
    <3> QED
      BY <3>1, <3>2, <3>3
  <2>3. ASSUME NEW m \in 1..n, m \in C
        PROVE  \E i \in DOMAIN t : t[i] = v[m]
    <3>1. CASE m = n
      <4>1. N + 1 \in DOMAIN t
        BY <2>1
      <4> QED
        BY <2>1, <3>1, <4>1
    <3>2. CASE m # n
      <4>1. m \in 1..(n - 1)
        BY <3>2
      <4>2. PICK i \in DOMAIN list : list[i] = v[m]
        BY <2>3, <4>1 DEF ListedIn
      <4>3. i \in DOMAIN t /\ t[i] = v[m]
        BY <2>1, <4>2
      <4> QED
        BY <4>3
    <3> QED
      BY <3>1, <3>2
  <2>4. ListedIn(t, C, v, n)
    BY <2>1, <2>2, <2>3 DEF ListedIn
  <2> QED
    BY <1>3, <2>4 DEF t
<1> QED
  BY <1>2, <1>3

\* After all turns.
LEMMA AllListed ==
    ASSUME NEW g, NEW C, NEW v, NEW N \in Nat, Turning(g, C, v, N)
    PROVE  ListedIn(g[N], C, v, N)
<1> DEFINE S == {n \in 0..N : ListedIn(g[n], C, v, n)}
<1>1. 0 \in S
  <2>1. <<>> \in Seq(ToSet(<<>>)) /\ DOMAIN <<>> = {}
    OBVIOUS
  <2>2. \A m \in 1..0 : FALSE
    OBVIOUS
  <2>3. ListedIn(<<>>, C, v, 0)
    BY <2>1, <2>2 DEF ListedIn
  <2>4. g[0] = <<>>
    BY DEF Turning
  <2>5. ListedIn(g[0], C, v, 0)
    BY <2>3, <2>4
  <2> QED
    BY <2>5
<1>2. ASSUME NEW n \in 1..N, n - 1 \in S PROVE n \in S
  <2>1. ListedIn(g[n - 1], C, v, n - 1) /\ n \in Nat /\ n # 0
    BY <1>2
  <2>2. g[n] = IF n \in C THEN Append(g[n - 1], v[n]) ELSE g[n - 1]
    BY DEF Turning
  <2>3. ListedIn(IF n \in C THEN Append(g[n - 1], v[n]) ELSE g[n - 1], C, v, n)
    BY <2>1, OneMoreListed
  <2>4. ListedIn(g[n], C, v, n)
    BY <2>2, <2>3
  <2> QED
    BY <2>4
<1>3. N \in S
  <2>1. \A n \in 0..N : n \in S
    <3> HIDE DEF S
    <3> QED
      BY <1>1, <1>2, Turns
  <2> QED
    BY <2>1
<1> QED
  BY <1>3

\* The rows of a model up to a position are the rows that match, in the order of the table.
LEMMA RowsFound ==
    ASSUME NEW s, Len(s) \in Nat, NEW q, NEW p
    PROVE  ListedIn(RowsOf(s, q, p), {n \in 1..Len(s) : Matching(s[n], q, p)}, s, Len(s))
<1> DEFINE N == Len(s)
           C == {n \in 1..N : Matching(s[n], q, p)}
<1>1. PICK g : RowTurns(g, s, q, p, N) /\ RowsOf(s, q, p) = g[N]
  BY RowsOfRun
<1>2. Turning(g, C, s, N)
  BY <1>1 DEF Turning, RowTurns, Found
<1>3. N \in Nat
  OBVIOUS
<1> HIDE DEF N, C
<1>4. ListedIn(g[N], C, s, N)
  BY <1>2, <1>3, AllListed
<1> QED
  BY <1>1, <1>4 DEF N, C

\* The rows of a model, and that their positions rise.
LEMMA RowsInOrder ==
    ASSUME NEW s, Len(s) \in Nat, NEW q, NEW p,
           \A i, j \in 1..Len(s) : i <= j => s[i].position <= s[j].position
    PROVE  LET rows == RowsOf(s, q, p)
           IN  /\ rows \in Seq(ToSet(rows))
               /\ \A i \in DOMAIN rows : \E n \in 1..Len(s) : Matching(s[n], q, p) /\ rows[i] = s[n]
               /\ \A i, j \in DOMAIN rows : i <= j => rows[i].position <= rows[j].position
<1> DEFINE rows == RowsOf(s, q, p)
           N == Len(s)
           C == {n \in 1..N : Matching(s[n], q, p)}
<1>1. ListedIn(rows, C, s, N) /\ N \in Nat
  BY RowsFound
<1>2. \A n \in C : n \in 1..N /\ Matching(s[n], q, p)
  OBVIOUS
<1> HIDE DEF rows, C, N
<1>3. rows \in Seq(ToSet(rows))
  BY <1>1 DEF ListedIn
<1>4. ASSUME NEW i \in DOMAIN rows, NEW j \in DOMAIN rows, i <= j
      PROVE  \E m, k \in 1..N : /\ m <= k /\ Matching(s[m], q, p)
                                /\ rows[i] = s[m] /\ rows[j] = s[k]
  <2>0. \A a, b \in DOMAIN rows : a <= b =>
          \E m, k \in C : m <= k /\ m \in 1..N /\ k \in 1..N /\ rows[a] = s[m] /\ rows[b] = s[k]
    BY <1>1 DEF ListedIn
  <2>1. PICK m \in C, k \in C : m <= k /\ rows[i] = s[m] /\ rows[j] = s[k]
    BY <1>4, <2>0
  <2> QED
    BY <1>2, <2>1
<1>5. ASSUME NEW i \in DOMAIN rows
      PROVE  \E n \in 1..N : Matching(s[n], q, p) /\ rows[i] = s[n]
  <2>1. i <= i
    BY <1>3
  <2> QED
    BY <1>4, <2>1
<1>6. ASSUME NEW i \in DOMAIN rows, NEW j \in DOMAIN rows, i <= j
      PROVE  rows[i].position <= rows[j].position
  <2>1. PICK m \in 1..N, k \in 1..N : m <= k /\ rows[i] = s[m] /\ rows[j] = s[k]
    BY <1>4, <1>6
  <2> QED
    BY <2>1 DEF N
<1> QED
  BY <1>3, <1>5, <1>6 DEF rows, N

\* No row that matches is left out.
LEMMA RowsComplete ==
    ASSUME NEW s, Len(s) \in Nat, NEW q, NEW p, NEW n \in 1..Len(s), Matching(s[n], q, p)
    PROVE  \E i \in DOMAIN RowsOf(s, q, p) : RowsOf(s, q, p)[i] = s[n]
<1> DEFINE rows == RowsOf(s, q, p)
           C == {m \in 1..Len(s) : Matching(s[m], q, p)}
<1>1. ListedIn(rows, C, s, Len(s)) /\ n \in C
  BY RowsFound
<1> HIDE DEF rows, C
<1>2. \E i \in DOMAIN rows : rows[i] = s[n]
  BY <1>1 DEF ListedIn
<1> QED
  BY <1>2 DEF rows

\* The greatest of some positions up to a number.
LEMMA GreatestPosition ==
    ASSUME NEW n \in Nat, NEW S, S # {}, \A x \in S : x \in 1..n
    PROVE  Max(S) \in S /\ \A x \in S : x <= Max(S)
<1> DEFINE f == [i \in 1..n |-> i]
<1>1. \A i \in 1..n : f[i] \in Nat
  OBVIOUS
<1>2. \A x \in S : \E i \in 1..n : x = f[i]
  OBVIOUS
<1> HIDE DEF f
<1> QED
  BY <1>1, <1>2, MaxOfValues

\* A greatest element that is known.
LEMMA KnownGreatest ==
    ASSUME NEW S, NEW m \in S, \A x \in S : x \in Int /\ x <= m
    PROVE  Max(S) = m
<1>1. \E x \in S : \A y \in S : x >= y
  OBVIOUS
<1>2. Max(S) \in S /\ \A y \in S : Max(S) >= y
  BY <1>1 DEF Max
<1> QED
  BY <1>2

-----------------------------------------------------------------------------
(* The deleted status                                                       *)

\* get_deleted_status_from_events takes the last row at the newest position with a row that
\* decides, whatever type that row has. As a deletion is followed by nothing but a
\* restoration, it says what the replayed model says.
LEMMA StatusSettled ==
    ASSUME NEW events, NEW q, NEW p, NEW model, Settled(RowsOf(events, q, p), model),
           RowsOf(events, q, p) \in Seq(ToSet(RowsOf(events, q, p))),
           \A i \in DOMAIN RowsOf(events, q, p) : RowsOf(events, q, p)[i].position \in Int,
           \A i, j \in DOMAIN RowsOf(events, q, p) :
               i <= j => RowsOf(events, q, p)[i].position <= RowsOf(events, q, p)[j].position
    PROVE  DeletedStatusFromEvents(events, q, p) <=> Dead(model)
<1> DEFINE rows == RowsOf(events, q, p)
           N == Len(rows)
           deciding == {i \in DOMAIN rows : rows[i].type \in {"create", "delete", "restore"}}
           decided == {rows[i].position : i \in deciding}
           newest == Max(decided)
           at == {i \in DOMAIN rows : rows[i].position = newest}
           last == Max(at)
<1>1. DeletedStatusFromEvents(events, q, p) <=> rows[last].type = "delete"
  BY DEF DeletedStatusFromEvents
<1>2. /\ Settled(rows, model) /\ N \in Nat /\ DOMAIN rows = 1..N
      /\ \A i \in 1..N : rows[i].position \in Int
      /\ \A i, j \in 1..N : i <= j => rows[i].position <= rows[j].position
  OBVIOUS
<1> HIDE DEF rows
<1>3. PICK k \in 1..N : /\ rows[k].type \in Deciding
                        /\ \A j \in 1..N : j > k => rows[j].type \notin Deciding
                        /\ rows[k].type = "delete" <=> Dead(model)
  BY <1>2 DEF Settled
<1>4. newest = rows[k].position
  <2>1. \A i \in deciding : i \in 1..N /\ ~(i > k)
    BY <1>2, <1>3 DEF Deciding
  <2>2. k \in deciding
    BY <1>2, <1>3 DEF Deciding
  <2>3. ASSUME NEW i \in deciding PROVE rows[i].position \in Int /\ rows[i].position <= rows[k].position
    <3>1. i \in 1..N /\ i <= k
      BY <2>1, <1>2
    <3> QED
      BY <1>2, <3>1
  <2> HIDE DEF deciding
  <2>4. rows[k].position \in decided /\ \A x \in decided : x \in Int /\ x <= rows[k].position
    BY <2>2, <2>3
  <2> HIDE DEF decided
  <2> QED
    BY <2>4, KnownGreatest
<1> HIDE DEF newest
<1>5. k \in at /\ \A i \in at : i \in 1..N /\ i \in DOMAIN rows
  BY <1>2, <1>4
<1>6. last \in at /\ \A i \in at : i <= last
  <2>1. at # {}
    BY <1>5
  <2> HIDE DEF at
  <2> QED
    BY <1>2, <1>5, <2>1, GreatestPosition
<1>7. last \in 1..N /\ k <= last
  BY <1>5, <1>6
<1> HIDE DEF last
<1>8. rows[last].type = "delete" <=> rows[k].type = "delete"
  <2>1. CASE last = k
    BY <2>1
  <2>2. CASE last # k
    <3>1. last > k
      BY <1>2, <1>7, <2>2
    <3>2. rows[last].type # "delete"
      BY <1>3, <1>7, <3>1 DEF Deciding
    <3>3. k + 1 \in 1..N /\ k + 1 > k
      BY <1>2, <1>7, <3>1
    <3>4. rows[k].type = "delete" => rows[k + 1].type = "restore"
      BY <1>2, <3>3 DEF Settled
    <3>5. rows[k + 1].type \notin Deciding
      BY <1>3, <3>3
    <3> QED
      BY <3>2, <3>4, <3>5 DEF Deciding
  <2> QED
    BY <2>1, <2>2
<1> QED
  BY <1>1, <1>3, <1>8

-----------------------------------------------------------------------------
(* Models at a position                                                     *)

\* The rows are in the order of positions that are committed, each of which has a snapshot.
LEMMA RowPositions ==
    ASSUME HistoryInv
    PROVE  /\ Len(db.events) \in Nat /\ DOMAIN db.events = 1..Len(db.events)
           /\ \A i \in 1..Len(db.events) :
                 db.events[i].position \in Int /\ db.events[i].position \in DOMAIN snapshots
           /\ \A i, j \in 1..Len(db.events) :
                 i <= j => db.events[i].position <= db.events[j].position
           /\ \A p \in DOMAIN snapshots : p \in 1..db.position_seq
           /\ db.position_seq \in Nat /\ DOMAIN snapshots = DOMAIN db.positions
<1>1. /\ Len(db.events) \in Nat /\ DOMAIN db.events = 1..Len(db.events)
      /\ db.position_seq \in Nat /\ DOMAIN snapshots = DOMAIN db.positions
      /\ \A p \in DOMAIN snapshots : p \in 1..db.position_seq
  BY DEF HistoryInv, StoreInv, TableInv, RowInv, PositionInv, BookInv
<1>2. \A i \in DOMAIN db.events : db.events[i].position \in DOMAIN db.positions
  BY DEF HistoryInv, StoreInv, TableInv, RowInv
<1>3. \A i, j \in DOMAIN db.events : i <= j => db.events[i].position <= db.events[j].position
  BY DEF HistoryInv, RecordInv
<1>4. \A i \in 1..Len(db.events) : db.events[i].position \in DOMAIN snapshots
  BY <1>1, <1>2
<1>5. \A i \in 1..Len(db.events) : db.events[i].position \in Int
  BY <1>1, <1>4
<1>6. \A i, j \in 1..Len(db.events) : i <= j => db.events[i].position <= db.events[j].position
  BY <1>1, <1>3
<1> QED
  BY <1>1, <1>4, <1>5, <1>6

\* What a reader finds of a model among the rows up to a position, for the models as that
\* position left them: rows if and only if the model was there, that make the model, and
\* the deleted status that the model had.
FoundAs(q, position, models) ==
    LET rows == RowsOf(db.events, q, position)
    IN  /\ rows # <<>> <=> q \in DOMAIN models
        /\ q \in DOMAIN models =>
              /\ BuildModelFromEvents(rows) = models[q]
              /\ models[q][META_DELETED] \in {TRUE, FALSE}
              /\ DeletedStatusFromEvents(db.events, q, position) <=> Dead(models[q])

\* At a committed position.
LEMMA FoundAtSnapshot ==
    ASSUME HistoryInv, NEW p \in DOMAIN snapshots, NEW q, HasHistory(q)
    PROVE  FoundAs(q, p, snapshots[p])
<1> DEFINE s == db.events
           N == Len(s)
           rows == RowsOf(s, q, p)
           models == snapshots[p]
<1>1. /\ N \in Nat /\ DOMAIN s = 1..N
      /\ \A i \in 1..N : s[i].position \in Int
      /\ \A i, j \in 1..N : i <= j => s[i].position <= s[j].position
  BY RowPositions
<1>2. /\ DeletedKnown(models)
      /\ q \in DOMAIN models => Recorded(s, q, p, models[q])
      /\ \A i \in DOMAIN s : s[i].position <= p => s[i].fqid \in DOMAIN models
  BY DEF HistoryInv, SnapInv
<1> HIDE DEF s, N, models
<1>3. /\ rows \in Seq(ToSet(rows))
      /\ \A i \in DOMAIN rows : \E n \in 1..N : Matching(s[n], q, p) /\ rows[i] = s[n]
      /\ \A i, j \in DOMAIN rows : i <= j => rows[i].position <= rows[j].position
  BY <1>1, RowsInOrder DEF N
<1> HIDE DEF rows
<1>4. ASSUME q \in DOMAIN models
      PROVE  /\ rows # <<>> /\ BuildModelFromEvents(rows) = models[q]
             /\ Settled(rows, models[q])
  BY <1>2, <1>4 DEF Recorded, Buildable, rows
<1>5. ASSUME rows # <<>> PROVE q \in DOMAIN models
  <2>1. 1 \in DOMAIN rows
    BY <1>3, <1>5
  <2>2. PICK n \in 1..N : Matching(s[n], q, p)
    BY <1>3, <2>1
  <2> QED
    BY <1>1, <1>2, <2>2 DEF Matching
<1>6. ASSUME q \in DOMAIN models
      PROVE  models[q][META_DELETED] \in {TRUE, FALSE}
  BY <1>2, <1>6, Zenon DEF DeletedKnown
<1>7. ASSUME q \in DOMAIN models
      PROVE  DeletedStatusFromEvents(s, q, p) <=> Dead(models[q])
  <2> DEFINE model == models[q]
  <2>1. \A i \in DOMAIN rows : rows[i].position \in Int
    BY <1>1, <1>3
  <2>2. Settled(rows, model)
    BY <1>4, <1>7
  <2> HIDE DEF model
  <2>3. DeletedStatusFromEvents(s, q, p) <=> Dead(model)
    BY <1>3, <2>1, <2>2, StatusSettled DEF rows
  <2> QED
    BY <2>3 DEF model
<1>8. /\ rows # <<>> <=> q \in DOMAIN models
      /\ q \in DOMAIN models =>
            /\ BuildModelFromEvents(rows) = models[q]
            /\ models[q][META_DELETED] \in {TRUE, FALSE}
            /\ DeletedStatusFromEvents(s, q, p) <=> Dead(models[q])
  BY <1>4, <1>5, <1>6, <1>7, Zenon
<1> QED
  BY <1>8, Zenon DEF FoundAs, s, rows, models

\* At any position, those of rejected writes and future ones included: no row lies between
\* it and the committed one before it.
LEMMA FoundAtAny ==
    ASSUME HistoryInv, NEW position \in Int, NEW q, HasHistory(q)
    PROVE  FoundAs(q, position, ModelsAt(position))
<1> DEFINE s == db.events
           N == Len(s)
           upTo == {p \in DOMAIN snapshots : p <= position}
<1>1. /\ N \in Nat /\ DOMAIN s = 1..N
      /\ \A i \in 1..N : s[i].position \in Int /\ s[i].position \in DOMAIN snapshots
      /\ \A i, j \in 1..N : i <= j => s[i].position <= s[j].position
      /\ \A p \in DOMAIN snapshots : p \in 1..db.position_seq
      /\ db.position_seq \in Nat
  BY RowPositions
<1>2. CASE upTo = {}
  <2> DEFINE rows == RowsOf(s, q, position)
  <2>1. \A n \in 1..N : ~Matching(s[n], q, position)
    BY <1>1, <1>2 DEF Matching
  <2>2. /\ rows \in Seq(ToSet(rows))
        /\ \A i \in DOMAIN rows : \E n \in 1..N : Matching(s[n], q, position) /\ rows[i] = s[n]
    <3>1. /\ Len(s) \in Nat
          /\ \A i, j \in 1..Len(s) : i <= j => s[i].position <= s[j].position
      BY <1>1
    <3> HIDE DEF s
    <3> QED
      BY <3>1, RowsInOrder
  <2>3. rows = <<>>
    <3> HIDE DEF rows
    <3> QED
      BY <2>1, <2>2
  <2>4. ModelsAt(position) = <<>> /\ DOMAIN <<>> = {}
    BY <1>2 DEF ModelsAt
  <2>5. q \notin DOMAIN ModelsAt(position)
    BY <2>4
  <2> QED
    BY <2>3, <2>5, Zenon DEF FoundAs
<1>3. CASE upTo # {}
  <2> DEFINE p == Max(upTo)
  <2>1. \A x \in upTo : x \in 1..db.position_seq /\ x \in DOMAIN snapshots /\ x <= position
    BY <1>1
  <2>2. \A x \in DOMAIN snapshots : x <= position => x \in upTo
    OBVIOUS
  <2>3. ModelsAt(position) = snapshots[p]
    BY <1>3 DEF ModelsAt
  <2> HIDE DEF upTo
  <2>4. p \in upTo /\ \A x \in upTo : x <= p
    BY <1>1, <1>3, <2>1, GreatestPosition
  <2>5. p \in DOMAIN snapshots /\ p <= position /\ p \in Int
    BY <1>1, <2>1, <2>4
  <2> HIDE DEF p
  <2>6. ASSUME NEW n \in 1..N
        PROVE  s[n] = s[n] /\ (Matching(s[n], q, position) <=> Matching(s[n], q, p))
    <3>1. s[n].position \in Int /\ s[n].position \in DOMAIN snapshots
      BY <1>1
    <3>2. s[n].position <= position <=> s[n].position <= p
      BY <2>2, <2>4, <2>5, <3>1
    <3> QED
      BY <3>2 DEF Matching
  <2>7. N = Len(s) /\ N <= N /\ \A n \in 1..N : n > N => ~Matching(s[n], q, p)
    BY <1>1
  <2> HIDE DEF s, N
  <2>8. RowsOf(s, q, position) = RowsOf(s, q, p)
    BY <1>1, <2>6, <2>7, SameRows
  <2>9. DeletedStatusFromEvents(s, q, position) <=> DeletedStatusFromEvents(s, q, p)
    BY <2>8 DEF DeletedStatusFromEvents
  <2>10. FoundAs(q, p, snapshots[p])
    BY <2>5, FoundAtSnapshot
  <2> QED
    BY <2>3, <2>8, <2>9, <2>10, Zenon DEF FoundAs, s
<1> QED
  BY <1>2, <1>3

-----------------------------------------------------------------------------
(* get and get_many                                                         *)

\* The deleted status from the events is wanted if that of the model is.
LEMMA WantedStatus ==
    ASSUME NEW q, NEW position, NEW models, FoundAs(q, position, models), NEW behaviour,
           q \in DOMAIN models
    PROVE  Wanted(DeletedStatusFromEvents(db.events, q, position), behaviour)
              <=> Wanted(models[q][META_DELETED], behaviour)
<1>1. /\ models[q][META_DELETED] \in {TRUE, FALSE}
      /\ DeletedStatusFromEvents(db.events, q, position) <=> Dead(models[q])
  BY Zenon DEF FoundAs
<1>2. DeletedStatusFromEvents(db.events, q, position) \in BOOLEAN
  BY DEF DeletedStatusFromEvents
<1>3. CASE models[q][META_DELETED] = TRUE
  <2>1. DeletedStatusFromEvents(db.events, q, position)
    BY <1>1, <1>3, Zenon DEF Dead
  <2>2. DeletedStatusFromEvents(db.events, q, position) = TRUE
    BY <1>2, <2>1, Zenon
  <2> QED
    BY <1>3, <2>2, Zenon
<1>4. CASE models[q][META_DELETED] = FALSE
  <2>1. ~DeletedStatusFromEvents(db.events, q, position)
    BY <1>1, <1>4, Zenon DEF Dead
  <2>2. DeletedStatusFromEvents(db.events, q, position) = FALSE
    BY <1>2, <2>1, Zenon
  <2> QED
    BY <1>4, <2>2, Zenon
<1> QED
  BY <1>1, <1>3, <1>4, Zenon

\* A row of columns, cut to the fields asked for, is the model cut to them: columns without
\* a value are left out, and the whole model is selected if one part of the request wants it.
LEMMA FieldsAlike ==
    ASSUME NEW model, NEW perFqid, NEW q \in DOMAIN perFqid
    PROVE  ApplyMappedFields(model, perFqid[q]) =
              LET row == SelectedRow(model, perFqid)
              IN  IF perFqid[q] = {} THEN row
                  ELSE Restrict(row, {f \in perFqid[q] \cap DOMAIN row : row[f] # None})
<1> DEFINE row == SelectedRow(model, perFqid)
           fields == perFqid[q]
<1>1. CASE NeedsWholeModel(perFqid)
  BY <1>1 DEF ApplyMappedFields, SelectedRow
<1>2. CASE ~NeedsWholeModel(perFqid)
  <2>1. fields # {} /\ fields \subseteq UniqueFields(perFqid)
    BY <1>2 DEF NeedsWholeModel, UniqueFields
  <2>2. /\ DOMAIN row = UniqueFields(perFqid)
        /\ \A f \in UniqueFields(perFqid) : row[f] = IF f \in DOMAIN model THEN model[f] ELSE None
    BY <1>2 DEF SelectedRow
  <2> HIDE DEF row, fields
  <2> DEFINE A == {f \in fields \cap DOMAIN model : model[f] # None}
             B == {f \in fields \cap DOMAIN row : row[f] # None}
  <2>3. A = B
    BY <2>1, <2>2
  <2>4. \A f \in A : model[f] = row[f]
    BY <2>1, <2>2
  <2> HIDE DEF A, B
  <2>5. Restrict(model, A) = Restrict(row, B)
    BY <2>3, <2>4 DEF Restrict
  <2>6. ApplyMappedFields(model, fields) = Restrict(model, A)
    BY <2>1 DEF ApplyMappedFields, A
  <2> QED
    BY <2>1, <2>5, <2>6 DEF B, row, fields
<1> QED
  BY <1>1, <1>2

\* What get_many selects from the models table.
LEMMA ManyFound ==
    ASSUME NEW models, NEW perFqid, NEW behaviour
    PROVE  /\ \A q : q \in DOMAIN GetMany(models, perFqid, behaviour) <=>
                 /\ q \in DOMAIN perFqid /\ q \in DOMAIN models
                 /\ Wanted(models[q][META_DELETED], behaviour)
           /\ \A q \in DOMAIN GetMany(models, perFqid, behaviour) :
                 GetMany(models, perFqid, behaviour)[q] = ApplyMappedFields(models[q], perFqid[q])
           /\ GetMany(models, perFqid, behaviour) =
                 [q \in DOMAIN GetMany(models, perFqid, behaviour) |->
                     GetMany(models, perFqid, behaviour)[q]]
<1> DEFINE selected == {q \in DOMAIN perFqid \cap DOMAIN models :
                           Wanted(models[q][META_DELETED], behaviour)}
           rows == [q \in selected |-> SelectedRow(models[q], perFqid)]
           found == GetMany(models, perFqid, behaviour)
<1>1. found = BuildModelsFromResult(rows, perFqid)
  BY DEF GetMany
<1>2. \A q \in selected : q \in DOMAIN perFqid
  OBVIOUS
<1> HIDE DEF selected, found
<1>3. DOMAIN rows = selected /\ \A q \in selected : rows[q] = SelectedRow(models[q], perFqid)
  OBVIOUS
<1> HIDE DEF rows
<1>4. /\ DOMAIN found = selected
      /\ \A q \in selected : found[q] =
            IF perFqid[q] = {} THEN rows[q]
            ELSE Restrict(rows[q], {f \in perFqid[q] \cap DOMAIN rows[q] : rows[q][f] # None})
      /\ found = [q \in DOMAIN found |-> found[q]]
  BY <1>1, <1>3 DEF BuildModelsFromResult
<1>5. ASSUME NEW q \in selected
      PROVE  found[q] = ApplyMappedFields(models[q], perFqid[q])
  <2> DEFINE model == models[q]
  <2>1. q \in DOMAIN perFqid /\ rows[q] = SelectedRow(model, perFqid)
    BY <1>2, <1>3
  <2>2. found[q] =
            IF perFqid[q] = {} THEN rows[q]
            ELSE Restrict(rows[q], {f \in perFqid[q] \cap DOMAIN rows[q] : rows[q][f] # None})
    BY <1>4
  <2> HIDE DEF model
  <2>3. ApplyMappedFields(model, perFqid[q]) =
              LET row == SelectedRow(model, perFqid)
              IN  IF perFqid[q] = {} THEN row
                  ELSE Restrict(row, {f \in perFqid[q] \cap DOMAIN row : row[f] # None})
    BY <2>1, FieldsAlike
  <2>4. found[q] = ApplyMappedFields(model, perFqid[q])
    BY <2>1, <2>2, <2>3
  <2> QED
    BY <2>4 DEF model
<1>6. \A q : q \in selected <=> /\ q \in DOMAIN perFqid /\ q \in DOMAIN models
                               /\ Wanted(models[q][META_DELETED], behaviour)
  BY Zenon DEF selected
<1> QED
  BY <1>4, <1>5, <1>6, Zenon DEF found

\* The fqids that filter_fqids_by_deleted_status keeps. All of them are kept if deleted
\* models are wanted too, those without rows included.
LEMMA FqidsKept ==
    ASSUME NEW fqids, NEW q \in fqids, NEW position, NEW models, FoundAs(q, position, models),
           NEW behaviour
    PROVE  /\ q \in FilterFqidsByDeletedStatus(fqids, position, behaviour) <=>
                 \/ behaviour = "ALL_MODELS"
                 \/ q \in DOMAIN models /\ Wanted(models[q][META_DELETED], behaviour)
           /\ behaviour = "ALL_MODELS" => Wanted(models[q][META_DELETED], behaviour)
           /\ RowsOf(db.events, q, position) # <<>> <=> q \in DOMAIN models
<1>1. RowsOf(db.events, q, position) # <<>> <=> q \in DOMAIN models
  BY Zenon DEF FoundAs
<1>2. q \in DOMAIN models =>
        (Wanted(DeletedStatusFromEvents(db.events, q, position), behaviour)
            <=> Wanted(models[q][META_DELETED], behaviour))
  BY WantedStatus, Zenon
<1>3. q \in FilterFqidsByDeletedStatus(fqids, position, behaviour) <=>
        \/ behaviour = "ALL_MODELS"
        \/ /\ RowsOf(db.events, q, position) # <<>>
           /\ Wanted(DeletedStatusFromEvents(db.events, q, position), behaviour)
  BY Zenon DEF FilterFqidsByDeletedStatus
<1>4. behaviour = "ALL_MODELS" => Wanted(models[q][META_DELETED], behaviour)
  BY Zenon DEF Wanted
<1> QED
  BY <1>1, <1>2, <1>3, <1>4, Zenon

\* get_many at a position.
LEMMA ManyAgree ==
    ASSUME NEW position, NEW models, NEW perFqid, NEW behaviour,
           \A q \in DOMAIN perFqid : FoundAs(q, position, models)
    PROVE  GetManyAt(perFqid, position, behaviour).models = GetMany(models, perFqid, behaviour)
<1> DEFINE fqids == FilterFqidsByDeletedStatus(DOMAIN perFqid, position, behaviour)
           built == BuildModelsIgnoreDeleted(fqids, position)
           many == GetManyAt(perFqid, position, behaviour).models
           found == GetMany(models, perFqid, behaviour)
<1>1. many = ApplyMappedFieldsMulti(built, perFqid)
  BY DEF GetManyAt
<1>2. \A q \in fqids : q \in DOMAIN perFqid
  BY DEF FilterFqidsByDeletedStatus
<1>3. ASSUME NEW q \in DOMAIN perFqid
      PROVE  /\ q \in fqids <=>
                   \/ behaviour = "ALL_MODELS"
                   \/ q \in DOMAIN models /\ Wanted(models[q][META_DELETED], behaviour)
             /\ behaviour = "ALL_MODELS" => Wanted(models[q][META_DELETED], behaviour)
             /\ RowsOf(db.events, q, position) # <<>> <=> q \in DOMAIN models
  BY FqidsKept
<1> HIDE DEF fqids, many
<1>4. /\ DOMAIN built = {q \in fqids : RowsOf(db.events, q, position) # <<>>}
      /\ \A q \in DOMAIN built : built[q] = BuildModelFromEvents(RowsOf(db.events, q, position))
  BY DEF BuildModelsIgnoreDeleted
<1> HIDE DEF built
<1>5. ASSUME NEW q
      PROVE  q \in DOMAIN built <=> /\ q \in DOMAIN perFqid /\ q \in DOMAIN models
                                    /\ Wanted(models[q][META_DELETED], behaviour)
  <2>1. q \in DOMAIN built <=> q \in fqids /\ RowsOf(db.events, q, position) # <<>>
    BY <1>4, Zenon
  <2> QED
    BY <1>2, <1>3, <2>1, Zenon
<1>6. /\ \A q : q \in DOMAIN found <=> /\ q \in DOMAIN perFqid /\ q \in DOMAIN models
                                      /\ Wanted(models[q][META_DELETED], behaviour)
      /\ \A q \in DOMAIN found : found[q] = ApplyMappedFields(models[q], perFqid[q])
      /\ found = [q \in DOMAIN found |-> found[q]]
  BY ManyFound, Zenon
<1> HIDE DEF found
<1>7. DOMAIN built = DOMAIN found
  <2>1. \A q : q \in DOMAIN built <=> q \in DOMAIN found
    BY <1>5, <1>6, Zenon
  <2> QED
    BY <2>1
<1>8. ASSUME NEW q \in DOMAIN built
      PROVE  ApplyMappedFields(built[q], perFqid[q]) = found[q]
  <2>1. FoundAs(q, position, models) /\ q \in DOMAIN models
    BY <1>5, Zenon
  <2>2. built[q] = models[q]
    BY <1>4, <2>1, Zenon DEF FoundAs
  <2> QED
    BY <1>6, <1>7, <2>2, Zenon
<1>9. many = [q \in DOMAIN built |-> ApplyMappedFields(built[q], perFqid[q])]
  BY <1>1 DEF ApplyMappedFieldsMulti
<1>10. many = [q \in DOMAIN found |-> found[q]]
  BY <1>7, <1>8, <1>9
<1> QED
  BY <1>6, <1>10 DEF many, found

\* What get selects from the models table: get_many for one fqid.
LEMMA OneFound ==
    ASSUME NEW models, NEW q, NEW behaviour, NEW one, q \in DOMAIN one
    PROVE  /\ q \in DOMAIN GetMany(models, one, behaviour) <=>
                 q \in DOMAIN models /\ Wanted(models[q][META_DELETED], behaviour)
           /\ q \in DOMAIN GetMany(models, one, behaviour) =>
                 GetMany(models, one, behaviour)[q] = ApplyMappedFields(models[q], one[q])
<1>1. /\ q \in DOMAIN GetMany(models, one, behaviour) <=>
            /\ q \in DOMAIN one /\ q \in DOMAIN models
            /\ Wanted(models[q][META_DELETED], behaviour)
      /\ q \in DOMAIN GetMany(models, one, behaviour) =>
            GetMany(models, one, behaviour)[q] = ApplyMappedFields(models[q], one[q])
  BY ManyFound
<1> QED
  BY <1>1, Zenon

\* get at a position, with its exceptions.
LEMMA OneAgrees ==
    ASSUME NEW position, NEW models, NEW q, NEW fields, NEW behaviour,
           FoundAs(q, position, models)
    PROVE  GetAt(q, fields, position, behaviour) = Get(models, q, fields, behaviour)
<1> DEFINE fqids == FilterFqidsByDeletedStatus({q}, position, behaviour)
           built == BuildModelsIgnoreDeleted(fqids, position)
           one == [r \in {q} |-> fields]
           found == GetMany(models, one, behaviour)
           wanted == Wanted(models[q][META_DELETED], behaviour)
<1>1. /\ q \in fqids <=> behaviour = "ALL_MODELS" \/ (q \in DOMAIN models /\ wanted)
      /\ behaviour = "ALL_MODELS" => wanted
      /\ RowsOf(db.events, q, position) # <<>> <=> q \in DOMAIN models
  BY FqidsKept
<1>2. fqids = {} <=> q \notin fqids
  BY DEF FilterFqidsByDeletedStatus
<1>3. GetAt(q, fields, position, behaviour) =
        IF fqids = {} THEN [error |-> Missing(behaviour), model |-> NoFields]
        ELSE IF q \notin DOMAIN built THEN [error |-> "ModelDoesNotExist", model |-> NoFields]
        ELSE [error |-> "ok", model |-> ApplyMappedFields(built[q], fields)]
  BY DEF GetAt
<1>4. Get(models, q, fields, behaviour) =
        IF q \in DOMAIN found THEN [error |-> "ok", model |-> found[q]]
        ELSE [error |-> Missing(behaviour), model |-> NoFields]
  BY DEF Get
<1> HIDE DEF fqids
<1>5. /\ q \in DOMAIN built <=> q \in fqids /\ RowsOf(db.events, q, position) # <<>>
      /\ q \in DOMAIN built => built[q] = BuildModelFromEvents(RowsOf(db.events, q, position))
  BY DEF BuildModelsIgnoreDeleted
<1>6. DOMAIN one = {q} /\ one[q] = fields
  OBVIOUS
<1> HIDE DEF built, one
<1>7. /\ q \in DOMAIN found <=> q \in DOMAIN models /\ wanted
      /\ q \in DOMAIN found => found[q] = ApplyMappedFields(models[q], fields)
  <2>1. ASSUME NEW x, q \in DOMAIN x
        PROVE  /\ q \in DOMAIN GetMany(models, x, behaviour) <=> q \in DOMAIN models /\ wanted
               /\ q \in DOMAIN GetMany(models, x, behaviour) =>
                     GetMany(models, x, behaviour)[q] = ApplyMappedFields(models[q], x[q])
    BY <2>1, OneFound
  <2> HIDE DEF wanted
  <2> QED
    BY <1>6, <2>1
<1> HIDE DEF found
<1>8. CASE q \in DOMAIN models /\ wanted
  <2>1. q \in DOMAIN built /\ fqids # {} /\ q \in DOMAIN found
    BY <1>1, <1>2, <1>5, <1>7, <1>8, Zenon
  <2>2. built[q] = models[q]
    BY <1>5, <1>8, <2>1, Zenon DEF FoundAs
  <2> QED
    BY <1>3, <1>4, <1>7, <2>1, <2>2, Zenon
<1>9. CASE ~(q \in DOMAIN models /\ wanted)
  <2>1. q \notin DOMAIN found /\ q \notin DOMAIN built
    BY <1>1, <1>5, <1>7, <1>9, Zenon
  <2>2. fqids # {} => Missing(behaviour) = "ModelDoesNotExist"
    BY <1>1, <1>2, <1>9, Zenon DEF Missing
  <2> QED
    BY <1>3, <1>4, <2>1, <2>2, Zenon
<1> QED
  BY <1>8, <1>9, Zenon

-----------------------------------------------------------------------------
(* The history                                                              *)

\* The models with an event at a position.
EventsAt(p) == {db.events[i].fqid : i \in {j \in DOMAIN db.events : db.events[j].position = p}}

\* The models that say that they were written at a position are those with an event there:
\* the reader and the writer put the position of the last event on the model.
LEMMA WrittenByEvents ==
    ASSUME HistoryInv, NEW p \in DOMAIN snapshots
    PROVE  WrittenAt(p) = EventsAt(p)
<1> DEFINE s == db.events
           N == Len(s)
           models == snapshots[p]
<1>1. /\ N \in Nat /\ DOMAIN s = 1..N
      /\ \A i \in 1..N : s[i].position \in Int
      /\ \A i, j \in 1..N : i <= j => s[i].position <= s[j].position
      /\ p \in Int
  BY RowPositions
<1>2. \A i \in 1..N : s[i].position <= p => s[i].fqid \in DOMAIN models
  BY <1>1 DEF HistoryInv, SnapInv
<1>3. \A i \in 1..N : HasHistory(s[i].fqid)
  BY <1>1 DEF HistoryInv, RecordInv
<1>4. ASSUME NEW q \in DOMAIN models, HasHistory(q)
      PROVE  \E n \in 1..N : /\ Matching(s[n], q, p)
                             /\ models[q][META_POSITION] = s[n].position
                             /\ \A k \in 1..N : Matching(s[k], q, p) => s[k].position <= s[n].position
  <2> DEFINE rows == RowsOf(s, q, p)
             K == Len(rows)
             model == models[q]
  <2>1. Recorded(s, q, p, model)
    BY <1>4 DEF HistoryInv, SnapInv
  <2> HIDE DEF s, N, model
  <2>2. /\ rows \in Seq(ToSet(rows))
        /\ \A i \in DOMAIN rows : \E n \in 1..N : Matching(s[n], q, p) /\ rows[i] = s[n]
        /\ \A i, j \in DOMAIN rows : i <= j => rows[i].position <= rows[j].position
    BY <1>1, RowsInOrder DEF N
  <2>3. rows # <<>> /\ BuildModelFromEvents(rows) = model
    BY <2>1 DEF Recorded, Buildable
  <2> HIDE DEF rows
  <2>4. K \in Nat /\ DOMAIN rows = 1..K /\ K # 0
    BY <2>2, <2>3
  <2>5. K \in DOMAIN rows
    BY <2>4
  <2>6. model[META_POSITION] = rows[K].position
    BY <2>3 DEF BuildModelFromEvents, With, Last
  <2>7. PICK n \in 1..N : Matching(s[n], q, p) /\ rows[K] = s[n]
    BY <2>2, <2>5
  <2>8. ASSUME NEW k \in 1..N, Matching(s[k], q, p) PROVE s[k].position <= s[n].position
    <3>1. PICK i \in DOMAIN rows : rows[i] = s[k]
      <4>1. Len(s) \in Nat /\ k \in 1..Len(s)
        BY <1>1 DEF N
      <4>2. \E i \in DOMAIN RowsOf(s, q, p) : RowsOf(s, q, p)[i] = s[k]
        BY <2>8, <4>1, RowsComplete
      <4> QED
        BY <4>2 DEF rows
    <3>2. i <= K
      BY <2>4
    <3> QED
      BY <2>2, <2>5, <2>7, <3>1, <3>2
  <2> QED
    BY <2>6, <2>7, <2>8 DEF model
<1>5. ASSUME NEW q \in WrittenAt(p) PROVE q \in EventsAt(p)
  <2>1. q \in DOMAIN models /\ HasHistory(q) /\ models[q][META_POSITION] = p
    BY DEF WrittenAt
  <2>2. PICK n \in 1..N : Matching(s[n], q, p) /\ models[q][META_POSITION] = s[n].position
    BY <1>4, <2>1
  <2> QED
    BY <1>1, <2>1, <2>2 DEF EventsAt, Matching
<1>6. ASSUME NEW q \in EventsAt(p) PROVE q \in WrittenAt(p)
  <2>1. PICK i \in 1..N : s[i].fqid = q /\ s[i].position = p
    BY <1>1 DEF EventsAt
  <2>2. q \in DOMAIN models /\ HasHistory(q) /\ Matching(s[i], q, p)
    BY <1>1, <1>2, <1>3, <2>1 DEF Matching
  <2>3. PICK n \in 1..N : /\ models[q][META_POSITION] = s[n].position
                          /\ \A k \in 1..N : Matching(s[k], q, p) => s[k].position <= s[n].position
                          /\ Matching(s[n], q, p)
    BY <1>4, <2>2
  <2>4. s[n].position = p
    BY <1>1, <2>1, <2>2, <2>3 DEF Matching
  <2> QED
    BY <2>2, <2>3, <2>4 DEF WrittenAt
<1> QED
  BY <1>5, <1>6

\* The positions listed after each row, as get_history_information goes through the rows.
Told(q, row) == row.fqid = q /\ HasInformation(row.position)
HistoryRun(g, q, m) ==
    g = [n \in 0..m |-> IF n = 0 THEN <<>>
                        ELSE IF Told(q, db.events[n])
                        THEN Append(g[n - 1], db.events[n].position)
                        ELSE g[n - 1]]

\* There is such a run.
LEMMA HistoryRunExists ==
    ASSUME NEW q, NEW N \in Nat
    PROVE  \E g : HistoryRun(g, q, N)
<1> DEFINE S == {m \in Nat : \E g : HistoryRun(g, q, m)}
<1>1. 0 \in S
  <2>1. HistoryRun([n \in 0..0 |-> <<>>], q, 0)
    BY DEF HistoryRun
  <2> QED
    BY <2>1
<1>2. ASSUME NEW m \in 1..N, m - 1 \in S PROVE m \in S
  <2>1. PICK g : HistoryRun(g, q, m - 1)
    BY <1>2
  <2> DEFINE Turn(n, list) == IF Told(q, db.events[n])
                              THEN Append(list, db.events[n].position) ELSE list
             h == [n \in 0..m |-> IF n = m THEN Turn(m, g[m - 1]) ELSE g[n]]
  <2>2. g = [n \in 0..(m - 1) |-> IF n = 0 THEN <<>> ELSE Turn(n, g[n - 1])]
    BY <2>1 DEF HistoryRun
  <2> HIDE DEF Turn
  <2>3. \A n \in 0..m : h[n] = IF n = 0 THEN <<>> ELSE Turn(n, h[n - 1])
    BY <2>2
  <2>4. h = [n \in 0..m |-> IF n = 0 THEN <<>> ELSE Turn(n, h[n - 1])]
    BY <2>3
  <2>5. HistoryRun(h, q, m)
    <3> HIDE DEF h
    <3> QED
      BY <2>4 DEF HistoryRun, Turn
  <2> QED
    BY <2>5
<1> HIDE DEF S
<1>3. N \in S
  BY <1>1, <1>2, Turns
<1> QED
  BY <1>3 DEF S

\* The history of a model lists the positions of its rows that have information, in order.
LEMMA HistoryListed ==
    ASSUME HistoryInv, NEW q
    PROVE  /\ HistoryOf(q) \in Seq(ToSet(HistoryOf(q)))
           /\ \A i, j \in DOMAIN HistoryOf(q) : i <= j => HistoryOf(q)[i] <= HistoryOf(q)[j]
           /\ ToSet(HistoryOf(q)) = {p \in DOMAIN snapshots : HasInformation(p) /\ q \in EventsAt(p)}
<1> DEFINE s == db.events
           N == Len(s)
           g == CHOOSE g : HistoryRun(g, q, N)
           C == {n \in 1..N : Told(q, s[n])}
           v == [n \in 1..N |-> s[n].position]
           list == HistoryOf(q)
<1>1. /\ N \in Nat /\ DOMAIN s = 1..N
      /\ \A i \in 1..N : s[i].position \in Int /\ s[i].position \in DOMAIN snapshots
      /\ \A i, j \in 1..N : i <= j => s[i].position <= s[j].position
  BY RowPositions
<1>2. HistoryRun(g, q, N)
  BY <1>1, HistoryRunExists
<1>3. list = g[N]
  BY DEF HistoryOf, HistoryRun, Told
<1> HIDE DEF g, list
<1>4. Turning(g, C, v, N)
  <2>1. g[0] = <<>>
    BY <1>1, <1>2 DEF HistoryRun
  <2>2. ASSUME NEW n \in 1..N
        PROVE  g[n] = IF n \in C THEN Append(g[n - 1], v[n]) ELSE g[n - 1]
    <3>1. g[n] = IF Told(q, s[n]) THEN Append(g[n - 1], s[n].position) ELSE g[n - 1]
      <4>1. n \in 0..N /\ n # 0
        BY <1>1
      <4> HIDE DEF N
      <4> QED
        BY <1>2, <4>1 DEF HistoryRun
    <3>2. (n \in C <=> Told(q, s[n])) /\ v[n] = s[n].position
      OBVIOUS
    <3> HIDE DEF C, v
    <3> QED
      BY <3>1, <3>2
  <2> HIDE DEF C, v
  <2> QED
    BY <2>1, <2>2 DEF Turning
<1>5. ListedIn(list, C, v, N)
  <2> HIDE DEF C, v, N
  <2> QED
    BY <1>1, <1>3, <1>4, AllListed
<1>6. /\ \A n \in C : n \in 1..N /\ Told(q, s[n])
      /\ \A n \in 1..N : Told(q, s[n]) => n \in C
      /\ \A n \in 1..N : v[n] = s[n].position
  OBVIOUS
<1> HIDE DEF C, v, s, N
<1>7. list \in Seq(ToSet(list))
  BY <1>5 DEF ListedIn
<1>8. ASSUME NEW i \in DOMAIN list, NEW j \in DOMAIN list, i <= j
      PROVE  list[i] <= list[j]
  <2>1. PICK m \in C, k \in C : /\ m <= k /\ m \in 1..N /\ k \in 1..N
                                /\ list[i] = v[m] /\ list[j] = v[k]
    BY <1>5, <1>8 DEF ListedIn
  <2> QED
    BY <1>1, <1>6, <2>1
<1>9. ASSUME NEW p \in ToSet(list)
      PROVE  p \in DOMAIN snapshots /\ HasInformation(p) /\ q \in EventsAt(p)
  <2>1. PICK i \in DOMAIN list : p = list[i]
    BY DEF ToSet
  <2>2. i <= i
    BY <1>7
  <2>3. PICK m \in C : list[i] = v[m]
    BY <1>5, <2>1, <2>2 DEF ListedIn
  <2>4. m \in 1..N /\ Told(q, s[m]) /\ p = s[m].position
    BY <1>6, <2>1, <2>3
  <2> QED
    BY <1>1, <2>4 DEF Told, EventsAt, s
<1>10. ASSUME NEW p \in DOMAIN snapshots, HasInformation(p), q \in EventsAt(p)
       PROVE  p \in ToSet(list)
  <2>1. PICK m \in 1..N : s[m].fqid = q /\ s[m].position = p
    BY <1>1, <1>10 DEF EventsAt, s
  <2>2. m \in C /\ v[m] = p
    BY <1>6, <1>10, <2>1 DEF Told
  <2>3. PICK i \in DOMAIN list : list[i] = p
    BY <1>5, <2>2, <2>1 DEF ListedIn
  <2> QED
    BY <2>3 DEF ToSet
<1>11. ToSet(list) = {p \in DOMAIN snapshots : HasInformation(p) /\ q \in EventsAt(p)}
  BY <1>9, <1>10
<1> QED
  BY <1>7, <1>8, <1>11 DEF list

\* get_history_information and get_history_positions tell the same, and what the models say.
LEMMA HistoryAgrees ==
    ASSUME HistoryInv
    PROVE  HistoryNamesWrites
<1> DEFINE all == HistoryPositions(0, 0)
           fqids == UNION {WrittenAt(p) : p \in DOMAIN snapshots}
           ofModels == HistoryInformation(fqids)
           informed == {r \in DOMAIN snapshots : HasInformation(r)}
<1>1. /\ DOMAIN snapshots = DOMAIN db.positions
      /\ \A p \in DOMAIN snapshots : p \in Nat
  BY RowPositions
<1>2. \A p \in DOMAIN snapshots : WrittenAt(p) = EventsAt(p)
  BY WrittenByEvents
<1>3. \A from, to \in Nat : HistoryPositions(from, to) =
         [p \in {r \in informed : r >= from /\ (to # 0 => r < to)} |-> EventsAt(p)]
  BY <1>1 DEF HistoryPositions, EventsAt
<1>4. all = [p \in informed |-> EventsAt(p)]
  <2>1. {r \in informed : r >= 0 /\ (0 # 0 => r < 0)} = informed
    BY <1>1
  <2>2. 0 \in Nat
    OBVIOUS
  <2> HIDE DEF informed, all
  <2>3. all = [p \in {r \in informed : r >= 0 /\ (0 # 0 => r < 0)} |-> EventsAt(p)]
    BY <1>3, <2>2 DEF all
  <2> QED
    BY <2>1, <2>3
<1>5. \A p \in informed : p \in DOMAIN snapshots /\ HasInformation(p)
  OBVIOUS
<1>6. \A p \in DOMAIN snapshots : HasInformation(p) => p \in informed
  OBVIOUS
<1>7. \A q : q \in fqids <=> \E p \in DOMAIN snapshots : q \in WrittenAt(p)
  OBVIOUS
<1> HIDE DEF all, fqids, informed
<1>8. /\ DOMAIN all = informed /\ \A p \in informed : all[p] = EventsAt(p)
      /\ all = [p \in informed |-> WrittenAt(p)]
  BY <1>2, <1>4, <1>5
<1>9. ASSUME NEW from \in 0..db.position_seq, NEW to \in 0..db.position_seq
      PROVE  HistoryPositions(from, to)
                = Restrict(all, {p \in DOMAIN all : p >= from /\ (to # 0 => p < to)})
  <2>1. from \in Nat /\ to \in Nat
    OBVIOUS
  <2> DEFINE part == {p \in informed : p >= from /\ (to # 0 => p < to)}
  <2>2. HistoryPositions(from, to) = [p \in part |-> EventsAt(p)]
    BY <1>3, <2>1
  <2>3. \A p \in part : all[p] = EventsAt(p)
    BY <1>8
  <2> HIDE DEF part
  <2>4. Restrict(all, part) = [p \in part |-> EventsAt(p)]
    BY <2>3 DEF Restrict
  <2> QED
    BY <1>8, <2>2, <2>4 DEF part
<1>10. /\ DOMAIN ofModels = {r \in fqids : HistoryOf(r) # <<>>}
       /\ \A q \in DOMAIN ofModels : ofModels[q] = HistoryOf(q)
  BY DEF HistoryInformation
<1> HIDE DEF ofModels
<1>11. ASSUME NEW q \in DOMAIN ofModels
       PROVE  \A i, j \in DOMAIN ofModels[q] : i <= j => ofModels[q][i] <= ofModels[q][j]
  <2>1. ofModels[q] = HistoryOf(q)
    BY <1>10
  <2>2. \A i, j \in DOMAIN HistoryOf(q) : i <= j => HistoryOf(q)[i] <= HistoryOf(q)[j]
    BY HistoryListed
  <2> QED
    BY <2>1, <2>2
<1>12. ASSUME NEW q \in (UNION Range(all)) \cup DOMAIN ofModels
       PROVE  ToSet(ofModels[q]) = {p \in DOMAIN all : q \in all[p]}
  <2> DEFINE told == {p \in DOMAIN snapshots : HasInformation(p) /\ q \in EventsAt(p)}
  <2>1. ToSet(HistoryOf(q)) = told
    BY HistoryListed
  <2>2. told = {p \in DOMAIN all : q \in all[p]}
    BY <1>5, <1>6, <1>8
  <2>3. q \in DOMAIN ofModels
    <3>1. CASE q \in UNION Range(all)
      <4>1. PICK p \in DOMAIN all : q \in all[p]
        BY <3>1 DEF Range
      <4>2. p \in told
        BY <1>5, <1>8, <4>1
      <4>3. q \in fqids
        BY <1>2, <1>7, <4>2
      <4> HIDE DEF told
      <4>4. HistoryOf(q) # <<>>
        <5>1. ToSet(<<>>) = {}
          BY DEF ToSet
        <5> QED
          BY <2>1, <4>2, <5>1
      <4> QED
        BY <1>10, <4>3, <4>4
    <3> QED
      BY <3>1
  <2> HIDE DEF told
  <2> QED
    BY <1>10, <2>1, <2>2, <2>3
<1>13. all \in {HistoryPositions(0, 0)}
  BY DEF all
<1>14. all = [p \in {r \in DOMAIN snapshots : HasInformation(r)} |-> WrittenAt(p)]
  BY <1>8 DEF informed
<1> QED
  BY <1>9, <1>11, <1>12, <1>13, <1>14 DEF HistoryNamesWrites, ofModels, fqids

\* get and get_many at any position, those of rejected writes and future ones included,
\* answer what the models table answered when it was as the position left it, for every
\* request for models with history, every treatment of deleted models and every list of
\* writes, and the history names the models and positions that were written: the two
\* programs of the reader service agree, the deleted status that the SQL query takes from
\* the last row of the newest deciding position included.
THEOREM ReadsAtPositionsAgreeHolds == Spec => []ReadsAtPositionsAgree
<1>1. HistoryInv => ReadsAtPositionsAgree
  <2> SUFFICES ASSUME HistoryInv PROVE ReadsAtPositionsAgree
    OBVIOUS
  <2>1. HistoryNamesWrites
    BY HistoryAgrees
  <2>2. ASSUME NEW position \in 1..(db.position_seq + 1), NEW behaviour \in DeletedModelsBehaviour,
               NEW parts \in ReadRequests, OfHistory(parts)
        PROVE  LET perFqid == BuildMappedFields(parts)
                   then == ModelsAt(position)
               IN  /\ GetManyAt(perFqid, position, behaviour).models
                         = GetMany(then, perFqid, behaviour)
                   /\ \A q \in DOMAIN perFqid :
                         GetAt(q, perFqid[q], position, behaviour)
                            = Get(then, q, perFqid[q], behaviour)
    <3> DEFINE perFqid == BuildMappedFields(parts)
               then == ModelsAt(position)
    <3>1. \A q \in DOMAIN perFqid : HasHistory(q)
      BY <2>2 DEF BuildMappedFields, OfHistory
    <3>2. position \in Int
      BY RowPositions
    <3> HIDE DEF perFqid, then
    <3>3. \A q \in DOMAIN perFqid : FoundAs(q, position, then)
      BY <3>1, <3>2, FoundAtAny DEF then
    <3>4. GetManyAt(perFqid, position, behaviour).models = GetMany(then, perFqid, behaviour)
      BY <3>3, ManyAgree
    <3>5. \A q \in DOMAIN perFqid :
             GetAt(q, perFqid[q], position, behaviour) = Get(then, q, perFqid[q], behaviour)
      BY <3>3, OneAgrees
    <3> QED
      BY <3>4, <3>5 DEF perFqid, then
  <2> QED
    BY <2>1, <2>2 DEF ReadsAtPositionsAgree
<1> QED
  BY <1>1, HistoryInvariant, PTL

-----------------------------------------------------------------------------
(* Export and import                                                        *)

\* A finite set as a list: every element, and once.
LEMMA SetAsList ==
    ASSUME NEW S, IsFiniteSet(S)
    PROVE  LET f == SetToSeq(S)
               N == Cardinality(S)
           IN  /\ N \in Nat /\ f \in [1..N -> S]
               /\ \A i, j \in 1..N : f[i] = f[j] => i = j
               /\ \A q \in S : \E i \in 1..N : f[i] = q
<1> DEFINE N == Cardinality(S)
           f == SetToSeq(S)
<1>1. N \in Nat /\ ExistsBijection(1..N, S)
  BY FS_CardinalityType
<1>2. PICK g : g \in Bijection(1..N, S)
  BY <1>1 DEF ExistsBijection
<1>3. g \in [1..N -> S] /\ IsInjective(g)
  BY <1>2 DEF Bijection, Injection, IsInjective
<1>4. f \in [1..N -> S] /\ IsInjective(f)
  BY <1>3 DEF SetToSeq
<1> HIDE DEF f
<1>5. f \in Injection(1..N, S) /\ \A i, j \in 1..N : f[i] = f[j] => i = j
  BY <1>4 DEF Injection, IsInjective
<1>6. Cardinality(1..N) = Cardinality(S)
  <2>1. 1 \in Int /\ N \in Int /\ N >= 0
    BY <1>1
  <2>2. Cardinality(1..N) = IF 1 > N THEN 0 ELSE N - 1 + 1
    BY <2>1, FS_Interval
  <2> QED
    BY <2>1, <2>2
<1>7. f \in Surjection(1..N, S)
  <2> DEFINE I == 1..N
  <2>1. f \in Injection(I, S) /\ Cardinality(I) = Cardinality(S)
    BY <1>5, <1>6
  <2> HIDE DEF I, N
  <2>2. f \in Surjection(I, S)
    BY <2>1, FS_Injection
  <2> QED
    BY <2>2 DEF I
<1>8. \A q \in S : \E i \in 1..N : f[i] = q
  BY <1>7 DEF Surjection
<1> QED
  BY <1>1, <1>4, <1>5, <1>8 DEF f

\* The fields of a document that the constructor of the request keeps, and the model that
\* is stored with them.
Valued(fields) == [f \in {g \in DOMAIN fields : fields[g] # None} |-> fields[f]]
StoredModel(fields, position) ==
    With(With(Valued(fields), META_DELETED, FALSE), META_POSITION, position)

\* A model that is exported again has the values that were imported.
LEMMA KnownAgain ==
    ASSUME NEW fields, "id" \in DOMAIN fields, \A f \in DOMAIN fields : ~IsReserved(f),
           NEW id, fields["id"] = id, NEW position, NEW status
    PROVE  LET model == With(With(Valued(fields), META_DELETED, status), META_POSITION, position)
           IN  Known(Strip(With(model, "id", id))) = Known(fields)
<1> DEFINE valued == Valued(fields)
           model == With(With(valued, META_DELETED, status), META_POSITION, position)
           row == Strip(With(model, "id", id))
           R == {META_DELETED, META_POSITION}
<1>1. /\ "id" \notin R
      /\ \A f \in DOMAIN fields : f \notin R
      /\ \A f : IsReserved(f) <=> f \in R
  BY DEF IsReserved, META_DELETED, META_POSITION
<1>2. /\ DOMAIN valued = {f \in DOMAIN fields : fields[f] # None}
      /\ \A f \in DOMAIN valued : valued[f] = fields[f]
  BY DEF Valued
<1> HIDE DEF valued
<1>3. /\ DOMAIN model = DOMAIN valued \cup R
      /\ \A f \in DOMAIN valued : f \notin R => model[f] = valued[f]
  BY DEF With
<1> HIDE DEF model
<1>4. /\ DOMAIN row = (DOMAIN model \cup {"id"}) \ R
      /\ \A f \in DOMAIN row : row[f] = IF f = "id" THEN id ELSE model[f]
  BY DEF Strip, Omit, With
<1> HIDE DEF row
<1> DEFINE K == {f \in DOMAIN row : row[f] # None /\ ~IsReserved(f)}
           L == {f \in DOMAIN fields : fields[f] # None /\ ~IsReserved(f)}
<1> HIDE DEF R
<1>5. \A f \in DOMAIN row : f \in DOMAIN fields /\ row[f] = fields[f]
  BY <1>1, <1>2, <1>3, <1>4
<1>6. \A f \in DOMAIN fields : fields[f] # None => f \in DOMAIN row
  BY <1>1, <1>2, <1>3, <1>4
<1>7. K = L /\ \A f \in K : row[f] = fields[f]
  BY <1>5, <1>6
<1>8. Known(row) = [f \in K |-> row[f]] /\ Known(fields) = [f \in L |-> fields[f]]
  BY DEF Known
<1> HIDE DEF K, L
<1>9. Known(row) = Known(fields)
  BY <1>7, <1>8
<1> QED
  BY <1>9 DEF row, model, valued

\* The database events of an event that is translated into one.
LEMMA ApplyOne ==
    ASSUME NEW acc, NEW e, NEW position
    PROVE  ApplyDbEvents(acc, <<e>>, position) = ApplyDbEvent(acc, e, position)
<1> DEFINE es == <<e>>
           g == CHOOSE g : ApplyRun(g, acc, es, position, Len(es))
<1>1. Len(es) = 1 /\ es[1] = e
  OBVIOUS
<1>2. ApplyRun(g, acc, es, position, Len(es))
  BY <1>1, ApplyRunExists
<1>3. ApplyDbEvents(acc, es, position) = g[Len(es)]
  BY DEF ApplyDbEvents, ApplyRun
<1> HIDE DEF g, es
<1>4. g = [n \in 0..1 |-> IF n = 0 THEN acc ELSE ApplyDbEvent(g[n - 1], es[n], position)]
  BY <1>1, <1>2 DEF ApplyRun
<1>5. g[0] = acc
  BY <1>4
<1>6. g[1] = ApplyDbEvent(g[0], es[1], position)
  <2>1. 1 \in 0..1 /\ 1 # 0 /\ 1 - 1 = 0
    OBVIOUS
  <2> QED
    BY <1>4, <2>1
<1> QED
  BY <1>1, <1>3, <1>5, <1>6 DEF es

LoopFields == {"error", "models", "dbEvents", "modified"}

\* A create event of a model that is not there.
LEMMA CreateStep ==
    ASSUME NEW acc, DOMAIN acc = LoopFields, acc.error = "ok", NEW q, q \notin DOMAIN acc.models,
           NEW fields, NEW position
    PROVE  LET new == LoopStep(acc, CreateEvent(q, fields), position)
           IN  /\ DOMAIN new = LoopFields /\ new.error = "ok"
               /\ new.models = With(acc.models, q, StoredModel(fields, position))
<1> DEFINE event == CreateEvent(q, fields)
           valued == Valued(fields)
           e == DbCreateEvent(q, valued)
           t == Translate(event, acc.models)
           new == LoopStep(acc, event, position)
<1>1. event.type = "create" /\ event.fqid = q /\ event.fields = valued
  BY DEF CreateEvent, Valued
<1> HIDE DEF event, valued
<1>2. t = Translated(<<e>>)
  BY <1>1 DEF Translate, Exists
<1>3. t.error = "ok" /\ t.events = <<e>>
  BY <1>2 DEF Translated
<1>4. e.type = "create" /\ e.fqid = q /\ e.data.set = valued
  BY DEF DbCreateEvent, EventData
<1> HIDE DEF e, t
<1>5. new = ApplyDbEvents(acc, <<e>>, position)
  BY <1>3 DEF LoopStep, t
<1>6. new = ApplyDbEvent(acc, e, position)
  BY <1>5, ApplyOne
<1> HIDE DEF new
<1>7. /\ DOMAIN new = LoopFields /\ new.error = "ok"
      /\ new.models = ApplyEventToModels(e, acc.models, position)
  BY <1>6 DEF ApplyDbEvent, LoopFields
<1>8. ModifiedModel(e, acc.models) = With(valued, META_DELETED, FALSE)
  BY <1>4 DEF ModifiedModel
<1>9. ApplyEventToModels(e, acc.models, position) = With(acc.models, q, StoredModel(fields, position))
  BY <1>4, <1>8 DEF ApplyEventToModels, StoredModel, valued
<1> QED
  BY <1>7, <1>9 DEF new, event

\* The events that import_data_only.py sends for the models of a document, in some order.
CreateEvents(f, models, N) == [i \in 1..N |-> CreateEvent(f[i], models[f[i]])]

\* They are well formed: the exported models have no reserved fields.
LEMMA CreateEventsGood ==
    ASSUME NEW f, NEW models, NEW N \in Nat,
           \A i \in 1..N : /\ IdOf(f[i]) \in Nat
                           /\ \A x \in DOMAIN models[f[i]] : ~IsReserved(x)
    PROVE  LET events == CreateEvents(f, models, N)
           IN  GoodEvents(events) /\ Len(events) = N /\ DOMAIN events = 1..N
<1> DEFINE events == CreateEvents(f, models, N)
           V == ToSet(events)
<1>1. DOMAIN events = 1..N /\ \A i \in 1..N : events[i] = CreateEvent(f[i], models[f[i]])
  BY DEF CreateEvents
<1>2. events = [i \in 1..N |-> events[i]] /\ \A i \in 1..N : events[i] \in V
  BY <1>1 DEF CreateEvents, ToSet
<1>3. events \in Seq(V) /\ Len(events) = N
  <2> HIDE DEF events, V
  <2> QED
    BY <1>2
<1> HIDE DEF events
<1>4. ASSUME NEW i \in 1..N
      PROVE  /\ IdOf(events[i].fqid) \in Nat /\ events[i].type = "create"
             /\ ParseError(events[i]) = "ok"
  <2> DEFINE e == events[i]
             fields == models[f[i]]
  <2>1. /\ e.type = "create" /\ e.fqid = f[i]
        /\ DOMAIN e.fields \subseteq DOMAIN fields
        /\ DOMAIN e.add = {} /\ DOMAIN e.remove = {}
    <3> DEFINE q == f[i]
               valued == [x \in {y \in DOMAIN fields : fields[y] # None} |-> fields[x]]
    <3>1. e = CreateEvent(q, fields)
      BY <1>1
    <3>2. DOMAIN valued \subseteq DOMAIN fields /\ DOMAIN <<>> = {}
      OBVIOUS
    <3> HIDE DEF e, q
    <3>3. /\ e.type = "create" /\ e.fqid = q /\ e.fields = valued
          /\ e.add = <<>> /\ e.remove = <<>>
      BY <3>1 DEF CreateEvent, NoFields
    <3> HIDE DEF valued, fields
    <3> QED
      BY <3>2, <3>3 DEF q
  <2> HIDE DEF e
  <2>2. \A x \in AllKeys(e) : ~IsReserved(x)
    BY <2>1 DEF AllKeys
  <2>3. ParseError(e) = "ok"
    <3>1. e.type # "update" /\ ~ \E x \in AllKeys(e) : IsReserved(x)
      BY <2>1, <2>2
    <3> QED
      BY <3>1 DEF ParseError
  <2> QED
    BY <2>1, <2>3 DEF e
<1> QED
  BY <1>1, <1>3, <1>4 DEF GoodEvents, events

\* The loop of insert_events over them, in an empty database: no model is there twice.
LEMMA ImportLoop ==
    ASSUME NEW f, NEW models, NEW N \in Nat, \A i, j \in 1..N : f[i] = f[j] => i = j,
           NEW events, events = CreateEvents(f, models, N), Len(events) = N
    PROVE  LET loop == Loop(EmptyDb, events, 1)
           IN  /\ loop.error = "ok"
               /\ \A q : q \in DOMAIN loop.models <=> \E i \in 1..N : f[i] = q
               /\ \A i \in 1..N : loop.models[f[i]] = StoredModel(models[f[i]], 1)
<1> DEFINE g == CHOOSE g : LoopRun(g, EmptyDb, events, 1, N)
<1>1. LoopRun(g, EmptyDb, events, 1, N)
  BY LoopRunExists
<1>2. Loop(EmptyDb, events, 1) = g[N]
  BY DEF Loop, LoopRun
<1> HIDE DEF g
<1> DEFINE Ok(n) == /\ DOMAIN g[n] = LoopFields /\ g[n].error = "ok"
                    /\ \A q : q \in DOMAIN g[n].models <=> \E i \in 1..n : f[i] = q
                    /\ \A i \in 1..n : g[n].models[f[i]] = StoredModel(models[f[i]], 1)
           S == {n \in 0..N : Ok(n)}
<1>3. Ok(0)
  <2>1. g[0] = LoopStart(EmptyDb, events)
    BY <1>1 DEF LoopRun
  <2>2. EmptyDb.models = <<>> /\ DOMAIN <<>> = {}
    BY DEF EmptyDb
  <2>3. DOMAIN g[0] = LoopFields /\ g[0].error = "ok" /\ DOMAIN g[0].models = {}
    BY <2>1, <2>2 DEF LoopStart, LoopFields
  <2> QED
    BY <2>3
<1>4. ASSUME NEW n \in 1..N, Ok(n - 1) PROVE Ok(n)
  <2> DEFINE a == g[n - 1]
             b == g[n]
             q == f[n]
             fields == models[q]
             m == StoredModel(fields, 1)
  <2>1. /\ b = LoopStep(a, CreateEvent(q, fields), 1)
        /\ n - 1 \in 0..N /\ \A i \in 1..n : i \in 1..(n - 1) \/ i = n
        /\ \A i \in 1..(n - 1) : i \in 1..n /\ i \in 1..N /\ i # n
    BY <1>1 DEF LoopRun, CreateEvents
  <2>2. /\ DOMAIN a = LoopFields /\ a.error = "ok"
        /\ \A r : r \in DOMAIN a.models <=> \E i \in 1..(n - 1) : f[i] = r
        /\ \A i \in 1..(n - 1) : a.models[f[i]] = StoredModel(models[f[i]], 1)
    BY <1>4
  <2>3. q \notin DOMAIN a.models
    BY <2>1, <2>2
  <2> HIDE DEF a, b
  <2>4. DOMAIN b = LoopFields /\ b.error = "ok" /\ b.models = With(a.models, q, m)
    BY <2>1, <2>2, <2>3, CreateStep
  <2> HIDE DEF m
  <2>5. /\ DOMAIN b.models = DOMAIN a.models \cup {q} /\ b.models[q] = m
        /\ \A r \in DOMAIN a.models : r # q => b.models[r] = a.models[r]
    BY <2>4 DEF With
  <2>6. \A r : r \in DOMAIN b.models <=> \E i \in 1..n : f[i] = r
    BY <2>1, <2>2, <2>5
  <2>7. ASSUME NEW i \in 1..n PROVE b.models[f[i]] = StoredModel(models[f[i]], 1)
    <3>1. CASE i = n
      BY <2>5, <3>1 DEF m
    <3>2. CASE i # n
      <4>1. i \in 1..(n - 1) /\ f[i] # q
        BY <2>1, <3>2
      <4>2. f[i] \in DOMAIN a.models
        BY <2>2, <4>1
      <4> QED
        BY <2>2, <2>5, <4>1, <4>2
    <3> QED
      BY <3>1, <3>2
  <2> QED
    BY <2>4, <2>6, <2>7 DEF b
<1> HIDE DEF Ok
<1>5. 0 \in S /\ \A n \in 1..N : n - 1 \in S => n \in S
  BY <1>3, <1>4
<1>6. Ok(N)
  <2>1. \A n \in 0..N : n \in S
    <3> HIDE DEF S
    <3> QED
      BY <1>5, Turns
  <2> QED
    BY <2>1
<1> QED
  BY <1>2, <1>6 DEF Ok

\* A call with one request.
LEMMA OneRequest ==
    ASSUME NEW d, NEW request
    PROVE  WriteTransaction(d, <<request>>) = WriteNext(StartOf(d), request)
<1> DEFINE requests == <<request>>
           g == CHOOSE g : WriteRun(g, d, requests, Len(requests))
<1>1. Len(requests) = 1 /\ requests[1] = request
  OBVIOUS
<1>2. WriteRun(g, d, requests, Len(requests))
  BY <1>1, WriteRunExists
<1>3. WriteTransaction(d, requests) = g[Len(requests)]
  BY DEF WriteTransaction, WriteRun, StartOf
<1> HIDE DEF g, requests
<1>4. g = [n \in 0..1 |-> IF n = 0 THEN StartOf(d) ELSE WriteNext(g[n - 1], requests[n])]
  BY <1>1, <1>2 DEF WriteRun
<1>5. g[0] = StartOf(d)
  BY <1>4
<1>6. g[1] = WriteNext(g[0], requests[1])
  <2>1. 1 \in 0..1 /\ 1 # 0 /\ 1 - 1 = 0
    OBVIOUS
  <2> QED
    BY <1>4, <2>1
<1> QED
  BY <1>1, <1>3, <1>5, <1>6 DEF requests

\* The request of an import.
ImportRequest(events, index) ==
    [events |-> events, information |-> None, migration_index |-> index,
     locked_fqids |-> <<>>, locked_fqfields |-> <<>>, locked_collectionfields |-> <<>>]

\* It is refused for nothing but a lack of events.
LEMMA ImportAccepted ==
    ASSUME NEW events, GoodEvents(events), NEW index \in Int
    PROVE  LET request == ImportRequest(events, index)
           IN  /\ WellFormed(request) <=> events # <<>>
               /\ MigrationIndexError(EmptyDb, request) = "ok"
               /\ LocksHold(EmptyDb, request) /\ request.events = events
               /\ request.migration_index = index /\ index # None
<1> DEFINE request == ImportRequest(events, index)
<1>1. /\ request.events = events /\ request.migration_index = index
      /\ request.locked_fqids = <<>> /\ request.locked_fqfields = <<>>
      /\ request.locked_collectionfields = <<>>
  BY DEF ImportRequest
<1>2. DOMAIN <<>> = {} /\ EmptyDb.positions = <<>> /\ index # None
  BY ValueAssumption DEF EmptyDb
<1> HIDE DEF request
<1>3. WellFormed(request) <=> events # <<>>
  BY <1>1, <1>2 DEF WellFormed, GoodEvents
<1>4. MigrationIndexError(EmptyDb, request) = "ok"
  BY <1>1, <1>2 DEF MigrationIndexError
<1>5. GetLockedFqids(EmptyDb, request.locked_fqids) = {}
  BY <1>1, <1>2 DEF GetLockedFqids
<1>6. GetLockedFqfields(EmptyDb, request.locked_fqfields) = {}
  BY <1>1, <1>2 DEF GetLockedFqfields
<1>7. GetLockedCollectionfields(EmptyDb, request.locked_collectionfields) = {}
  BY <1>1, <1>2 DEF GetLockedCollectionfields
<1> QED
  BY <1>1, <1>2, <1>3, <1>4, <1>5, <1>6, <1>7 DEF LocksHold, request

\* The tables after the import of the loop's events.
LEMMA ImportTables ==
    ASSUME NEW events, GoodEvents(events), events # <<>>, NEW index \in Int,
           NEW loop, loop = Loop(EmptyDb, events, 1), loop.error = "ok"
    PROVE  LET t == WriteTransaction(EmptyDb, <<ImportRequest(events, index)>>)
           IN  /\ t.error = "ok" /\ t.db.models = Over(loop.models, <<>>)
               /\ MigrationIndices(t.db) = {index}
               /\ t.db.id_sequences = UpdateIdSequences(<<>>, loop.dbEvents)
<1> DEFINE d == EmptyDb
           request == ImportRequest(events, index)
           drawn == [d EXCEPT !.position_seq = 1]
           e == StoreEvents(drawn, 1, index, request, loop)
           t == WriteTransaction(d, <<request>>)
           start == StartOf(d)
           r == WriteWithDatabaseContext(d, request)
<1>1. /\ MigrationIndexError(d, request) = "ok" /\ LocksHold(d, request)
      /\ request.events = events /\ request.migration_index = index /\ index # None
  BY ImportAccepted
<1>2. d.position_seq + 1 = 1
  BY DEF EmptyDb
<1> HIDE DEF d, request
<1>3. r = InsertEvents(d, index, request)
  BY <1>1 DEF WriteWithDatabaseContext
<1>4. loop = Loop(d, request.events, d.position_seq + 1)
  BY <1>1, <1>2 DEF d
<1>5. r.error = "ok" /\ r.db = e
  <2> HIDE DEF e, r
  <2> QED
    BY <1>2, <1>3, <1>4 DEF InsertEvents, e
<1>6. t = WriteNext(start, request)
  BY OneRequest
<1>7. start.error = "ok" /\ start.db = d
  BY DEF StartOf
<1> HIDE DEF start, t
<1>8. t.error = r.error /\ t.db = r.db
  BY <1>6, <1>7 DEF WriteNext
<1>9. /\ DOMAIN drawn = Tables /\ drawn.positions = <<>> /\ drawn.models = <<>>
      /\ drawn.id_sequences = <<>>
  BY DEF d, EmptyDb, Tables
<1> HIDE DEF drawn, r
<1> DEFINE row == [migration_index |-> index, information |-> request.information]
<1>10. /\ e.positions = With(<<>>, 1, row) /\ e.models = Over(loop.models, <<>>)
       /\ e.id_sequences = UpdateIdSequences(<<>>, loop.dbEvents)
  BY <1>9 DEF StoreEvents, Tables
<1> HIDE DEF e
<1>11. MigrationIndices(e) = {index}
  <2>1. row.migration_index = index /\ DOMAIN <<>> = {}
    OBVIOUS
  <2> HIDE DEF row
  <2>2. DOMAIN e.positions = {1} /\ e.positions[1] = row
    BY <1>10, <2>1 DEF With
  <2> QED
    BY <2>1, <2>2 DEF MigrationIndices
<1> QED
  BY <1>5, <1>8, <1>10, <1>11 DEF t, d, request

\* What import_data_only.py stores of a document.
LEMMA ImportStores ==
    ASSUME NEW document, IsFiniteSet(DOMAIN document.models), document.migration_index \in Int,
           \A q \in DOMAIN document.models :
               /\ IdOf(q) \in Nat
               /\ \A x \in DOMAIN document.models[q] : ~IsReserved(x)
    PROVE  LET imported == Import(document)
               models == document.models
           IN  /\ imported.error = "ok" <=> DOMAIN models # {}
               /\ imported.error = "ok" =>
                     /\ DOMAIN imported.db.models = DOMAIN models
                     /\ \A q \in DOMAIN models :
                           /\ imported.db.models[q] = StoredModel(models[q], 1)
                           /\ IdOf(q) < imported.db.id_sequences[CollectionOf(q)]
                     /\ MigrationIndices(imported.db) = {document.migration_index}
<1> DEFINE models == document.models
           index == document.migration_index
           S == DOMAIN models
           f == SetToSeq(S)
           N == Cardinality(S)
           events == CreateEvents(f, models, N)
           request == ImportRequest(events, index)
           t == WriteTransaction(EmptyDb, <<request>>)
           imported == Import(document)
<1>1. /\ N \in Nat /\ f \in [1..N -> S]
      /\ \A i, j \in 1..N : f[i] = f[j] => i = j
      /\ \A q \in S : \E i \in 1..N : f[i] = q
  <2> HIDE DEF S
  <2>1. IsFiniteSet(S)
    BY DEF S
  <2> QED
    BY <2>1, SetAsList
<1>2. imported = IF ~WellFormed(request) THEN [error |-> "InvalidFormat", db |-> EmptyDb]
                 ELSE [error |-> t.error, db |-> t.db]
  <2>1. DOMAIN f = 1..N
    BY <1>1
  <2>2. [i \in DOMAIN f |-> CreateEvent(f[i], models[f[i]])] = events
    BY <2>1 DEF CreateEvents
  <2> HIDE DEF t
  <2> QED
    BY <2>2 DEF Import, ImportRequest, t
<1> HIDE DEF imported, f
<1>3. \A i \in 1..N : /\ f[i] \in S /\ IdOf(f[i]) \in Nat
                      /\ \A x \in DOMAIN models[f[i]] : ~IsReserved(x)
  BY <1>1
<1> HIDE DEF S, N, models, index
<1>4. GoodEvents(events) /\ Len(events) = N /\ DOMAIN events = 1..N
  BY <1>1, <1>3, CreateEventsGood
<1>5. index \in Int
  BY DEF index
<1> DEFINE loop == Loop(EmptyDb, events, 1)
<1>6. \A i \in 1..N : events[i].fqid = f[i]
  BY DEF CreateEvents, CreateEvent
<1>7. events = CreateEvents(f, models, N)
  OBVIOUS
<1> HIDE DEF events
<1>8. /\ loop.error = "ok"
      /\ \A q : q \in DOMAIN loop.models <=> \E i \in 1..N : f[i] = q
      /\ \A i \in 1..N : loop.models[f[i]] = StoredModel(models[f[i]], 1)
  BY <1>1, <1>4, <1>7, ImportLoop
<1>9. LoopInv(loop, EmptyDb, events)
  BY <1>4, EmptyKeeps, LoopKeeps DEF TableInv
<1>10. WellFormed(request) <=> events # <<>>
  BY <1>4, <1>5, ImportAccepted
<1>11. events # <<>> <=> S # {}
  <2>1. events = <<>> <=> N = 0
    BY <1>1, <1>4 DEF GoodEvents
  <2>2. N = 0 <=> S = {}
    BY <1>1
  <2> QED
    BY <2>1, <2>2
<1>12. CASE S = {}
  <2>1. imported.error = "InvalidFormat"
    BY <1>2, <1>10, <1>11, <1>12
  <2> QED
    BY <1>12, <2>1 DEF imported, S, models
<1>13. CASE S # {}
  <2> HIDE DEF t, request
  <2>1. imported.error = t.error /\ imported.db = t.db
    BY <1>2, <1>10, <1>11, <1>13
  <2>2. loop = Loop(EmptyDb, events, 1) /\ loop.error = "ok" /\ events # <<>>
    BY <1>8, <1>11, <1>13
  <2> HIDE DEF loop
  <2>3. /\ t.error = "ok" /\ t.db.models = Over(loop.models, <<>>)
        /\ MigrationIndices(t.db) = {index}
        /\ t.db.id_sequences = UpdateIdSequences(<<>>, loop.dbEvents)
    <3>1. GoodEvents(events)
      BY <1>4
    <3> QED
      BY <1>5, <2>2, <3>1, ImportTables DEF t, request
  <2>4. \A q : q \in DOMAIN loop.models <=> q \in S
    BY <1>1, <1>3, <1>8
  <2>5. DOMAIN t.db.models = S /\ \A q \in S : t.db.models[q] = loop.models[q]
    <3>1. DOMAIN <<>> = {}
      OBVIOUS
    <3> QED
      BY <2>3, <2>4, <3>1 DEF Over
  <2>6. ASSUME NEW q \in S
        PROVE  /\ t.db.models[q] = StoredModel(models[q], 1)
               /\ IdOf(q) < t.db.id_sequences[CollectionOf(q)]
    <3> DEFINE es == loop.dbEvents
               none == <<>>
               new == UpdateIdSequences(none, es)
    <3>1. PICK i \in 1..N : f[i] = q
      BY <1>1
    <3>2. t.db.models[q] = StoredModel(models[q], 1)
      BY <1>8, <2>5, <3>1
    <3>3. q \in DOMAIN loop.models /\ EmptyDb.models = <<>> /\ DOMAIN <<>> = {}
      BY <2>4 DEF EmptyDb
    <3>4. PICK k \in DOMAIN es : es[k].type = "create" /\ es[k].fqid = q
      BY <1>9, <3>3 DEF LoopInv
    <3>5. es \in Seq(ToSet(es)) /\ \A j \in DOMAIN es : IdOf(es[j].fqid) \in Nat
      BY <1>9, <1>4 DEF LoopInv, GoodEvents
    <3>6. \A c \in DOMAIN none : none[c] \in Int
      BY <3>3
    <3> HIDE DEF es, none
    <3>7. \A j \in DOMAIN es : es[j].type = "create" =>
             /\ CollectionOf(es[j].fqid) \in DOMAIN new
             /\ IdOf(es[j].fqid) < new[CollectionOf(es[j].fqid)]
      BY <3>5, <3>6, UpdateIdSequencesFacts
    <3>8. IdOf(q) < new[CollectionOf(q)]
      BY <3>4, <3>7
    <3> QED
      BY <2>3, <3>2, <3>8 DEF none, es
  <2>7. /\ imported.error = "ok" /\ DOMAIN imported.db.models = S
        /\ \A q \in S : /\ imported.db.models[q] = StoredModel(models[q], 1)
                        /\ IdOf(q) < imported.db.id_sequences[CollectionOf(q)]
        /\ MigrationIndices(imported.db) = {index}
    BY <2>1, <2>3, <2>5, <2>6
  <2> QED
    BY <1>13, <2>7 DEF imported, S, models, index
<1> QED
  BY <1>12, <1>13

\* The live models, with their ids and without the meta fields.
LEMMA ExportedModels ==
    ASSUME NEW d
    PROVE  LET document == Export(d)
           IN  /\ document.migration_index = CurrentMigrationIndex(d)
               /\ DOMAIN document.models =
                     {q \in DOMAIN d.models : Wanted(d.models[q][META_DELETED], "NO_DELETED")}
               /\ \A q \in DOMAIN document.models :
                     document.models[q] = Strip(With(d.models[q], "id", IdOf(q)))
<1> DEFINE models == d.models
           live == {q \in DOMAIN models : Wanted(models[q][META_DELETED], "NO_DELETED")}
           all == GetEverything(models, "NO_DELETED")
<1>1. all = [q \in live |-> With(models[q], "id", IdOf(q))]
  BY DEF GetEverything
<1> HIDE DEF all, live
<1>2. DOMAIN all = live /\ \A q \in live : all[q] = With(models[q], "id", IdOf(q))
  BY <1>1
<1>3. DOMAIN StripAll(all) = live /\ \A q \in live : StripAll(all)[q] = Strip(all[q])
  BY <1>2 DEF StripAll
<1>4. Export(d).models = StripAll(all) /\ Export(d).migration_index = CurrentMigrationIndex(d)
  BY DEF Export, all
<1> QED
  BY <1>2, <1>3, <1>4 DEF live

\* The fields of such a row.
LEMMA StrippedRow ==
    ASSUME NEW model, NEW id
    PROVE  LET row == Strip(With(model, "id", id))
           IN  /\ "id" \in DOMAIN row /\ row["id"] = id
               /\ \A x \in DOMAIN row : ~IsReserved(x)
BY DEF Strip, Omit, With, IsReserved, META_DELETED, META_POSITION

\* A stored model is live.
LEMMA StoredIsWanted ==
    ASSUME NEW fields, NEW position
    PROVE  Wanted(StoredModel(fields, position)[META_DELETED], "NO_DELETED")
<1> DEFINE m == With(Valued(fields), META_DELETED, FALSE)
           w == With(m, META_POSITION, position)
<1>1. META_DELETED \in DOMAIN m /\ m[META_DELETED] = FALSE
  BY DEF With
<1> HIDE DEF m
<1>2. w[META_DELETED] = m[META_DELETED]
  BY <1>1 DEF With, META_DELETED, META_POSITION
<1>3. StoredModel(fields, position) = w
  BY DEF StoredModel, m
<1>4. StoredModel(fields, position)[META_DELETED] = FALSE
  BY <1>1, <1>2, <1>3
<1> QED
  BY <1>4 DEF Wanted

\* get_current_migration_index, where the positions have one index and where there are none.
LEMMA OneIndex ==
    ASSUME NEW d, NEW i \in Int, MigrationIndices(d) = {i}
    PROVE  CurrentMigrationIndex(d) = i
BY DEF CurrentMigrationIndex, Max

\* The index is a number.
LEMMA IndexIsNumber ==
    ASSUME NEW d, PositionInv(d)
    PROVE  CurrentMigrationIndex(d) \in Int
<1>1. CASE DOMAIN d.positions = {}
  BY <1>1 DEF CurrentMigrationIndex, MigrationIndices
<1>2. CASE DOMAIN d.positions # {}
  <2>1. PICK p \in DOMAIN d.positions : TRUE
    BY <1>2
  <2> DEFINE i == d.positions[p].migration_index
  <2>2. i \in Int /\ \A r \in DOMAIN d.positions : d.positions[r].migration_index = i
    BY DEF PositionInv
  <2>3. MigrationIndices(d) = {i}
    BY <2>2 DEF MigrationIndices
  <2> HIDE DEF i
  <2> QED
    BY <2>2, <2>3, OneIndex
<1> QED
  BY <1>1, <1>2

\* The second export of the values of the first.
LEMMA ExportedAgain ==
    ASSUME StoreInv, NEW document, document = Export(db), NEW imported, imported = Import(document),
           DOMAIN document.models # {}
    PROVE  /\ imported.error = "ok"
           /\ KnownAll(Export(imported.db).models) = KnownAll(document.models)
           /\ Export(imported.db).migration_index = document.migration_index
           /\ \A q \in DOMAIN document.models :
                 IdOf(q) < imported.db.id_sequences[CollectionOf(q)]
<1> DEFINE models == document.models
           S == DOMAIN models
           e == imported.db
           again == Export(e)
<1>1. /\ document.migration_index = CurrentMigrationIndex(db)
      /\ S \subseteq DOMAIN db.models
      /\ \A q \in S : models[q] = Strip(With(db.models[q], "id", IdOf(q)))
  BY ExportedModels
<1>2. /\ IsFiniteSet(S) /\ \A q \in S : IdOf(q) \in Nat
      /\ document.migration_index \in Int
  <2>1. KeyInv(db.models) /\ PositionInv(db)
    BY DEF StoreInv, TableInv
  <2>2. IsFiniteSet(S)
    BY <1>1, <2>1, FS_Subset DEF KeyInv
  <2>3. CurrentMigrationIndex(db) \in Int
    BY <2>1, IndexIsNumber
  <2> QED
    BY <1>1, <2>1, <2>2, <2>3 DEF KeyInv
<1>3. \A q \in S : /\ "id" \in DOMAIN models[q] /\ models[q]["id"] = IdOf(q)
                   /\ \A x \in DOMAIN models[q] : ~IsReserved(x)
  <2> SUFFICES ASSUME NEW q \in S
               PROVE  /\ "id" \in DOMAIN models[q] /\ models[q]["id"] = IdOf(q)
                      /\ \A x \in DOMAIN models[q] : ~IsReserved(x)
    OBVIOUS
  <2> DEFINE model == db.models[q]
             id == IdOf(q)
  <2>1. models[q] = Strip(With(model, "id", id))
    BY <1>1
  <2> HIDE DEF model, id
  <2> QED
    BY <2>1, StrippedRow DEF id
<1>4. \A q \in DOMAIN document.models :
          /\ IdOf(q) \in Nat
          /\ \A x \in DOMAIN document.models[q] : ~IsReserved(x)
  BY <1>2, <1>3
<1>5. /\ imported.error = "ok" /\ DOMAIN e.models = S
      /\ \A q \in S : /\ e.models[q] = StoredModel(models[q], 1)
                      /\ IdOf(q) < e.id_sequences[CollectionOf(q)]
      /\ MigrationIndices(e) = {document.migration_index}
  BY <1>2, <1>4, ImportStores
<1> HIDE DEF e
<1>6. again.migration_index = document.migration_index
  <2>1. again.migration_index = CurrentMigrationIndex(e)
    BY ExportedModels
  <2> QED
    BY <1>2, <1>5, <2>1, OneIndex
<1>7. /\ DOMAIN again.models =
            {q \in DOMAIN e.models : Wanted(e.models[q][META_DELETED], "NO_DELETED")}
      /\ \A q \in DOMAIN again.models :
            again.models[q] = Strip(With(e.models[q], "id", IdOf(q)))
  BY ExportedModels
<1> HIDE DEF S, models, again
<1>8. DOMAIN again.models = S
  <2>1. \A q \in S : Wanted(e.models[q][META_DELETED], "NO_DELETED")
    BY <1>5, StoredIsWanted
  <2> QED
    BY <1>5, <1>7, <2>1
<1>9. ASSUME NEW q \in S PROVE Known(again.models[q]) = Known(models[q])
  <2> DEFINE fields == models[q]
             id == IdOf(q)
             no == FALSE
  <2>1. /\ "id" \in DOMAIN fields /\ fields["id"] = id
        /\ \A x \in DOMAIN fields : ~IsReserved(x)
    BY <1>3
  <2>2. again.models[q] = Strip(With(StoredModel(fields, 1), "id", id))
    BY <1>5, <1>7, <1>8
  <2> HIDE DEF fields, id
  <2>3. StoredModel(fields, 1) = With(With(Valued(fields), META_DELETED, no), META_POSITION, 1)
    BY DEF StoredModel
  <2> HIDE DEF no
  <2>4. LET model == With(With(Valued(fields), META_DELETED, no), META_POSITION, 1)
        IN  Known(Strip(With(model, "id", id))) = Known(fields)
    BY <2>1, KnownAgain
  <2> QED
    BY <2>2, <2>3, <2>4 DEF fields
<1>10. KnownAll(again.models) = KnownAll(models)
  <2>1. DOMAIN models = S
    BY DEF S
  <2>2. /\ KnownAll(again.models) = [q \in S |-> Known(again.models[q])]
        /\ KnownAll(models) = [q \in S |-> Known(models[q])]
    BY <1>8, <2>1 DEF KnownAll
  <2> QED
    BY <1>9, <2>2
<1> QED
  BY <1>5, <1>6, <1>10 DEF S, models, again, e

\* Whatever was written, with or without history, for any requests and any values: an export
\* that has a model is imported without an error, exporting again gives the same values
\* under the same migration index, and reserve_ids hands out no id of an imported model.
\* Exported models have no reserved fields that the request would refuse, no model twice,
\* and a migration index that an empty database accepts.
THEOREM ImportRestoresHolds == Spec => []ImportRestores
<1>1. StoreInv => ImportRestores
  <2> SUFFICES ASSUME StoreInv PROVE ImportRestores
    OBVIOUS
  <2> DEFINE document == Export(db)
             imported == Import(document)
             again == Export(imported.db)
  <2>1. CASE DOMAIN document.models = {}
    <3>1. /\ IsFiniteSet(DOMAIN document.models) /\ document.migration_index \in Int
      <4>1. document.migration_index = CurrentMigrationIndex(db)
        BY ExportedModels
      <4>2. PositionInv(db)
        BY DEF StoreInv, TableInv
      <4> HIDE DEF document
      <4> QED
        BY <2>1, <4>1, <4>2, FS_EmptySet, IndexIsNumber
    <3> HIDE DEF document
    <3>2. imported.error # "ok"
      BY <2>1, <3>1, ImportStores
    <3> HIDE DEF imported
    <3> QED
      BY <2>1, <3>2 DEF ImportRestores, document, imported
  <2>2. CASE DOMAIN document.models # {}
    <3>1. document = Export(db) /\ imported = Import(document)
      OBVIOUS
    <3> HIDE DEF document
    <3> HIDE DEF imported
    <3>2. /\ imported.error = "ok" /\ KnownAll(again.models) = KnownAll(document.models)
          /\ again.migration_index = document.migration_index
          /\ \A q \in DOMAIN document.models :
                IdOf(q) < imported.db.id_sequences[CollectionOf(q)]
      BY <2>2, <3>1, ExportedAgain
    <3> HIDE DEF again
    <3> QED
      BY <2>2, <3>2 DEF ImportRestores, document, imported, again
  <2> QED
    BY <2>1, <2>2
<1> QED
  BY <1>1, StoreInvariant, PTL

=============================================================================
