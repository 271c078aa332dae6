------------------------ MODULE ConnectionPool_proofs ------------------------
(***************************************************************************)
(* The connection handler for any number of threads, connections and       *)
(* failures: the invariants of ConnectionPool and the facts about the      *)
(* handler that they rest on.                                              *)
(***************************************************************************)
EXTENDS ConnectionPool, FiniteSetTheorems, TLAPS

Pools == [open : BOOLEAN, idle : SUBSET Connections, used : SUBSET Connections]

Handlers == [pool : Pools, closed : SUBSET Connections,
             current : [Threads -> Connections \cup {None}], event : BOOLEAN]

\* What get_connection and put_connection keep of a handler h, as they follow each other
\* under sync_lock: idle connections are nobody's; no two threads hold the same connection;
\* what a thread holds is counted as used or is closed; what is counted as used is held.
Consistent(h) ==
    /\ h \in Handlers
    /\ ~h.pool.open => h.pool.idle = {} /\ h.pool.used = {}
    /\ h.pool.idle \cap Held(h) = {}
    /\ h.pool.used \subseteq Held(h)
    /\ h.closed \subseteq Held(h)
    /\ Held(h) \subseteq h.pool.used \cup h.closed
    /\ \A t, u \in Threads : h.current[t] = h.current[u] /\ t # u => h.current[t] = None
    /\ Cardinality(h.pool.idle) + Cardinality(h.pool.used) <= MaxConn

\* Used connections that no thread is at work with: what failed commits leave behind.
Stranded ==
    {c \in handler.pool.used : \E t \in Threads : handler.current[t] = c /\ pc[t] # "use"}

\* A thread at work has a connection.
UserHolds == \A t \in Threads : pc[t] = "use" => handler.current[t] # None

\* sync_event is cleared only when all connections are in use.
ClearedWhenExhausted ==
    ~handler.event /\ handler.pool.open => Cardinality(handler.pool.used) = MaxConn

FaultCounts == [outage : Nat, commit : Nat, connect : Nat, failover : Nat]

PoolInv ==
    /\ Consistent(handler)
    /\ pc \in [Threads -> {"out", "wait", "lock", "use"}]
    /\ UserHolds
    /\ faults \in FaultCounts
    /\ ClearedWhenExhausted
    /\ Cardinality(Stranded) <= faults.commit

-----------------------------------------------------------------------------
(* Counting                                                                 *)

\* The connections are finitely many, and sets of them can be counted.
LEMMA ConnectionsFinite ==
    /\ IsFiniteSet(Connections) /\ Cardinality(Connections) = 2 * MaxConn + Cardinality(Threads)
    /\ \A S \in SUBSET Connections : IsFiniteSet(S) /\ Cardinality(S) \in Nat
    /\ Cardinality(Threads) \in Nat /\ None \notin Connections
<1>1. Cardinality(Threads) \in Nat /\ MaxConn \in Nat /\ MaxConn > 0
  BY PoolAssumption, FS_CardinalityType
<1> DEFINE n == 2 * MaxConn + Cardinality(Threads)
<1>2. n \in Int /\ n > 0
  BY <1>1
<1> HIDE DEF n
<1>3. IsFiniteSet(1..n) /\ Cardinality(1..n) = n
  BY <1>2, FS_Interval
<1>4. \A S \in SUBSET (1..n) : IsFiniteSet(S) /\ Cardinality(S) \in Nat
  BY <1>3, FS_Subset, FS_CardinalityType
<1>5. Connections = 1..n
  BY DEF Connections, n
<1>6. None \notin 1..n
  BY DEF None
<1> QED
  BY <1>1, <1>3, <1>4, <1>5, <1>6 DEF n

\* A pool that is created holds at most the minimal number of connections.
LEMMA LowestCount ==
    ASSUME NEW S \in SUBSET Connections, NEW n \in Nat
    PROVE  Lowest(S, n) \subseteq S /\ Cardinality(Lowest(S, n)) <= n
<1> DEFINE below(c) == {d \in S : d < c}
           rank == [c \in Lowest(S, n) |-> Cardinality(below(c))]
<1>1. \A c \in S : IsFiniteSet(below(c)) /\ Cardinality(below(c)) \in Nat
  BY ConnectionsFinite
<1>2. \A c \in S : c \in Int
  BY DEF Connections
<1>3. \A c, d \in S : c < d => Cardinality(below(c)) < Cardinality(below(d))
  <2> SUFFICES ASSUME NEW c \in S, NEW d \in S, c < d
               PROVE  Cardinality(below(c)) < Cardinality(below(d))
    OBVIOUS
  <2>1. below(c) \subseteq below(d) /\ c \in below(d) /\ c \notin below(c)
    BY <1>2
  <2>2. IsFiniteSet(below(d)) /\ Cardinality(below(c)) \in Nat /\ Cardinality(below(d)) \in Nat
    BY <1>1
  <2> HIDE DEF below
  <2>3. /\ Cardinality(below(c)) <= Cardinality(below(d))
        /\ Cardinality(below(d)) = Cardinality(below(c)) => below(d) = below(c)
    BY <2>1, <2>2, FS_Subset
  <2> QED
    BY <2>1, <2>2, <2>3
<1>4. \A c \in Lowest(S, n) : c \in S /\ Cardinality(below(c)) < n
  BY DEF Lowest
<1> HIDE DEF below
<1>5. rank \in [Lowest(S, n) -> 0..(n - 1)]
  BY <1>1, <1>4
<1>6. \A c, d \in Lowest(S, n) : rank[c] = rank[d] => c = d
  <2> SUFFICES ASSUME NEW c \in Lowest(S, n), NEW d \in Lowest(S, n), rank[c] = rank[d]
               PROVE  c = d
    OBVIOUS
  <2>1. Cardinality(below(c)) = Cardinality(below(d)) /\ Cardinality(below(c)) \in Nat
    BY <1>1, <1>4
  <2>2. ~(c < d) /\ ~(d < c)
    BY <1>3, <1>4, <2>1
  <2> QED
    BY <1>2, <1>4, <2>2
<1>7. rank \in Injection(Lowest(S, n), 0..(n - 1))
  BY <1>5, <1>6 DEF Injection, IsInjective
<1>8. IsFiniteSet(0..(n - 1)) /\ Cardinality(0..(n - 1)) = n
  BY FS_Interval
<1> HIDE DEF rank
<1>9. Cardinality(Lowest(S, n)) <= n
  BY <1>7, <1>8, FS_Injection
<1> QED
  BY <1>4, <1>9

\* There is always a connection that the pool can open: threads hold fewer than there are.
LEMMA SomeUnused ==
    ASSUME NEW h, Consistent(h), h.pool.idle = {}
    PROVE  Unused(h) # {}
<1> DEFINE all == {h.current[t] : t \in Threads}
           f == [t \in Threads |-> h.current[t]]
<1>1. f \in Surjection(Threads, all)
  BY DEF Surjection
<1> HIDE DEF f
<1>2. IsFiniteSet(all) /\ Cardinality(all) <= Cardinality(Threads)
  BY <1>1, PoolAssumption, FS_Surjection
<1>3. Held(h) \subseteq all
  BY DEF Held
<1> HIDE DEF all
<1>4. Cardinality(Held(h)) <= Cardinality(all) /\ IsFiniteSet(Held(h))
  BY <1>2, <1>3, FS_Subset
<1>5. Cardinality(all) \in Nat /\ Cardinality(Held(h)) \in Nat
  BY <1>2, <1>4, FS_CardinalityType
<1>6. Cardinality(Held(h)) < Cardinality(Connections)
  <2>1. MaxConn \in Nat /\ MaxConn > 0 /\ Cardinality(Threads) \in Nat
    BY ConnectionsFinite, PoolAssumption
  <2> QED
    BY <1>2, <1>4, <1>5, <2>1, ConnectionsFinite
<1>7. Held(h) # Connections
  BY <1>5, <1>6
<1>8. Held(h) \subseteq Connections
  BY DEF Held, Consistent, Handlers
<1>9. Unused(h) = Connections \ Held(h)
  BY DEF Consistent, Unused
<1> QED
  BY <1>7, <1>8, <1>9

-----------------------------------------------------------------------------
(* The operations of the handler                                            *)

\* create_connection_pool
LEMMA CreateKeeps ==
    ASSUME NEW h, Consistent(h), ~h.pool.open
    PROVE  LET r == CreateConnectionPool(h)
           IN  /\ Consistent(r) /\ r.pool.open /\ r.pool.used = {}
               /\ r.current = h.current /\ r.closed = h.closed /\ r.event = h.event
<1> DEFINE r == CreateConnectionPool(h)
           idle == Lowest(Unused(h), MinConn)
<1>1. h \in Handlers
  BY DEF Consistent
<1>2. Unused(h) \in SUBSET Connections /\ MinConn \in Nat
  BY PoolAssumption DEF Unused
<1>3. idle \subseteq Unused(h) /\ Cardinality(idle) <= MinConn
  BY <1>2, LowestCount
<1>4. /\ r.pool = [open |-> TRUE, idle |-> idle, used |-> {}]
      /\ r.current = h.current /\ r.closed = h.closed /\ r.event = h.event
      /\ r \in Handlers
  BY <1>1, <1>2, <1>3 DEF CreateConnectionPool, Handlers, Pools
<1>5. r.pool.open = TRUE /\ r.pool.idle = idle /\ r.pool.used = {}
  BY <1>4
<1> HIDE DEF r, idle
<1>6. Held(r) = Held(h)
  BY <1>4 DEF Held
<1>7. Cardinality(r.pool.idle) + Cardinality(r.pool.used) <= MaxConn
  <2>1. Cardinality(idle) \in Nat /\ MaxConn \in Nat /\ MinConn <= MaxConn /\ MinConn \in Nat
    BY <1>2, <1>3, ConnectionsFinite, PoolAssumption
  <2> QED
    BY <1>3, <1>5, <2>1, FS_EmptySet
<1>8. Consistent(r)
  BY <1>3, <1>4, <1>5, <1>6, <1>7 DEF Consistent, Unused
<1> QED
  BY <1>4, <1>5, <1>8 DEF r

\* shutdown
LEMMA ShutdownKeeps ==
    ASSUME NEW h, Consistent(h)
    PROVE  LET r == Shutdown(h)
           IN  /\ Consistent(r) /\ ~r.pool.open /\ r.pool.used = {}
               /\ r.current = h.current /\ r.event = h.event
<1> DEFINE r == Shutdown(h)
<1>1. h \in Handlers /\ Held(h) \subseteq Connections
  BY DEF Consistent, Handlers, Held
<1>2. /\ r.pool = NoPool /\ r.current = h.current /\ r.event = h.event
      /\ r.closed = (h.closed \cup h.pool.used) \cap Held(h)
      /\ r \in Handlers
  BY <1>1 DEF Shutdown, Handlers, Pools, NoPool
<1>3. r.pool.open = FALSE /\ r.pool.idle = {} /\ r.pool.used = {}
  BY <1>2 DEF NoPool
<1> HIDE DEF r
<1>4. Held(r) = Held(h)
  BY <1>2 DEF Held
<1>5. Cardinality(r.pool.idle) + Cardinality(r.pool.used) <= MaxConn
  BY <1>3, FS_EmptySet, PoolAssumption
<1>6. Consistent(r)
  BY <1>2, <1>3, <1>4, <1>5 DEF Consistent
<1> QED
  BY <1>2, <1>3, <1>6 DEF r

\* putconn: the connection leaves its thread, and the pool does not grow.
LEMMA ReturnedKeeps ==
    ASSUME NEW h, Consistent(h), NEW t \in Threads, PutKnown(h, t), NEW hasError \in BOOLEAN
    PROVE  LET r == Returned(h, t, hasError)
           IN  /\ Consistent(r) /\ r.pool.open /\ r.event = h.event
               /\ r.pool.used = h.pool.used \ {h.current[t]}
               /\ r.current = [h.current EXCEPT ![t] = None]
<1> DEFINE r == Returned(h, t, hasError)
           c == h.current[t]
           keep == ~hasError /\ c \notin h.closed /\ Cardinality(h.pool.idle) < MinConn
           idle == IF keep THEN h.pool.idle \cup {c} ELSE h.pool.idle
<1>1. h \in Handlers /\ c \in h.pool.used /\ c \in Connections /\ c # None
  BY ConnectionsFinite DEF Consistent, PutKnown, Handlers, Pools
<1>2. /\ r.pool = [open |-> h.pool.open, idle |-> idle, used |-> h.pool.used \ {c}]
      /\ r.current = [h.current EXCEPT ![t] = None] /\ r.event = h.event
      /\ r.closed = h.closed \ {c}
      /\ r \in Handlers
  BY <1>1 DEF Returned, PutConn, Handlers, Pools
<1>3. r.pool.open = h.pool.open /\ r.pool.idle = idle /\ r.pool.used = h.pool.used \ {c}
  BY <1>2
<1>4. h.pool.open
  BY <1>1 DEF Consistent, Handlers, Pools
<1>5. \A u \in Threads : r.current[u] = IF u = t THEN None ELSE h.current[u]
  BY <1>1, <1>2 DEF Handlers
<1> HIDE DEF r
<1>6. \A u \in Threads : u # t => h.current[u] # c
  BY <1>1 DEF Consistent
<1>7. Held(r) = Held(h) \ {c}
  BY <1>1, <1>5, <1>6 DEF Held
<1>8. Cardinality(r.pool.idle) + Cardinality(r.pool.used) <= MaxConn
  <2>1. /\ IsFiniteSet(h.pool.idle) /\ IsFiniteSet(h.pool.used)
        /\ Cardinality(h.pool.idle) \in Nat /\ Cardinality(h.pool.used) \in Nat
    BY <1>1, ConnectionsFinite DEF Handlers, Pools
  <2>2. Cardinality(h.pool.used \ {c}) = Cardinality(h.pool.used) - 1
    BY <1>1, <2>1, FS_RemoveElement
  <2>3. Cardinality(h.pool.idle \cup {c}) <= Cardinality(h.pool.idle) + 1
    <3>1. Cardinality(h.pool.idle \cup {c})
             = IF c \in h.pool.idle THEN Cardinality(h.pool.idle) ELSE Cardinality(h.pool.idle) + 1
      BY <2>1, FS_AddElement
    <3> QED
      BY <2>1, <3>1
  <2>4. Cardinality(h.pool.idle \cup {c}) \in Nat
    BY <1>1, ConnectionsFinite DEF Handlers, Pools
  <2> QED
    BY <1>3, <2>1, <2>2, <2>3, <2>4, PoolAssumption DEF Consistent
<1>9. r.pool.idle \cap Held(r) = {}
  BY <1>3, <1>7 DEF Consistent
<1>10. /\ r.pool.used \subseteq Held(r) /\ r.closed \subseteq Held(r)
       /\ Held(r) \subseteq r.pool.used \cup r.closed
  BY <1>2, <1>3, <1>7 DEF Consistent
<1>11. \A u, v \in Threads : r.current[u] = r.current[v] /\ u # v => r.current[u] = None
  BY <1>5 DEF Consistent
<1>12. Consistent(r)
  BY <1>2, <1>3, <1>4, <1>8, <1>9, <1>10, <1>11 DEF Consistent
<1> QED
  BY <1>2, <1>3, <1>4, <1>12 DEF r

\* _put_connection: the threads that wait are woken up.
LEMMA PutKeeps ==
    ASSUME NEW h, Consistent(h), NEW t \in Threads, PutKnown(h, t),
           NEW hasError \in BOOLEAN, NEW newPool \in BOOLEAN
    PROVE  LET r == PutConnection(h, t, hasError, newPool)
           IN  /\ Consistent(r) /\ r.pool.open /\ r.event = TRUE
               /\ r.pool.used \subseteq h.pool.used \ {h.current[t]}
               /\ r.current = [h.current EXCEPT ![t] = None]
<1> DEFINE put == Returned(h, t, hasError)
           r == PutConnection(h, t, hasError, newPool)
<1>1. /\ Consistent(put) /\ put.pool.open
      /\ put.pool.used = h.pool.used \ {h.current[t]}
      /\ put.current = [h.current EXCEPT ![t] = None]
  BY ReturnedKeeps
<1>2. PICK g : /\ Consistent(g) /\ g.pool.open /\ g.current = put.current
               /\ g.pool.used \subseteq put.pool.used
               /\ r = [g EXCEPT !.event = TRUE]
  <2> HIDE DEF put
  <2>1. CASE newPool \/ EmptiedByError(put, hasError)
    <3> DEFINE down == Shutdown(put)
    <3>1. Consistent(down) /\ ~down.pool.open /\ down.current = put.current
      BY <1>1, ShutdownKeeps
    <3> HIDE DEF down
    <3> DEFINE g == CreateConnectionPool(down)
    <3>2. Consistent(g) /\ g.pool.open /\ g.pool.used = {} /\ g.current = down.current
      BY <3>1, CreateKeeps
    <3>3. g = Replaced(put)
      BY DEF down, Replaced
    <3> HIDE DEF g
    <3>4. r = [g EXCEPT !.event = TRUE]
      BY <2>1, <3>3 DEF PutConnection, put
    <3> QED
      BY <3>1, <3>2, <3>4
  <2>2. CASE ~(newPool \/ EmptiedByError(put, hasError))
    <3>1. r = [put EXCEPT !.event = TRUE]
      BY <2>2 DEF PutConnection, put
    <3> QED
      BY <1>1, <3>1
  <2> QED
    BY <2>1, <2>2
<1> HIDE DEF put, r
<1>3. /\ r.pool = g.pool /\ r.current = g.current /\ r.closed = g.closed /\ r.event = TRUE
      /\ r \in Handlers
  BY <1>2 DEF Consistent, Handlers
<1>4. Held(r) = Held(g)
  BY <1>3 DEF Held
<1>5. Consistent(r)
  <2>1. /\ ~r.pool.open => r.pool.idle = {} /\ r.pool.used = {}
        /\ r.pool.idle \cap Held(r) = {}
        /\ r.pool.used \subseteq Held(r)
        /\ r.closed \subseteq Held(r)
        /\ Held(r) \subseteq r.pool.used \cup r.closed
    BY <1>2, <1>3, <1>4 DEF Consistent
  <2>2. \A u, v \in Threads : r.current[u] = r.current[v] /\ u # v => r.current[u] = None
    BY <1>2, <1>3 DEF Consistent
  <2>3. Cardinality(r.pool.idle) + Cardinality(r.pool.used) <= MaxConn
    BY <1>2, <1>3 DEF Consistent
  <2> QED
    BY <1>3, <2>1, <2>2, <2>3 DEF Consistent
<1> QED
  BY <1>1, <1>2, <1>3, <1>5 DEF r

\* getconn: the connection is nobody else's, and the pool stays within its limit.
LEMMA GetKeeps ==
    ASSUME NEW h, Consistent(h), NEW t \in Threads, h.pool.open, h.current[t] = None,
           ~Exhausted(h)
    PROVE  LET r == GetConn(h, t)
           IN  /\ Consistent(r) /\ r.pool.open /\ r.event = h.event
               /\ r.current[t] # None /\ \A u \in Threads : u # t => r.current[u] = h.current[u]
               /\ r.pool.used = h.pool.used \cup {r.current[t]}
<1> DEFINE r == GetConn(h, t)
           c == IF h.pool.idle # {} THEN CHOOSE x \in h.pool.idle : TRUE
                ELSE CHOOSE x \in Unused(h) : TRUE
<1>1. h \in Handlers
  BY DEF Consistent
<1>2. c \in Connections /\ c \notin Held(h) /\ c # None /\ c \notin h.pool.used
  <2>1. CASE h.pool.idle # {}
    <3>1. c \in h.pool.idle
      BY <2>1
    <3> HIDE DEF c
    <3> QED
      BY <1>1, <3>1, ConnectionsFinite DEF Consistent, Handlers, Pools
  <2>2. CASE h.pool.idle = {}
    <3>1. c \in Unused(h)
      BY <2>2, SomeUnused
    <3> HIDE DEF c
    <3> QED
      BY <3>1, ConnectionsFinite DEF Unused
  <2> QED
    BY <2>1, <2>2
<1>3. h.pool.idle = {} => Cardinality(h.pool.used) < MaxConn
  <2>1. Cardinality(h.pool.used) \in Nat /\ Cardinality(h.pool.idle) \in Nat
    BY <1>1, ConnectionsFinite DEF Handlers, Pools
  <2> QED
    BY <2>1, PoolAssumption, FS_EmptySet DEF Consistent, Exhausted
<1>4. h.pool.idle # {} => c \in h.pool.idle
  OBVIOUS
<1>5. r = [h EXCEPT !.pool.idle = @ \ {c}, !.pool.used = @ \cup {c}, !.current[t] = c]
  BY DEF GetConn
<1> HIDE DEF c, r
<1>6. /\ r.pool = [open |-> h.pool.open, idle |-> h.pool.idle \ {c}, used |-> h.pool.used \cup {c}]
      /\ r.current = [h.current EXCEPT ![t] = c] /\ r.event = h.event
      /\ r.closed = h.closed
      /\ r \in Handlers
  BY <1>1, <1>2, <1>5 DEF Handlers, Pools
<1>7. r.pool.open = h.pool.open /\ r.pool.idle = h.pool.idle \ {c} /\ r.pool.used = h.pool.used \cup {c}
  BY <1>6
<1>8. \A u \in Threads : r.current[u] = IF u = t THEN c ELSE h.current[u]
  BY <1>1, <1>6 DEF Handlers
<1>9. Held(r) = Held(h) \cup {c}
  BY <1>2, <1>8 DEF Held
<1>10. Cardinality(r.pool.idle) + Cardinality(r.pool.used) <= MaxConn
  <2>1. /\ IsFiniteSet(h.pool.idle) /\ IsFiniteSet(h.pool.used)
        /\ Cardinality(h.pool.idle) \in Nat /\ Cardinality(h.pool.used) \in Nat
    BY <1>1, ConnectionsFinite DEF Handlers, Pools
  <2>2. Cardinality(h.pool.used \cup {c}) = Cardinality(h.pool.used) + 1
    BY <1>2, <2>1, FS_AddElement
  <2>3. CASE h.pool.idle = {}
    <3>1. h.pool.idle \ {c} = {}
      BY <2>3
    <3> QED
      BY <1>3, <1>7, <2>1, <2>2, <2>3, <3>1, FS_EmptySet, PoolAssumption
  <2>4. CASE h.pool.idle # {}
    <3>1. Cardinality(h.pool.idle \ {c}) = Cardinality(h.pool.idle) - 1
      BY <1>4, <2>1, <2>4, FS_RemoveElement
    <3> QED
      BY <1>7, <2>1, <2>2, <3>1, PoolAssumption DEF Consistent
  <2> QED
    BY <2>3, <2>4
<1>11. r.pool.idle \cap Held(r) = {}
  BY <1>7, <1>9 DEF Consistent
<1>12. /\ r.pool.used \subseteq Held(r) /\ r.closed \subseteq Held(r)
       /\ Held(r) \subseteq r.pool.used \cup r.closed
  BY <1>6, <1>7, <1>9 DEF Consistent
<1>13. \A u \in Threads : h.current[u] # c
  BY <1>2 DEF Held
<1>14. \A u, v \in Threads : r.current[u] = r.current[v] /\ u # v => r.current[u] = None
  BY <1>8, <1>13 DEF Consistent
<1>15. Consistent(r)
  BY <1>6, <1>7, <1>10, <1>11, <1>12, <1>14 DEF Consistent
<1> QED
  BY <1>2, <1>6, <1>7, <1>8, <1>15 DEF r

\* get_connection: the pool is created by the first thread.
LEMMA WithPoolKeeps ==
    ASSUME NEW h, Consistent(h)
    PROVE  LET r == WithPool(h)
           IN  /\ Consistent(r) /\ r.pool.open /\ r.pool.used \subseteq h.pool.used
               /\ r.current = h.current /\ r.event = h.event
<1>1. CASE h.pool.open
  BY <1>1 DEF WithPool
<1>2. CASE ~h.pool.open
  <2> DEFINE r == CreateConnectionPool(h)
  <2>1. /\ Consistent(r) /\ r.pool.open /\ r.pool.used = {}
        /\ r.current = h.current /\ r.event = h.event
    BY <1>2, CreateKeeps
  <2>2. WithPool(h) = r
    BY <1>2 DEF WithPool
  <2> HIDE DEF r
  <2> QED
    BY <2>1, <2>2
<1> QED
  BY <1>1, <1>2

\* get_connection: what a failed commit left behind is put back.
LEMMA WithoutLeftOverKeeps ==
    ASSUME NEW h, Consistent(h), h.pool.open, h.event = TRUE, NEW t \in Threads,
           LeftOver(h, t) => Discardable(h, t)
    PROVE  LET r == WithoutLeftOver(h, t)
           IN  /\ Consistent(r) /\ r.pool.open /\ r.event = TRUE
               /\ r.pool.used \subseteq h.pool.used
               /\ r.current = [h.current EXCEPT ![t] = None]
<1>1. h.current \in [Threads -> Connections \cup {None}]
  BY DEF Consistent, Handlers
<1>2. CASE LeftOver(h, t)
  <2> DEFINE r == PutConnection(h, t, TRUE, FALSE)
  <2>1. PutKnown(h, t)
    BY <1>2 DEF Discardable
  <2>2. /\ Consistent(r) /\ r.pool.open /\ r.event = TRUE
        /\ r.pool.used \subseteq h.pool.used \ {h.current[t]}
        /\ r.current = [h.current EXCEPT ![t] = None]
    BY <2>1, PutKeeps
  <2>3. WithoutLeftOver(h, t) = r
    BY <1>2 DEF WithoutLeftOver
  <2> HIDE DEF r
  <2> QED
    BY <2>2, <2>3
<1>3. CASE ~LeftOver(h, t)
  <2>1. WithoutLeftOver(h, t) = h /\ h.current[t] = None
    BY <1>3 DEF WithoutLeftOver, LeftOver
  <2>2. [h.current EXCEPT ![t] = None] = h.current
    BY <1>1, <2>1
  <2> QED
    BY <2>1, <2>2
<1> QED
  BY <1>2, <1>3

-----------------------------------------------------------------------------
(* The steps of the threads                                                 *)

\* Init satisfies PoolInv.
LEMMA PoolInit == Init => PoolInv
<1> SUFFICES ASSUME Init PROVE PoolInv
  OBVIOUS
<1>1. /\ handler.pool = NoPool /\ handler.closed = {} /\ handler.event = TRUE
      /\ handler.current = [t \in Threads |-> None] /\ handler \in Handlers
  BY DEF Init, Handlers, Pools, NoPool
<1>2. handler.pool.open = FALSE /\ handler.pool.idle = {} /\ handler.pool.used = {}
  BY <1>1 DEF NoPool
<1>3. Held(handler) = {}
  BY <1>1 DEF Held
<1>4. Cardinality(handler.pool.idle) + Cardinality(handler.pool.used) <= MaxConn
  BY <1>2, FS_EmptySet, PoolAssumption
<1>5. \A t, u \in Threads :
         handler.current[t] = handler.current[u] /\ t # u => handler.current[t] = None
  BY <1>1
<1>6. Consistent(handler)
  BY <1>1, <1>2, <1>3, <1>4, <1>5 DEF Consistent
<1>7. Stranded = {}
  BY <1>2 DEF Stranded
<1>8. faults.commit = 0 /\ Cardinality(Stranded) = 0
  BY <1>7, FS_EmptySet DEF Init
<1>9. faults \in FaultCounts
  BY DEF Init, FaultCounts
<1>10. pc \in [Threads -> {"out", "wait", "lock", "use"}] /\ UserHolds
  BY DEF Init, UserHolds
<1> QED
  BY <1>1, <1>6, <1>8, <1>9, <1>10 DEF PoolInv, ClearedWhenExhausted

\* What the step of a thread t does to the invariant's state if it is no failed commit: it
\* keeps the handler consistent, takes a connection only to work with it and leaves none
\* behind, and clears sync_event only when there are no more connections.
Moves(t, place) ==
    /\ pc' = [pc EXCEPT ![t] = place]
    /\ faults' \in FaultCounts /\ faults'.commit = faults.commit
    /\ Consistent(handler')
    /\ \A u \in Threads : u # t => handler'.current[u] = handler.current[u]
    /\ ClearedWhenExhausted'

Takes(t) ==
    /\ Moves(t, "use")
    /\ handler'.current[t] # None
    /\ handler'.pool.used \subseteq handler.pool.used \cup {handler'.current[t]}

Leaves(t) ==
    /\ \E place \in {"out", "wait", "lock"} : Moves(t, place)
    /\ handler'.pool.used \subseteq handler.pool.used
    /\ handler'.current[t] \in handler'.pool.used =>
          handler'.current[t] = handler.current[t] /\ pc[t] # "use"

\* A thread's step of this kind keeps the invariant.
LEMMA ThreadKeeps ==
    ASSUME PoolInv, NEW t \in Threads, Takes(t) \/ Leaves(t)
    PROVE  PoolInv'
<1>0. PICK place \in {"out", "wait", "lock", "use"} :
         /\ Moves(t, place)
         /\ \/ /\ place = "use" /\ handler'.current[t] # None
               /\ handler'.pool.used \subseteq handler.pool.used \cup {handler'.current[t]}
            \/ /\ place # "use" /\ handler'.pool.used \subseteq handler.pool.used
               /\ handler'.current[t] \in handler'.pool.used =>
                     handler'.current[t] = handler.current[t] /\ pc[t] # "use"
  BY DEF Takes, Leaves
<1> USE <1>0 DEF Moves
<1>1. pc \in [Threads -> {"out", "wait", "lock", "use"}]
  BY DEF PoolInv
<1>2. /\ pc' \in [Threads -> {"out", "wait", "lock", "use"}]
      /\ \A u \in Threads : pc'[u] = IF u = t THEN place ELSE pc[u]
  BY <1>1
<1>3. UserHolds'
  BY <1>2 DEF PoolInv, UserHolds
<1>4. Stranded' \subseteq Stranded
  <2> SUFFICES ASSUME NEW c \in handler'.pool.used, NEW u \in Threads,
                      handler'.current[u] = c, pc'[u] # "use"
               PROVE  c \in Stranded
    BY DEF Stranded
  <2>1. c \in handler.pool.used
    <3>1. c # None
      BY ConnectionsFinite DEF Consistent, Handlers, Pools
    <3>2. u # t => c # handler'.current[t]
      BY <3>1 DEF Consistent
    <3> QED
      BY <1>2, <3>2
  <2>2. handler.current[u] = c /\ pc[u] # "use"
    BY <1>2
  <2> QED
    BY <2>1, <2>2 DEF Stranded
<1>5. Stranded \in SUBSET Connections /\ faults.commit \in Nat /\ faults'.commit \in Nat
  BY DEF PoolInv, FaultCounts, Stranded, Consistent, Handlers, Pools
<1>6. Cardinality(Stranded') <= Cardinality(Stranded)
  BY <1>4, <1>5, ConnectionsFinite, FS_Subset
<1>7. Cardinality(Stranded') \in Nat /\ Cardinality(Stranded) \in Nat
  BY <1>4, <1>5, ConnectionsFinite
<1>8. Cardinality(Stranded') <= faults'.commit
  BY <1>5, <1>6, <1>7 DEF PoolInv
<1> QED
  BY <1>2, <1>3, <1>8 DEF PoolInv

\* Steps that do not touch the handler, and get_connection raising an error.
LEMMA OutsideKeeps ==
    ASSUME PoolInv, NEW t \in Threads,
           Begin(t) \/ Wait(t) \/ Missed(t) \/ GetConnectionRaises(t)
    PROVE  PoolInv'
<1> DEFINE opened == WithPool(handler)
<1>1. /\ Consistent(opened) /\ opened.pool.open /\ opened.pool.used \subseteq handler.pool.used
      /\ opened.current = handler.current /\ opened.event = handler.event
  BY WithPoolKeeps DEF PoolInv
<1> HIDE DEF opened
<1>2. faults' = faults /\ pc[t] # "use"
  BY DEF Begin, Wait, Missed, GetConnectionRaises
<1>3. PICK place \in {"out", "wait", "lock"} : pc' = [pc EXCEPT ![t] = place]
  BY DEF Begin, Wait, Missed, GetConnectionRaises, Goto
<1>4. handler' = handler \/ (handler' = opened /\ handler.event)
  BY DEF Begin, Wait, Missed, GetConnectionRaises, opened
<1>5. Consistent(handler') /\ handler'.current = handler.current
      /\ handler'.pool.used \subseteq handler.pool.used
  BY <1>1, <1>4 DEF PoolInv
<1>6. ClearedWhenExhausted'
  BY <1>1, <1>4 DEF PoolInv, ClearedWhenExhausted
<1>7. Moves(t, place)
  BY <1>2, <1>3, <1>5, <1>6 DEF Moves, PoolInv
<1>8. Leaves(t)
  BY <1>2, <1>5, <1>7 DEF Leaves
<1> QED
  BY <1>8, ThreadKeeps

\* get_connection
LEMMA GetConnectionKeeps ==
    ASSUME PoolInv, NEW t \in Threads, GetConnection(t)
    PROVE  PoolInv'
<1> DEFINE opened == WithPool(handler)
           h == WithoutLeftOver(opened, t)
<1>1. /\ Consistent(opened) /\ opened.pool.open /\ opened.pool.used \subseteq handler.pool.used
      /\ opened.current = handler.current /\ opened.event = handler.event
  BY WithPoolKeeps DEF PoolInv
<1>2. /\ handler.event /\ (LeftOver(opened, t) => Discardable(opened, t)) /\ faults' = faults
      /\ \/ ~Exhausted(h) /\ handler' = GetConn(h, t) /\ Goto(t, "use")
         \/ Exhausted(h) /\ handler' = [h EXCEPT !.event = FALSE] /\ Goto(t, "wait")
  BY DEF GetConnection
<1>3. opened.event = TRUE
  BY <1>1, <1>2 DEF PoolInv, Consistent, Handlers
<1> HIDE DEF opened
<1>4. /\ Consistent(h) /\ h.pool.open /\ h.event = TRUE
      /\ h.pool.used \subseteq opened.pool.used
      /\ h.current = [opened.current EXCEPT ![t] = None]
  BY <1>1, <1>2, <1>3, WithoutLeftOverKeeps
<1> HIDE DEF h
<1>5. h.current[t] = None /\ \A u \in Threads : u # t => h.current[u] = handler.current[u]
  BY <1>1, <1>4 DEF PoolInv, Consistent, Handlers
<1>6. faults \in FaultCounts
  BY DEF PoolInv
<1>7. CASE ~Exhausted(h) /\ handler' = GetConn(h, t) /\ Goto(t, "use")
  <2> DEFINE r == GetConn(h, t)
  <2>1. /\ Consistent(r) /\ r.pool.open /\ r.event = h.event
        /\ r.current[t] # None /\ \A u \in Threads : u # t => r.current[u] = h.current[u]
        /\ r.pool.used = h.pool.used \cup {r.current[t]}
    BY <1>4, <1>5, <1>7, GetKeeps
  <2>2. handler' = r /\ pc' = [pc EXCEPT ![t] = "use"]
    BY <1>7 DEF Goto
  <2> HIDE DEF r
  <2>3. ClearedWhenExhausted'
    BY <1>4, <2>1, <2>2 DEF ClearedWhenExhausted
  <2>4. handler'.pool.used \subseteq handler.pool.used \cup {handler'.current[t]}
    BY <1>1, <1>4, <2>1, <2>2
  <2> QED
    <3>1. Moves(t, "use")
      BY <1>2, <1>5, <1>6, <2>1, <2>2, <2>3 DEF Moves
    <3>2. Takes(t)
      BY <2>1, <2>2, <2>4, <3>1 DEF Takes
    <3> QED
      BY <3>2, ThreadKeeps
<1>8. CASE Exhausted(h) /\ handler' = [h EXCEPT !.event = FALSE] /\ Goto(t, "wait")
  <2>1. pc' = [pc EXCEPT ![t] = "wait"]
    BY <1>8 DEF Goto
  <2>2. /\ handler'.pool = h.pool /\ handler'.current = h.current /\ handler'.closed = h.closed
        /\ handler' \in Handlers
    BY <1>4, <1>8 DEF Consistent, Handlers
  <2>3. Consistent(handler')
    <3>1. Held(handler') = Held(h)
      BY <2>2 DEF Held
    <3>2. \A u, v \in Threads : handler'.current[u] = handler'.current[v] /\ u # v
                                   => handler'.current[u] = None
      BY <1>4, <2>2 DEF Consistent
    <3>3. Cardinality(handler'.pool.idle) + Cardinality(handler'.pool.used) <= MaxConn
      BY <1>4, <2>2 DEF Consistent
    <3>4. /\ ~handler'.pool.open => handler'.pool.idle = {} /\ handler'.pool.used = {}
          /\ handler'.pool.idle \cap Held(handler') = {}
          /\ handler'.pool.used \subseteq Held(handler')
          /\ handler'.closed \subseteq Held(handler')
          /\ Held(handler') \subseteq handler'.pool.used \cup handler'.closed
      BY <1>4, <2>2, <3>1 DEF Consistent
    <3> QED
      BY <2>2, <3>2, <3>3, <3>4 DEF Consistent
  <2>4. ClearedWhenExhausted'
    BY <1>8, <2>2 DEF ClearedWhenExhausted, Exhausted
  <2>5. handler'.current[t] \notin handler'.pool.used
    BY <1>5, <2>2, <2>3, ConnectionsFinite DEF Consistent, Handlers, Pools
  <2>6. handler'.pool.used \subseteq handler.pool.used
    BY <1>1, <1>4, <2>2
  <2> QED
    <3>1. Moves(t, "wait")
      BY <1>2, <1>5, <1>6, <2>1, <2>2, <2>3, <2>4 DEF Moves
    <3>2. Leaves(t)
      BY <2>5, <2>6, <3>1 DEF Leaves
    <3> QED
      BY <3>2, ThreadKeeps
<1> QED
  BY <1>2, <1>7, <1>8

\* A connection or the pool cannot be opened.
LEMMA ConnectFailsKeeps ==
    ASSUME PoolInv, NEW t \in Threads, ConnectFails(t)
    PROVE  PoolInv'
<1> DEFINE h == WithoutLeftOver(handler, t)
<1>1. /\ handler.event /\ pc[t] = "lock" /\ pc' = [pc EXCEPT ![t] = "out"]
      /\ faults' = [faults EXCEPT !["connect"] = @ + 1]
      /\ \/ UNCHANGED handler
         \/ /\ handler.pool.open /\ (LeftOver(handler, t) => Discardable(handler, t))
            /\ handler' = h
  BY DEF ConnectFails, Goto, Count
<1>2. /\ faults' \in FaultCounts
      /\ faults.commit = faults'.commit /\ faults.commit \in Nat
  BY <1>1 DEF PoolInv, FaultCounts
<1>3. handler.event = TRUE
  BY <1>1 DEF PoolInv, Consistent, Handlers
<1>4. CASE UNCHANGED handler
  <2>1. Moves(t, "out")
    BY <1>1, <1>2, <1>4 DEF Moves, PoolInv, ClearedWhenExhausted
  <2>2. Leaves(t)
    BY <1>1, <1>4, <2>1 DEF Leaves
  <2> QED
    BY <2>2, ThreadKeeps
<1>5. CASE /\ handler.pool.open /\ (LeftOver(handler, t) => Discardable(handler, t))
           /\ handler' = h
  <2>1. /\ Consistent(h) /\ h.pool.open /\ h.event = TRUE
        /\ h.pool.used \subseteq handler.pool.used
        /\ h.current = [handler.current EXCEPT ![t] = None]
    BY <1>3, <1>5, WithoutLeftOverKeeps DEF PoolInv
  <2> HIDE DEF h
  <2>2. h.current[t] = None /\ \A u \in Threads : u # t => h.current[u] = handler.current[u]
    BY <2>1 DEF PoolInv, Consistent, Handlers
  <2>3. ClearedWhenExhausted'
    BY <1>5, <2>1 DEF ClearedWhenExhausted
  <2>4. None \notin h.pool.used
    BY <2>1, ConnectionsFinite DEF Consistent, Handlers, Pools
  <2> QED
    <3>1. Moves(t, "out")
      BY <1>1, <1>2, <1>5, <2>1, <2>2, <2>3 DEF Moves
    <3>2. Leaves(t)
      BY <1>5, <2>1, <2>2, <2>4, <3>1 DEF Leaves
    <3> QED
      BY <3>2, ThreadKeeps
<1> QED
  BY <1>1, <1>4, <1>5

\* put_connection, as a call ends or as the pool is replaced after an OperationalError.
LEMMA PutConnectionKeeps ==
    ASSUME PoolInv, NEW t \in Threads, Exit(t) \/ ExitWithOutage(t)
    PROVE  PoolInv'
<1>1. pc[t] = "use" /\ pc' = [pc EXCEPT ![t] = "out"] /\ handler.current[t] # None
  BY DEF Exit, ExitWithOutage, Goto, PoolInv, UserHolds
<1>2. handler.current[t] \notin handler.closed => PutKnown(handler, t)
  BY <1>1 DEF PoolInv, Consistent, Held, PutKnown
<1>3. /\ faults' \in FaultCounts
      /\ faults.commit = faults'.commit /\ faults.commit \in Nat
  <2>1. faults' = faults \/ faults' = [faults EXCEPT !["outage"] = @ + 1]
    BY DEF Exit, ExitWithOutage, Count
  <2>2. faults \in FaultCounts
    BY DEF PoolInv
  <2> QED
    BY <2>1, <2>2 DEF FaultCounts
<1>4. CASE handler' = handler /\ ~PutKnown(handler, t)
  <2>1. Moves(t, "out")
    BY <1>1, <1>3, <1>4 DEF Moves, PoolInv, ClearedWhenExhausted
  <2>2. Leaves(t)
    BY <1>4, <2>1 DEF Leaves, PutKnown
  <2> QED
    BY <2>2, ThreadKeeps
<1>5. ASSUME NEW r, handler' = r, Consistent(r), r.event = TRUE,
             r.pool.used \subseteq handler.pool.used \ {handler.current[t]},
             r.current = [handler.current EXCEPT ![t] = None]
      PROVE  PoolInv'
  <2>1. /\ Consistent(r) /\ r.event = TRUE
        /\ r.pool.used \subseteq handler.pool.used \ {handler.current[t]}
        /\ r.current = [handler.current EXCEPT ![t] = None]
    BY <1>5
  <2>2. handler' = r
    BY <1>5
  <2>3. r.current[t] = None /\ \A u \in Threads : u # t => r.current[u] = handler.current[u]
    BY <2>1 DEF PoolInv, Consistent, Handlers
  <2>4. ClearedWhenExhausted'
    BY <2>1, <2>2 DEF ClearedWhenExhausted
  <2>5. None \notin r.pool.used
    BY <2>1, ConnectionsFinite DEF Consistent, Handlers, Pools
  <2> QED
    <3>1. Moves(t, "out")
      BY <1>1, <1>3, <2>1, <2>2, <2>3, <2>4 DEF Moves
    <3>2. Leaves(t)
      BY <2>1, <2>2, <2>3, <2>5, <3>1 DEF Leaves
    <3> QED
      BY <3>2, ThreadKeeps
<1>6. \/ handler' = handler /\ ~PutKnown(handler, t)
      \/ /\ PutKnown(handler, t)
         /\ \/ handler' = PutConnection(handler, t, TRUE, TRUE)
            \/ handler' = PutConnection(handler, t, TRUE, FALSE)
            \/ handler' = PutConnection(handler, t, FALSE, FALSE)
  BY <1>2 DEF Exit, ExitWithOutage
<1>7. Consistent(handler)
  BY DEF PoolInv
<1>8. CASE PutKnown(handler, t) /\ handler' = PutConnection(handler, t, TRUE, TRUE)
  BY <1>5, <1>7, <1>8, PutKeeps
<1>9. CASE PutKnown(handler, t) /\ handler' = PutConnection(handler, t, TRUE, FALSE)
  BY <1>5, <1>7, <1>9, PutKeeps
<1>10. CASE PutKnown(handler, t) /\ handler' = PutConnection(handler, t, FALSE, FALSE)
  BY <1>5, <1>7, <1>10, PutKeeps
<1> QED
  BY <1>4, <1>6, <1>8, <1>9, <1>10

\* The failover is given up.
LEMMA FailoverFailsKeeps ==
    ASSUME PoolInv, NEW t \in Threads, FailoverFails(t)
    PROVE  PoolInv'
<1> DEFINE put == Returned(handler, t, TRUE)
           r == Shutdown(put)
<1>1. /\ pc[t] = "use" /\ pc' = [pc EXCEPT ![t] = "out"] /\ handler.current[t] # None
      /\ handler.current[t] \notin handler.closed /\ handler' = r
  BY DEF FailoverFails, Goto, PoolInv, UserHolds
<1>2. PutKnown(handler, t)
  BY <1>1 DEF PoolInv, Consistent, Held, PutKnown
<1>3. /\ faults' \in FaultCounts
      /\ faults.commit = faults'.commit /\ faults.commit \in Nat
  BY DEF PoolInv, FaultCounts, FailoverFails, Count
<1>4. Consistent(put) /\ put.current = [handler.current EXCEPT ![t] = None]
  BY <1>2, ReturnedKeeps DEF PoolInv
<1> HIDE DEF put
<1>5. Consistent(r) /\ ~r.pool.open /\ r.pool.used = {} /\ r.current = put.current
  BY <1>4, ShutdownKeeps
<1> HIDE DEF r
<1>6. \A u \in Threads : u # t => r.current[u] = handler.current[u]
  BY <1>4, <1>5 DEF PoolInv, Consistent, Handlers
<1>7. ClearedWhenExhausted'
  BY <1>1, <1>5 DEF ClearedWhenExhausted
<1>8. Moves(t, "out")
  BY <1>1, <1>3, <1>5, <1>6, <1>7 DEF Moves
<1>9. Leaves(t)
  BY <1>1, <1>5, <1>8 DEF Leaves
<1> QED
  BY <1>9, ThreadKeeps

\* A failed commit leaves its closed connection with the thread and with the pool.
LEMMA CommitFailsKeeps ==
    ASSUME PoolInv, NEW t \in Threads, CommitFails(t)
    PROVE  PoolInv'
<1> DEFINE c == handler.current[t]
<1>1. /\ pc[t] = "use" /\ pc' = [pc EXCEPT ![t] = "out"] /\ c # None
      /\ handler' = [handler EXCEPT !.closed = @ \cup {c}]
      /\ faults' = [faults EXCEPT !["commit"] = @ + 1]
  BY DEF CommitFails, Goto, Count, PoolInv, UserHolds
<1>2. handler \in Handlers /\ c \in Connections
  BY <1>1 DEF PoolInv, Consistent, Handlers
<1>3. /\ handler'.pool = handler.pool /\ handler'.current = handler.current
      /\ handler'.closed = handler.closed \cup {c} /\ handler'.event = handler.event
      /\ handler' \in Handlers
  BY <1>1, <1>2 DEF Handlers
<1>4. Held(handler') = Held(handler) /\ c \in Held(handler)
  BY <1>1, <1>3 DEF Held
<1> HIDE DEF c
<1>5. Consistent(handler')
  <2>1. \A u, v \in Threads : handler'.current[u] = handler'.current[v] /\ u # v
                                 => handler'.current[u] = None
    BY <1>3 DEF PoolInv, Consistent
  <2>2. Cardinality(handler'.pool.idle) + Cardinality(handler'.pool.used) <= MaxConn
    BY <1>3 DEF PoolInv, Consistent
  <2>3. /\ ~handler'.pool.open => handler'.pool.idle = {} /\ handler'.pool.used = {}
        /\ handler'.pool.idle \cap Held(handler') = {}
        /\ handler'.pool.used \subseteq Held(handler')
        /\ handler'.closed \subseteq Held(handler')
        /\ Held(handler') \subseteq handler'.pool.used \cup handler'.closed
    BY <1>3, <1>4 DEF PoolInv, Consistent
  <2> QED
    BY <1>3, <2>1, <2>2, <2>3 DEF Consistent
<1>6. /\ pc' \in [Threads -> {"out", "wait", "lock", "use"}]
      /\ \A u \in Threads : pc'[u] = IF u = t THEN "out" ELSE pc[u]
  BY <1>1 DEF PoolInv
<1>7. UserHolds'
  BY <1>3, <1>6 DEF PoolInv, UserHolds
<1>8. ClearedWhenExhausted'
  BY <1>3 DEF PoolInv, ClearedWhenExhausted
<1>9. /\ faults' \in FaultCounts
      /\ faults'.commit = faults.commit + 1 /\ faults.commit \in Nat
  BY <1>1 DEF PoolInv, FaultCounts
<1>10. Stranded' \subseteq Stranded \cup {c}
  BY <1>3, <1>6 DEF Stranded, c
<1>11. Stranded \in SUBSET Connections
  BY DEF PoolInv, Stranded, Consistent, Handlers, Pools
<1>12. Cardinality(Stranded') <= Cardinality(Stranded) + 1
  <2> DEFINE S == Stranded \cup {c}
  <2>1. IsFiniteSet(Stranded) /\ Cardinality(Stranded) \in Nat
    BY <1>11, ConnectionsFinite
  <2>2. /\ IsFiniteSet(S)
        /\ Cardinality(S) = IF c \in Stranded THEN Cardinality(Stranded) ELSE Cardinality(Stranded) + 1
    BY <2>1, FS_AddElement
  <2>3. Stranded' \in SUBSET S
    BY <1>10
  <2> HIDE DEF S
  <2>4. Cardinality(Stranded') <= Cardinality(S)
    BY <2>2, <2>3, FS_Subset
  <2>5. Cardinality(Stranded') \in Nat
    BY <2>2, <2>3, FS_Subset, FS_CardinalityType
  <2> QED
    BY <2>1, <2>2, <2>4, <2>5
<1>13. Cardinality(Stranded') \in Nat /\ Cardinality(Stranded) \in Nat
  BY <1>2, <1>10, <1>11, ConnectionsFinite
<1>14. Cardinality(Stranded') <= faults'.commit
  BY <1>9, <1>12, <1>13 DEF PoolInv
<1> QED
  BY <1>5, <1>6, <1>7, <1>8, <1>9, <1>14 DEF PoolInv

\* Every step keeps the invariant of the handler.
LEMMA PoolStep == PoolInv /\ [Next]_vars => PoolInv'
<1> SUFFICES ASSUME PoolInv, [Next]_vars PROVE PoolInv'
  OBVIOUS
<1>1. CASE UNCHANGED vars
  BY <1>1 DEF vars, PoolInv, Consistent, UserHolds, ClearedWhenExhausted, Stranded, Held
<1>2. ASSUME NEW t \in Threads, Begin(t) \/ Step(t) PROVE PoolInv'
  BY <1>2, OutsideKeeps, GetConnectionKeeps, ConnectFailsKeeps, PutConnectionKeeps,
     FailoverFailsKeeps, CommitFailsKeeps DEF Step
<1> QED
  BY <1>1, <1>2 DEF Next

-----------------------------------------------------------------------------
(* The properties of ConnectionPool                                         *)

\* The invariant of the handler holds, however threads, errors and failovers interleave.
THEOREM PoolInvariant == Spec => []PoolInv
BY PoolInit, PoolStep, PTL DEF Spec

\* The pool keeps idle and used connections apart and never counts more than
\* DATASTORE_MAX_CONNECTIONS as used.
THEOREM TypeCorrect == Spec => []TypeOk
<1>1. PoolInv => TypeOk
  <2> SUFFICES ASSUME PoolInv PROVE TypeOk
    OBVIOUS
  <2>1. handler \in Handlers /\ handler.pool \in Pools
    BY DEF PoolInv, Consistent, Handlers
  <2>2. Cardinality(handler.pool.used) \in Nat /\ Cardinality(handler.pool.idle) \in Nat
    BY <2>1, ConnectionsFinite DEF Pools
  <2>3. Cardinality(handler.pool.used) <= MaxConn
    BY <2>2, PoolAssumption DEF PoolInv, Consistent
  <2>4. handler.pool.idle \cap handler.pool.used = {}
    BY DEF PoolInv, Consistent
  <2> QED
    BY <2>1, <2>3, <2>4 DEF TypeOk, PoolInv, Consistent, Handlers, Pools
<1> QED
  BY <1>1, PoolInvariant, PTL

\* An open connection that a thread works with is its own and counted by the pool.
THEOREM OneOwnerHolds == Spec => []OneOwner
<1>1. PoolInv => OneOwner
  BY DEF PoolInv, Consistent, OneOwner, Held
<1> QED
  BY <1>1, PoolInvariant, PTL

\* The pool is never used up by connections that nobody can return.
THEOREM NoLeakHolds == Spec => []NoLeak
<1>1. PoolInv => NoLeak
  BY DEF PoolInv, Consistent, NoLeak
<1> QED
  BY <1>1, PoolInvariant, PTL

\* As long as fewer commits have failed than there are connections, threads that are kept
\* waiting for sync_event are woken by a thread at work, unless a failover was given up.
THEOREM NoLostWakeupHolds == Spec => [](faults.commit < MaxConn => NoLostWakeup)
<1>1. PoolInv => (faults.commit < MaxConn => NoLostWakeup)
  <2> SUFFICES ASSUME PoolInv, faults.commit < MaxConn, ~handler.event, handler.pool.open
               PROVE  \E t \in Threads : pc[t] = "use" /\ PutKnown(handler, t)
    BY DEF NoLostWakeup, GivenUp
  <2>1. Cardinality(handler.pool.used) = MaxConn /\ Cardinality(Stranded) <= faults.commit
    BY DEF PoolInv, ClearedWhenExhausted
  <2>2. Stranded \in SUBSET Connections
    BY DEF PoolInv, Stranded, Consistent, Handlers, Pools
  <2>3. Cardinality(Stranded) \in Nat /\ faults.commit \in Nat /\ MaxConn \in Nat
    BY <2>2, ConnectionsFinite, PoolAssumption DEF PoolInv, FaultCounts
  <2>4. Stranded # handler.pool.used
    BY <2>1, <2>3
  <2>5. PICK c \in handler.pool.used : c \notin Stranded
    BY <2>4 DEF Stranded
  <2>6. PICK t \in Threads : handler.current[t] = c
    BY <2>5 DEF PoolInv, Consistent, Held
  <2> QED
    BY <2>5, <2>6 DEF Stranded, PutKnown
<1> QED
  BY <1>1, PoolInvariant, PTL

=============================================================================
