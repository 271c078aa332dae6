--------------------------- MODULE ConnectionPool ---------------------------
(***************************************************************************)
(* PgConnectionHandlerService: threads share a pool of connections, an     *)
(* event they wait for and a lock. What happens under sync_lock is one     *)
(* step. psycopg2's ThreadedConnectionPool is modelled as the handler uses *)
(* it: getconn, putconn and closeall.                                      *)
(***************************************************************************)
EXTENDS Integers, FiniteSets

CONSTANTS Threads,
          MinConn, MaxConn,   \* DATASTORE_MIN_CONNECTIONS, DATASTORE_MAX_CONNECTIONS
          MaxCalls,           \* bound on the calls of each thread
          MaxOutages,         \* bound on OperationalErrors within a call
          MaxCommitFailures,  \* bound on commits that fail with their connection
          MaxConnectFailures, \* bound on connections that cannot be opened
          MaxFailovers        \* bound on pools that cannot be created again

ASSUME PoolAssumption ==
    /\ IsFiniteSet(Threads)
    /\ MinConn \in Nat \ {0} /\ MaxConn \in Nat /\ MinConn <= MaxConn
    /\ MaxCalls \in Nat /\ MaxOutages \in Nat
    /\ MaxCommitFailures \in Nat /\ MaxConnectFailures \in Nat /\ MaxFailovers \in Nat

None == 0
Connections == 1..(2 * MaxConn + Cardinality(Threads))

VARIABLES handler,  \* what PgConnectionHandlerService keeps
          pc,       \* where each thread is
          calls,    \* how many calls each thread has begun
          faults    \* how often each kind of failure happened

vars == <<handler, pc, calls, faults>>

NoPool == [open |-> FALSE, idle |-> {}, used |-> {}]

Init ==
    /\ handler = [pool |-> NoPool,                        \* connection_pool
                  closed |-> {},                          \* connections that are closed
                  current |-> [t \in Threads |-> None],   \* _storage.connection
                  event |-> TRUE]                         \* sync_event
    /\ pc = [t \in Threads |-> "out"]
    /\ calls = [t \in Threads |-> 0]
    /\ faults = [outage |-> 0, commit |-> 0, connect |-> 0, failover |-> 0]

-----------------------------------------------------------------------------
(* The pool                                                                 *)

Held(h) == {h.current[t] : t \in Threads} \ {None}
Unused(h) == Connections \ (h.pool.idle \cup h.pool.used \cup Held(h))

Lowest(S, n) == {c \in S : Cardinality({d \in S : d < c}) < n}

\* create_connection_pool opens the minimal number of connections.
CreateConnectionPool(h) ==
    [h EXCEPT !.pool = [open |-> TRUE, idle |-> Lowest(Unused(h), MinConn), used |-> {}]]

\* shutdown: closeall closes the connections of all threads.
Shutdown(h) == [h EXCEPT !.pool = NoPool, !.closed = (@ \cup h.pool.used) \cap Held(h)]

\* putconn keeps a connection that is in order while there are few.
PutConn(pool, c, keep) ==
    [pool EXCEPT !.used = @ \ {c},
                 !.idle = IF keep /\ Cardinality(@) < MinConn THEN @ \cup {c} ELSE @]

\* Faulty variant: a pool is replaced without closing its connections.
ReplacedOpen(h) == CreateConnectionPool([h EXCEPT !.pool = NoPool])

Replaced(h) == CreateConnectionPool(Shutdown(h))

\* _put_connection. PoolError if the pool does not know the connection, BadCodingError
\* if there is no pool: nothing changes and the connection stays the current one.
PutKnown(h, t) == h.current[t] \in h.pool.used

Returned(h, t, hasError) ==
    LET c == h.current[t]
    IN  [h EXCEPT !.pool = PutConn(@, c, ~hasError /\ c \notin h.closed),
                  !.current[t] = None, !.closed = @ \ {c}]

EmptiedByError(h, hasError) == hasError /\ h.pool.idle = {} /\ h.pool.used = {}

\* Faulty variant: the waiting threads are not woken up if the connection is discarded.
PutConnectionSilently(h, t, hasError, newPool) ==
    LET put == Returned(h, t, hasError)
    IN  IF newPool \/ EmptiedByError(put, hasError) THEN [Replaced(put) EXCEPT !.event = TRUE]
        ELSE [put EXCEPT !.event = @ \/ ~hasError]

PutConnection(h, t, hasError, newPool) ==
    LET put == Returned(h, t, hasError)
    IN  IF newPool \/ EmptiedByError(put, hasError) THEN [Replaced(put) EXCEPT !.event = TRUE]
        ELSE [put EXCEPT !.event = TRUE]

\* Faulty variant: one connection too many.
ExhaustedAbove(h) == h.pool.idle = {} /\ Cardinality(h.pool.used) > MaxConn

\* getconn, with the connection it gives to the thread
Exhausted(h) == h.pool.idle = {} /\ Cardinality(h.pool.used) = MaxConn

GetConn(h, t) ==
    LET c == IF h.pool.idle # {} THEN CHOOSE x \in h.pool.idle : TRUE
             ELSE CHOOSE x \in Unused(h) : TRUE
    IN  [h EXCEPT !.pool.idle = @ \ {c}, !.pool.used = @ \cup {c}, !.current[t] = c]

-----------------------------------------------------------------------------
(* A call: a ConnectionContext around some statements                       *)

Goto(t, place) == pc' = [pc EXCEPT ![t] = place]
Count(kind) == faults' = [faults EXCEPT ![kind] = @ + 1]

Begin(t) ==
    /\ pc[t] = "out" /\ calls[t] < MaxCalls
    /\ Goto(t, "wait")
    /\ calls' = [calls EXCEPT ![t] = @ + 1]
    /\ UNCHANGED <<handler, faults>>

\* sync_event.wait()
Wait(t) ==
    /\ pc[t] = "wait" /\ handler.event
    /\ Goto(t, "lock")
    /\ UNCHANGED <<handler, calls, faults>>

\* get_connection under sync_lock: the event is looked at again ...
Missed(t) ==
    /\ pc[t] = "lock" /\ ~handler.event
    /\ Goto(t, "wait")
    /\ UNCHANGED <<handler, calls, faults>>

\* ... the pool is created by the first thread ...
WithPool(h) == IF h.pool.open THEN h ELSE CreateConnectionPool(h)

\* ... a left-over connection that is closed is put back, which fails if the pool does not
\* know it ...
LeftOver(h, t) == h.current[t] # None
Discardable(h, t) == h.current[t] \in h.closed /\ PutKnown(h, t)

\* Faulty variant: it is forgotten and not put back.
LeftOverForgotten(h, t) == [h EXCEPT !.current[t] = None, !.closed = @ \ {h.current[t]}]

WithoutLeftOver(h, t) == IF LeftOver(h, t) THEN PutConnection(h, t, TRUE, FALSE) ELSE h

\* ... and the thread gets a connection, or clears the event and waits.
GetConnection(t) ==
    /\ pc[t] = "lock" /\ handler.event
    /\ \E opened \in {WithPool(handler)} :
          /\ LeftOver(opened, t) => Discardable(opened, t)
          /\ \E h \in {WithoutLeftOver(opened, t)} :
                \/ /\ ~Exhausted(h)
                   /\ handler' = GetConn(h, t)
                   /\ Goto(t, "use")
                \/ /\ Exhausted(h)
                   /\ handler' = [h EXCEPT !.event = FALSE]
                   /\ Goto(t, "wait")
    /\ UNCHANGED <<calls, faults>>

\* PoolError for an unknown left-over, BadCodingError for an open one
GetConnectionRaises(t) ==
    /\ pc[t] = "lock" /\ handler.event
    /\ \E opened \in {WithPool(handler)} :
          /\ LeftOver(opened, t) /\ ~Discardable(opened, t)
          /\ handler' = opened
    /\ Goto(t, "out")
    /\ UNCHANGED <<calls, faults>>

\* The pool or a further connection cannot be opened.
ConnectFails(t) ==
    /\ pc[t] = "lock" /\ handler.event
    /\ faults.connect < MaxConnectFailures
    /\ \/ ~handler.pool.open /\ UNCHANGED handler
       \/ /\ handler.pool.open
          /\ LeftOver(handler, t) => Discardable(handler, t)
          /\ \E h \in {WithoutLeftOver(handler, t)} :
                h.pool.idle = {} /\ ~Exhausted(h) /\ handler' = h
    /\ Count("connect")
    /\ Goto(t, "out")
    /\ UNCHANGED calls

\* ConnectionContext.__exit__, without an exception or with one: a connection that another
\* thread closed is put back all the same.
Exit(t) ==
    /\ pc[t] = "use"
    /\ \E hasError \in BOOLEAN :
          handler' = IF PutKnown(handler, t) THEN PutConnection(handler, t, hasError, FALSE)
                     ELSE handler
    /\ Goto(t, "out")
    /\ UNCHANGED <<calls, faults>>

\* An OperationalError: the pool is replaced.
ExitWithOutage(t) ==
    /\ pc[t] = "use" /\ handler.current[t] \notin handler.closed
    /\ faults.outage < MaxOutages
    /\ handler' = PutConnection(handler, t, TRUE, TRUE)
    /\ Count("outage")
    /\ Goto(t, "out")
    /\ UNCHANGED calls

\* ... which is given up after FAILOVER_CONNECTION_POOL_TIMEOUT: there is no pool, and the
\* event is not set.
FailoverFails(t) ==
    /\ pc[t] = "use" /\ handler.current[t] \notin handler.closed
    /\ faults.failover < MaxFailovers
    /\ handler' = Shutdown(Returned(handler, t, TRUE))
    /\ Count("failover")
    /\ Goto(t, "out")
    /\ UNCHANGED calls

\* The commit in connection.__exit__ fails and closes the connection: the exception leaves
\* __exit__ before put_connection.
CommitFails(t) ==
    /\ pc[t] = "use" /\ handler.current[t] \notin handler.closed
    /\ faults.commit < MaxCommitFailures
    /\ handler' = [handler EXCEPT !.closed = @ \cup {handler.current[t]}]
    /\ Count("commit")
    /\ Goto(t, "out")
    /\ UNCHANGED calls

Step(t) ==
    \/ Wait(t) \/ Missed(t) \/ GetConnection(t) \/ GetConnectionRaises(t)
    \/ Exit(t) \/ ExitWithOutage(t) \/ FailoverFails(t)
    \/ CommitFails(t) \/ ConnectFails(t)

Next == \E t \in Threads : Begin(t) \/ Step(t)

Spec == Init /\ [][Next]_vars

\* Every thread inside of a call is scheduled; the lock and the event are given to the
\* threads that wait for them.
FairSpec == Spec /\ \A t \in Threads : WF_vars(Step(t))

-----------------------------------------------------------------------------
(* Properties                                                               *)

\* The pool keeps idle and used connections apart and within its limit.
TypeOk ==
    /\ handler.pool.open \in BOOLEAN /\ handler.event \in BOOLEAN
    /\ handler.pool.idle \subseteq Connections /\ handler.pool.used \subseteq Connections
    /\ handler.pool.idle \cap handler.pool.used = {}
    /\ Cardinality(handler.pool.used) <= MaxConn
    /\ handler.current \in [Threads -> Connections \cup {None}]
    /\ handler.closed \subseteq Held(handler)
    /\ pc \in [Threads -> {"out", "wait", "lock", "use"}]

\* get_connection, putconn and closeall: an open connection that a thread works with is
\* its own and counted by the pool, whoever replaced the pool meanwhile.
OneOwner ==
    \A t \in Threads : handler.current[t] \notin handler.closed \cup {None} =>
        /\ handler.current[t] \in handler.pool.used
        /\ \A u \in Threads \ {t} : handler.current[u] # handler.current[t]

\* _put_connection: what the pool counts as used is held by some thread, so that the pool
\* is not used up by connections that nobody can return.
NoLeak == handler.pool.used \subseteq Held(handler)

\* After a failover that was given up there is no pool and the event stays cleared: no
\* thread gets past sync_event.wait() again.
GivenUp == ~handler.pool.open /\ ~handler.event

\* sync_event: while threads are kept waiting, a thread at work holds a connection
\* whose return wakes them.
NoLostWakeup ==
    ~handler.event =>
        GivenUp \/ \E t \in Threads : pc[t] = "use" /\ PutKnown(handler, t)

\* get_connection and put_connection: every call ends, with a result or an error, unless
\* a failover is given up while threads wait.
CallsEnd == \A t \in Threads : pc[t] # "out" ~> (pc[t] = "out" \/ GivenUp)

=============================================================================
