--------------------------- MODULE WriterService ---------------------------
(***************************************************************************)
(* The threads of the writer: calls of /write, which take the class-wide   *)
(* lock WriterService._lock around their transaction and the message to    *)
(* redis, and calls of /reserve_ids, which do not. Both run under          *)
(* retry_on_db_failure and a ConnectionContext; connections break, commits *)
(* fail with and without effect, redis fails and the process crashes.      *)
(* What a transaction writes is abstracted to the positions it draws and   *)
(* the row of id_sequences that it locks; see EventStore for the tables.   *)
(***************************************************************************)
EXTENDS Integers, FiniteSets

CONSTANTS Writers,      \* calls of write
          Reservers,    \* calls of reserve_ids
          NoThread,
          RequestsOf,   \* the number of write requests in the body of a call
          CreateId,     \* the id of the model a call creates
          Amount,       \* how many ids a call reserves
          MaxRetries,   \* DATASTORE_MAX_RETRIES
          MaxCrashes    \* bound on the crashes of the process

Threads == Writers \cup Reservers

ASSUME ThreadsAssumption ==
    /\ Writers \cap Reservers = {}
    /\ NoThread \notin Threads

ASSUME ParametersAssumption ==
    /\ RequestsOf \in [Writers -> Nat \ {0}]
    /\ CreateId \in [Writers -> Nat \ {0}]
    /\ Amount \in [Reservers -> Nat \ {0}]
    /\ MaxRetries \in Nat \ {0}
    /\ MaxCrashes \in Nat

VARIABLES lock,          \* the holder of WriterService._lock
          pc, tries,     \* where a call is, and its failed tries
          closed,        \* its connection was closed by another thread
          executed, tx,  \* write requests done and positions drawn in the open transaction
          taken,         \* ids drawn in the open transaction
          position_seq,  \* the identity sequence of positions
          positions,     \* the committed rows: position and call
          rowLock,       \* the transaction that changed the row of id_sequences
          nextId,        \* the committed id of the row
          pendingId,     \* the id in the transaction of rowLock
          created,       \* committed ids of models
          reserved,      \* ids of committed reservations
          stream,        \* the messages on redis: call and positions
          answer,        \* what the client got
          commits,       \* ghost: committed transactions per call
          crashes

vars == <<lock, pc, tries, closed, executed, tx, taken, position_seq, positions,
          rowLock, nextId, pendingId, created, reserved, stream, answer, commits,
          crashes>>

idVars == <<nextId, pendingId, created, reserved>>

Greatest(a, b) == IF a >= b THEN a ELSE b

InTransaction(t) == pc[t] \in {"body", "drawn", "upserted"}

\* The value of the row for a transaction that may change it.
RowFor(t) == IF rowLock = t THEN pendingId ELSE nextId

\* Faulty variant: an exception leaves the lock taken.
KeepLock(t) == UNCHANGED lock

\* The with statement on _lock.
ReleaseLock(t) == lock' = IF lock = t THEN NoThread ELSE lock

ReleaseRow(t) == rowLock' = IF rowLock = t THEN NoThread ELSE rowLock

Discard(t) ==
    /\ tx' = [w \in Writers |-> IF w = t THEN {} ELSE tx[w]]
    /\ taken' = [r \in Reservers |-> IF r = t THEN {} ELSE taken[r]]

Finish(t, outcome) ==
    /\ pc' = [pc EXCEPT ![t] = "done"]
    /\ answer' = [answer EXCEPT ![t] = outcome]

-----------------------------------------------------------------------------
(* WriterService.write                                                      *)

\* Faulty variants: the lock is not waited for; a new try goes on where the last one
\* broke off.
AcquireHeldLock(w) ==
    /\ pc[w] = "start"
    /\ lock' = w
    /\ pc' = [pc EXCEPT ![w] = "body"]
    /\ closed' = [closed EXCEPT ![w] = FALSE]
    /\ executed' = [executed EXCEPT ![w] = 0]
    /\ tx' = [tx EXCEPT ![w] = {}]
    /\ UNCHANGED <<tries, taken, position_seq, positions, rowLock, idVars, stream,
                   answer, commits, crashes>>

AcquireResuming(w) ==
    /\ pc[w] = "start" /\ lock = NoThread
    /\ lock' = w
    /\ pc' = [pc EXCEPT ![w] = "body"]
    /\ closed' = [closed EXCEPT ![w] = FALSE]
    /\ UNCHANGED <<tries, executed, tx, taken, position_seq, positions, rowLock, idVars,
                   stream, answer, commits, crashes>>

\* Take _lock and open the transaction.
Acquire(w) ==
    /\ pc[w] = "start"
    /\ lock = NoThread
    /\ lock' = w
    /\ pc' = [pc EXCEPT ![w] = "body"]
    /\ closed' = [closed EXCEPT ![w] = FALSE]
    /\ executed' = [executed EXCEPT ![w] = 0]
    /\ tx' = [tx EXCEPT ![w] = {}]
    /\ UNCHANGED <<tries, taken, position_seq, positions, rowLock, idVars, stream,
                   answer, commits, crashes>>

\* The locks of the next request hold; create_position.
CreatePosition(w) ==
    /\ pc[w] = "body" /\ ~closed[w]
    /\ executed[w] < RequestsOf[w]
    /\ position_seq' = position_seq + 1
    /\ tx' = [tx EXCEPT ![w] = @ \cup {position_seq + 1}]
    /\ pc' = [pc EXCEPT ![w] = "drawn"]
    /\ UNCHANGED <<lock, tries, closed, executed, taken, positions, rowLock, idVars,
                   stream, answer, commits, crashes>>

\* Faulty variant: the row is locked but not moved above the created id.
InsertEventsIdUnchanged(w) ==
    /\ pc[w] = "drawn" /\ ~closed[w]
    /\ rowLock \in {NoThread, w}
    /\ rowLock' = w
    /\ pendingId' = RowFor(w)
    /\ executed' = [executed EXCEPT ![w] = @ + 1]
    /\ pc' = [pc EXCEPT ![w] = "body"]
    /\ UNCHANGED <<lock, tries, closed, tx, taken, position_seq, positions, nextId,
                   created, reserved, stream, answer, commits, crashes>>

\* The rest of insert_events; update_id_sequences waits for the row.
InsertEvents(w) ==
    /\ pc[w] = "drawn" /\ ~closed[w]
    /\ rowLock \in {NoThread, w}
    /\ rowLock' = w
    /\ pendingId' = Greatest(RowFor(w), CreateId[w] + 1)
    /\ executed' = [executed EXCEPT ![w] = @ + 1]
    /\ pc' = [pc EXCEPT ![w] = "body"]
    /\ UNCHANGED <<lock, tries, closed, tx, taken, position_seq, positions, nextId,
                   created, reserved, stream, answer, commits, crashes>>

\* ModelLocked, ModelExists, InvalidFormat...: the transaction is rolled back.
Refuse(w) ==
    /\ pc[w] \in {"body", "drawn"} /\ ~closed[w]
    /\ executed[w] < RequestsOf[w]
    /\ ReleaseLock(w) /\ ReleaseRow(w) /\ Discard(w) /\ Finish(w, "refused")
    /\ UNCHANGED <<tries, closed, executed, position_seq, positions, idVars, stream,
                   commits, crashes>>

CommitTables(w) ==
    /\ positions' = positions \cup {[position |-> p, writer |-> w] : p \in tx[w]}
    /\ nextId' = RowFor(w)
    /\ created' = created \cup {CreateId[w]}
    /\ commits' = [commits EXCEPT ![w] = @ + 1]
    /\ ReleaseRow(w)

ReadyToCommit(w) ==
    pc[w] = "body" /\ ~closed[w] /\ executed[w] = RequestsOf[w]

\* Faulty variant: the message is sent after the lock is released.
CommitReleasingLock(w) ==
    /\ ReadyToCommit(w)
    /\ CommitTables(w)
    /\ ReleaseLock(w)
    /\ pc' = [pc EXCEPT ![w] = "publish"]
    /\ UNCHANGED <<tries, closed, executed, tx, taken, position_seq, pendingId,
                   reserved, stream, answer, crashes>>

Commit(w) ==
    /\ ReadyToCommit(w)
    /\ CommitTables(w)
    /\ pc' = [pc EXCEPT ![w] = "publish"]
    /\ UNCHANGED <<lock, tries, closed, executed, tx, taken, position_seq, pendingId,
                   reserved, stream, answer, crashes>>

\* Faulty variants: the error of a commit is swallowed; a failed commit is retried.
CommitFailsSilently(w) ==
    /\ ReadyToCommit(w)
    /\ ReleaseRow(w)
    /\ pc' = [pc EXCEPT ![w] = "publish"]
    /\ UNCHANGED <<lock, tries, closed, executed, tx, taken, position_seq, positions,
                   idVars, stream, answer, commits, crashes>>

CommitUnnoticedRetried(w) ==
    /\ ReadyToCommit(w)
    /\ tries[w] + 1 < MaxRetries
    /\ CommitTables(w)
    /\ ReleaseLock(w) /\ Discard(w)
    /\ pc' = [pc EXCEPT ![w] = "start"]
    /\ tries' = [tries EXCEPT ![w] = @ + 1]
    /\ UNCHANGED <<closed, executed, position_seq, pendingId, reserved, stream,
                   answer, crashes>>

\* An error of the commit in ConnectionContext.__exit__ is not a DatabaseError, so
\* the call is not tried again. The server may have committed before it.
CommitFails(w) ==
    /\ ReadyToCommit(w)
    /\ ReleaseLock(w) /\ ReleaseRow(w) /\ Discard(w) /\ Finish(w, "error")
    /\ UNCHANGED <<tries, closed, executed, position_seq, positions, idVars, stream,
                   commits, crashes>>

CommitUnnoticed(w) ==
    /\ ReadyToCommit(w)
    /\ CommitTables(w)
    /\ ReleaseLock(w) /\ Discard(w) /\ Finish(w, "error")
    /\ UNCHANGED <<tries, closed, executed, position_seq, pendingId, reserved, stream,
                   crashes>>

\* propagate_updates_to_redis, still under _lock.
Publish(w) ==
    /\ pc[w] = "publish"
    /\ stream' = stream \cup {[writer |-> w, positions |-> tx[w]]}
    /\ ReleaseLock(w) /\ Discard(w) /\ Finish(w, "ok")
    /\ UNCHANGED <<tries, closed, executed, position_seq, positions, rowLock, idVars,
                   commits, crashes>>

PublishFails(w) ==
    /\ pc[w] = "publish"
    /\ ReleaseLock(w) /\ Discard(w) /\ Finish(w, "error")
    /\ UNCHANGED <<tries, closed, executed, position_seq, positions, rowLock, idVars,
                   stream, commits, crashes>>

-----------------------------------------------------------------------------
(* WriterService.reserve_ids                                                *)

\* Faulty variant: reserve_ids takes _lock without waiting.
EnterTakingLock(r) ==
    /\ pc[r] = "start"
    /\ lock' = r
    /\ pc' = [pc EXCEPT ![r] = "body"]
    /\ closed' = [closed EXCEPT ![r] = FALSE]
    /\ UNCHANGED <<tries, executed, tx, taken, position_seq, positions, rowLock,
                   idVars, stream, answer, commits, crashes>>

Enter(r) ==
    /\ pc[r] = "start"
    /\ pc' = [pc EXCEPT ![r] = "body"]
    /\ closed' = [closed EXCEPT ![r] = FALSE]
    /\ UNCHANGED <<lock, tries, executed, tx, taken, position_seq, positions, rowLock,
                   idVars, stream, answer, commits, crashes>>

\* Faulty variant: the id is read and written without a lock on the row.
ReserveNextIdsUnlocked(r) ==
    /\ pc[r] = "body" /\ ~closed[r]
    /\ rowLock' = r
    /\ pendingId' = nextId + Amount[r]
    /\ taken' = [taken EXCEPT ![r] = nextId..(nextId + Amount[r] - 1)]
    /\ pc' = [pc EXCEPT ![r] = "upserted"]
    /\ UNCHANGED <<lock, tries, closed, executed, tx, position_seq, positions, nextId,
                   created, reserved, stream, answer, commits, crashes>>

\* reserve_next_ids: the upsert waits for the row.
ReserveNextIds(r) ==
    /\ pc[r] = "body" /\ ~closed[r]
    /\ rowLock = NoThread
    /\ rowLock' = r
    /\ pendingId' = nextId + Amount[r]
    /\ taken' = [taken EXCEPT ![r] = nextId..(nextId + Amount[r] - 1)]
    /\ pc' = [pc EXCEPT ![r] = "upserted"]
    /\ UNCHANGED <<lock, tries, closed, executed, tx, position_seq, positions, nextId,
                   created, reserved, stream, answer, commits, crashes>>

\* The commit, noticed or not.
CommitReservation(r, outcome) ==
    /\ pc[r] = "upserted" /\ ~closed[r]
    /\ nextId' = RowFor(r)
    /\ reserved' = [reserved EXCEPT ![r] = @ \cup taken[r]]
    /\ ReleaseRow(r) /\ Discard(r) /\ Finish(r, outcome)
    /\ UNCHANGED <<lock, tries, closed, executed, position_seq, positions, pendingId,
                   created, stream, commits, crashes>>

ReservationFails(r) ==
    /\ pc[r] = "upserted" /\ ~closed[r]
    /\ ReleaseRow(r) /\ Discard(r) /\ Finish(r, "error")
    /\ UNCHANGED <<lock, tries, closed, executed, position_seq, positions, idVars,
                   stream, commits, crashes>>

-----------------------------------------------------------------------------
(* pg_connection_handler.py                                                 *)

\* getconn cannot connect: a plain psycopg2 error that nothing retries.
ConnectFails(t) ==
    /\ pc[t] = "start"
    /\ t \in Writers => lock = NoThread
    /\ Finish(t, "error")
    /\ UNCHANGED <<lock, tries, closed, executed, tx, taken, position_seq, positions,
                   rowLock, idVars, stream, commits, crashes>>

\* A statement meets a broken connection: OperationalError without a code. The pool
\* is recreated, which closes the connections of all other threads; the transactions
\* end. The exception leaves the with statement on _lock, and the call is tried
\* again unless it has used up its tries.
LoseConnection(t) ==
    /\ InTransaction(t) /\ ~closed[t]
    /\ tries' = [tries EXCEPT ![t] = @ + 1]
    /\ closed' = [u \in Threads |-> closed[u] \/ (u # t /\ InTransaction(u))]
    /\ tx' = [w \in Writers |-> IF InTransaction(w) THEN {} ELSE tx[w]]
    /\ taken' = [r \in Reservers |-> {}]
    /\ rowLock' = NoThread
    /\ ReleaseLock(t)
    /\ IF tries[t] + 1 < MaxRetries
       THEN pc' = [pc EXCEPT ![t] = "start"] /\ UNCHANGED answer
       ELSE Finish(t, "error")
    /\ UNCHANGED <<executed, position_seq, positions, idVars, stream, commits, crashes>>

\* Faulty variant: returning the unknown connection to the pool raises nothing.
FindClosedSilently(t) ==
    /\ InTransaction(t) /\ closed[t]
    /\ ReleaseLock(t) /\ Discard(t) /\ Finish(t, "ok")
    /\ UNCHANGED <<tries, closed, executed, position_seq, positions, rowLock, idVars,
                   stream, commits, crashes>>

\* The connection was closed by another thread's failure: the next statement raises
\* an InterfaceError, or the finished body skips the commit; either way putconn
\* raises a PoolError for a connection that the new pool does not know. No retry.
FindClosed(t) ==
    /\ InTransaction(t) /\ closed[t]
    /\ ReleaseLock(t) /\ Discard(t) /\ Finish(t, "error")
    /\ UNCHANGED <<tries, closed, executed, position_seq, positions, rowLock, idVars,
                   stream, commits, crashes>>

\* The process ends and a new one starts: calls under way get no answer but an
\* error, open transactions are rolled back, _lock is a new lock.
Crash ==
    LET lost == {t \in Threads : pc[t] # "done" /\ (pc[t] # "start" \/ tries[t] > 0)}
    IN  /\ crashes < MaxCrashes
        /\ lost # {}
        /\ crashes' = crashes + 1
        /\ lock' = NoThread
        /\ rowLock' = NoThread
        /\ tx' = [w \in Writers |-> {}]
        /\ taken' = [r \in Reservers |-> {}]
        /\ pc' = [t \in Threads |-> IF t \in lost THEN "done" ELSE pc[t]]
        /\ answer' = [t \in Threads |-> IF t \in lost THEN "error" ELSE answer[t]]
        /\ UNCHANGED <<tries, closed, executed, position_seq, positions, idVars, stream,
                       commits>>

-----------------------------------------------------------------------------
Init ==
    /\ lock = NoThread
    /\ pc = [t \in Threads |-> "start"]
    /\ tries = [t \in Threads |-> 0]
    /\ closed = [t \in Threads |-> FALSE]
    /\ executed = [w \in Writers |-> 0]
    /\ tx = [w \in Writers |-> {}]
    /\ taken = [r \in Reservers |-> {}]
    /\ position_seq = 0
    /\ positions = {}
    /\ rowLock = NoThread
    /\ nextId = 1 /\ pendingId = 1
    /\ created = {}
    /\ reserved = [r \in Reservers |-> {}]
    /\ stream = {}
    /\ answer = [t \in Threads |-> "none"]
    /\ commits = [w \in Writers |-> 0]
    /\ crashes = 0

\* What a thread does when nothing fails, the handling of its own failures included.
WriterStep(w) ==
    \/ Acquire(w) \/ CreatePosition(w) \/ InsertEvents(w)
    \/ Commit(w) \/ Publish(w) \/ FindClosed(w)

ReserverStep(r) ==
    \/ Enter(r) \/ ReserveNextIds(r) \/ CommitReservation(r, "ok") \/ FindClosed(r)

WriterFailure(w) ==
    \/ Refuse(w) \/ CommitFails(w) \/ CommitUnnoticed(w) \/ PublishFails(w)
    \/ ConnectFails(w) \/ LoseConnection(w)

ReserverFailure(r) ==
    \/ CommitReservation(r, "error") \/ ReservationFails(r)
    \/ ConnectFails(r) \/ LoseConnection(r)

Next ==
    \/ \E w \in Writers : WriterStep(w) \/ WriterFailure(w)
    \/ \E r \in Reservers : ReserverStep(r) \/ ReserverFailure(r)
    \/ Crash

Spec == Init /\ [][Next]_vars

\* A thread that can go on does so: the scheduler runs every thread, and PostgreSQL
\* grants a row lock that is released to a waiting transaction.
FairSpec ==
    /\ Spec
    /\ \A w \in Writers : WF_vars(WriterStep(w))
    /\ \A r \in Reservers : WF_vars(ReserverStep(r))

-----------------------------------------------------------------------------
(* Properties                                                               *)

Pcs == {"start", "body", "drawn", "upserted", "publish", "done"}
Outcomes == {"none", "ok", "error", "refused"}

\* Every variable has its type.
TypeOk ==
    /\ lock \in Writers \cup {NoThread}
    /\ pc \in [Threads -> Pcs]
    /\ tries \in [Threads -> Nat]
    /\ closed \in [Threads -> BOOLEAN]
    /\ executed \in [Writers -> Nat]
    /\ tx \in [Writers -> SUBSET Nat]
    /\ taken \in [Reservers -> SUBSET Nat]
    /\ position_seq \in Nat
    /\ positions \in SUBSET [position : Nat, writer : Writers]
    /\ rowLock \in Threads \cup {NoThread}
    /\ nextId \in Nat /\ pendingId \in Nat
    /\ created \in SUBSET Nat
    /\ reserved \in [Reservers -> SUBSET Nat]
    /\ stream \in SUBSET [writer : Writers, positions : SUBSET Nat]
    /\ answer \in [Threads -> Outcomes]
    /\ commits \in [Writers -> Nat]
    /\ crashes \in Nat

\* Positions become visible in order: a commit adds only positions above all that
\* are visible. A reader that saw position p as the highest has seen every write up
\* to p, on which every lock at p relies, although the sequence is drawn from at the
\* start of a transaction and transactions end at any time.
PositionsVisibleInOrder ==
    [][\A new \in positions' \ positions : \A old \in positions :
          new.position > old.position]_vars

\* Messages reach the bus in the order of the positions they announce.
MessagesInOrder ==
    [][\A new \in stream' \ stream : \A old \in stream :
          \A p \in new.positions, q \in old.positions : p > q]_vars

\* The bus announces committed positions only.
MessagesAreCommitted ==
    \A m \in stream : \A p \in m.positions :
        [position |-> p, writer |-> m.writer] \in positions

\* However often a call is tried again, it takes effect at most once.
AtMostOnce == \A w \in Writers : commits[w] <= 1

PositionsOf(w) == {row.position : row \in {p \in positions : p.writer = w}}

\* A call has all its positions in the database or none.
AllOrNothing ==
    \A w \in Writers : Cardinality(PositionsOf(w)) = commits[w] * RequestsOf[w]

\* What the client is told is true: success means that the call is committed and
\* announced, with all of its positions in one message; a refusal means that
\* nothing was written. (An error may mean either.)
AnswersAreTrue ==
    \A w \in Writers :
        /\ answer[w] = "ok" =>
              commits[w] = 1 /\ [writer |-> w, positions |-> PositionsOf(w)] \in stream
        /\ answer[w] = "refused" => commits[w] = 0

\* No id is reserved twice, whatever fails between the upsert and the answer.
ReservedOnce ==
    \A r, s \in Reservers : r # s => reserved[r] \cap reserved[s] = {}

\* A reservation that becomes visible holds no id of a model that is visible.
ReservedAreFree ==
    [][\A r \in Reservers : (reserved'[r] \ reserved[r]) \cap created = {}]_vars

-----------------------------------------------------------------------------
(* The inductive invariant behind the safety properties                     *)

\* The holder of _lock is the only call between taking it and answering.
MutualExclusion ==
    \A w \in Writers : /\ pc[w] \in {"body", "drawn", "publish"} => lock = w
                       /\ pc[w] # "upserted"

\* Positions that are drawn but not visible lie above all visible ones.
DrawnAboveVisible ==
    /\ \A row \in positions : row.position <= position_seq
    /\ \A w \in Writers :
          /\ \A p \in tx[w] : p <= position_seq
          /\ InTransaction(w) => \A p \in tx[w], row \in positions : p > row.position

\* A call has no rows before its one commit, and goes nowhere but to the end after it.
CommittedOnce ==
    \A w \in Writers :
        /\ commits[w] = 0 => \A row \in positions : row.writer # w
        /\ commits[w] # 0 => commits[w] = 1 /\ pc[w] \in {"publish", "done"}
        /\ answer[w] # "none" => pc[w] = "done"

\* A call about to publish is committed with the positions it will announce, which
\* lie above all that is announced.
ReadyToPublish ==
    \A w \in Writers : pc[w] = "publish" =>
        /\ commits[w] = 1
        /\ tx[w] = PositionsOf(w)
        /\ \A m \in stream : \A q \in m.positions, p \in tx[w] : p > q

\* The calls' side of the inductive invariant.
WriteInv ==
    /\ MutualExclusion
    /\ DrawnAboveVisible
    /\ CommittedOnce
    /\ ReadyToPublish
    /\ MessagesAreCommitted
    /\ AnswersAreTrue

\* The side of the identifiers: everything handed out or created lies below the
\* committed id, what an open transaction draws lies above it, and an open
\* transaction that changed the row still holds it unless its connection was closed.
IdInv ==
    /\ created \subseteq {n \in Nat : n < nextId}
    /\ \A r \in Reservers : reserved[r] \subseteq {n \in Nat : n < nextId}
    /\ rowLock # NoThread => nextId <= pendingId
    /\ \A r \in Reservers : pc[r] = "upserted" /\ ~closed[r] =>
          rowLock = r /\ taken[r] \subseteq {n \in Nat : nextId <= n /\ n < pendingId}
    /\ \A w \in Writers :
          pc[w] \in {"body", "drawn"} /\ ~closed[w] /\ executed[w] > 0 =>
              rowLock = w /\ CreateId[w] < pendingId

-----------------------------------------------------------------------------
(* Refinement                                                               *)

Promised == INSTANCE SerialWrites WITH
    visible <- positions, announced <- stream, used <- created, held <- reserved

\* The threads implement the serial writer of SerialWrites: however the calls of write
\* and reserve_ids interleave, wait, are tried again, lose their connection or their
\* process, clients see whole calls one after the other, in the order of their
\* positions and messages, and ids that nobody else has.
ImplementsSerialWrites == Promised!Spec

-----------------------------------------------------------------------------
\* Every call is answered: nobody waits for _lock or for a row for ever, although
\* writers hold _lock while they wait for a row that a reserver holds.
EveryCallAnswered == \A t \in Threads : <>(pc[t] = "done")
=============================================================================
