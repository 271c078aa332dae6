------------------------ MODULE WriterService_proofs ------------------------
(***************************************************************************)
(* Proofs about the threads of the writer, for any number of calls, any     *)
(* number of write requests per call and any number of retries and crashes: *)
(* its invariants, and that it implements SerialWrites.                     *)
(***************************************************************************)
EXTENDS WriterService, FiniteSetTheorems, TLAPS

\* The initial state has the types of TypeOk.
LEMMA TypeInit == Init => TypeOk
BY ThreadsAssumption, ParametersAssumption DEF Init, TypeOk, Threads, Pcs, Outcomes

\* Every step of every call, every failure and a crash keep the types.
LEMMA TypeStep == TypeOk /\ [Next]_vars => TypeOk'
<1> SUFFICES ASSUME TypeOk, [Next]_vars PROVE TypeOk'
  OBVIOUS
<1> USE ThreadsAssumption, ParametersAssumption
<1> USE DEF TypeOk, Threads, Pcs, Outcomes, idVars
<1>1. ASSUME NEW w \in Writers, Acquire(w) PROVE TypeOk'
  BY <1>1 DEF Acquire
<1>2. ASSUME NEW w \in Writers, CreatePosition(w) PROVE TypeOk'
  BY <1>2 DEF CreatePosition
<1>3. ASSUME NEW w \in Writers, InsertEvents(w) PROVE TypeOk'
  BY <1>3 DEF InsertEvents, RowFor, Greatest
<1>4. ASSUME NEW w \in Writers, Refuse(w) PROVE TypeOk'
  BY <1>4 DEF Refuse, ReleaseLock, ReleaseRow, Discard, Finish
<1>5. ASSUME NEW w \in Writers, Commit(w) PROVE TypeOk'
  <2>1. positions' \in SUBSET [position : Nat, writer : Writers]
    BY <1>5 DEF Commit, CommitTables
  <2>2. created' \in SUBSET Nat
    BY <1>5 DEF Commit, CommitTables
  <2>3. commits' \in [Writers -> Nat]
    BY <1>5 DEF Commit, CommitTables
  <2>4. nextId' \in Nat /\ rowLock' \in Threads \cup {NoThread}
    BY <1>5 DEF Commit, CommitTables, RowFor, ReleaseRow
  <2> QED
    BY <1>5, <2>1, <2>2, <2>3, <2>4 DEF Commit
<1>6. ASSUME NEW w \in Writers, CommitFails(w) PROVE TypeOk'
  BY <1>6 DEF CommitFails, ReleaseLock, ReleaseRow, Discard, Finish
<1>7. ASSUME NEW w \in Writers, CommitUnnoticed(w) PROVE TypeOk'
  <2>1. positions' \in SUBSET [position : Nat, writer : Writers]
    BY <1>7 DEF CommitUnnoticed, CommitTables
  <2>2. created' \in SUBSET Nat
    BY <1>7 DEF CommitUnnoticed, CommitTables
  <2>3. commits' \in [Writers -> Nat]
    BY <1>7 DEF CommitUnnoticed, CommitTables
  <2>4. nextId' \in Nat /\ rowLock' \in Threads \cup {NoThread}
    BY <1>7 DEF CommitUnnoticed, CommitTables, RowFor, ReleaseRow
  <2> QED
    BY <1>7, <2>1, <2>2, <2>3, <2>4 DEF CommitUnnoticed, ReleaseLock, Discard, Finish
<1>8. ASSUME NEW w \in Writers, Publish(w) PROVE TypeOk'
  BY <1>8 DEF Publish, ReleaseLock, Discard, Finish
<1>9. ASSUME NEW w \in Writers, PublishFails(w) PROVE TypeOk'
  BY <1>9 DEF PublishFails, ReleaseLock, Discard, Finish
<1>10. ASSUME NEW r \in Reservers, Enter(r) PROVE TypeOk'
  BY <1>10 DEF Enter
<1>11. ASSUME NEW r \in Reservers, ReserveNextIds(r) PROVE TypeOk'
  <2>1. nextId..(nextId + Amount[r] - 1) \in SUBSET Nat
    OBVIOUS
  <2>2. taken' \in [Reservers -> SUBSET Nat]
    BY <1>11, <2>1 DEF ReserveNextIds
  <2>3. pendingId' \in Nat
    BY <1>11 DEF ReserveNextIds
  <2>4. pc' \in [Threads -> Pcs] /\ rowLock' \in Threads \cup {NoThread}
    BY <1>11 DEF ReserveNextIds
  <2> QED
    BY <1>11, <2>2, <2>3, <2>4 DEF ReserveNextIds
<1>12. ASSUME NEW r \in Reservers, NEW outcome \in {"ok", "error"},
              CommitReservation(r, outcome)
       PROVE  TypeOk'
  BY <1>12 DEF CommitReservation, RowFor, ReleaseRow, Discard, Finish
<1>13. ASSUME NEW r \in Reservers, ReservationFails(r) PROVE TypeOk'
  BY <1>13 DEF ReservationFails, ReleaseRow, Discard, Finish
<1>14. ASSUME NEW t \in Threads, ConnectFails(t) PROVE TypeOk'
  BY <1>14 DEF ConnectFails, Finish
<1>15. ASSUME NEW t \in Threads, LoseConnection(t) PROVE TypeOk'
  <2>1. closed' \in [Threads -> BOOLEAN]
    BY <1>15 DEF LoseConnection
  <2>2. tx' \in [Writers -> SUBSET Nat] /\ taken' \in [Reservers -> SUBSET Nat]
    BY <1>15 DEF LoseConnection
  <2>3. pc' \in [Threads -> Pcs] /\ answer' \in [Threads -> Outcomes]
    BY <1>15 DEF LoseConnection, Finish
  <2> QED
    BY <1>15, <2>1, <2>2, <2>3 DEF LoseConnection, ReleaseLock
<1>16. ASSUME NEW t \in Threads, FindClosed(t) PROVE TypeOk'
  BY <1>16 DEF FindClosed, ReleaseLock, Discard, Finish
<1>17. CASE Crash
  BY <1>17 DEF Crash
<1>18. CASE UNCHANGED vars
  BY <1>18 DEF vars
<1> QED
  BY <1>1, <1>2, <1>3, <1>4, <1>5, <1>6, <1>7, <1>8, <1>9, <1>10, <1>11, <1>12, <1>13,
     <1>14, <1>15, <1>16, <1>17, <1>18
     DEF Next, WriterStep, WriterFailure, ReserverStep, ReserverFailure

\* Type correctness of the writer's threads, for every set of calls.
THEOREM TypeCorrect == Spec => []TypeOk
BY TypeInit, TypeStep, PTL DEF Spec

-----------------------------------------------------------------------------
(* The calls of write                                                       *)

\* Steps that leave every writer where it is keep WriteInv.
LEMMA WritersUntouched ==
    ASSUME TypeOk, WriteInv,
           UNCHANGED <<lock, tx, position_seq, positions, stream, commits>>,
           \A w \in Writers : pc'[w] = pc[w] /\ answer'[w] = answer[w]
    PROVE  WriteInv'
<1>1. MutualExclusion' /\ DrawnAboveVisible' /\ CommittedOnce'
  BY DEF WriteInv, MutualExclusion, DrawnAboveVisible, CommittedOnce, InTransaction
<1>2. \A w \in Writers : PositionsOf(w)' = PositionsOf(w)
  BY DEF PositionsOf
<1>3. ReadyToPublish'
  BY <1>2 DEF WriteInv, ReadyToPublish
<1>4. MessagesAreCommitted' /\ AnswersAreTrue'
  BY <1>2 DEF WriteInv, MessagesAreCommitted, AnswersAreTrue
<1> QED
  BY <1>1, <1>3, <1>4 DEF WriteInv

\* A call that ends without committing or publishing keeps WriteInv; it may only
\* say that it was refused if it has not committed.
LEMMA AbortKeepsWriteInv ==
    ASSUME TypeOk, WriteInv, NEW w \in Writers, NEW outcome \in {"error", "refused"},
           outcome = "refused" => commits[w] = 0,
           Finish(w, outcome),
           lock # w => lock' = lock,
           tx' \in [Writers -> SUBSET Nat],
           \A v \in Writers : v # w => tx'[v] = tx[v],
           tx'[w] \subseteq tx[w],
           UNCHANGED <<position_seq, positions, stream, commits>>
    PROVE  WriteInv'
<1> USE DEF Threads
<1>1. /\ pc'[w] = "done" /\ answer'[w] = outcome
      /\ \A v \in Writers : v # w => pc'[v] = pc[v] /\ answer'[v] = answer[v]
  BY DEF Finish, TypeOk
<1>2. MutualExclusion'
  BY <1>1 DEF WriteInv, MutualExclusion
<1>3. DrawnAboveVisible'
  BY <1>1 DEF WriteInv, DrawnAboveVisible, InTransaction
<1>4. CommittedOnce'
  BY <1>1 DEF WriteInv, CommittedOnce
<1>5. \A v \in Writers : PositionsOf(v)' = PositionsOf(v)
  BY DEF PositionsOf
<1>6. ReadyToPublish'
  BY <1>1, <1>5 DEF WriteInv, ReadyToPublish
<1>7. MessagesAreCommitted'
  BY DEF WriteInv, MessagesAreCommitted
<1>8. AnswersAreTrue'
  BY <1>1, <1>5 DEF WriteInv, AnswersAreTrue
<1> QED
  BY <1>2, <1>3, <1>4, <1>6, <1>7, <1>8 DEF WriteInv

\* Init satisfies WriteInv.
LEMMA WriteInvInit == Init => WriteInv
<1> SUFFICES ASSUME Init PROVE WriteInv
  OBVIOUS
<1> USE DEF Init, Threads
<1>1. MutualExclusion /\ DrawnAboveVisible /\ CommittedOnce
  BY DEF MutualExclusion, DrawnAboveVisible, CommittedOnce, InTransaction
<1>2. ReadyToPublish /\ MessagesAreCommitted /\ AnswersAreTrue
  BY DEF ReadyToPublish, MessagesAreCommitted, AnswersAreTrue
<1> QED
  BY <1>1, <1>2 DEF WriteInv

\* The new rows of a commit, and what they leave alone.
LEMMA CommitRows ==
    ASSUME TypeOk, NEW w \in Writers,
           positions' = positions \cup {[position |-> p, writer |-> w] : p \in tx[w]}
    PROVE  /\ \A row \in positions' : row \in positions \/ (row.writer = w /\ row.position \in tx[w])
           /\ \A v \in Writers : v # w => PositionsOf(v)' = PositionsOf(v)
           /\ (\A row \in positions : row.writer # w) => PositionsOf(w)' = tx[w]
<1>1. \A row \in positions' : row \in positions \/ (row.writer = w /\ row.position \in tx[w])
  OBVIOUS
<1>2. ASSUME NEW v \in Writers, v # w PROVE PositionsOf(v)' = PositionsOf(v)
  BY <1>2 DEF PositionsOf
<1>3. ASSUME \A row \in positions : row.writer # w PROVE PositionsOf(w)' = tx[w]
  <2>1. ASSUME NEW p \in PositionsOf(w)' PROVE p \in tx[w]
    BY <1>1, <1>3, <2>1 DEF PositionsOf
  <2>2. ASSUME NEW p \in tx[w] PROVE p \in PositionsOf(w)'
    <3>1. [position |-> p, writer |-> w] \in positions'
      BY <2>2
    <3> QED
      BY <3>1 DEF PositionsOf
  <2> QED
    BY <2>1, <2>2
<1> QED
  BY <1>1, <1>2, <1>3

\* Taking _lock: the call starts with nothing drawn.
LEMMA AcquireWriteInv ==
    ASSUME TypeOk, WriteInv, NEW w \in Writers, Acquire(w)
    PROVE  WriteInv'
<1> USE DEF Threads
<1>1. /\ pc'[w] = "body" /\ tx'[w] = {} /\ lock = NoThread /\ lock' = w
      /\ \A v \in Writers : v # w => pc'[v] = pc[v] /\ tx'[v] = tx[v]
      /\ UNCHANGED <<positions, position_seq, stream, answer, commits>>
      /\ pc[w] = "start"
  BY DEF Acquire, TypeOk
<1>2. MutualExclusion'
  BY <1>1, ThreadsAssumption DEF WriteInv, MutualExclusion
<1>3. DrawnAboveVisible'
  BY <1>1 DEF WriteInv, DrawnAboveVisible, InTransaction
<1>4. CommittedOnce'
  BY <1>1 DEF WriteInv, CommittedOnce
<1>5. \A v \in Writers : PositionsOf(v)' = PositionsOf(v)
  BY <1>1 DEF PositionsOf
<1>6. ReadyToPublish'
  BY <1>1, <1>5 DEF WriteInv, ReadyToPublish
<1>7. MessagesAreCommitted' /\ AnswersAreTrue'
  BY <1>1, <1>5 DEF WriteInv, MessagesAreCommitted, AnswersAreTrue
<1> QED
  BY <1>2, <1>3, <1>4, <1>6, <1>7 DEF WriteInv

\* Drawing a position: the new one is above everything drawn before.
LEMMA CreatePositionWriteInv ==
    ASSUME TypeOk, WriteInv, NEW w \in Writers, CreatePosition(w)
    PROVE  WriteInv'
<1> USE DEF Threads
<1>1. /\ pc[w] = "body" /\ pc'[w] = "drawn" /\ tx'[w] = tx[w] \cup {position_seq + 1}
      /\ position_seq' = position_seq + 1
      /\ \A v \in Writers : v # w => pc'[v] = pc[v] /\ tx'[v] = tx[v]
      /\ UNCHANGED <<lock, positions, stream, answer, commits>>
  BY DEF CreatePosition, TypeOk
<1>2. MutualExclusion'
  BY <1>1 DEF WriteInv, MutualExclusion
<1>3. DrawnAboveVisible'
  <2>1. \A row \in positions' : row.position <= position_seq'
    BY <1>1 DEF WriteInv, DrawnAboveVisible, TypeOk
  <2>2. \A v \in Writers : \A p \in tx'[v] : p <= position_seq'
    BY <1>1 DEF WriteInv, DrawnAboveVisible, TypeOk
  <2>3. ASSUME NEW v \in Writers, InTransaction(v)', NEW p \in tx'[v], NEW row \in positions'
        PROVE  p > row.position
    <3>1. CASE v = w
      BY <1>1, <2>3, <3>1 DEF WriteInv, DrawnAboveVisible, InTransaction, TypeOk
    <3>2. CASE v # w
      BY <1>1, <2>3, <3>2 DEF WriteInv, DrawnAboveVisible, InTransaction, TypeOk
    <3> QED
      BY <3>1, <3>2
  <2> QED
    BY <2>1, <2>2, <2>3 DEF DrawnAboveVisible
<1>4. CommittedOnce'
  BY <1>1 DEF WriteInv, CommittedOnce
<1>5. \A v \in Writers : PositionsOf(v)' = PositionsOf(v)
  BY <1>1 DEF PositionsOf
<1>6. ReadyToPublish'
  BY <1>1, <1>5 DEF WriteInv, ReadyToPublish
<1>7. MessagesAreCommitted' /\ AnswersAreTrue'
  BY <1>1, <1>5 DEF WriteInv, MessagesAreCommitted, AnswersAreTrue
<1> QED
  BY <1>2, <1>3, <1>4, <1>6, <1>7 DEF WriteInv

\* insert_events changes nothing but the place of the call.
LEMMA InsertEventsWriteInv ==
    ASSUME TypeOk, WriteInv, NEW w \in Writers, InsertEvents(w)
    PROVE  WriteInv'
<1> USE DEF Threads
<1>1. /\ pc[w] = "drawn" /\ pc'[w] = "body"
      /\ \A v \in Writers : v # w => pc'[v] = pc[v]
      /\ UNCHANGED <<lock, tx, position_seq, positions, stream, answer, commits>>
  BY DEF InsertEvents, TypeOk
<1>2. MutualExclusion' /\ DrawnAboveVisible' /\ CommittedOnce'
  BY <1>1 DEF WriteInv, MutualExclusion, DrawnAboveVisible, CommittedOnce, InTransaction
<1>3. \A v \in Writers : PositionsOf(v)' = PositionsOf(v)
  BY <1>1 DEF PositionsOf
<1>4. ReadyToPublish'
  BY <1>1, <1>3 DEF WriteInv, ReadyToPublish
<1>5. MessagesAreCommitted' /\ AnswersAreTrue'
  BY <1>1, <1>3 DEF WriteInv, MessagesAreCommitted, AnswersAreTrue
<1> QED
  BY <1>2, <1>4, <1>5 DEF WriteInv

\* A commit, whether the call then publishes or ends with an error: no other call
\* is in a transaction, so the positions that stay invisible keep above the visible
\* ones, and the rows of the call are exactly those of its transaction.
LEMMA CommitWriteInv ==
    ASSUME TypeOk, WriteInv, NEW w \in Writers, ReadyToCommit(w), CommitTables(w),
           \A v \in Writers : v # w =>
               pc'[v] = pc[v] /\ tx'[v] = tx[v] /\ answer'[v] = answer[v],
           \/ pc'[w] = "publish" /\ tx'[w] = tx[w] /\ answer'[w] = answer[w] /\ lock' = lock
           \/ pc'[w] = "done" /\ tx'[w] = {} /\ answer'[w] = "error",
           UNCHANGED <<position_seq, stream>>
    PROVE  WriteInv'
<1> USE DEF Threads
<1>1. /\ pc[w] = "body" /\ lock = w
      /\ commits'[w] = commits[w] + 1
      /\ \A v \in Writers : v # w => commits'[v] = commits[v]
      /\ positions' = positions \cup {[position |-> p, writer |-> w] : p \in tx[w]}
  BY DEF ReadyToCommit, CommitTables, WriteInv, MutualExclusion, TypeOk
<1>2. commits[w] = 0 /\ \A row \in positions : row.writer # w
  BY <1>1 DEF WriteInv, CommittedOnce, TypeOk
<1>3. /\ \A row \in positions' : row \in positions \/ (row.writer = w /\ row.position \in tx[w])
      /\ \A v \in Writers : v # w => PositionsOf(v)' = PositionsOf(v)
      /\ PositionsOf(w)' = tx[w]
  BY <1>1, <1>2, CommitRows
<1>4. \A v \in Writers : v # w => pc[v] \notin {"body", "drawn", "upserted", "publish"}
  BY <1>1 DEF WriteInv, MutualExclusion
<1>5. \A v \in Writers : ~InTransaction(v)'
  BY <1>4, <1>1 DEF InTransaction
<1>6. MutualExclusion'
  BY <1>1, <1>4 DEF WriteInv, MutualExclusion
<1>7. DrawnAboveVisible'
  <2>1. \A row \in positions' : row.position <= position_seq'
    BY <1>3 DEF WriteInv, DrawnAboveVisible
  <2>2. \A v \in Writers : \A p \in tx'[v] : p <= position_seq'
    BY DEF WriteInv, DrawnAboveVisible
  <2> QED
    BY <2>1, <2>2, <1>5 DEF DrawnAboveVisible
<1>8. CommittedOnce'
  <2>1. ASSUME NEW v \in Writers, v # w, commits'[v] = 0, NEW row \in positions'
        PROVE  row.writer # v
    BY <2>1, <1>1, <1>3 DEF WriteInv, CommittedOnce
  <2>2. ASSUME NEW v \in Writers, commits'[v] # 0
        PROVE  commits'[v] = 1 /\ pc'[v] \in {"publish", "done"}
    BY <2>2, <1>1, <1>2 DEF WriteInv, CommittedOnce
  <2>3. ASSUME NEW v \in Writers, answer'[v] # "none" PROVE pc'[v] = "done"
    BY <2>3, <1>1 DEF WriteInv, CommittedOnce
  <2>4. commits'[w] # 0
    BY <1>1, <1>2
  <2> QED
    BY <2>1, <2>2, <2>3, <2>4 DEF CommittedOnce
<1>9. ReadyToPublish'
  <2>1. ASSUME NEW v \in Writers, pc'[v] = "publish"
        PROVE  /\ commits'[v] = 1 /\ tx'[v] = PositionsOf(v)'
               /\ \A m \in stream : \A q \in m.positions, p \in tx'[v] : p > q
    <3>1. v = w /\ tx'[w] = tx[w]
      BY <2>1, <1>4
    <3>2. ASSUME NEW m \in stream, NEW q \in m.positions, NEW p \in tx[w] PROVE p > q
      <4>1. [position |-> q, writer |-> m.writer] \in positions
        BY DEF WriteInv, MessagesAreCommitted
      <4> QED
        BY <4>1, <1>1 DEF WriteInv, DrawnAboveVisible, InTransaction
    <3> QED
      BY <3>1, <3>2, <1>1, <1>2, <1>3
  <2> QED
    BY <2>1 DEF ReadyToPublish
<1>10. MessagesAreCommitted'
  BY <1>1 DEF WriteInv, MessagesAreCommitted
<1>11. AnswersAreTrue'
  <2>1. answer[w] = "none"
    BY <1>1 DEF WriteInv, CommittedOnce
  <2> QED
    BY <2>1, <1>1, <1>3 DEF WriteInv, AnswersAreTrue
<1> QED
  BY <1>6, <1>7, <1>8, <1>9, <1>10, <1>11 DEF WriteInv

\* The message of a call lies above all earlier ones and names what it committed.
LEMMA PublishWriteInv ==
    ASSUME TypeOk, WriteInv, NEW w \in Writers, Publish(w)
    PROVE  WriteInv'
<1> USE DEF Threads
<1>1. /\ pc[w] = "publish" /\ pc'[w] = "done" /\ tx'[w] = {} /\ answer'[w] = "ok"
      /\ \A v \in Writers : v # w =>
            pc'[v] = pc[v] /\ tx'[v] = tx[v] /\ answer'[v] = answer[v]
      /\ stream' = stream \cup {[writer |-> w, positions |-> tx[w]]}
      /\ UNCHANGED <<position_seq, positions, commits>>
  BY DEF Publish, Discard, Finish, TypeOk
<1>2. lock = w /\ commits[w] = 1 /\ tx[w] = PositionsOf(w)
  BY <1>1 DEF WriteInv, MutualExclusion, ReadyToPublish
<1>3. \A v \in Writers : pc'[v] \notin {"body", "drawn", "upserted", "publish"}
  BY <1>1, <1>2 DEF WriteInv, MutualExclusion
<1>4. \A v \in Writers : PositionsOf(v)' = PositionsOf(v)
  BY <1>1 DEF PositionsOf
<1>5. MutualExclusion' /\ ReadyToPublish'
  BY <1>3 DEF MutualExclusion, ReadyToPublish
<1>6. DrawnAboveVisible'
  BY <1>1, <1>3 DEF WriteInv, DrawnAboveVisible, InTransaction
<1>7. CommittedOnce'
  BY <1>1 DEF WriteInv, CommittedOnce
<1>8. MessagesAreCommitted'
  <2>1. \A p \in tx[w] : [position |-> p, writer |-> w] \in positions
    <3> SUFFICES ASSUME NEW p \in tx[w] PROVE [position |-> p, writer |-> w] \in positions
      OBVIOUS
    <3>1. PICK row \in positions : row.writer = w /\ row.position = p
      BY <1>2 DEF PositionsOf
    <3>2. row = [position |-> p, writer |-> w]
      BY <3>1 DEF TypeOk
    <3> QED
      BY <3>2
  <2>2. ASSUME NEW m \in stream', NEW p \in m.positions
        PROVE  [position |-> p, writer |-> m.writer] \in positions'
    <3>1. CASE m \in stream
      BY <3>1, <1>1 DEF WriteInv, MessagesAreCommitted
    <3>2. CASE m = [writer |-> w, positions |-> tx[w]]
      BY <3>2, <2>1, <1>1
    <3> QED
      BY <3>1, <3>2, <1>1
  <2> QED
    BY <2>2 DEF MessagesAreCommitted
<1>9. AnswersAreTrue'
  BY <1>1, <1>2, <1>4 DEF WriteInv, AnswersAreTrue
<1> QED
  BY <1>5, <1>6, <1>7, <1>8, <1>9 DEF WriteInv

\* A broken connection ends the transactions of all threads.
LEMMA LoseConnectionWriteInv ==
    ASSUME TypeOk, WriteInv, NEW t \in Threads, LoseConnection(t)
    PROVE  WriteInv'
<1> USE DEF Threads
<1>1. /\ \A v \in Writers : tx'[v] = IF InTransaction(v) THEN {} ELSE tx[v]
      /\ \A v \in Writers : v # t => pc'[v] = pc[v] /\ answer'[v] = answer[v]
      /\ \/ pc'[t] = "start" /\ answer'[t] = answer[t]
         \/ pc'[t] = "done" /\ answer'[t] = "error"
      /\ lock' = IF lock = t THEN NoThread ELSE lock
      /\ UNCHANGED <<position_seq, positions, stream, commits>>
      /\ InTransaction(t)
  BY DEF LoseConnection, ReleaseLock, Finish, TypeOk
<1>2. MutualExclusion'
  BY <1>1 DEF WriteInv, MutualExclusion
<1>3. DrawnAboveVisible'
  <2>1. \A v \in Writers : tx'[v] \subseteq tx[v]
    BY <1>1
  <2>2. \A v \in Writers : InTransaction(v)' => tx'[v] = {}
    BY <1>1 DEF InTransaction
  <2> QED
    BY <1>1, <2>1, <2>2 DEF WriteInv, DrawnAboveVisible
<1>4. CommittedOnce'
  BY <1>1 DEF WriteInv, CommittedOnce, InTransaction
<1>5. \A v \in Writers : PositionsOf(v)' = PositionsOf(v)
  BY <1>1 DEF PositionsOf
<1>6. ReadyToPublish'
  BY <1>1, <1>5 DEF WriteInv, ReadyToPublish, InTransaction
<1>7. MessagesAreCommitted'
  BY <1>1 DEF WriteInv, MessagesAreCommitted
<1>8. AnswersAreTrue'
  BY <1>1, <1>5 DEF WriteInv, AnswersAreTrue
<1> QED
  BY <1>2, <1>3, <1>4, <1>6, <1>7, <1>8 DEF WriteInv

\* A crash ends everything under way.
LEMMA CrashWriteInv == ASSUME TypeOk, WriteInv, Crash PROVE WriteInv'
<1> USE DEF Threads
<1>1. /\ \A v \in Writers : tx'[v] = {}
      /\ \A v \in Writers : \/ pc'[v] = "done" /\ answer'[v] \in {"error", answer[v]}
                            \/ pc[v] = "start" /\ pc'[v] = pc[v] /\ answer'[v] = answer[v]
      /\ UNCHANGED <<position_seq, positions, stream, commits>>
  BY DEF Crash, TypeOk
<1>2. MutualExclusion' /\ DrawnAboveVisible'
  BY <1>1 DEF WriteInv, MutualExclusion, DrawnAboveVisible
<1>3. CommittedOnce'
  BY <1>1 DEF WriteInv, CommittedOnce
<1>4. \A v \in Writers : PositionsOf(v)' = PositionsOf(v)
  BY <1>1 DEF PositionsOf
<1>5. ReadyToPublish' /\ MessagesAreCommitted'
  BY <1>1 DEF WriteInv, ReadyToPublish, MessagesAreCommitted
<1>6. AnswersAreTrue'
  BY <1>1, <1>4 DEF WriteInv, AnswersAreTrue
<1> QED
  BY <1>2, <1>3, <1>5, <1>6 DEF WriteInv

\* Every step keeps WriteInv.
LEMMA WriteInvStep == TypeOk /\ WriteInv /\ [Next]_vars => WriteInv'
<1> SUFFICES ASSUME TypeOk, WriteInv, [Next]_vars PROVE WriteInv'
  OBVIOUS
<1> USE ThreadsAssumption DEF Threads
<1>1. TypeOk'
  BY TypeStep
<1>2. ASSUME NEW w \in Writers, WriterStep(w) PROVE WriteInv'
  <2>1. CASE Commit(w)
    BY <2>1, CommitWriteInv DEF Commit, TypeOk
  <2>2. CASE FindClosed(w)
    BY <2>2, <1>1, AbortKeepsWriteInv DEF FindClosed, ReleaseLock, Discard, TypeOk
  <2> QED
    BY <1>2, <2>1, <2>2, AcquireWriteInv, CreatePositionWriteInv, InsertEventsWriteInv,
       PublishWriteInv DEF WriterStep
<1>3. ASSUME NEW w \in Writers, WriterFailure(w) PROVE WriteInv'
  <2>1. CASE Refuse(w)
    <3>1. commits[w] = 0
      BY <2>1 DEF Refuse, WriteInv, CommittedOnce
    <3> QED
      BY <2>1, <3>1, <1>1, AbortKeepsWriteInv DEF Refuse, ReleaseLock, Discard, TypeOk
  <2>2. CASE CommitFails(w)
    BY <2>2, <1>1, AbortKeepsWriteInv DEF CommitFails, ReleaseLock, Discard, TypeOk
  <2>3. CASE CommitUnnoticed(w)
    BY <2>3, CommitWriteInv DEF CommitUnnoticed, Discard, Finish, TypeOk
  <2>4. CASE PublishFails(w)
    BY <2>4, <1>1, AbortKeepsWriteInv DEF PublishFails, ReleaseLock, Discard, TypeOk
  <2>5. CASE ConnectFails(w)
    BY <2>5, <1>1, AbortKeepsWriteInv DEF ConnectFails, TypeOk
  <2> QED
    BY <1>3, <2>1, <2>2, <2>3, <2>4, <2>5, LoseConnectionWriteInv DEF WriterFailure
<1>4. ASSUME NEW r \in Reservers, ReserverStep(r) \/ ReserverFailure(r) PROVE WriteInv'
  <2>1. CASE LoseConnection(r)
    BY <2>1, LoseConnectionWriteInv
  <2>2. CASE ~LoseConnection(r)
    <3>1. /\ \A w \in Writers : pc'[w] = pc[w] /\ answer'[w] = answer[w]
          /\ UNCHANGED <<lock, tx, position_seq, positions, stream, commits>>
      BY <1>4, <2>2
         DEF ReserverStep, ReserverFailure, Enter, ReserveNextIds, CommitReservation,
             ReservationFails, ConnectFails, FindClosed, ReleaseLock, Discard, Finish,
             TypeOk
    <3> QED
      BY <3>1, WritersUntouched
  <2> QED
    BY <2>1, <2>2
<1>5. CASE UNCHANGED vars
  BY <1>5, WritersUntouched DEF vars
<1> QED
  BY <1>2, <1>3, <1>4, <1>5, CrashWriteInv DEF Next

\* The inductive invariant of the calls of write.
THEOREM WriteInvariant == Spec => [](TypeOk /\ WriteInv)
BY TypeInit, TypeStep, WriteInvInit, WriteInvStep, PTL DEF Spec

\* However often retry_on_db_failure runs a call of write, it commits at most once.
THEOREM AtMostOnceHolds == Spec => []AtMostOnce
<1>1. TypeOk /\ WriteInv => AtMostOnce
  BY DEF WriteInv, CommittedOnce, AtMostOnce, TypeOk
<1> QED
  BY <1>1, WriteInvariant, PTL

\* What the answer to a call of write says is true: "ok" means committed and
\* announced, a refusal means that nothing was written.
THEOREM AnswersAreTrueHolds == Spec => []AnswersAreTrue
<1>1. WriteInv => AnswersAreTrue
  BY DEF WriteInv
<1> QED
  BY <1>1, WriteInvariant, PTL

\* The message bus announces committed positions only.
THEOREM MessagesAreCommittedHolds == Spec => []MessagesAreCommitted
<1>1. WriteInv => MessagesAreCommitted
  BY DEF WriteInv
<1> QED
  BY <1>1, WriteInvariant, PTL

\* A step that adds rows to positions is a commit of a call, whose rows are new.
LEMMA NewRowsAreDrawn ==
    ASSUME TypeOk, WriteInv, [Next]_vars, NEW new \in positions' \ positions
    PROVE  \E w \in Writers : InTransaction(w) /\ new.position \in tx[w]
<1>1. ASSUME NEW w \in Writers, ReadyToCommit(w), CommitTables(w)
      PROVE  InTransaction(w) /\ new.position \in tx[w]
  BY <1>1, CommitRows DEF ReadyToCommit, CommitTables, InTransaction
<1>2. ASSUME NEW w \in Writers, WriterStep(w) \/ WriterFailure(w), positions' # positions
      PROVE  ReadyToCommit(w) /\ CommitTables(w)
  BY <1>2 DEF WriterStep, WriterFailure, Acquire, CreatePosition, InsertEvents, Commit,
              Publish, FindClosed, Refuse, CommitFails, CommitUnnoticed, PublishFails,
              ConnectFails, LoseConnection
<1>3. ASSUME NEW r \in Reservers, ReserverStep(r) \/ ReserverFailure(r)
      PROVE  positions' = positions
  BY <1>3 DEF ReserverStep, ReserverFailure, Enter, ReserveNextIds, CommitReservation,
              ReservationFails, ConnectFails, FindClosed, LoseConnection
<1>4. Crash \/ UNCHANGED vars => positions' = positions
  BY DEF Crash, vars
<1> QED
  BY <1>1, <1>2, <1>3, <1>4 DEF Next

\* Positions become visible in rising order: once a reader has seen a position as
\* the highest, no smaller one appears later.
THEOREM PositionsVisibleInOrderHolds == Spec => PositionsVisibleInOrder
<1>1. TypeOk /\ WriteInv /\ [Next]_vars =>
          [\A new \in positions' \ positions : \A old \in positions :
              new.position > old.position]_vars
  BY NewRowsAreDrawn DEF WriteInv, DrawnAboveVisible
<1> QED
  BY <1>1, WriteInvariant, PTL DEF Spec, PositionsVisibleInOrder

\* Messages are sent in the order of the positions they announce.
THEOREM MessagesInOrderHolds == Spec => MessagesInOrder
<1>1. ASSUME TypeOk, WriteInv, [Next]_vars, NEW new \in stream' \ stream
      PROVE  \E w \in Writers : pc[w] = "publish" /\ new.positions = tx[w]
  <2>1. ASSUME NEW w \in Writers, WriterStep(w) \/ WriterFailure(w) PROVE
               Publish(w) \/ stream' = stream
    BY <2>1 DEF WriterStep, WriterFailure, Acquire, CreatePosition, InsertEvents, Commit,
                FindClosed, Refuse, CommitFails, CommitUnnoticed, PublishFails,
                ConnectFails, LoseConnection
  <2>2. ASSUME NEW r \in Reservers, ReserverStep(r) \/ ReserverFailure(r)
        PROVE  stream' = stream
    BY <2>2 DEF ReserverStep, ReserverFailure, Enter, ReserveNextIds, CommitReservation,
                ReservationFails, ConnectFails, FindClosed, LoseConnection
  <2>3. Crash \/ UNCHANGED vars => stream' = stream
    BY DEF Crash, vars
  <2>4. PICK w \in Writers : Publish(w)
    BY <1>1, <2>1, <2>2, <2>3 DEF Next
  <2> QED
    BY <1>1, <2>4 DEF Publish
<1>2. TypeOk /\ WriteInv /\ [Next]_vars =>
          [\A new \in stream' \ stream : \A old \in stream :
              \A p \in new.positions, q \in old.positions : p > q]_vars
  BY <1>1 DEF WriteInv, ReadyToPublish
<1> QED
  BY <1>2, WriteInvariant, PTL DEF Spec, MessagesInOrder

-----------------------------------------------------------------------------
(* Identifiers                                                              *)

\* Init satisfies IdInv.
LEMMA IdInvInit == Init => IdInv
BY ThreadsAssumption, ParametersAssumption DEF Init, IdInv, Threads

\* A commit of a call of write, whatever the call then does.
LEMMA CommitIdInv ==
    ASSUME TypeOk, IdInv, NEW w \in Writers, ReadyToCommit(w), CommitTables(w),
           pc'[w] \in {"publish", "done"},
           \A t \in Threads : t # w => pc'[t] = pc[t],
           UNCHANGED <<closed, executed, pendingId, reserved>>
    PROVE  IdInv'
<1> USE ThreadsAssumption, ParametersAssumption
<1> USE DEF Threads
<1>1. rowLock = w /\ CreateId[w] < pendingId /\ nextId <= pendingId
  BY DEF ReadyToCommit, IdInv, TypeOk
<1>2. nextId' = pendingId /\ rowLock' = NoThread
  BY <1>1 DEF CommitTables, ReleaseRow, RowFor
<1>3. created' \subseteq {n \in Nat : n < nextId'}
  <2>1. created' = created \cup {CreateId[w]} /\ CreateId[w] \in Nat
    BY DEF CommitTables
  <2>2. \A n \in created : n \in Nat /\ n < nextId
    BY DEF IdInv
  <2>3. nextId \in Nat /\ pendingId \in Nat
    BY DEF TypeOk
  <2>4. \A n \in created' : n \in Nat /\ n < pendingId
    BY <1>1, <2>1, <2>2, <2>3
  <2> QED
    BY <2>4, <1>2
<1>4. \A r \in Reservers : reserved'[r] \subseteq {n \in Nat : n < nextId'}
  BY <1>1, <1>2 DEF IdInv, TypeOk
<1>5. \A r \in Reservers : ~(pc'[r] = "upserted" /\ ~closed'[r])
  BY <1>1 DEF IdInv
<1>6. \A v \in Writers :
          ~(pc'[v] \in {"body", "drawn"} /\ ~closed'[v] /\ executed'[v] > 0)
  BY <1>1 DEF IdInv
<1> QED
  BY <1>2, <1>3, <1>4, <1>5, <1>6 DEF IdInv

\* Every step keeps IdInv: the row of id_sequences is changed by one open
\* transaction at a time, and only upwards.
LEMMA IdInvStep == TypeOk /\ WriteInv /\ IdInv /\ [Next]_vars => IdInv'
<1> SUFFICES ASSUME TypeOk, WriteInv, IdInv, [Next]_vars PROVE IdInv'
  OBVIOUS
<1> USE ThreadsAssumption, ParametersAssumption
<1> USE DEF TypeOk, IdInv, Threads, idVars
<1>1. ASSUME NEW w \in Writers, Acquire(w) PROVE IdInv'
  BY <1>1 DEF Acquire
<1>2. ASSUME NEW w \in Writers, CreatePosition(w) PROVE IdInv'
  BY <1>2 DEF CreatePosition
<1>3. ASSUME NEW w \in Writers, InsertEvents(w) PROVE IdInv'
  BY <1>3 DEF InsertEvents, RowFor, Greatest
<1>4. ASSUME NEW w \in Writers, Refuse(w) PROVE IdInv'
  BY <1>4 DEF Refuse, ReleaseRow, Discard, Finish
<1>5. ASSUME NEW w \in Writers, Commit(w) PROVE IdInv'
  BY <1>5, CommitIdInv DEF Commit
<1>6. ASSUME NEW w \in Writers, CommitFails(w) PROVE IdInv'
  BY <1>6 DEF CommitFails, ReadyToCommit, ReleaseRow, Discard, Finish
<1>7. ASSUME NEW w \in Writers, CommitUnnoticed(w) PROVE IdInv'
  BY <1>7, CommitIdInv DEF CommitUnnoticed, Finish
<1>8. ASSUME NEW w \in Writers, Publish(w) \/ PublishFails(w) PROVE IdInv'
  <2>1. /\ UNCHANGED <<rowLock, nextId, pendingId, created, reserved, closed, executed>>
        /\ \A r \in Reservers : taken'[r] = taken[r]
        /\ pc' = [pc EXCEPT ![w] = "done"]
    BY <1>8 DEF Publish, PublishFails, Discard, Finish
  <2> QED
    BY <2>1
<1>9. ASSUME NEW r \in Reservers, Enter(r) PROVE IdInv'
  BY <1>9 DEF Enter
<1>10. ASSUME NEW r \in Reservers, ReserveNextIds(r) PROVE IdInv'
  BY <1>10 DEF ReserveNextIds
<1>11. ASSUME NEW r \in Reservers, NEW outcome \in {"ok", "error"},
              CommitReservation(r, outcome)
       PROVE  IdInv'
  BY <1>11 DEF CommitReservation, RowFor, ReleaseRow, Discard, Finish
<1>12. ASSUME NEW r \in Reservers, ReservationFails(r) PROVE IdInv'
  BY <1>12 DEF ReservationFails, ReleaseRow, Discard, Finish
<1>13. ASSUME NEW t \in Threads, ConnectFails(t) PROVE IdInv'
  BY <1>13 DEF ConnectFails, Finish
<1>14. ASSUME NEW t \in Threads, LoseConnection(t) PROVE IdInv'
  <2>1. /\ rowLock' = NoThread /\ UNCHANGED <<nextId, created, reserved>>
        /\ \E word \in {"start", "done"} : pc' = [pc EXCEPT ![t] = word]
        /\ closed' = [u \in Threads |-> closed[u] \/ (u # t /\ InTransaction(u))]
    BY <1>14 DEF LoseConnection, Finish
  <2>2. ASSUME NEW u \in Threads, u # t, InTransaction(u) PROVE closed'[u]
    BY <2>1, <2>2
  <2>3. \A u \in Threads : u # t => pc'[u] = pc[u]
    BY <2>1
  <2>4. pc'[t] \notin {"body", "drawn", "upserted"}
    BY <2>1
  <2>5. \A u \in Threads : ~(pc'[u] \in {"body", "drawn", "upserted"} /\ ~closed'[u])
    BY <2>2, <2>3, <2>4 DEF InTransaction
  <2> QED
    BY <2>1, <2>5
<1>15. ASSUME NEW t \in Threads, FindClosed(t) PROVE IdInv'
  BY <1>15 DEF FindClosed, Discard, Finish
<1>16. CASE Crash
  BY <1>16 DEF Crash
<1>17. CASE UNCHANGED vars
  BY <1>17 DEF vars
<1> QED
  BY <1>1, <1>2, <1>3, <1>4, <1>5, <1>6, <1>7, <1>8, <1>9, <1>10, <1>11, <1>12, <1>13,
     <1>14, <1>15, <1>16, <1>17
     DEF Next, WriterStep, WriterFailure, ReserverStep, ReserverFailure

\* The inductive invariant of all threads.
THEOREM Invariant == Spec => [](TypeOk /\ WriteInv /\ IdInv)
BY TypeInit, TypeStep, WriteInvInit, WriteInvStep, IdInvInit, IdInvStep, PTL DEF Spec

\* The only steps that add to the reserved ids are commits of a reservation.
LEMMA NewReservations ==
    ASSUME TypeOk, IdInv, [Next]_vars
    PROVE  \A r \in Reservers : reserved'[r] \ reserved[r] \subseteq {n \in Nat : nextId <= n}
<1> USE ThreadsAssumption, ParametersAssumption
<1>1. ASSUME NEW s \in Reservers, NEW outcome \in {"ok", "error"},
             CommitReservation(s, outcome), NEW r \in Reservers
      PROVE  reserved'[r] \ reserved[r] \subseteq {n \in Nat : nextId <= n}
  BY <1>1 DEF CommitReservation, IdInv, TypeOk
<1>2. ASSUME NEW s \in Reservers, ReserverStep(s) \/ ReserverFailure(s)
      PROVE  reserved' = reserved \/ \E outcome \in {"ok", "error"} : CommitReservation(s, outcome)
  BY <1>2 DEF ReserverStep, ReserverFailure, Enter, ReserveNextIds, ReservationFails,
              ConnectFails, FindClosed, LoseConnection, idVars
<1>3. ASSUME NEW w \in Writers, WriterStep(w) \/ WriterFailure(w) PROVE reserved' = reserved
  BY <1>3 DEF WriterStep, WriterFailure, Acquire, CreatePosition, InsertEvents, Commit,
              Publish, FindClosed, Refuse, CommitFails, CommitUnnoticed, PublishFails,
              ConnectFails, LoseConnection, idVars
<1>4. Crash \/ UNCHANGED vars => reserved' = reserved
  BY DEF Crash, vars, idVars
<1> QED
  BY <1>1, <1>2, <1>3, <1>4 DEF Next

\* A reservation that commits holds no id of a model that is already visible.
THEOREM ReservedAreFreeHolds == Spec => ReservedAreFree
<1>1. TypeOk /\ IdInv /\ [Next]_vars =>
          [\A r \in Reservers : (reserved'[r] \ reserved[r]) \cap created = {}]_vars
  <2> SUFFICES ASSUME TypeOk, IdInv, [Next]_vars, NEW r \in Reservers,
                      NEW n \in reserved'[r] \ reserved[r], n \in created
               PROVE  FALSE
    OBVIOUS
  <2> QED
    BY NewReservations DEF IdInv, TypeOk
<1> QED
  BY <1>1, Invariant, PTL DEF Spec, ReservedAreFree

\* One reservation commits at a time, with ids above all that were reserved.
LEMMA ReservedOnceStep ==
    TypeOk /\ IdInv /\ ReservedOnce /\ [Next]_vars => ReservedOnce'
<1> SUFFICES ASSUME TypeOk, IdInv, ReservedOnce, [Next]_vars,
                    NEW r \in Reservers, NEW s \in Reservers, r # s,
                    NEW n \in reserved'[r], n \in reserved'[s]
             PROVE  FALSE
  BY DEF ReservedOnce
<1>1. reserved'[r] = reserved[r] \/ reserved'[s] = reserved[s]
  <2>1. ASSUME NEW q \in Reservers, ReserverStep(q) \/ ReserverFailure(q)
        PROVE  reserved' = reserved \/ reserved' = [reserved EXCEPT ![q] = @ \cup taken[q]]
    BY <2>1 DEF ReserverStep, ReserverFailure, Enter, ReserveNextIds, ReservationFails,
                CommitReservation, ConnectFails, FindClosed, LoseConnection, idVars
  <2>2. ASSUME NEW w \in Writers, WriterStep(w) \/ WriterFailure(w) PROVE reserved' = reserved
    BY <2>2 DEF WriterStep, WriterFailure, Acquire, CreatePosition, InsertEvents, Commit,
                Publish, FindClosed, Refuse, CommitFails, CommitUnnoticed, PublishFails,
                ConnectFails, LoseConnection, idVars
  <2>3. Crash \/ UNCHANGED vars => reserved' = reserved
    BY DEF Crash, vars, idVars
  <2> QED
    BY <2>1, <2>2, <2>3 DEF Next, TypeOk
<1>2. \A q \in Reservers : n \in reserved'[q] => n \in reserved[q] \/ nextId <= n
  BY NewReservations
<1>3. \A q \in Reservers : n \in reserved[q] => n < nextId
  BY DEF IdInv
<1>4. n \in Nat /\ nextId \in Nat
  <2>1. TypeOk'
    BY TypeStep
  <2> QED
    BY <2>1 DEF TypeOk
<1> QED
  BY <1>1, <1>2, <1>3, <1>4 DEF ReservedOnce

\* No id is returned by two reservations, whatever fails in between.
THEOREM ReservedOnceHolds == Spec => []ReservedOnce
<1>1. Init => ReservedOnce
  BY DEF Init, ReservedOnce
<1> QED
  BY <1>1, ReservedOnceStep, Invariant, PTL DEF Spec

-----------------------------------------------------------------------------
(* The refinement of SerialWrites. Beyond the invariants above this takes   *)
(* counting: how many positions and ids an open transaction has drawn.      *)

\* An open transaction has drawn one position per request it has begun.
DrawnPositions ==
    \A w \in Writers : pc[w] \in {"body", "drawn"} /\ ~closed[w] =>
        /\ IsFiniteSet(tx[w])
        /\ Cardinality(tx[w]) = executed[w] + (IF pc[w] = "drawn" THEN 1 ELSE 0)

\* An open reservation has drawn as many ids as were asked for.
TakenIds ==
    \A r \in Reservers : pc[r] = "upserted" /\ ~closed[r] =>
        Cardinality(taken[r]) = Amount[r]

\* A call of reserve_ids that has ids or an answer is over.
ReservedAtTheEnd ==
    \A r \in Reservers : reserved[r] # {} \/ answer[r] # "none" => pc[r] = "done"

CountInv == DrawnPositions /\ TakenIds /\ ReservedAtTheEnd /\ AllOrNothing

-----------------------------------------------------------------------------
(* Counting                                                                 *)

\* Init satisfies CountInv.
LEMMA CountInit == Init => CountInv
<1> SUFFICES ASSUME Init PROVE CountInv
  OBVIOUS
<1>1. DrawnPositions /\ TakenIds /\ ReservedAtTheEnd
  BY DEF Init, Threads, DrawnPositions, TakenIds, ReservedAtTheEnd
<1>2. \A w \in Writers : PositionsOf(w) = {} /\ commits[w] = 0
  BY DEF Init, PositionsOf
<1>3. AllOrNothing
  BY <1>2, FS_EmptySet, ParametersAssumption DEF AllOrNothing
<1> QED
  BY <1>1, <1>3 DEF CountInv

\* create_position draws one position per request; whatever ends or closes a transaction
\* takes it out of the count.
LEMMA DrawnStep ==
    ASSUME TypeOk, WriteInv, DrawnPositions, [Next]_vars
    PROVE  DrawnPositions'
<1> USE ThreadsAssumption, ParametersAssumption
<1> USE DEF TypeOk, DrawnPositions, Threads
<1>1. ASSUME NEW w \in Writers, Acquire(w) PROVE DrawnPositions'
  BY <1>1, FS_EmptySet DEF Acquire
<1>2. ASSUME NEW w \in Writers, CreatePosition(w) PROVE DrawnPositions'
  <2>1. /\ pc[w] = "body" /\ pc' = [pc EXCEPT ![w] = "drawn"] /\ ~closed[w]
        /\ tx' = [tx EXCEPT ![w] = tx[w] \cup {position_seq + 1}]
        /\ UNCHANGED <<closed, executed>>
    BY <1>2 DEF CreatePosition
  <2>2. position_seq + 1 \notin tx[w]
    BY DEF WriteInv, DrawnAboveVisible
  <2>3. IsFiniteSet(tx[w]) /\ Cardinality(tx[w]) = executed[w]
    BY <2>1
  <2>4. /\ IsFiniteSet(tx[w] \cup {position_seq + 1})
        /\ Cardinality(tx[w] \cup {position_seq + 1}) = executed[w] + 1
    BY <2>2, <2>3, FS_AddElement
  <2> QED
    BY <2>1, <2>4
<1>3. ASSUME NEW w \in Writers, InsertEvents(w) PROVE DrawnPositions'
  BY <1>3 DEF InsertEvents
<1>4. ASSUME NEW w \in Writers, Refuse(w) \/ CommitFails(w) \/ PublishFails(w) \/ Publish(w)
                                \/ CommitUnnoticed(w)
      PROVE  DrawnPositions'
  <2>1. /\ pc' = [pc EXCEPT ![w] = "done"]
        /\ \A v \in Writers : v # w => tx'[v] = tx[v]
        /\ UNCHANGED <<closed, executed>>
    BY <1>4 DEF Refuse, CommitFails, PublishFails, Publish, CommitUnnoticed, Discard, Finish
  <2> QED
    BY <2>1
<1>5. ASSUME NEW w \in Writers, Commit(w) PROVE DrawnPositions'
  BY <1>5 DEF Commit
<1>6. ASSUME NEW r \in Reservers, ReserverStep(r) \/ ReserverFailure(r), ~LoseConnection(r)
      PROVE  DrawnPositions'
  <2>1. /\ \A w \in Writers : pc'[w] = pc[w] /\ tx'[w] = tx[w] /\ closed'[w] = closed[w]
        /\ UNCHANGED executed
    BY <1>6 DEF ReserverStep, ReserverFailure, Enter, ReserveNextIds, CommitReservation,
                ReservationFails, ConnectFails, FindClosed, Discard, Finish
  <2> QED
    BY <2>1
<1>7. ASSUME NEW t \in Threads, LoseConnection(t) PROVE DrawnPositions'
  <2>1. \A w \in Writers : ~(pc'[w] \in {"body", "drawn"} /\ ~closed'[w])
    BY <1>7 DEF LoseConnection, InTransaction, Finish
  <2> QED
    BY <2>1
<1>8. ASSUME NEW w \in Writers, ConnectFails(w) \/ FindClosed(w) PROVE DrawnPositions'
  <2>1. /\ pc' = [pc EXCEPT ![w] = "done"]
        /\ \A v \in Writers : v # w => tx'[v] = tx[v]
        /\ UNCHANGED <<closed, executed>>
    BY <1>8 DEF ConnectFails, FindClosed, Discard, Finish
  <2> QED
    BY <2>1
<1>9. CASE Crash
  BY <1>9 DEF Crash
<1>10. CASE UNCHANGED vars
  BY <1>10 DEF vars
<1> QED
  BY <1>1, <1>2, <1>3, <1>4, <1>5, <1>6, <1>7, <1>8, <1>9, <1>10
     DEF Next, WriterStep, WriterFailure, ReserverStep, ReserverFailure

\* reserve_next_ids draws an interval as long as the amount asked for.
LEMMA TakenStep ==
    ASSUME TypeOk, TakenIds, [Next]_vars
    PROVE  TakenIds'
<1> USE ThreadsAssumption, ParametersAssumption
<1> USE DEF TypeOk, TakenIds, Threads
<1>1. ASSUME NEW r \in Reservers, ReserveNextIds(r) PROVE TakenIds'
  <2>1. /\ taken' = [taken EXCEPT ![r] = nextId..(nextId + Amount[r] - 1)]
        /\ pc' = [pc EXCEPT ![r] = "upserted"] /\ UNCHANGED closed
    BY <1>1 DEF ReserveNextIds
  <2>2. nextId \in Int /\ nextId + Amount[r] - 1 \in Int /\ Amount[r] \in Nat \ {0}
    OBVIOUS
  <2>3. Cardinality(nextId..(nextId + Amount[r] - 1)) = Amount[r]
    BY <2>2, FS_Interval, SMTT(20)
  <2> QED
    BY <2>1, <2>3
<1>2. ASSUME NEW r \in Reservers, Enter(r) PROVE TakenIds'
  BY <1>2 DEF Enter
<1>3. ASSUME NEW r \in Reservers, NEW outcome \in {"ok", "error"},
             CommitReservation(r, outcome) \/ ReservationFails(r)
      PROVE  TakenIds'
  BY <1>3 DEF CommitReservation, ReservationFails, Discard, Finish
<1>4. ASSUME NEW t \in Threads, ConnectFails(t) \/ FindClosed(t) PROVE TakenIds'
  BY <1>4 DEF ConnectFails, FindClosed, Discard, Finish
<1>5. ASSUME NEW t \in Threads, LoseConnection(t) PROVE TakenIds'
  <2>1. \A r \in Reservers : ~(pc'[r] = "upserted" /\ ~closed'[r])
    BY <1>5 DEF LoseConnection, InTransaction, Finish
  <2> QED
    BY <2>1
<1>6. ASSUME NEW w \in Writers, WriterStep(w) \/ WriterFailure(w),
             ~LoseConnection(w), ~ConnectFails(w), ~FindClosed(w)
      PROVE  TakenIds'
  <2>1. \A r \in Reservers : pc'[r] = pc[r] /\ taken'[r] = taken[r] /\ closed'[r] = closed[r]
    BY <1>6 DEF WriterStep, WriterFailure, Acquire, CreatePosition, InsertEvents, Commit,
                Publish, Refuse, CommitFails, CommitUnnoticed, PublishFails, Discard, Finish
  <2> QED
    BY <2>1
<1>7. CASE Crash
  BY <1>7 DEF Crash
<1>8. CASE UNCHANGED vars
  BY <1>8 DEF vars
<1> QED
  BY <1>1, <1>2, <1>3, <1>4, <1>5, <1>6, <1>7, <1>8
     DEF Next, WriterStep, WriterFailure, ReserverStep, ReserverFailure

\* A call of reserve_ids gets its ids and its answer with its last step.
LEMMA ReservedStep ==
    ASSUME TypeOk, ReservedAtTheEnd, [Next]_vars
    PROVE  ReservedAtTheEnd'
<1> USE ThreadsAssumption DEF TypeOk, ReservedAtTheEnd, Threads
<1>1. ASSUME NEW r \in Reservers, Enter(r) \/ ReserveNextIds(r) PROVE ReservedAtTheEnd'
  <2>1. /\ pc[r] # "done" /\ reserved' = reserved /\ answer' = answer
        /\ \A s \in Reservers : s # r => pc'[s] = pc[s]
    BY <1>1 DEF Enter, ReserveNextIds, idVars
  <2> QED
    BY <2>1
<1>2. ASSUME NEW r \in Reservers, NEW outcome \in {"ok", "error"},
             CommitReservation(r, outcome) \/ ReservationFails(r)
      PROVE  ReservedAtTheEnd'
  BY <1>2 DEF CommitReservation, ReservationFails, Finish, idVars
<1>3. ASSUME NEW t \in Threads, ConnectFails(t) \/ FindClosed(t) PROVE ReservedAtTheEnd'
  BY <1>3 DEF ConnectFails, FindClosed, Finish, idVars
<1>4. ASSUME NEW t \in Threads, LoseConnection(t) PROVE ReservedAtTheEnd'
  BY <1>4 DEF LoseConnection, InTransaction, Finish, idVars
<1>5. ASSUME NEW w \in Writers, WriterStep(w) \/ WriterFailure(w),
             ~LoseConnection(w), ~ConnectFails(w), ~FindClosed(w)
      PROVE  ReservedAtTheEnd'
  <2>1. /\ \A r \in Reservers : pc'[r] = pc[r] /\ answer'[r] = answer[r]
        /\ reserved' = reserved
    BY <1>5 DEF WriterStep, WriterFailure, Acquire, CreatePosition, InsertEvents, Commit,
                Publish, Refuse, CommitFails, CommitUnnoticed, PublishFails, Finish, idVars
  <2> QED
    BY <2>1
<1>6. CASE Crash
  BY <1>6 DEF Crash, idVars
<1>7. CASE UNCHANGED vars
  BY <1>7 DEF vars
<1> QED
  BY <1>1, <1>2, <1>3, <1>4, <1>5, <1>6, <1>7
     DEF Next, WriterStep, WriterFailure, ReserverStep, ReserverFailure

\* The only steps that change the committed rows are commits.
LEMMA CommitOrUnchanged ==
    ASSUME [Next]_vars
    PROVE  \/ UNCHANGED <<positions, commits>>
           \/ \E w \in Writers : Commit(w) \/ CommitUnnoticed(w)
<1>1. ASSUME NEW w \in Writers, WriterStep(w) \/ WriterFailure(w)
      PROVE  UNCHANGED <<positions, commits>> \/ Commit(w) \/ CommitUnnoticed(w)
  BY <1>1 DEF WriterStep, WriterFailure, Acquire, CreatePosition, InsertEvents,
              Publish, FindClosed, Refuse, CommitFails, PublishFails,
              ConnectFails, LoseConnection
<1>2. ASSUME NEW r \in Reservers, ReserverStep(r) \/ ReserverFailure(r)
      PROVE  UNCHANGED <<positions, commits>>
  BY <1>2 DEF ReserverStep, ReserverFailure, Enter, ReserveNextIds, CommitReservation,
              ReservationFails, ConnectFails, FindClosed, LoseConnection
<1>3. Crash \/ UNCHANGED vars => UNCHANGED <<positions, commits>>
  BY DEF Crash, vars
<1> QED
  BY <1>1, <1>2, <1>3 DEF Next

\* What a call is about to commit: no row of its own is visible, and it has drawn as many
\* positions as it has requests.
LEMMA AboutToCommit ==
    ASSUME TypeOk, WriteInv, DrawnPositions, NEW w \in Writers, ReadyToCommit(w)
    PROVE  /\ commits[w] = 0 /\ \A row \in positions : row.writer # w
           /\ IsFiniteSet(tx[w]) /\ Cardinality(tx[w]) = RequestsOf[w]
<1>1. pc[w] = "body" /\ ~closed[w] /\ executed[w] = RequestsOf[w]
  BY DEF ReadyToCommit
<1>2. commits[w] = 0
  BY <1>1 DEF WriteInv, CommittedOnce, TypeOk
<1>3. \A row \in positions : row.writer # w
  BY <1>2 DEF WriteInv, CommittedOnce
<1>4. IsFiniteSet(tx[w]) /\ Cardinality(tx[w]) = executed[w]
  BY <1>1 DEF DrawnPositions, TypeOk
<1> QED
  BY <1>1, <1>2, <1>3, <1>4

\* A commit gives a call all of its positions.
LEMMA AllOrNothingStep ==
    ASSUME TypeOk, WriteInv, DrawnPositions, AllOrNothing, [Next]_vars
    PROVE  AllOrNothing'
<1> USE ParametersAssumption
<1>1. CASE UNCHANGED <<positions, commits>>
  BY <1>1 DEF AllOrNothing, PositionsOf
<1>2. ASSUME NEW w \in Writers, ReadyToCommit(w), CommitTables(w) PROVE AllOrNothing'
  <2>1. /\ positions' = positions \cup {[position |-> p, writer |-> w] : p \in tx[w]}
        /\ commits' = [commits EXCEPT ![w] = @ + 1]
    BY <1>2 DEF CommitTables
  <2>2. /\ commits[w] = 0 /\ \A row \in positions : row.writer # w
        /\ Cardinality(tx[w]) = RequestsOf[w]
    BY <1>2, AboutToCommit
  <2>3. PositionsOf(w)' = tx[w] /\ \A v \in Writers : v # w => PositionsOf(v)' = PositionsOf(v)
    BY <2>1, <2>2, CommitRows
  <2>4. commits'[w] = 1 /\ \A v \in Writers : v # w => commits'[v] = commits[v]
    BY <2>1, <2>2 DEF TypeOk
  <2>5. \A v \in Writers : Cardinality(PositionsOf(v)') = commits'[v] * RequestsOf[v]
    BY <2>2, <2>3, <2>4 DEF AllOrNothing
  <2> QED
    BY <2>5 DEF AllOrNothing
<1> QED
  BY <1>1, <1>2, CommitOrUnchanged DEF Commit, CommitUnnoticed

\* Every step keeps the counts.
LEMMA CountStep == TypeOk /\ WriteInv /\ CountInv /\ [Next]_vars => CountInv'
BY DrawnStep, TakenStep, ReservedStep, AllOrNothingStep DEF CountInv

\* The counts, together with the invariants they rest on.
THEOREM CountInvariant == Spec => [](TypeOk /\ WriteInv /\ IdInv /\ CountInv)
BY Invariant, TypeInit, TypeStep, WriteInvInit, WriteInvStep, CountInit, CountStep, PTL DEF Spec

\* A call of write has all of its positions in the database or none, whatever fails.
THEOREM AllOrNothingHolds == Spec => []AllOrNothing
<1>1. CountInv => AllOrNothing
  BY DEF CountInv
<1> QED
  BY <1>1, CountInvariant, PTL

-----------------------------------------------------------------------------
(* The steps of the threads as steps of SerialWrites                        *)

\* The initial states of the threads are initial states of SerialWrites.
LEMMA InitRefines == Init => Promised!Init
BY DEF Init, Threads, Promised!Init, Promised!Callers

\* A set of positions and the rows of one call at these positions are equally many.
LEMMA RowsCount ==
    ASSUME NEW w, NEW P, IsFiniteSet(P)
    PROVE  Cardinality({[position |-> p, writer |-> w] : p \in P}) = Cardinality(P)
<1> DEFINE R == {[position |-> p, writer |-> w] : p \in P}
           f == [p \in P |-> [position |-> p, writer |-> w]]
<1>1. f \in Bijection(P, R)
  <2>1. f \in [P -> R]
    OBVIOUS
  <2>2. \A p, q \in P : f[p] = f[q] => p = q
    <3> SUFFICES ASSUME NEW p \in P, NEW q \in P, f[p] = f[q] PROVE p = q
      OBVIOUS
    <3>1. f[p].position = p /\ f[q].position = q
      OBVIOUS
    <3> QED
      BY <3>1
  <2>3. \A x \in R : \E p \in P : f[p] = x
    OBVIOUS
  <2> QED
    BY <2>1, <2>2, <2>3 DEF Bijection, Injection, IsInjective, Surjection
<1>2. ExistsBijection(P, R)
  BY <1>1 DEF ExistsBijection
<1> HIDE DEF R
<1>3. Cardinality(R) = Cardinality(P)
  BY <1>2, FS_Bijection
<1> QED
  BY <1>3 DEF R

\* SerialWrites counts as WriterService does.
LEMMA SameCount == ASSUME NEW S PROVE Promised!Cardinality(S) = Cardinality(S)
BY DEF Promised!Cardinality, Cardinality

\* A commit, noticed or not, is the call taking effect.
LEMMA CommitRefines ==
    ASSUME TypeOk, WriteInv, CountInv, NEW w \in Writers, Commit(w) \/ CommitUnnoticed(w)
    PROVE  Promised!Apply(w, "none") \/ Promised!Apply(w, "error")
<1> USE ParametersAssumption
<1> DEFINE new == {[position |-> p, writer |-> w] : p \in tx[w]}
<1>1. ReadyToCommit(w) /\ CommitTables(w) /\ UNCHANGED <<stream, reserved>>
  BY DEF Commit, CommitUnnoticed
<1>2. positions' = positions \cup new /\ created' = created \cup {CreateId[w]}
  BY <1>1 DEF CommitTables
<1>3. /\ \A row \in positions : row.writer # w
      /\ IsFiniteSet(tx[w]) /\ Cardinality(tx[w]) = RequestsOf[w]
  BY <1>1, AboutToCommit DEF CountInv
<1>4. positions' \ positions = new
  BY <1>2, <1>3
<1>5. Cardinality(positions' \ positions) = RequestsOf[w]
  <2> HIDE DEF new
  <2>1. Cardinality(new) = Cardinality(tx[w])
    BY <1>3, RowsCount DEF new
  <2> QED
    BY <1>3, <1>4, <2>1
<1>6. \A row \in positions' \ positions :
         row.writer = w /\ \A old \in positions : row.position > old.position
  <2>1. \A p \in tx[w], old \in positions : p > old.position
    BY <1>1 DEF ReadyToCommit, InTransaction, WriteInv, DrawnAboveVisible
  <2> QED
    BY <1>4, <2>1
<1>7. Promised!RowsOf(w) = {}
  BY <1>3 DEF Promised!RowsOf
<1>8. answer[w] = "none"
  BY <1>1 DEF ReadyToCommit, WriteInv, CommittedOnce
<1>9. Promised!Reply(w, "none") \/ Promised!Reply(w, "error")
  <2>1. answer' = [answer EXCEPT ![w] = "none"] \/ answer' = [answer EXCEPT ![w] = "error"]
    BY <1>8 DEF Commit, CommitUnnoticed, Finish, TypeOk
  <2> QED
    BY <1>8, <2>1 DEF Promised!Reply
<1>10. positions \subseteq positions'
  BY <1>2
<1>11. Promised!Cardinality(positions' \ positions) = RequestsOf[w]
  BY <1>5, SameCount
<1> QED
  BY <1>1, <1>2, <1>11, <1>6, <1>7, <1>9, <1>10 DEF Promised!Apply

\* Publishing is the announcement of the call.
LEMMA PublishRefines ==
    ASSUME TypeOk, WriteInv, CountInv, NEW w \in Writers, Publish(w)
    PROVE  Promised!Announce(w)
<1> USE ParametersAssumption
<1>1. /\ pc[w] = "publish"
      /\ stream' = stream \cup {[writer |-> w, positions |-> tx[w]]}
      /\ answer' = [answer EXCEPT ![w] = "ok"]
      /\ UNCHANGED <<positions, created, reserved>>
  BY DEF Publish, Finish, idVars
<1>2. /\ commits[w] = 1 /\ tx[w] = PositionsOf(w)
      /\ \A m \in stream : \A q \in m.positions, p \in tx[w] : p > q
  BY <1>1 DEF WriteInv, ReadyToPublish
<1>3. Promised!PositionsOf(w) = PositionsOf(w)
  BY DEF Promised!PositionsOf, Promised!RowsOf, PositionsOf
<1>4. Promised!RowsOf(w) # {}
  <2>1. Cardinality(PositionsOf(w)) = RequestsOf[w]
    BY <1>2 DEF CountInv, AllOrNothing
  <2>2. PositionsOf(w) # {}
    BY <2>1, FS_EmptySet
  <2> QED
    BY <2>2 DEF PositionsOf, Promised!RowsOf
<1>5. answer[w] = "none"
  BY <1>1 DEF WriteInv, CommittedOnce
<1> QED
  BY <1>1, <1>2, <1>3, <1>4, <1>5 DEF Promised!Announce, Promised!Reply

\* A refusal finds no row of the call.
LEMMA RefuseRefines ==
    ASSUME TypeOk, WriteInv, NEW w \in Writers, Refuse(w)
    PROVE  Promised!Refuse(w)
<1>1. /\ pc[w] \in {"body", "drawn"} /\ answer' = [answer EXCEPT ![w] = "refused"]
      /\ UNCHANGED <<positions, stream, created, reserved>>
  BY DEF Refuse, Finish, idVars
<1>2. commits[w] = 0 /\ answer[w] = "none"
  BY <1>1 DEF WriteInv, CommittedOnce, TypeOk
<1>3. Promised!RowsOf(w) = {}
  BY <1>2 DEF WriteInv, CommittedOnce, Promised!RowsOf
<1> QED
  BY <1>1, <1>2, <1>3 DEF Promised!Refuse, Promised!Reply

\* The commit of a reservation hands out ids that nobody has.
LEMMA ReservationRefines ==
    ASSUME TypeOk, IdInv, CountInv, NEW r \in Reservers, NEW outcome, CommitReservation(r, outcome)
    PROVE  Promised!Reserve(r, outcome)
<1> USE ParametersAssumption
<1>1. /\ pc[r] = "upserted" /\ ~closed[r]
      /\ reserved' = [reserved EXCEPT ![r] = @ \cup taken[r]]
      /\ answer' = [answer EXCEPT ![r] = outcome]
      /\ UNCHANGED <<positions, stream, created>>
  BY DEF CommitReservation, Finish
<1>2. reserved[r] = {} /\ answer[r] = "none"
  BY <1>1 DEF CountInv, ReservedAtTheEnd
<1>3. reserved'[r] = taken[r] /\ \A s \in Reservers : s # r => reserved'[s] = reserved[s]
  BY <1>1, <1>2 DEF TypeOk
<1>4. Promised!Cardinality(taken[r]) = Amount[r]
  BY <1>1, SameCount DEF CountInv, TakenIds
<1>5. taken[r] \cap (created \cup UNION {reserved[s] : s \in Reservers}) = {}
  <2> SUFFICES ASSUME NEW n \in taken[r],
                      n \in created \/ \E s \in Reservers : n \in reserved[s]
               PROVE  FALSE
    OBVIOUS
  <2>1. n \in Nat /\ nextId \in Nat /\ nextId <= n
    BY <1>1 DEF IdInv, TypeOk
  <2>2. n < nextId
    BY DEF IdInv
  <2> QED
    BY <2>1, <2>2
<1> QED
  BY <1>1, <1>2, <1>3, <1>4, <1>5 DEF Promised!Reserve, Promised!Reply

\* The tables, the bus and the ids of clients.
clientVars == <<positions, stream, created, reserved>>

\* A call that ends with an error and leaves the tables as they are is a failure.
LEMMA FinishRefines ==
    ASSUME TypeOk, WriteInv, CountInv, NEW t \in Threads, pc[t] # "done",
           Finish(t, "error"), UNCHANGED clientVars
    PROVE  Promised!Fail
<1>1. answer' = [answer EXCEPT ![t] = "error"]
  BY DEF Finish
<1>2. answer[t] = "none"
  BY DEF WriteInv, CommittedOnce, CountInv, ReservedAtTheEnd, Threads
<1>3. answer'[t] = "error" /\ \A u \in Threads : u # t => answer'[u] = answer[u]
  BY <1>1 DEF TypeOk
<1>4. answer' # answer
  BY <1>2, <1>3
<1> QED
  BY <1>2, <1>3, <1>4 DEF Promised!Fail, Promised!Callers, Threads, clientVars

\* The end of the process is the failure of all calls under way.
LEMMA CrashRefines ==
    ASSUME TypeOk, WriteInv, CountInv, Crash
    PROVE  Promised!Fail
<1> DEFINE lost == {t \in Threads : pc[t] # "done" /\ (pc[t] # "start" \/ tries[t] > 0)}
<1>1. /\ lost # {} /\ UNCHANGED clientVars
      /\ answer' = [t \in Threads |-> IF t \in lost THEN "error" ELSE answer[t]]
  BY DEF Crash, clientVars, idVars
<1>2. \A t \in lost : answer[t] = "none"
  BY DEF WriteInv, CommittedOnce, CountInv, ReservedAtTheEnd, Threads
<1>3. \A t \in lost : t \in Threads
  OBVIOUS
<1> HIDE DEF lost
<1>4. answer' # answer
  <2>1. PICK t \in lost : TRUE
    BY <1>1
  <2>2. answer'[t] = "error" /\ answer[t] = "none"
    BY <1>1, <1>2, <1>3, <2>1
  <2> QED
    BY <2>2
<1>5. \A t \in Threads : answer'[t] # answer[t] => answer[t] = "none" /\ answer'[t] = "error"
  BY <1>1, <1>2
<1> QED
  BY <1>1, <1>4, <1>5 DEF Promised!Fail, Promised!Callers, Threads, clientVars

\* Losing the connection ends the call or lets it try again.
LEMMA LoseRefines ==
    ASSUME TypeOk, WriteInv, CountInv, NEW t \in Threads, LoseConnection(t)
    PROVE  Promised!Fail \/ UNCHANGED <<clientVars, answer>>
<1>1. /\ pc[t] # "done" /\ UNCHANGED clientVars
      /\ Finish(t, "error") \/ UNCHANGED answer
  BY DEF LoseConnection, InTransaction, clientVars, idVars
<1> QED
  BY <1>1, FinishRefines

\* Every step of a thread, a failure or a crash is a step of SerialWrites or invisible.
LEMMA StepRefines ==
    ASSUME TypeOk, WriteInv, IdInv, CountInv, [Next]_vars
    PROVE  [Promised!Next]_(Promised!sVars)
<1>1. ASSUME NEW w \in Writers, Commit(w) \/ CommitUnnoticed(w) PROVE Promised!Next
  BY <1>1, CommitRefines DEF Promised!Next
<1>2. ASSUME NEW w \in Writers, Publish(w) PROVE Promised!Next
  BY <1>2, PublishRefines DEF Promised!Next
<1>3. ASSUME NEW w \in Writers, Refuse(w) PROVE Promised!Next
  BY <1>3, RefuseRefines DEF Promised!Next
<1>4. ASSUME NEW r \in Reservers, CommitReservation(r, "ok") \/ CommitReservation(r, "error")
      PROVE  Promised!Next
  <2>1. Promised!Reserve(r, "ok") \/ Promised!Reserve(r, "error")
    BY <1>4, ReservationRefines
  <2> QED
    BY <2>1 DEF Promised!Next
<1>5. ASSUME NEW t \in Threads, CommitFails(t) \/ PublishFails(t) \/ ReservationFails(t)
                                \/ ConnectFails(t) \/ FindClosed(t)
      PROVE  Promised!Next
  <2>1. pc[t] # "done" /\ Finish(t, "error") /\ UNCHANGED clientVars
    BY <1>5 DEF CommitFails, PublishFails, ReservationFails, ConnectFails, FindClosed,
                ReadyToCommit, InTransaction, clientVars, idVars
  <2> QED
    BY <2>1, FinishRefines DEF Promised!Next
<1>6. ASSUME NEW t \in Threads, LoseConnection(t)
      PROVE  Promised!Next \/ UNCHANGED <<clientVars, answer>>
  BY <1>6, LoseRefines DEF Promised!Next
<1>7. Crash => Promised!Next
  BY CrashRefines DEF Promised!Next
<1>8. ASSUME NEW w \in Writers, Acquire(w) \/ CreatePosition(w) \/ InsertEvents(w)
      PROVE  UNCHANGED <<clientVars, answer>>
  BY <1>8 DEF Acquire, CreatePosition, InsertEvents, clientVars, idVars
<1>9. ASSUME NEW r \in Reservers, Enter(r) \/ ReserveNextIds(r)
      PROVE  UNCHANGED <<clientVars, answer>>
  BY <1>9 DEF Enter, ReserveNextIds, clientVars, idVars
<1>10. UNCHANGED vars => UNCHANGED <<clientVars, answer>>
  BY DEF vars, clientVars
<1>11. Promised!Next \/ UNCHANGED <<clientVars, answer>>
  BY <1>1, <1>2, <1>3, <1>4, <1>5, <1>6, <1>7, <1>8, <1>9, <1>10
     DEF Next, WriterStep, WriterFailure, ReserverStep, ReserverFailure, Threads
<1> QED
  BY <1>11 DEF Promised!sVars, clientVars

\* However the calls of write and reserve_ids interleave, wait, are tried again, lose
\* their connection or their process, clients see a writer that serves one call at a time.
THEOREM RefinesSerialWrites == Spec => ImplementsSerialWrites
<1>1. TypeOk /\ WriteInv /\ IdInv /\ CountInv /\ [Next]_vars => [Promised!Next]_(Promised!sVars)
  BY StepRefines
<1> QED
  BY <1>1, InitRefines, CountInvariant, PTL DEF Spec, ImplementsSerialWrites, Promised!Spec

=============================================================================
