-------------------------- MODULE Migration_proofs --------------------------
(***************************************************************************)
(* What the commands migrate, finalize and reset keep, for any number of   *)
(* positions, migrations, stops and for any places to stop: one migration  *)
(* index in a datastore that runs, model migrations that run once, lock    *)
(* tables without references to events of before the swap, a walk over the *)
(* positions without gaps, keyframes that are the replay of the migrated   *)
(* events, and, unless a stop falls between the exchange of the events and *)
(* the update of the index, events and models in the format of their index.*)
(***************************************************************************)
EXTENDS Migration, FiniteSetTheorems, NaturalsInduction, WellFoundedInduction, TLAPS

FinalizeSteps == {"current", "aux", "auxOnly", "fill", "keyframes", "swap", "index",
                  "modelplan", "models", "aux2", "index2"}
OtherSteps == {"idle", "checks", "state", "plan", "positions", "clean", "resetKeyframes"}

\* The shape of the state, as far as the invariants look at it.
Shape ==
    /\ DOMAIN db = {"positions", "position_seq", "events", "models", "id_sequences",
                    "collectionfields", "migration_positions", "migration_events",
                    "migration_keyframes"}
    /\ DOMAIN proc = {"cmd", "step", "outcome", "todo", "last", "lastIndex"}
    /\ db.position_seq \in Nat
    /\ Positions \subseteq 1..db.position_seq
    /\ \A p \in Positions : db.positions[p] \in Int /\ db.positions[p] >= -1
    /\ eventTarget \in Nat /\ eventTarget >= 1 /\ target \in Nat /\ eventTarget <= target
    /\ writing \in Int /\ writing >= -1
    /\ applied \in Seq(Int)

\* What runs when: finalize runs only while the datastore is offline, and nothing is written
\* then; once run_checks has found positions, there are some.
Discipline ==
    /\ proc.step \in FinalizeSteps \cup OtherSteps
    /\ online \in BOOLEAN
    /\ ~online => writing = 0
    /\ proc.cmd = "finalize" /\ proc.step # "idle" => ~online
    /\ proc.step \in FinalizeSteps => proc.cmd = "finalize"
    /\ proc.step = "resetKeyframes" => proc.cmd = "reset"
    /\ proc.step = "clean" => proc.cmd \in {"finalize", "reset"}
    /\ proc.step \notin {"idle", "checks", "auxOnly", "aux2", "index2"} => Positions # {}

\* The rows that locks are checked with belong to the events in use, and there are none
\* while finalize exchanges the events.
LockInv ==
    /\ \A p \in DOMAIN db.collectionfields :
          p \in DOMAIN db.events /\ db.collectionfields[p] = db.events[p]
    /\ proc.step \in {"fill", "keyframes", "swap"} => DOMAIN db.collectionfields = {}

Uniform == \A p, q \in Positions : db.positions[p] = db.positions[q]

\* Where the positions have one migration index: while the datastore is online, and when
\* finalize is done or about to be.
IndexInv ==
    /\ online => Uniform
    /\ Finalized => Uniform
    /\ proc.cmd = "finalize" /\ proc.step \in {"clean", "auxOnly"} => Uniform
    /\ writing # 0 => \A p \in Positions : db.positions[p] = writing
    /\ ~FirstWriteOpen /\ writing = -1 /\ proc.step # "idle" => proc.cmd = "reset"
    /\ -1 \notin InitialIndices =>
          writing # -1 /\ \A p \in Positions : db.positions[p] # -1

\* The model migrations that wrote events lie below what the positions say, unless the
\* positions are left with several indices, and below the one that comes next.
ModelInv ==
    /\ Uniform => \A p \in Positions : \A i \in DOMAIN applied : applied[i] <= db.positions[p]
    /\ Positions = {} => DOMAIN applied = {}
    /\ \A i \in DOMAIN applied : applied[i] <= target
    /\ proc.step \in {"aux", "fill", "keyframes", "swap", "index"} =>
          \A i \in DOMAIN applied : applied[i] <= eventTarget
    /\ proc.step = "models" =>
          /\ proc.todo \in Seq(Int) /\ Len(proc.todo) > 0
          /\ \A i \in 1..Len(proc.todo) : proc.todo[i] = target - Len(proc.todo) + i - 1
          /\ \E q \in Positions : db.positions[q] <= proc.todo[1]
          /\ \A i \in DOMAIN applied : applied[i] <= proc.todo[1]
    /\ ModelMigrationsOnce

\* The inductive invariant that needs no assumption on how commands and writes overlap.
CommandInv == Shape /\ Discipline /\ LockInv /\ ModelInv

-----------------------------------------------------------------------------
(* Operators                                                                *)

\* get_current_migration_index: the check for different indices does what it says.
LEMMA ConsistentMeansUniform == Shape => (ConsistentIndex <=> Uniform)
<1> SUFFICES ASSUME Shape PROVE ConsistentIndex <=> Uniform
  OBVIOUS
<1> DEFINE V == Values(db.positions)
<1>1. IsFiniteSet(V)
  <2>1. IsFiniteSet(1..db.position_seq)
    BY FS_Interval DEF Shape
  <2>2. IsFiniteSet(Positions)
    BY <2>1, FS_Subset DEF Shape
  <2> DEFINE f == [p \in Positions |-> db.positions[p]]
  <2>3. f \in Surjection(Positions, V)
    BY DEF Surjection, Values, Positions
  <2> HIDE DEF f, V
  <2> QED
    BY <2>2, <2>3, FS_Surjection
<1>2. ASSUME Uniform PROVE ConsistentIndex
  <2>1. CASE Positions = {}
    <3>1. V = {}
      BY <2>1 DEF Values, Positions
    <3> QED
      BY <3>1, FS_EmptySet DEF ConsistentIndex
  <2>2. CASE Positions # {}
    <3>1. PICK p \in Positions : TRUE
      BY <2>2
    <3>2. V = {db.positions[p]}
      BY <1>2 DEF Uniform, Values, Positions
    <3>3. Cardinality({db.positions[p]}) = 1
      BY FS_Singleton
    <3> QED
      BY <3>2, <3>3 DEF ConsistentIndex
  <2> QED
    BY <2>1, <2>2
<1>3. ASSUME ConsistentIndex PROVE Uniform
  <2> SUFFICES ASSUME NEW p \in Positions, NEW q \in Positions
               PROVE  db.positions[p] = db.positions[q]
    BY DEF Uniform
  <2>1. db.positions[p] \in V /\ db.positions[q] \in V
    BY DEF Values, Positions
  <2>2. Cardinality(V) \in Nat /\ Cardinality(V) <= 1
    BY <1>1, <1>3, FS_CardinalityType DEF ConsistentIndex
  <2> HIDE DEF V
  <2>3. Cardinality(V) = 1
    BY <1>1, <2>1, <2>2, FS_EmptySet
  <2>4. PICK x : V = {x}
    BY <1>1, <2>3, FS_Singleton
  <2> QED
    BY <2>1, <2>4
<1> QED
  BY <1>2, <1>3

\* ... and the index it returns is that of every position.
LEMMA CurrentOfUniform ==
    ASSUME Shape, Uniform, NEW p \in Positions
    PROVE  CurrentIndex = db.positions[p]
<1>1. Values(db.positions) = {db.positions[p]}
  BY DEF Uniform, Values, Positions
<1>2. db.positions[p] \in Int
  BY DEF Shape
<1> QED
  BY <1>1, <1>2 DEF CurrentIndex, Max

\* insert_events: the new position is above the others, and all tables get its row.
LEMMA InsertFacts ==
    ASSUME Shape, NEW index, NEW format, db' = InsertEvents(db, index, format)
    PROVE  LET p == db.position_seq + 1
           IN  /\ DOMAIN db' = DOMAIN db /\ db'.position_seq = p /\ p \notin Positions
               /\ Positions' = Positions \cup {p}
               /\ db'.positions = With(db.positions, p, index)
               /\ db'.events = With(db.events, p, format)
               /\ db'.collectionfields = With(db.collectionfields, p, format)
               /\ db'.models = Append(db.models, <<p, format>>)
               /\ db'.id_sequences = db.id_sequences + 1
               /\ db'.migration_positions = db.migration_positions
               /\ db'.migration_events = db.migration_events
               /\ db'.migration_keyframes = db.migration_keyframes
BY DEF InsertEvents, Shape, Positions, With

\* get_migrations: the migrations from one index to another, counted from the end ...
LEMMA SourcesFacts ==
    ASSUME NEW c \in Int, NEW t \in Int, c < t
    PROVE  LET s == Sources(c, t)
           IN  /\ s \in Seq(Int) /\ Len(s) > 0 /\ s[1] = c
               /\ \A i \in 1..Len(s) : s[i] = t - Len(s) + i - 1
<1> DEFINE s == Sources(c, t)
<1>1. t - c \in Nat /\ t - c > 0
  OBVIOUS
<1>2. s = [i \in 1..(t - c) |-> c + i - 1]
  BY DEF Sources
<1>3. \A i \in 1..(t - c) : c + i - 1 \in Int
  OBVIOUS
<1>4. s \in Seq(Int) /\ Len(s) = t - c
  BY <1>1, <1>2, <1>3
<1>5. \A i \in 1..(t - c) : s[i] = c + i - 1
  BY <1>2
<1> HIDE DEF s
<1>6. \A i \in 1..Len(s) : s[i] = t - Len(s) + i - 1
  BY <1>4, <1>5
<1>7. s[1] = c
  BY <1>1, <1>5
<1> QED
  BY <1>1, <1>4, <1>6, <1>7 DEF s

\* ... and what is left of them after the first.
LEMMA RestOfSources ==
    ASSUME NEW t \in Int, NEW s \in Seq(Int), Len(s) > 1,
           \A i \in 1..Len(s) : s[i] = t - Len(s) + i - 1
    PROVE  LET r == Tail(s)
           IN  /\ r \in Seq(Int) /\ Len(r) > 0 /\ r[1] = s[1] + 1
               /\ \A i \in 1..Len(r) : r[i] = t - Len(r) + i - 1
<1> DEFINE r == Tail(s)
           n == Len(s)
<1>1. n \in Nat /\ n > 1
  OBVIOUS
<1>2. r \in Seq(Int) /\ Len(r) = n - 1 /\ \A i \in 1..(n - 1) : r[i] = s[i + 1]
  OBVIOUS
<1>3. \A i \in 1..n : s[i] = t - n + i - 1
  OBVIOUS
<1> HIDE DEF r, n
<1>4. \A i \in 1..(n - 1) : r[i] = t - (n - 1) + i - 1
  <2> SUFFICES ASSUME NEW i \in 1..(n - 1) PROVE r[i] = t - (n - 1) + i - 1
    OBVIOUS
  <2>1. i + 1 \in 1..n
    BY <1>1
  <2>2. r[i] = t - n + (i + 1) - 1
    BY <1>2, <1>3, <2>1
  <2> QED
    BY <1>1, <2>2
<1>5. r[1] = t - (n - 1)
  BY <1>1, <1>4
<1>6. s[1] = t - n
  BY <1>1, <1>3
<1> QED
  BY <1>1, <1>2, <1>4, <1>5, <1>6 DEF r

\* How a step of a command goes on ...
LEMMA GotoFacts ==
    ASSUME Shape, NEW step, Goto(step)
    PROVE  /\ DOMAIN proc' = DOMAIN proc /\ proc'.step = step
           /\ proc'.cmd = proc.cmd /\ proc'.outcome = proc.outcome /\ proc'.todo = proc.todo
BY DEF Goto, Shape

\* ... ends ...
LEMMA EndFacts ==
    ASSUME Shape, NEW outcome, End(outcome)
    PROVE  /\ DOMAIN proc' = DOMAIN proc /\ proc'.step = "idle"
           /\ proc'.cmd = proc.cmd /\ proc'.outcome = outcome
BY DEF End, Idle, Shape

\* ... or starts.
LEMMA StartFacts ==
    ASSUME Shape, NEW cmd, StartCommand(cmd)
    PROVE  /\ DOMAIN proc' = DOMAIN proc /\ proc'.step = "checks"
           /\ proc'.cmd = cmd /\ proc'.outcome = "running"
BY DEF StartCommand, Idle, Shape

-----------------------------------------------------------------------------
(* Steps that leave the positions, the events and their lock rows           *)

SameTables ==
    /\ DOMAIN db' = DOMAIN db
    /\ db'.positions = db.positions /\ db'.position_seq = db.position_seq
    /\ db'.events = db.events
    /\ db'.collectionfields = db.collectionfields \/ DOMAIN db'.collectionfields = {}
    /\ applied' = applied

\* What is left to show of such a step.
Quiet ==
    /\ SameTables
    /\ DOMAIN proc' = DOMAIN proc
    /\ eventTarget' \in Nat /\ target' \in Nat
    /\ eventTarget <= eventTarget' /\ target <= target' /\ eventTarget' <= target'
    /\ writing' \in Int /\ writing' >= -1
    /\ Discipline'
    /\ proc'.step \in {"fill", "keyframes", "swap"} => DOMAIN db'.collectionfields = {}
    /\ proc'.step \in {"aux", "fill", "keyframes", "swap", "index"} =>
          \A i \in DOMAIN applied : applied[i] <= eventTarget
    /\ proc'.step # "models"

\* A step that leaves the tables keeps the invariant.
LEMMA QuietKeeps ==
    ASSUME CommandInv, Quiet
    PROVE  CommandInv'
<1> USE DEF Quiet, SameTables
<1>1. Positions' = Positions /\ Uniform' = Uniform
  BY DEF Positions, Uniform
<1>2. Shape'
  BY <1>1 DEF CommandInv, Shape
<1>3. LockInv'
  BY DEF CommandInv, LockInv
<1>4. ModelInv'
  <2>1. \A i \in DOMAIN applied : applied[i] \in Int
    BY DEF CommandInv, Shape
  <2> QED
    BY <1>1, <2>1 DEF CommandInv, Shape, ModelInv, ModelMigrationsOnce
<1> QED
  BY <1>2, <1>3, <1>4 DEF CommandInv

\* Where finalize decides to migrate the events, all model migrations that ran lie below
\* the events' target.
LEMMA BelowEventTarget ==
    ASSUME CommandInv, ConsistentIndex, CurrentIndex < eventTarget, Positions # {}
    PROVE  \A i \in DOMAIN applied : applied[i] <= eventTarget
<1>1. Uniform
  BY ConsistentMeansUniform DEF CommandInv
<1>2. PICK p \in Positions : TRUE
  OBVIOUS
<1>3. CurrentIndex = db.positions[p] /\ db.positions[p] \in Int
  BY <1>1, CurrentOfUniform DEF CommandInv, Shape
<1>4. \A i \in DOMAIN applied : applied[i] <= db.positions[p] /\ applied[i] \in Int
  BY <1>1 DEF CommandInv, ModelInv, Shape
<1> QED
  BY <1>3, <1>4 DEF CommandInv, Shape

\* The steps of the commands that only decide how to go on.
LEMMA DecidingKeeps ==
    ASSUME CommandInv, GetMigrationState \/ PlanEventMigration \/ ReadIndex
    PROVE  CommandInv'
<1> USE DEF CommandInv
<1>1. db' = db /\ UNCHANGED Others /\ Positions # {}
  BY DEF GetMigrationState, PlanEventMigration, ReadIndex, Discipline, At
<1>2. SameTables /\ Positions' = Positions
  BY <1>1 DEF SameTables, Others, Positions
<1>3. \/ proc'.step = "idle" /\ proc'.cmd = proc.cmd
      \/ proc'.step \in {"plan", "positions"} /\ proc'.cmd = proc.cmd
      \/ proc'.step = "current" /\ proc'.cmd = "finalize" /\ proc.cmd = "finalize"
      \/ proc'.step \in {"aux", "modelplan"} /\ proc'.cmd = "finalize" /\ proc.cmd = "finalize"
  <2>1. CASE GetMigrationState
    BY <2>1, GotoFacts, EndFacts DEF GetMigrationState
  <2>2. CASE PlanEventMigration
    BY <2>2, EndFacts DEF PlanEventMigration, Shape
  <2>3. CASE ReadIndex
    <3>1. proc.cmd = "finalize"
      BY <2>3 DEF ReadIndex, At, Discipline, FinalizeSteps
    <3> QED
      BY <2>3, <3>1, GotoFacts, EndFacts DEF ReadIndex, GotoOrEnd, AfterEvents
  <2> QED
    BY <2>1, <2>2, <2>3
<1>4. DOMAIN proc' = DOMAIN proc
  BY GotoFacts, EndFacts DEF GetMigrationState, PlanEventMigration, ReadIndex, GotoOrEnd, Shape
<1>5. proc'.step = "aux" => \A i \in DOMAIN applied : applied[i] <= eventTarget
  <2>1. ASSUME proc'.step = "aux" PROVE ConsistentIndex /\ CurrentIndex < eventTarget
    <3>1. GetMigrationState => proc'.step # "aux"
      BY GotoFacts, EndFacts DEF GetMigrationState
    <3>2. PlanEventMigration => proc'.step # "aux"
      BY EndFacts DEF PlanEventMigration, Shape
    <3>3. ASSUME ReadIndex, ~(ConsistentIndex /\ CurrentIndex < eventTarget)
          PROVE  proc'.step # "aux"
      BY <3>3, GotoFacts, EndFacts DEF ReadIndex, GotoOrEnd, AfterEvents
    <3> QED
      BY <2>1, <3>1, <3>2, <3>3
  <2> QED
    BY <1>1, <2>1, BelowEventTarget
<1>6. proc.step # "idle"
  BY DEF GetMigrationState, PlanEventMigration, ReadIndex, At
<1>7. Discipline'
  BY <1>1, <1>2, <1>3, <1>6 DEF Discipline, Others, FinalizeSteps, OtherSteps
<1>8. Quiet
  BY <1>1, <1>2, <1>3, <1>4, <1>5, <1>7 DEF Quiet, Others, Shape
<1> QED
  BY <1>8, QuietKeeps

\* The steps that write the tables of the migration, models and ids.
LEMMA MigrationTablesKeep ==
    ASSUME CommandInv, MigrateNextPosition \/ FillModelsAndIdSequences
                       \/ DeleteMigrationKeyframes \/ CleanMigrationData
    PROVE  CommandInv'
<1> USE DEF CommandInv
<1>1. UNCHANGED Others /\ Positions # {} /\ proc.step # "idle"
  BY DEF MigrateNextPosition, FillModelsAndIdSequences, DeleteMigrationKeyframes,
         CleanMigrationData, Discipline, At
<1>2. SameTables /\ Positions' = Positions /\ db'.collectionfields = db.collectionfields
  <2>1. CASE MigrateNextPosition
    BY <2>1 DEF MigrateNextPosition, SameTables, Others, Positions, Shape
  <2>2. CASE FillModelsAndIdSequences
    BY <2>2 DEF FillModelsAndIdSequences, SameTables, Others, Positions, Shape
  <2>3. CASE DeleteMigrationKeyframes
    BY <2>3 DEF DeleteMigrationKeyframes, SameTables, Others, Positions, Shape
  <2>4. CASE CleanMigrationData
    BY <2>4 DEF CleanMigrationData, SameTables, Others, Positions, Shape
  <2> QED
    BY <2>1, <2>2, <2>3, <2>4
<1>3. /\ DOMAIN proc' = DOMAIN proc /\ proc'.cmd = proc.cmd
      /\ \/ proc'.step \in {"idle", "positions"}
         \/ proc'.step \in {"current", "modelplan"} /\ proc.cmd = "finalize"
         \/ proc'.step = "keyframes" /\ proc.step = "fill"
         \/ proc'.step = "swap" /\ proc.step = "keyframes"
         \/ proc'.step = "clean" /\ proc.step = "resetKeyframes"
  <2>1. CASE MigrateNextPosition
    <3>1. PICK migrated : IF ~migrated.ok \/ (proc.last # 0 /\ IndexOf(Head(proc.todo)) > proc.lastIndex)
             THEN End("refused")
             ELSE IF AfterPositions = "idle" THEN End("ok")
                  ELSE proc' = [proc EXCEPT !.step = AfterPositions, !.todo = Tail(@),
                                            !.last = Head(proc.todo),
                                            !.lastIndex = IndexOf(Head(proc.todo))]
      BY <2>1 DEF MigrateNextPosition
    <3>2. CASE End("refused") \/ End("ok")
      BY <3>2, EndFacts
    <3>3. CASE /\ AfterPositions # "idle"
               /\ proc' = [proc EXCEPT !.step = AfterPositions, !.todo = Tail(@),
                                       !.last = Head(proc.todo),
                                       !.lastIndex = IndexOf(Head(proc.todo))]
      <4>1. /\ DOMAIN proc' = DOMAIN proc /\ proc'.cmd = proc.cmd
            /\ proc'.step = AfterPositions
        BY <3>3 DEF Shape
      <4> QED
        BY <3>3, <4>1 DEF AfterPositions
    <3> QED
      BY <3>1, <3>2, <3>3
  <2>2. CASE FillModelsAndIdSequences
    BY <2>2, GotoFacts, EndFacts DEF FillModelsAndIdSequences, At
  <2>3. CASE DeleteMigrationKeyframes
    BY <2>3, GotoFacts DEF DeleteMigrationKeyframes, At
  <2>4. CASE CleanMigrationData
    <3>1. \/ End("ok")
          \/ Goto("modelplan") /\ proc.cmd # "reset"
      BY <2>4 DEF CleanMigrationData, GotoOrEnd, AfterEvents
    <3>2. proc.step = "clean"
      BY <2>4 DEF CleanMigrationData, At
    <3> QED
      BY <3>1, <3>2, GotoFacts, EndFacts DEF Discipline
  <2> QED
    BY <2>1, <2>2, <2>3, <2>4
<1>4. Discipline'
  BY <1>1, <1>2, <1>3 DEF Discipline, Others, FinalizeSteps, OtherSteps
<1>5. Quiet
  BY <1>1, <1>2, <1>3, <1>4 DEF Quiet, Others, Shape, LockInv, ModelInv
<1> QED
  BY <1>5, QuietKeeps

\* run_checks, when it does not set the index.
LEMMA ChecksKeep ==
    ASSUME CommandInv, RunChecks, db' = db
    PROVE  CommandInv'
<1> USE DEF CommandInv
<1>1. UNCHANGED Others /\ proc.step = "checks"
  BY DEF RunChecks, At
<1>2. SameTables /\ Positions' = Positions
  BY <1>1 DEF SameTables, Others, Positions
<1>3. /\ DOMAIN proc' = DOMAIN proc /\ proc'.cmd = proc.cmd
      /\ \/ proc'.step = "idle"
         \/ proc'.step = "auxOnly" /\ proc.cmd = "finalize"
         \/ proc'.step = "resetKeyframes" /\ proc.cmd = "reset" /\ Positions # {}
         \/ proc'.step = "state" /\ Positions # {}
  <2>1. \/ End("ok") \/ End("refused")
        \/ Goto("auxOnly") /\ proc.cmd = "finalize"
        \/ Goto("resetKeyframes") /\ proc.cmd = "reset" /\ Positions # {}
        \/ Goto("state") /\ Positions # {}
    BY DEF RunChecks
  <2> QED
    BY <2>1, GotoFacts, EndFacts
<1>4. Discipline'
  BY <1>1, <1>2, <1>3 DEF Discipline, Others, FinalizeSteps, OtherSteps
<1>5. Quiet
  BY <1>1, <1>2, <1>3, <1>4 DEF Quiet, Others, Shape
<1> QED
  BY <1>5, QuietKeeps

\* delete_collectionfield_aux_tables
LEMMA AuxTablesKeep ==
    ASSUME CommandInv, DeleteCollectionfieldAuxTables
    PROVE  CommandInv'
<1> USE DEF CommandInv
<1>1. /\ UNCHANGED Others /\ proc.step \in {"aux", "auxOnly", "aux2"}
      /\ db' = [db EXCEPT !.collectionfields = <<>>]
  BY DEF DeleteCollectionfieldAuxTables, At, ClearedLocks
<1>2. SameTables /\ Positions' = Positions /\ DOMAIN db'.collectionfields = {}
  BY <1>1 DEF SameTables, Others, Positions, Shape
<1>3. /\ DOMAIN proc' = DOMAIN proc /\ proc'.cmd = proc.cmd
      /\ \/ proc'.step = "idle"
         \/ proc'.step = "fill" /\ proc.step = "aux"
         \/ proc'.step = "index2" /\ proc.step = "aux2"
  <2>1. \/ End("ok")
        \/ Goto("fill") /\ proc.step = "aux"
        \/ Goto("index2") /\ proc.step = "aux2"
    BY <1>1 DEF DeleteCollectionfieldAuxTables, At
  <2> QED
    BY <2>1, GotoFacts, EndFacts
<1>4. Discipline'
  BY <1>1, <1>2, <1>3 DEF Discipline, Others, FinalizeSteps, OtherSteps
<1>5. Quiet
  BY <1>1, <1>2, <1>3, <1>4 DEF Quiet, Others, Shape, ModelInv
<1> QED
  BY <1>5, QuietKeeps

\* The end of a command that stops, and what the operator does.
LEMMA OperatorKeeps ==
    ASSUME CommandInv, Stop \/ Operator
    PROVE  CommandInv'
<1> USE DEF CommandInv
<1>1. db' = db /\ UNCHANGED <<writing, applied>>
  BY DEF Stop, Operator, RegisterMigration, StartMigrate, StartReset, StartFinalize,
         RunAgain, BringOnline, Others
<1>2. SameTables /\ Positions' = Positions
  BY <1>1 DEF SameTables, Positions
<1>3. /\ eventTarget' \in Nat /\ target' \in Nat
      /\ eventTarget <= eventTarget' /\ target <= target' /\ eventTarget' <= target'
  BY DEF Stop, Operator, RegisterMigration, StartMigrate, StartReset, StartFinalize,
         RunAgain, BringOnline, Others, Shape
<1>4. \/ proc'.step = "idle" /\ proc'.cmd = proc.cmd /\ online' = online
      \/ proc'.step = "idle" /\ proc' = proc /\ online' = TRUE
      \/ proc'.step = "checks" /\ proc'.cmd # "finalize" /\ online' = online
      \/ proc'.step = "checks" /\ online' = FALSE /\ writing = 0
  <2>1. CASE Stop
    BY <2>1, EndFacts DEF Stop
  <2>2. CASE RegisterMigration \/ BringOnline
    BY <2>2 DEF RegisterMigration, BringOnline, Finalized, At
  <2>3. CASE StartMigrate \/ StartReset
    BY <2>3, StartFacts DEF StartMigrate, StartReset, Others
  <2>4. CASE StartFinalize
    BY <2>4, StartFacts DEF StartFinalize
  <2>5. CASE RunAgain
    BY <2>5, StartFacts DEF RunAgain, Others, Discipline
  <2> QED
    BY <2>1, <2>2, <2>3, <2>4, <2>5 DEF Operator
<1>5. DOMAIN proc' = DOMAIN proc
  BY EndFacts, StartFacts
     DEF Stop, Operator, RegisterMigration, StartMigrate, StartReset, StartFinalize,
         RunAgain, BringOnline
<1>6. Discipline'
  BY <1>1, <1>2, <1>4 DEF Discipline, FinalizeSteps, OtherSteps
<1>7. Quiet
  BY <1>1, <1>2, <1>3, <1>4, <1>5, <1>6 DEF Quiet, Shape
<1> QED
  BY <1>7, QuietKeeps

\* A write begins.
LEMMA BeginWriteKeeps ==
    ASSUME CommandInv, BeginWrite
    PROVE  CommandInv'
<1> USE DEF CommandInv
<1>1. online /\ UNCHANGED <<db, eventTarget, target, proc, online, applied>>
  BY DEF BeginWrite
<1>2. SameTables /\ Positions' = Positions
  BY <1>1 DEF SameTables, Positions
<1>3. writing' \in Int /\ writing' >= -1
  <2>1. CASE Positions = {}
    BY <2>1, MigrationAssumption DEF BeginWrite
  <2>2. CASE Positions # {}
    <3>1. Uniform
      BY ConsistentMeansUniform DEF BeginWrite
    <3>2. PICK p \in Positions : TRUE
      BY <2>2
    <3>3. writing' = db.positions[p]
      BY <2>2, <3>1, CurrentOfUniform DEF BeginWrite
    <3> QED
      BY <3>3 DEF Shape
  <2> QED
    BY <2>1, <2>2
<1>4. Discipline'
  BY <1>1, <1>2 DEF Discipline
<1>5. CASE proc.step # "models"
  <2>1. Quiet
    BY <1>1, <1>2, <1>3, <1>4, <1>5 DEF Quiet, Shape, LockInv, ModelInv
  <2> QED
    BY <2>1, QuietKeeps
<1>6. CASE proc.step = "models"
  BY <1>1, <1>6 DEF Discipline, FinalizeSteps
<1> QED
  BY <1>5, <1>6

-----------------------------------------------------------------------------
(* Steps that change the positions or the events                            *)

\* A write that fails draws a position.
LEMMA FailWriteKeeps ==
    ASSUME CommandInv, FailWrite
    PROVE  CommandInv'
<1> USE DEF CommandInv
<1>1. /\ writing' = 0 /\ UNCHANGED <<eventTarget, target, proc, online, applied>>
      /\ db' = [db EXCEPT !.position_seq = @ + 1]
  BY DEF FailWrite
<1>2. /\ DOMAIN db' = DOMAIN db /\ db'.position_seq = db.position_seq + 1
      /\ db'.positions = db.positions /\ db'.events = db.events
      /\ db'.collectionfields = db.collectionfields
  BY <1>1 DEF Shape
<1>3. Positions' = Positions /\ Uniform' = Uniform
  BY <1>2 DEF Positions, Uniform
<1>4. Shape'
  BY <1>1, <1>2, <1>3 DEF Shape
<1>5. Discipline' /\ LockInv'
  BY <1>1, <1>2, <1>3 DEF Discipline, LockInv
<1>6. ModelInv'
  BY <1>1, <1>2, <1>3 DEF ModelInv, ModelMigrationsOnce
<1> QED
  BY <1>4, <1>5, <1>6

\* The rows of insert_events keep the shape of the tables and the lock rows.
LEMMA InsertKeeps ==
    ASSUME Shape, LockInv, NEW index \in Int, index >= -1, NEW format,
           db' = InsertEvents(db, index, format),
           UNCHANGED <<eventTarget, target>>, DOMAIN proc' = DOMAIN proc,
           writing' \in Int, writing' >= -1, applied' \in Seq(Int),
           proc'.step \notin {"fill", "keyframes", "swap"}
    PROVE  Shape' /\ LockInv'
<1> DEFINE p == db.position_seq + 1
<1>1. /\ DOMAIN db' = DOMAIN db /\ db'.position_seq = p
      /\ Positions' = Positions \cup {p}
      /\ db'.positions = With(db.positions, p, index)
      /\ db'.events = With(db.events, p, format)
      /\ db'.collectionfields = With(db.collectionfields, p, format)
  BY InsertFacts
<1>2. p \in Nat /\ p > 0 /\ db.position_seq \in Nat
  BY DEF Shape
<1>3. Positions' \subseteq 1..p
  <2>1. Positions \subseteq 1..db.position_seq /\ Positions' = Positions \cup {p}
    BY <1>1 DEF Shape
  <2>2. 1..db.position_seq \subseteq 1..p /\ p \in 1..p
    BY <1>2
  <2> QED
    BY <2>1, <2>2, Zenon
<1>4. \A q \in Positions' : db'.positions[q] \in Int /\ db'.positions[q] >= -1
  BY <1>1 DEF Shape, With, Positions
<1>5. Shape'
  BY <1>1, <1>2, <1>3, <1>4 DEF Shape
<1>6. \A q \in DOMAIN db'.collectionfields :
         q \in DOMAIN db'.events /\ db'.collectionfields[q] = db'.events[q]
  BY <1>1 DEF LockInv, With
<1> QED
  BY <1>5, <1>6 DEF LockInv

\* A write is committed: with positions of one index before and after it, they are the same.
LEMMA CommitWriteKeeps ==
    ASSUME CommandInv, CommitWrite
    PROVE  CommandInv'
<1> USE DEF CommandInv
<1> DEFINE p == db.position_seq + 1
           format == IF writing = -1 THEN target ELSE writing
<1>1. /\ writing # 0 /\ writing' = 0 /\ UNCHANGED <<eventTarget, target, proc, online, applied>>
      /\ db' = InsertEvents(db, writing, format)
  BY DEF CommitWrite
<1>2. online /\ proc.step \notin {"fill", "keyframes", "swap", "models"}
  BY <1>1 DEF Discipline, FinalizeSteps
<1>3. /\ p \notin Positions /\ Positions' = Positions \cup {p}
      /\ db'.positions = With(db.positions, p, writing)
  BY <1>1, InsertFacts
<1>4. Shape' /\ LockInv'
  <2>1. writing \in Int /\ writing >= -1 /\ applied \in Seq(Int)
    BY DEF Shape
  <2> HIDE DEF format
  <2> QED
    BY <1>1, <1>2, <2>1, InsertKeeps
<1>5. Discipline'
  BY <1>1, <1>3 DEF Discipline
<1>6. \A q \in Positions : q \in Positions' /\ db'.positions[q] = db.positions[q]
  BY <1>3 DEF With, Positions
<1>7. Uniform' => Uniform
  BY <1>6 DEF Uniform
<1>8. Uniform' => \A q \in Positions' : \A i \in DOMAIN applied : applied[i] <= db'.positions[q]
  <2> SUFFICES ASSUME Uniform', NEW q \in Positions', NEW i \in DOMAIN applied
               PROVE  applied[i] <= db'.positions[q]
    OBVIOUS
  <2>1. PICK r \in Positions : TRUE
    BY DEF ModelInv
  <2>2. applied[i] <= db.positions[r]
    BY <1>7 DEF ModelInv
  <2>3. db'.positions[q] = db.positions[r]
    BY <1>6 DEF Uniform
  <2> QED
    BY <2>2, <2>3
<1>9. ModelInv'
  BY <1>1, <1>2, <1>3, <1>8 DEF ModelInv, ModelMigrationsOnce
<1> QED
  BY <1>4, <1>5, <1>9

\* The exchange of the events finds no lock rows.
LEMMA SwapKeeps ==
    ASSUME CommandInv, SwapEvents
    PROVE  CommandInv'
<1> USE DEF CommandInv
<1>1. /\ proc.step = "swap" /\ UNCHANGED Others /\ Goto("index")
      /\ db' = [db EXCEPT !.events = db.migration_events, !.migration_events = db.events]
  BY DEF SwapEvents, At
<1>2. /\ DOMAIN db' = DOMAIN db /\ db'.position_seq = db.position_seq
      /\ db'.positions = db.positions /\ db'.collectionfields = db.collectionfields
  BY <1>1 DEF Shape
<1>3. DOMAIN proc' = DOMAIN proc /\ proc'.step = "index" /\ proc'.cmd = proc.cmd
  BY <1>1, GotoFacts
<1>4. Positions' = Positions /\ Uniform' = Uniform
  BY <1>2 DEF Positions, Uniform
<1>5. Shape'
  BY <1>1, <1>2, <1>3, <1>4 DEF Shape, Others
<1>6. Discipline'
  BY <1>1, <1>3, <1>4 DEF Discipline, FinalizeSteps, OtherSteps, Others
<1>7. LockInv'
  BY <1>1, <1>2, <1>3 DEF LockInv
<1>8. ModelInv'
  BY <1>1, <1>2, <1>3, <1>4 DEF ModelInv, ModelMigrationsOnce, Others
<1> QED
  BY <1>5, <1>6, <1>7, <1>8

\* _update_migration_index, in run_checks and at the end of both phases of finalize: no model
\* migration that ran lies above the index that is set.
LEMMA SetIndexKeeps ==
    ASSUME CommandInv, NEW index \in Int, index >= -1,
           DOMAIN db' = DOMAIN db, db'.position_seq = db.position_seq,
           db'.positions = SetIndex(db.positions, index),
           db'.events = db.events, db'.collectionfields = db.collectionfields,
           \A i \in DOMAIN applied : applied[i] <= index,
           UNCHANGED Others, DOMAIN proc' = DOMAIN proc, Discipline',
           proc'.step \in {"idle", "auxOnly", "clean"}
    PROVE  CommandInv'
<1> USE DEF CommandInv, Others
<1>1. Positions' = Positions /\ \A p \in Positions' : db'.positions[p] = index
  BY DEF SetIndex, Positions
<1>2. Shape'
  BY <1>1 DEF Shape
<1>3. LockInv'
  BY DEF LockInv
<1>4. ModelInv'
  BY <1>1 DEF ModelInv, ModelMigrationsOnce
<1> QED
  BY <1>2, <1>3, <1>4

\* The three places of it.
LEMMA UpdateIndexKeeps ==
    ASSUME CommandInv, UpdateMigrationIndex \/ UpdateMigrationIndexToTarget \/ (RunChecks /\ db' # db)
    PROVE  CommandInv'
<1> USE DEF CommandInv
<1>1. CASE UpdateMigrationIndex
  <2>1. /\ proc.step = "index" /\ UNCHANGED Others /\ Goto("clean")
        /\ db' = [db EXCEPT !.positions = SetIndex(@, eventTarget)]
    BY <1>1 DEF UpdateMigrationIndex, At
  <2>2. /\ DOMAIN db' = DOMAIN db /\ db'.position_seq = db.position_seq
        /\ db'.positions = SetIndex(db.positions, eventTarget)
        /\ db'.events = db.events /\ db'.collectionfields = db.collectionfields
    BY <2>1 DEF Shape
  <2>3. DOMAIN proc' = DOMAIN proc /\ proc'.step = "clean" /\ proc'.cmd = proc.cmd
    BY <2>1, GotoFacts
  <2>4. Positions' = Positions
    BY <2>2 DEF Positions, SetIndex
  <2>5. Discipline'
    BY <2>1, <2>3, <2>4 DEF Discipline, FinalizeSteps, OtherSteps, Others
  <2>6. eventTarget \in Int /\ eventTarget >= -1 /\ \A i \in DOMAIN applied : applied[i] <= eventTarget
    BY <2>1 DEF Shape, ModelInv
  <2> QED
    BY <2>1, <2>2, <2>3, <2>5, <2>6, SetIndexKeeps
<1>2. CASE UpdateMigrationIndexToTarget
  <2>1. /\ proc.step = "index2" /\ UNCHANGED Others /\ End("ok")
        /\ db' = [db EXCEPT !.positions = SetIndex(@, target)]
    BY <1>2 DEF UpdateMigrationIndexToTarget, At
  <2>2. /\ DOMAIN db' = DOMAIN db /\ db'.position_seq = db.position_seq
        /\ db'.positions = SetIndex(db.positions, target)
        /\ db'.events = db.events /\ db'.collectionfields = db.collectionfields
    BY <2>1 DEF Shape
  <2>3. DOMAIN proc' = DOMAIN proc /\ proc'.step = "idle" /\ proc'.cmd = proc.cmd
    BY <2>1, EndFacts
  <2>4. Discipline'
    BY <2>1, <2>3 DEF Discipline, FinalizeSteps, OtherSteps, Others
  <2>5. target \in Int /\ target >= -1 /\ \A i \in DOMAIN applied : applied[i] <= target
    BY DEF Shape, ModelInv
  <2> QED
    BY <2>1, <2>2, <2>3, <2>4, <2>5, SetIndexKeeps
<1>3. CASE RunChecks /\ db' # db
  <2>1. /\ proc.step = "checks" /\ UNCHANGED Others /\ Positions # {}
        /\ db' = [db EXCEPT !.positions = SetIndex(@, target),
                            !.migration_events = <<>>, !.migration_positions = <<>>,
                            !.migration_keyframes = <<>>]
        /\ (Goto("auxOnly") /\ proc.cmd = "finalize") \/ End("ok")
    BY <1>3 DEF RunChecks, At
  <2>2. /\ DOMAIN db' = DOMAIN db /\ db'.position_seq = db.position_seq
        /\ db'.positions = SetIndex(db.positions, target)
        /\ db'.events = db.events /\ db'.collectionfields = db.collectionfields
    BY <2>1 DEF Shape
  <2>3. /\ DOMAIN proc' = DOMAIN proc /\ proc'.cmd = proc.cmd
        /\ proc'.step = "idle" \/ (proc'.step = "auxOnly" /\ proc.cmd = "finalize")
    BY <2>1, GotoFacts, EndFacts
  <2>4. Discipline'
    BY <2>1, <2>3 DEF Discipline, FinalizeSteps, OtherSteps, Others
  <2>5. target \in Int /\ target >= -1 /\ \A i \in DOMAIN applied : applied[i] <= target
    BY DEF Shape, ModelInv
  <2> QED
    BY <2>1, <2>2, <2>3, <2>4, <2>5, SetIndexKeeps
<1> QED
  BY <1>1, <1>2, <1>3

\* ModelMigraterImplementation.migrate begins at the index of the positions, so above
\* everything that ran.
LEMMA PlanModelsKeeps ==
    ASSUME CommandInv, PlanModelMigration
    PROVE  CommandInv'
<1> USE DEF CommandInv
<1>1. proc.step = "modelplan" /\ db' = db /\ UNCHANGED Others /\ Positions # {}
  BY DEF PlanModelMigration, At, Discipline
<1>2. SameTables /\ Positions' = Positions /\ Uniform' = Uniform
  BY <1>1 DEF SameTables, Positions, Uniform, Others
<1>3. CASE End("refused")
  <2>1. DOMAIN proc' = DOMAIN proc /\ proc'.step = "idle" /\ proc'.cmd = proc.cmd
    BY <1>3, EndFacts
  <2>2. Discipline'
    BY <1>1, <1>2, <2>1 DEF Discipline, FinalizeSteps, OtherSteps, Others
  <2>3. Quiet
    BY <1>1, <1>2, <2>1, <2>2 DEF Quiet, Others, Shape
  <2> QED
    BY <2>3, QuietKeeps
<1>4. CASE /\ ConsistentIndex
           /\ proc' = [proc EXCEPT !.step = IF CurrentIndex < target THEN "models" ELSE "aux2",
                                   !.todo = Sources(CurrentIndex, target)]
  <2>1. /\ DOMAIN proc' = DOMAIN proc /\ proc'.cmd = proc.cmd
        /\ proc'.step = IF CurrentIndex < target THEN "models" ELSE "aux2"
        /\ proc'.todo = Sources(CurrentIndex, target)
    BY <1>4 DEF Shape
  <2>2. Discipline'
    BY <1>1, <1>2, <2>1 DEF Discipline, FinalizeSteps, OtherSteps, Others
  <2>3. CASE ~(CurrentIndex < target)
    <3>1. Quiet
      BY <1>1, <1>2, <2>1, <2>2, <2>3 DEF Quiet, Others, Shape
    <3> QED
      BY <3>1, QuietKeeps
  <2>4. CASE CurrentIndex < target
    <3>1. Uniform
      BY <1>4, ConsistentMeansUniform
    <3>2. PICK q \in Positions : TRUE
      BY <1>1
    <3>3. CurrentIndex = db.positions[q] /\ CurrentIndex \in Int /\ target \in Int
      <4>1. CurrentIndex = db.positions[q]
        BY <3>1, CurrentOfUniform
      <4> QED
        BY <4>1 DEF Shape
    <3>4. \A i \in DOMAIN applied : applied[i] <= CurrentIndex
      BY <3>1, <3>3 DEF ModelInv
    <3>7. /\ proc'.todo \in Seq(Int) /\ Len(proc'.todo) > 0 /\ proc'.todo[1] = CurrentIndex
          /\ \A i \in 1..Len(proc'.todo) : proc'.todo[i] = target - Len(proc'.todo) + i - 1
      <4> DEFINE c == CurrentIndex
                 s == Sources(c, target)
      <4>1. c \in Int /\ target \in Int /\ c < target /\ proc'.todo = s
        BY <2>1, <2>4, <3>3
      <4> HIDE DEF c
      <4>2. /\ s \in Seq(Int) /\ Len(s) > 0 /\ s[1] = c
            /\ \A i \in 1..Len(s) : s[i] = target - Len(s) + i - 1
        BY <4>1, SourcesFacts
      <4> HIDE DEF s
      <4> QED
        BY <4>1, <4>2 DEF c
    <3>8. /\ \E r \in Positions : db.positions[r] <= proc'.todo[1]
          /\ \A i \in DOMAIN applied : applied[i] <= proc'.todo[1]
      <4>1. db.positions[q] <= CurrentIndex
        BY <3>3
      <4> QED
        BY <3>2, <3>4, <3>7, <4>1
    <3>9. Shape'
      BY <1>1, <1>2, <2>1 DEF Shape, Others
    <3>10. LockInv'
      BY <1>1, <2>1, <2>4 DEF LockInv
    <3>11. ModelInv'
      BY <1>1, <1>2, <2>1, <2>4, <3>7, <3>8 DEF ModelInv, ModelMigrationsOnce, Others
    <3> QED
      BY <2>2, <3>9, <3>10, <3>11
  <2> QED
    BY <2>3, <2>4
<1> QED
  BY <1>3, <1>4 DEF PlanModelMigration, FirstModelMigration

\* One model migration: if it writes, its target is above all that ran, and the positions
\* have more than one index until the last step of finalize.
LEMMA MigrateModelsKeeps ==
    ASSUME CommandInv, MigrateModels
    PROVE  CommandInv'
<1> USE DEF CommandInv
<1> DEFINE n == Len(proc.todo)
           head == proc.todo[1]
           p == db.position_seq + 1
<1>1. /\ proc.step = "models" /\ UNCHANGED <<eventTarget, target, online, writing>>
      /\ proc' = [proc EXCEPT !.step = IF n > 1 THEN "models" ELSE "aux2", !.todo = Tail(@)]
  BY DEF MigrateModels, At
<1>2. /\ DOMAIN proc' = DOMAIN proc /\ proc'.cmd = proc.cmd
      /\ proc'.step = IF n > 1 THEN "models" ELSE "aux2"
      /\ proc'.todo = Tail(proc.todo)
  BY <1>1 DEF Shape
<1>3. /\ proc.todo \in Seq(Int) /\ n \in Nat /\ n > 0 /\ target \in Nat
      /\ \A i \in 1..n : proc.todo[i] = target - n + i - 1
      /\ \A i \in DOMAIN applied : applied[i] <= head /\ applied[i] \in Int
  BY <1>1 DEF ModelInv, Shape
<1>4. head = target - n /\ head \in Int /\ head < target /\ Head(proc.todo) = head
  <2>1. Head(proc.todo) = head
    BY <1>3
  <2>2. 1 \in 1..n
    BY <1>3
  <2>3. head = target - n + 1 - 1
    BY <1>3, <2>2
  <2> HIDE DEF head, n
  <2> QED
    BY <1>3, <2>1, <2>3
<1>5. PICK q \in Positions : db.positions[q] <= head
  BY <1>1 DEF ModelInv
<1>6. db.positions[q] \in Int /\ db.positions[q] >= -1 /\ head >= -1
  BY <1>4, <1>5 DEF Shape
<1>7. proc'.step = "models" =>
         /\ proc'.todo \in Seq(Int) /\ Len(proc'.todo) > 0 /\ proc'.todo[1] = head + 1
         /\ \A i \in 1..Len(proc'.todo) : proc'.todo[i] = target - Len(proc'.todo) + i - 1
  <2>1. ASSUME n > 1
        PROVE  LET r == Tail(proc.todo)
               IN  /\ r \in Seq(Int) /\ Len(r) > 0 /\ r[1] = head + 1
                   /\ \A i \in 1..Len(r) : r[i] = target - Len(r) + i - 1
    <3> DEFINE s == proc.todo
    <3>1. /\ target \in Int /\ s \in Seq(Int) /\ Len(s) > 1 /\ head = s[1]
          /\ \A i \in 1..Len(s) : s[i] = target - Len(s) + i - 1
      BY <1>3, <2>1
    <3> HIDE DEF s, head
    <3>2. LET r == Tail(s)
          IN  /\ r \in Seq(Int) /\ Len(r) > 0 /\ r[1] = s[1] + 1
              /\ \A i \in 1..Len(r) : r[i] = target - Len(r) + i - 1
      BY <3>1, RestOfSources
    <3> QED
      BY <3>1, <3>2 DEF s
  <2> HIDE DEF head, n
  <2> QED
    BY <1>2, <2>1
<1>8. CASE db' = db /\ applied' = applied
  <2>1. Positions' = Positions /\ Uniform' = Uniform
    BY <1>8 DEF Positions, Uniform
  <2>2. Shape' /\ LockInv'
    BY <1>1, <1>2, <1>8, <2>1 DEF Shape, LockInv
  <2>3. Discipline'
    BY <1>1, <1>2, <2>1 DEF Discipline, FinalizeSteps, OtherSteps
  <2>4. proc'.step = "models" =>
           /\ \E r \in Positions : db.positions[r] <= proc'.todo[1]
           /\ \A i \in DOMAIN applied : applied[i] <= proc'.todo[1]
    <3> HIDE DEF head, n
    <3>1. db.positions[q] <= head + 1
      BY <1>4, <1>5, <1>6
    <3>2. \A i \in DOMAIN applied : applied[i] <= head + 1
      BY <1>3, <1>4
    <3> QED
      BY <1>5, <1>7, <3>1, <3>2
  <2>5. ModelInv'
    BY <1>1, <1>2, <1>7, <1>8, <2>1, <2>4 DEF ModelInv, ModelMigrationsOnce
  <2> QED
    BY <2>2, <2>3, <2>5
<1>9. CASE /\ db' = InsertEvents(db, head + 1, head + 1)
           /\ applied' = Append(applied, head + 1)
  <2>1. /\ p \notin Positions /\ Positions' = Positions \cup {p}
        /\ db'.positions = With(db.positions, p, head + 1)
    BY <1>9, InsertFacts
  <2>2. /\ \A r \in Positions : r \in Positions' /\ db'.positions[r] = db.positions[r]
        /\ p \in Positions' /\ db'.positions[p] = head + 1
    BY <2>1 DEF With, Positions
  <2> HIDE DEF head, p, n
  <2>3. applied \in Seq(Int) /\ head + 1 \in Int
    BY <1>4 DEF Shape
  <2>4. /\ applied' \in Seq(Int) /\ DOMAIN applied' = DOMAIN applied \cup {Len(applied) + 1}
        /\ applied'[Len(applied) + 1] = head + 1 /\ Len(applied) + 1 \notin DOMAIN applied
        /\ \A i \in DOMAIN applied : applied'[i] = applied[i]
    BY <1>9, <2>3
  <2>5. Shape' /\ LockInv'
    <3>1. proc'.step \notin {"fill", "keyframes", "swap"}
      BY <1>2
    <3>2. writing' \in Int /\ writing' >= -1 /\ head + 1 >= -1
      BY <1>1, <1>4, <1>6 DEF Shape
    <3> QED
      BY <1>1, <1>2, <1>9, <2>3, <2>4, <3>1, <3>2, InsertKeeps
  <2>6. Discipline'
    BY <1>1, <1>2, <2>1 DEF Discipline, FinalizeSteps, OtherSteps
  <2>7. ~Uniform'
    <3>1. db'.positions[q] # db'.positions[p]
      BY <1>4, <1>5, <1>6, <2>2
    <3> QED
      BY <2>2, <3>1 DEF Uniform
  <2>8. \A i \in DOMAIN applied' : applied'[i] <= head + 1 /\ applied'[i] \in Int
    BY <1>3, <1>4, <2>4
  <2>9. \A i, j \in DOMAIN applied' : applied'[i] = applied'[j] => i = j
    <3>1. \A i \in DOMAIN applied : applied[i] # head + 1
      BY <1>3, <1>4
    <3> QED
      BY <2>4, <3>1 DEF ModelInv, ModelMigrationsOnce
  <2>10. \E r \in Positions' : db'.positions[r] <= head + 1
    BY <1>4, <2>2
  <2>11. \A i \in DOMAIN applied' : applied'[i] <= target
    BY <1>3, <1>4, <2>8
  <2>12. proc'.step = "models" =>
            /\ proc'.todo \in Seq(Int) /\ Len(proc'.todo) > 0
            /\ \A i \in 1..Len(proc'.todo) : proc'.todo[i] = target' - Len(proc'.todo) + i - 1
            /\ \E r \in Positions' : db'.positions[r] <= proc'.todo[1]
            /\ \A i \in DOMAIN applied' : applied'[i] <= proc'.todo[1]
    BY <1>1, <1>7, <2>8, <2>10
  <2>13. proc'.step \in {"models", "aux2"} /\ Positions' # {} /\ target' = target
    BY <1>1, <1>2, <2>2
  <2>14. ModelInv'
    BY <2>7, <2>9, <2>11, <2>12, <2>13 DEF ModelInv, ModelMigrationsOnce
  <2> QED
    BY <2>5, <2>6, <2>14
<1> QED
  BY <1>4, <1>8, <1>9 DEF MigrateModels

-----------------------------------------------------------------------------
(* The invariant of the commands                                            *)

\* Init satisfies the invariant.
LEMMA CommandInit == Init => CommandInv
<1> SUFFICES ASSUME Init PROVE CommandInv
  OBVIOUS
<1>1. Shape
  BY DEF Init, EmptyDb, Idle, Shape, Positions
<1>2. Discipline
  BY DEF Init, Idle, Discipline, OtherSteps, FinalizeSteps
<1>3. LockInv
  BY DEF Init, EmptyDb, Idle, LockInv
<1>4. ModelInv
  BY DEF Init, EmptyDb, Idle, ModelInv, Positions, ModelMigrationsOnce
<1> QED
  BY <1>1, <1>2, <1>3, <1>4 DEF CommandInv

\* Every step keeps it.
LEMMA CommandStep == CommandInv /\ [Next]_vars => CommandInv'
<1> SUFFICES ASSUME CommandInv, [Next]_vars PROVE CommandInv'
  OBVIOUS
<1>1. CASE UNCHANGED vars
  BY <1>1 DEF vars, CommandInv, Shape, Discipline, LockInv, ModelInv, ModelMigrationsOnce,
              Positions, Uniform
<1>2. CASE Step
  BY <1>2, DecidingKeeps, MigrationTablesKeep, ChecksKeep, AuxTablesKeep, SwapKeeps,
     UpdateIndexKeeps, PlanModelsKeeps, MigrateModelsKeeps DEF Step
<1>3. CASE Stop \/ Operator
  BY <1>3, OperatorKeeps
<1>4. CASE BeginWrite \/ CommitWrite \/ FailWrite
  BY <1>4, BeginWriteKeeps, CommitWriteKeeps, FailWriteKeeps
<1> QED
  BY <1>1, <1>2, <1>3, <1>4 DEF Next

\* What the commands keep, wherever they stop and whatever is written next to them.
THEOREM CommandInvariant == Spec => []CommandInv
BY CommandInit, CommandStep, PTL DEF Spec

\* A datastore that runs has no lock rows that refer to events of before the swap.
THEOREM LockTablesFreshHolds == Spec => []LockTablesFresh
<1>1. CommandInv => LockTablesFresh
  BY DEF CommandInv, LockInv, LockTablesFresh
<1> QED
  BY <1>1, CommandInvariant, PTL

\* No model migration changes a datastore twice, wherever finalize stops and is run again.
THEOREM ModelMigrationsOnceHolds == Spec => []ModelMigrationsOnce
<1>1. CommandInv => ModelMigrationsOnce
  BY DEF CommandInv, ModelInv
<1> QED
  BY <1>1, CommandInvariant, PTL

-----------------------------------------------------------------------------
(* The invariant of the migration index                                     *)

\* run_checks gives positions of index -1 the target of the release: a write that has read
\* -1 before must not be open then.
NoOpenFirstWrite == ~FirstWriteOpen \/ -1 \notin InitialIndices

\* What is left to show of a step that leaves the positions.
SameIndices ==
    /\ db'.positions = db.positions
    /\ online' => Uniform
    /\ Finalized' => Uniform
    /\ proc'.cmd = "finalize" /\ proc'.step \in {"clean", "auxOnly"} => Uniform
    /\ writing' \in {0, writing}
    /\ ~FirstWriteOpen /\ writing' = -1 /\ proc'.step # "idle" => proc'.cmd = "reset"

\* A step that leaves the positions keeps the invariant.
LEMMA SameIndicesKeep ==
    ASSUME IndexInv, SameIndices
    PROVE  IndexInv'
<1>1. Positions' = Positions /\ Uniform' = Uniform
  BY DEF SameIndices, Positions, Uniform
<1> QED
  BY <1>1 DEF SameIndices, IndexInv

\* The steps of the commands that leave the positions: those that end finalize with success
\* found one index, or set it.
LEMMA StepKeepsIndex ==
    ASSUME CommandInv, IndexInv,
           \/ RunChecks /\ db' = db
           \/ GetMigrationState \/ PlanEventMigration \/ MigrateNextPosition \/ ReadIndex
           \/ DeleteCollectionfieldAuxTables \/ FillModelsAndIdSequences
           \/ DeleteMigrationKeyframes \/ SwapEvents \/ CleanMigrationData
           \/ PlanModelMigration
    PROVE  IndexInv'
<1> USE DEF CommandInv
<1>1. UNCHANGED Others /\ proc.step # "idle"
  BY DEF RunChecks, GetMigrationState, PlanEventMigration, MigrateNextPosition, ReadIndex,
         DeleteCollectionfieldAuxTables, FillModelsAndIdSequences, DeleteMigrationKeyframes,
         SwapEvents, CleanMigrationData, PlanModelMigration, At
<1>2. db'.positions = db.positions
  BY DEF RunChecks, GetMigrationState, PlanEventMigration, MigrateNextPosition, ReadIndex,
         DeleteCollectionfieldAuxTables, FillModelsAndIdSequences, DeleteMigrationKeyframes,
         SwapEvents, CleanMigrationData, PlanModelMigration, Shape
<1>3. ConsistentIndex => Uniform
  BY ConsistentMeansUniform
<1>4. /\ proc'.cmd = proc.cmd
      /\ \/ proc'.step \notin {"idle", "clean", "auxOnly"}
         \/ proc'.step = "idle" /\ proc'.outcome = "refused"
         \/ proc'.step \in {"idle", "clean", "auxOnly"} /\ (proc.cmd # "finalize" \/ Uniform)
  <2>1. CASE RunChecks /\ db' = db
    <3>1. \/ End("ok") /\ (proc.cmd # "finalize" \/ Positions = {})
          \/ End("refused") \/ Goto("resetKeyframes") \/ Goto("state")
          \/ Goto("auxOnly") /\ Positions = {}
          \/ db' = [db EXCEPT !.positions = SetIndex(@, target),
                              !.migration_events = <<>>, !.migration_positions = <<>>,
                              !.migration_keyframes = <<>>]
             /\ CurrentIndex = -1 /\ ConsistentIndex /\ (Goto("auxOnly") \/ End("ok"))
      BY <2>1 DEF RunChecks, ValidIndex
    <3>2. Positions = {} => Uniform
      BY DEF Uniform
    <3> QED
      BY <1>3, <3>1, <3>2, GotoFacts, EndFacts
  <2>2. CASE GetMigrationState
    <3>1. End("refused") \/ Goto("plan") \/ Goto("current") \/ (End("ok") /\ ConsistentIndex)
      BY <2>2 DEF GetMigrationState
    <3> QED
      BY <1>3, <3>1, GotoFacts, EndFacts
  <2>3. CASE PlanEventMigration
    BY <2>3, EndFacts DEF PlanEventMigration, Shape
  <2>4. CASE MigrateNextPosition
    <3>1. PICK p, index :
             \/ End("refused")
             \/ End("ok") /\ AfterPositions = "idle"
             \/ /\ AfterPositions # "idle"
                /\ proc' = [proc EXCEPT !.step = AfterPositions, !.todo = Tail(@),
                                        !.last = p, !.lastIndex = index]
      BY <2>4 DEF MigrateNextPosition
    <3>2. CASE End("refused")
      BY <3>2, EndFacts
    <3>3. CASE End("ok") /\ AfterPositions = "idle"
      <4>1. proc.cmd # "finalize"
        BY <3>3 DEF AfterPositions
      <4> QED
        BY <3>3, <4>1, EndFacts
    <3>4. CASE /\ AfterPositions # "idle"
               /\ proc' = [proc EXCEPT !.step = AfterPositions, !.todo = Tail(@),
                                       !.last = p, !.lastIndex = index]
      <4>1. proc'.cmd = proc.cmd /\ proc'.step = AfterPositions
        BY <3>4 DEF Shape
      <4> QED
        BY <3>4, <4>1 DEF AfterPositions
    <3> QED
      BY <3>1, <3>2, <3>3, <3>4
  <2>5. CASE ReadIndex
    <3>1. \/ End("refused") \/ Goto("aux") \/ Goto("modelplan")
          \/ End("ok") /\ ConsistentIndex
      BY <2>5 DEF ReadIndex, GotoOrEnd, AfterEvents
    <3> QED
      BY <1>3, <3>1, GotoFacts, EndFacts
  <2>6. CASE DeleteCollectionfieldAuxTables
    <3>1. \/ End("ok") /\ proc.step = "auxOnly"
          \/ Goto("fill") \/ Goto("index2")
      BY <2>6 DEF DeleteCollectionfieldAuxTables, At
    <3>2. proc.step = "auxOnly" => Uniform
      BY DEF IndexInv, Discipline, FinalizeSteps
    <3> QED
      BY <3>1, <3>2, GotoFacts, EndFacts
  <2>7. CASE FillModelsAndIdSequences
    <3>1. End("refused") \/ Goto("keyframes")
      BY <2>7 DEF FillModelsAndIdSequences
    <3> QED
      BY <3>1, GotoFacts, EndFacts
  <2>8. CASE DeleteMigrationKeyframes
    <3>1. Goto("swap") \/ (Goto("clean") /\ proc.step = "resetKeyframes")
      BY <2>8 DEF DeleteMigrationKeyframes, At
    <3>2. proc.step = "resetKeyframes" => proc.cmd # "finalize"
      BY DEF Discipline
    <3> QED
      BY <3>1, <3>2, GotoFacts
  <2>9. CASE SwapEvents
    BY <2>9, GotoFacts DEF SwapEvents
  <2>10. CASE CleanMigrationData
    <3>1. proc.step = "clean" /\ (End("ok") \/ Goto("modelplan"))
      BY <2>10 DEF CleanMigrationData, At, GotoOrEnd, AfterEvents
    <3>2. proc.cmd # "finalize" \/ Uniform
      BY <3>1 DEF IndexInv
    <3> QED
      BY <3>1, <3>2, GotoFacts, EndFacts
  <2>11. CASE PlanModelMigration
    <3>1. PICK step, todo :
             \/ End("refused")
             \/ step \in {"models", "aux2"} /\ proc' = [proc EXCEPT !.step = step, !.todo = todo]
      BY <2>11 DEF PlanModelMigration
    <3>2. CASE End("refused")
      BY <3>2, EndFacts
    <3>3. CASE step \in {"models", "aux2"} /\ proc' = [proc EXCEPT !.step = step, !.todo = todo]
      BY <3>3 DEF Shape
    <3> QED
      BY <3>1, <3>2, <3>3
  <2> QED
    BY <2>1, <2>2, <2>3, <2>4, <2>5, <2>6, <2>7, <2>8, <2>9, <2>10, <2>11
<1>5. SameIndices
  BY <1>1, <1>2, <1>4 DEF SameIndices, Finalized, At, IndexInv, Others
<1> QED
  BY <1>5, SameIndicesKeep

\* Stops and the operator: a datastore comes online only after a finalize that succeeded.
LEMMA OperatorKeepsIndex ==
    ASSUME CommandInv, IndexInv, Stop \/ Operator
    PROVE  IndexInv'
<1> USE DEF CommandInv
<1>1. db' = db /\ writing' = writing
  BY DEF Stop, Operator, RegisterMigration, StartMigrate, StartReset, StartFinalize,
         RunAgain, BringOnline, Others
<1>2. CASE Stop
  <2>1. proc'.step = "idle" /\ proc'.outcome = "stopped" /\ online' = online
    BY <1>2, EndFacts DEF Stop
  <2>2. SameIndices
    BY <1>1, <2>1 DEF SameIndices, Finalized, At, IndexInv
  <2> QED
    BY <2>2, SameIndicesKeep
<1>3. CASE RegisterMigration
  <2>1. SameIndices
    BY <1>1, <1>3 DEF SameIndices, RegisterMigration, Finalized, At, IndexInv
  <2> QED
    BY <2>1, SameIndicesKeep
<1>4. CASE BringOnline
  <2>1. SameIndices
    BY <1>1, <1>4 DEF SameIndices, BringOnline, Finalized, At, IndexInv
  <2> QED
    BY <2>1, SameIndicesKeep
<1>5. CASE StartMigrate \/ StartReset \/ StartFinalize \/ RunAgain
  <2>1. /\ proc'.step = "checks" /\ (online' => online)
        /\ proc'.cmd = "reset" \/ FirstWriteOpen \/ writing # -1
    BY <1>5, StartFacts
       DEF StartMigrate, StartReset, StartFinalize, RunAgain, Others, Discipline
  <2>2. SameIndices
    BY <1>1, <2>1 DEF SameIndices, Finalized, At, IndexInv
  <2> QED
    BY <2>2, SameIndicesKeep
<1> QED
  BY <1>2, <1>3, <1>4, <1>5 DEF Operator

\* _update_migration_index: the positions get one index while no write is open.
LEMMA SetIndexKeepsIndex ==
    ASSUME NEW index \in Int, index # -1, CommandInv,
           db'.positions = SetIndex(db.positions, index), writing' = 0
    PROVE  IndexInv'
<1>1. \A p \in Positions' : db'.positions[p] = index
  BY DEF SetIndex, Positions
<1>2. Uniform'
  BY <1>1 DEF Uniform
<1> QED
  BY <1>1, <1>2 DEF IndexInv

\* ... as it is in all three places.
LEMMA UpdateIndexKeepsIndex ==
    ASSUME CommandInv, IndexInv, NoOpenFirstWrite,
           UpdateMigrationIndex \/ UpdateMigrationIndexToTarget \/ (RunChecks /\ db' # db)
    PROVE  IndexInv'
<1> USE DEF CommandInv
<1>1. writing' = writing
  BY DEF UpdateMigrationIndex, UpdateMigrationIndexToTarget, RunChecks, Others
<1>2. eventTarget \in Int /\ eventTarget # -1 /\ target \in Int /\ target # -1
  BY DEF Shape
<1>3. CASE UpdateMigrationIndex \/ UpdateMigrationIndexToTarget
  <2>1. writing = 0
    BY <1>3 DEF UpdateMigrationIndex, UpdateMigrationIndexToTarget, At, Discipline, FinalizeSteps
  <2>2. \/ db'.positions = SetIndex(db.positions, eventTarget)
        \/ db'.positions = SetIndex(db.positions, target)
    BY <1>3 DEF UpdateMigrationIndex, UpdateMigrationIndexToTarget, Shape
  <2> QED
    BY <1>1, <1>2, <2>1, <2>2, SetIndexKeepsIndex
<1>4. CASE RunChecks /\ db' # db
  <2>1. /\ proc.step = "checks" /\ proc.cmd # "reset" /\ Positions # {}
        /\ ConsistentIndex /\ CurrentIndex = -1
        /\ db' = [db EXCEPT !.positions = SetIndex(@, target),
                            !.migration_events = <<>>, !.migration_positions = <<>>,
                            !.migration_keyframes = <<>>]
    BY <1>4 DEF RunChecks, At, ValidIndex
  <2>2. db'.positions = SetIndex(db.positions, target)
    BY <2>1 DEF Shape
  <2>3. writing = 0
    <3>1. PICK p \in Positions : TRUE
      BY <2>1
    <3>2. Uniform
      BY <2>1, ConsistentMeansUniform
    <3>3. db.positions[p] = -1
      BY <2>1, <3>2, CurrentOfUniform
    <3>4. CASE ~FirstWriteOpen
      BY <2>1, <3>3, <3>4 DEF IndexInv
    <3>5. CASE -1 \notin InitialIndices
      BY <3>3, <3>5 DEF IndexInv
    <3> QED
      BY <3>4, <3>5 DEF NoOpenFirstWrite
  <2> QED
    BY <1>1, <1>2, <2>2, <2>3, SetIndexKeepsIndex
<1> QED
  BY <1>3, <1>4

\* A model migration writes while the datastore is offline.
LEMMA MigrateModelsKeepsIndex ==
    ASSUME CommandInv, IndexInv, MigrateModels
    PROVE  IndexInv'
<1> USE DEF CommandInv
<1>1. /\ proc.step = "models" /\ UNCHANGED <<online, writing>>
      /\ ~online /\ writing = 0
  BY DEF MigrateModels, At, Discipline, FinalizeSteps
<1>2. proc'.step \in {"models", "aux2"}
  BY DEF MigrateModels, Shape
<1> DEFINE head == Head(proc.todo)
<1>3. head \in Int /\ head >= -1
  <2>1. proc.todo \in Seq(Int) /\ Len(proc.todo) > 0
    BY <1>1 DEF ModelInv
  <2>2. head = proc.todo[1] /\ head \in Int
    BY <2>1
  <2>3. PICK q \in Positions : db.positions[q] <= proc.todo[1]
    BY <1>1 DEF ModelInv
  <2>4. db.positions[q] \in Int /\ db.positions[q] >= -1
    BY DEF Shape
  <2> HIDE DEF head
  <2> QED
    BY <2>2, <2>3, <2>4
<1>4. -1 \notin InitialIndices => \A r \in Positions' : db'.positions[r] # -1
  <2>1. CASE db' = db
    BY <2>1 DEF IndexInv, Positions
  <2>2. CASE db' = InsertEvents(db, head + 1, head + 1)
    <3> DEFINE p == db.position_seq + 1
    <3> HIDE DEF head
    <3>1. Positions' = Positions \cup {p} /\ db'.positions = With(db.positions, p, head + 1)
      BY <2>2, InsertFacts
    <3>2. head + 1 # -1
      BY <1>3
    <3> QED
      BY <3>1, <3>2 DEF With, Positions, IndexInv
  <2> QED
    BY <2>1, <2>2 DEF MigrateModels
<1> QED
  BY <1>1, <1>2, <1>4 DEF IndexInv, Finalized, At

\* A write of the live datastore stores the index it has read, which all positions still have.
LEMMA WriteKeepsIndex ==
    ASSUME CommandInv, IndexInv, BeginWrite \/ CommitWrite \/ FailWrite
    PROVE  IndexInv'
<1> USE DEF CommandInv
<1>1. CASE BeginWrite
  <2>1. /\ online /\ UNCHANGED <<db, proc, online>> /\ ConsistentIndex
        /\ FirstWriteOpen \/ proc.step = "idle" \/ writing' # -1
    BY <1>1 DEF BeginWrite, At
  <2>2. Positions' = Positions /\ Uniform' = Uniform /\ Finalized' = Finalized
    BY <2>1 DEF Positions, Uniform, Finalized, At
  <2>3. \A p \in Positions : writing' = db.positions[p]
    <3> SUFFICES ASSUME NEW p \in Positions PROVE writing' = db.positions[p]
      OBVIOUS
    <3>1. writing' = CurrentIndex
      BY <1>1 DEF BeginWrite
    <3>2. Uniform
      BY <2>1, ConsistentMeansUniform
    <3> QED
      BY <3>1, <3>2, CurrentOfUniform
  <2>4. Positions = {} => writing' \in InitialIndices
    BY <1>1 DEF BeginWrite
  <2> QED
    BY <2>1, <2>2, <2>3, <2>4 DEF IndexInv
<1>2. CASE CommitWrite
  <2> DEFINE p == db.position_seq + 1
             format == IF writing = -1 THEN target ELSE writing
  <2>1. /\ writing # 0 /\ writing' = 0 /\ UNCHANGED <<proc, online>>
        /\ db' = InsertEvents(db, writing, format)
    BY <1>2 DEF CommitWrite
  <2> HIDE DEF format
  <2>2. Positions' = Positions \cup {p} /\ db'.positions = With(db.positions, p, writing)
    BY <2>1, InsertFacts
  <2>3. \A q \in Positions' : db'.positions[q] = writing
    BY <2>1, <2>2 DEF With, Positions, IndexInv
  <2>4. Uniform'
    BY <2>3 DEF Uniform
  <2> QED
    BY <2>1, <2>3, <2>4 DEF IndexInv
<1>3. CASE FailWrite
  <2>1. writing' = 0 /\ UNCHANGED <<proc, online>> /\ db'.positions = db.positions
    BY <1>3 DEF FailWrite, Shape
  <2>2. SameIndices
    BY <2>1 DEF SameIndices, Finalized, At, IndexInv
  <2> QED
    BY <2>2, SameIndicesKeep
<1> QED
  BY <1>1, <1>2, <1>3

\* Init satisfies the invariant.
LEMMA IndexInit == Init => IndexInv
BY DEF Init, EmptyDb, Idle, IndexInv, Positions, Uniform, Finalized, At

\* Every step keeps it.
LEMMA IndexStep ==
    CommandInv /\ NoOpenFirstWrite /\ IndexInv /\ [Next]_vars => IndexInv'
<1> SUFFICES ASSUME CommandInv, NoOpenFirstWrite, IndexInv, [Next]_vars PROVE IndexInv'
  OBVIOUS
<1>1. CASE UNCHANGED vars
  BY <1>1 DEF vars, IndexInv, Positions, Uniform, Finalized, At
<1>2. CASE Step
  BY <1>2, StepKeepsIndex, UpdateIndexKeepsIndex, MigrateModelsKeepsIndex DEF Step
<1>3. CASE Stop \/ Operator
  BY <1>3, OperatorKeepsIndex
<1>4. CASE BeginWrite \/ CommitWrite \/ FailWrite
  BY <1>4, WriteKeepsIndex
<1> QED
  BY <1>1, <1>2, <1>3, <1>4 DEF Next

\* A datastore that runs has one migration index, wherever commands stopped, unless a first
\* write of index -1 is open while migrate checks the positions.
THEOREM UniformIndexOnlineHolds == Spec => [](NoOpenFirstWrite => UniformIndexOnline)
<1>1. Init => (NoOpenFirstWrite => IndexInv)
  BY IndexInit
<1>2. CommandInv /\ (NoOpenFirstWrite => IndexInv) /\ [Next]_vars
        => (NoOpenFirstWrite => IndexInv)'
  BY IndexStep DEF NoOpenFirstWrite
<1>3. CommandInv /\ (NoOpenFirstWrite => IndexInv) => (NoOpenFirstWrite => UniformIndexOnline)
  BY ConsistentMeansUniform DEF CommandInv, IndexInv, UniformIndexOnline
<1> QED
  BY <1>1, <1>2, <1>3, CommandInvariant, PTL DEF Spec

-----------------------------------------------------------------------------
(* Positions in their order                                                 *)

\* A loop that goes wrong has a first turn at which it does.
LEMMA LeastNat ==
    ASSUME NEW T \in SUBSET Nat, T # {}
    PROVE  \E m \in T : \A k \in T : ~(k < m)
<1> DEFINE R == OpToRel(<, Nat)
<1>1. IsWellFoundedOn(R, Nat)
  BY NatLessThanWellFounded
<1>2. \A k, m \in Nat : k < m => <<k, m>> \in R
  BY DEF OpToRel
<1> HIDE DEF R
<1>3. T \subseteq Nat /\ T # {}
  OBVIOUS
<1>4. \E m \in T : \A k \in T : ~(<<k, m>> \in R)
  BY <1>1, <1>3, WFMin, Zenon
<1> QED
  BY <1>2, <1>3, <1>4

\* "select min(position)": there is a least one.
LEMMA MinFacts ==
    ASSUME NEW S \in SUBSET Nat, S # {}
    PROVE  Min(S) \in S /\ \A x \in S : Min(S) <= x
<1>1. PICK m \in S : \A k \in S : ~(k < m)
  BY LeastNat
<1>2. m \in S /\ \A k \in S : m <= k
  BY <1>1
<1> QED
  BY <1>2 DEF Min

\* "select max(position)"
LEMMA MaxFacts ==
    ASSUME NEW n \in Nat, NEW S \in SUBSET (0..n), S # {}
    PROVE  Max(S) \in S /\ \A x \in S : x <= Max(S)
<1> DEFINE T == {k \in Nat : \A x \in S : x <= k}
<1>1. T \in SUBSET Nat /\ n \in T
  OBVIOUS
<1>2. PICK k \in T : \A m \in T : ~(m < k)
  <2> HIDE DEF T
  <2> QED
    BY <1>1, LeastNat
<1>3. k \in Nat /\ \A x \in S : x <= k
  BY <1>2
<1>4. k \in S
  <2> SUFFICES ASSUME k \notin S PROVE FALSE
    OBVIOUS
  <2>1. \A x \in S : x <= k - 1
    BY <1>3
  <2>2. k - 1 \in Nat
    <3>1. PICK x \in S : TRUE
      OBVIOUS
    <3> QED
      BY <1>3, <2>1, <3>1
  <2> QED
    BY <1>2, <1>3, <2>1, <2>2
<1> QED
  BY <1>3, <1>4 DEF Max

IsAscending(s, S) ==
    /\ s \in [1..Cardinality(S) -> S]
    /\ Values(s) = S /\ \A i, j \in DOMAIN s : i < j => s[i] < s[j]

\* A position above the others is the last in their order.
LEMMA AscendingNext ==
    ASSUME NEW n \in Nat, NEW S \in SUBSET (1..n), NEW x \in Nat, \A y \in S : y < x,
           NEW s, IsAscending(s, S)
    PROVE  /\ Cardinality(S) \in Nat /\ Cardinality(S \cup {x}) = Cardinality(S) + 1
           /\ IsAscending([i \in 1..(Cardinality(S) + 1) |->
                              IF i = Cardinality(S) + 1 THEN x ELSE s[i]], S \cup {x})
<1> DEFINE c == Cardinality(S)
           t == [i \in 1..(c + 1) |-> IF i = c + 1 THEN x ELSE s[i]]
           U == S \cup {x}
<1>1. IsFiniteSet(S)
  <2>1. IsFiniteSet(1..n)
    BY FS_Interval
  <2> QED
    BY <2>1, FS_Subset
<1>2. c \in Nat
  BY <1>1, FS_CardinalityType
<1>3. x \notin S
  OBVIOUS
<1>4. Cardinality(U) = c + 1
  BY <1>1, <1>3, FS_AddElement
<1>5. /\ DOMAIN s = 1..c /\ \A i \in 1..c : s[i] \in S
      /\ \A y \in S : \E i \in 1..c : s[i] = y
      /\ \A i, j \in 1..c : i < j => s[i] < s[j]
  BY DEF IsAscending, Values
<1> HIDE DEF c
<1>6. DOMAIN t = 1..(c + 1) /\ t[c + 1] = x /\ \A i \in 1..c : t[i] = s[i]
  BY <1>2
<1>7. \A i \in 1..(c + 1) : i = c + 1 \/ i \in 1..c
  BY <1>2
<1>8. \A i \in 1..(c + 1) : t[i] \in U
  BY <1>2, <1>5, <1>6, <1>7
<1>9. \A y \in U : \E i \in 1..(c + 1) : t[i] = y
  <2> SUFFICES ASSUME NEW y \in U PROVE \E i \in 1..(c + 1) : t[i] = y
    OBVIOUS
  <2>1. CASE y = x
    BY <1>2, <1>6, <2>1
  <2>2. CASE y \in S
    <3>1. PICK i \in 1..c : s[i] = y
      BY <1>5, <2>2
    <3> QED
      BY <1>2, <1>6, <3>1
  <2> QED
    BY <2>1, <2>2
<1>10. \A i, j \in 1..(c + 1) : i < j => t[i] < t[j]
  <2> SUFFICES ASSUME NEW i \in 1..(c + 1), NEW j \in 1..(c + 1), i < j PROVE t[i] < t[j]
    OBVIOUS
  <2>1. i \in 1..c
    BY <1>2
  <2>2. CASE j = c + 1
    BY <1>5, <1>6, <2>1, <2>2
  <2>3. CASE j \in 1..c
    BY <1>5, <1>6, <2>1, <2>3
  <2> QED
    BY <1>7, <2>2, <2>3
<1>11. t \in [1..(c + 1) -> U]
  BY <1>8
<1> HIDE DEF t, U
<1>12. Values(t) = U
  BY <1>6, <1>8, <1>9 DEF Values
<1>13. IsAscending(t, U)
  BY <1>4, <1>6, <1>10, <1>11, <1>12 DEF IsAscending
<1> QED
  BY <1>2, <1>4, <1>13 DEF t, c, U

\* There is an order ...
LEMMA AscendingExists ==
    ASSUME NEW n \in Nat, NEW S, \A x \in S : x \in Nat /\ 1 <= x /\ x <= n
    PROVE  \E s : IsAscending(s, S)
<1> DEFINE Up(k) == {x \in S : x <= k}
<1>b. Up(0) = {} /\ Up(n) = S
  OBVIOUS
<1>c. ASSUME NEW k \in Nat, k # 0
      PROVE  /\ Up(k) = IF k \in S THEN Up(k - 1) \cup {k} ELSE Up(k - 1)
             /\ Up(k - 1) \in SUBSET (1..n) /\ \A y \in Up(k - 1) : y < k
  <2>1. Up(k - 1) \in SUBSET (1..n) /\ \A y \in Up(k - 1) : y < k
    BY <1>c
  <2>2. \A x : x \in Up(k) <=> x \in S /\ (x = k \/ x \in Up(k - 1))
    BY <1>c
  <2> HIDE DEF Up
  <2>3. \A x : x \in Up(k - 1) => x \in S
    BY DEF Up
  <2> QED
    BY <2>1, <2>2, <2>3
<1> HIDE DEF Up
<1> DEFINE T == {m \in Nat : ~ \E s : IsAscending(s, Up(m))}
<1>1. T = {}
  <2> SUFFICES ASSUME T # {} PROVE FALSE
    OBVIOUS
  <2>1. PICK m \in T : \A k \in T : ~(k < m)
    <3>1. T \in SUBSET Nat
      OBVIOUS
    <3> HIDE DEF T
    <3> QED
      BY <3>1, LeastNat
  <2>2. m \in Nat /\ ~ \E s : IsAscending(s, Up(m))
    OBVIOUS
  <2>3. CASE m = 0
    <3>1. Up(m) = {}
      BY <1>b, <2>3
    <3>2. IsAscending(<<>>, {})
      BY FS_EmptySet DEF IsAscending, Values
    <3> QED
      BY <2>2, <3>1, <3>2
  <2>4. CASE m # 0
    <3>1. m - 1 \in Nat /\ m - 1 \notin T
      <4> HIDE DEF T
      <4> QED
        BY <2>1, <2>2, <2>4
    <3>2. PICK s : IsAscending(s, Up(m - 1))
      BY <3>1
    <3> HIDE DEF T
    <3>3. CASE m \in S
      <4>1. Up(m) = Up(m - 1) \cup {m}
        BY <1>c, <2>2, <2>4, <3>3
      <4>2. Up(m - 1) \in SUBSET (1..n) /\ \A y \in Up(m - 1) : y < m
        BY <1>c, <2>2, <2>4
      <4>3. \E t : IsAscending(t, Up(m - 1) \cup {m})
        BY <2>2, <3>2, <4>2, AscendingNext
      <4> QED
        BY <2>2, <4>1, <4>3
    <3>4. CASE m \notin S
      <4>1. Up(m) = Up(m - 1)
        BY <1>c, <2>2, <2>4, <3>4
      <4> QED
        BY <2>2, <3>2, <4>1
    <3> QED
      BY <3>3, <3>4
  <2> QED
    BY <2>3, <2>4
<1> QED
  BY <1>1, <1>b

\* ... and only one.
LEMMA AscendingUnique ==
    ASSUME NEW n \in Nat, NEW S \in SUBSET (1..n), NEW s, IsAscending(s, S),
           NEW t, IsAscending(t, S)
    PROVE  s = t
<1> DEFINE c == Cardinality(S)
           D == {i \in 1..c : s[i] # t[i]}
<1>1. c \in Nat
  <2>1. IsFiniteSet(1..n)
    BY FS_Interval
  <2>2. IsFiniteSet(S)
    BY <2>1, FS_Subset
  <2> QED
    BY <2>2, FS_CardinalityType
<1>2. /\ s \in [1..c -> S] /\ DOMAIN s = 1..c /\ \A i \in 1..c : s[i] \in S
      /\ \A y \in S : \E i \in 1..c : s[i] = y
      /\ \A i, j \in 1..c : i < j => s[i] < s[j]
  BY DEF IsAscending, Values
<1>3. /\ t \in [1..c -> S] /\ DOMAIN t = 1..c /\ \A i \in 1..c : t[i] \in S
      /\ \A y \in S : \E i \in 1..c : t[i] = y
      /\ \A i, j \in 1..c : i < j => t[i] < t[j]
  BY DEF IsAscending, Values
<1> HIDE DEF c
<1>4. D = {}
  <2> SUFFICES ASSUME D # {} PROVE FALSE
    OBVIOUS
  <2>1. PICK i \in D : \A k \in D : ~(k < i)
    <3>1. D \in SUBSET Nat
      OBVIOUS
    <3> HIDE DEF D
    <3> QED
      BY <3>1, LeastNat
  <2>2. i \in 1..c /\ s[i] # t[i] /\ \A k \in 1..c : k < i => s[k] = t[k]
    BY <2>1
  <2> HIDE DEF D
  <2>3. s[i] \in Nat /\ t[i] \in Nat
    <3>1. \A x \in S : x \in Nat
      OBVIOUS
    <3> QED
      BY <1>2, <1>3, <2>2, <3>1
  <2>4. CASE s[i] < t[i]
    <3>1. PICK j \in 1..c : t[j] = s[i]
      BY <1>2, <1>3, <2>2
    <3>2. CASE j < i
      BY <1>2, <2>2, <2>3, <3>1, <3>2
    <3>3. CASE j = i
      BY <2>2, <3>1, <3>3
    <3>4. CASE i < j
      BY <1>3, <2>2, <2>3, <2>4, <3>1, <3>4
    <3> QED
      BY <1>1, <2>2, <3>2, <3>3, <3>4
  <2>5. CASE t[i] < s[i]
    <3>1. PICK j \in 1..c : s[j] = t[i]
      BY <1>2, <1>3, <2>2
    <3>2. CASE j < i
      BY <1>3, <2>2, <2>3, <3>1, <3>2
    <3>3. CASE j = i
      BY <2>2, <3>1, <3>3
    <3>4. CASE i < j
      BY <1>2, <2>2, <2>3, <2>5, <3>1, <3>4
    <3> QED
      BY <1>1, <2>2, <3>2, <3>3, <3>4
  <2> QED
    BY <2>2, <2>3, <2>4, <2>5
<1>5. \A i \in 1..c : s[i] = t[i]
  BY <1>4
<1>6. s = [i \in 1..c |-> s[i]] /\ t = [i \in 1..c |-> t[i]]
  BY <1>2, <1>3
<1> HIDE DEF D
<1> QED
  BY <1>5, <1>6, Zenon

\* "order by position asc" returns every position once, in this order.
LEMMA AscendingFacts ==
    ASSUME NEW n \in Nat, NEW S \in SUBSET (1..n)
    PROVE  IsAscending(Ascending(S), S)
<1>1. \E s : IsAscending(s, S)
  <2>1. \A x \in S : x \in Nat /\ 1 <= x /\ x <= n
    OBVIOUS
  <2> QED
    BY <2>1, AscendingExists
<1>2. \E s \in [1..Cardinality(S) -> S] :
          Values(s) = S /\ \A i, j \in DOMAIN s : i < j => s[i] < s[j]
  BY <1>1 DEF IsAscending
<1> QED
  BY <1>2 DEF Ascending, IsAscending

-----------------------------------------------------------------------------
(* Which positions are migrated                                             *)

AllAt(indices) == \A p \in Positions : db.positions[p] \in indices
ToMigrate == Positions # {} /\ AllAt(1..(eventTarget - 1))

\* Every position has its migrated events.
Complete == \A p \in Positions :
    p \in DOMAIN db.migration_positions /\ db.migration_positions[p] = eventTarget

\* The indices of the positions, of an open write and of the migrated positions. Several
\* indices come from a first write that overlaps with run_checks, or from a model migration
\* that stopped; from then on there is no event migration.
RowsInv ==
    /\ AllAt({-1} \cup 1..target) /\ writing <= target
    /\ writing > 0 => AllAt({writing})
    /\ writing = -1 => AllAt({-1, target})
    /\ \/ Uniform
       \/ AllAt({-1, target}) /\ -1 \in Values(db.positions)
       \/ AllAt(eventTarget..target) /\ eventTarget < target
    /\ DOMAIN db.migration_positions \subseteq Positions
    /\ \A p \in DOMAIN db.migration_positions :
          /\ db.migration_positions[p] \in 1..eventTarget
          /\ \A q \in Positions : q < p => q \in DOMAIN db.migration_positions

\* The positions that migrate has still to look at follow each other without a gap, and
\* finalize looks at all of them.
WalkInv ==
    /\ \A i \in 1..Len(proc.todo) : proc.todo[i] \in Positions /\ proc.last < proc.todo[i]
    /\ \A i, j \in 1..Len(proc.todo) : i < j => proc.todo[i] < proc.todo[j]
    /\ \A q \in Positions :
          \/ q <= proc.last
          \/ \E i \in 1..Len(proc.todo) : proc.todo[i] = q
          \/ proc.cmd # "finalize" /\ \A i \in 1..Len(proc.todo) : proc.todo[i] < q
    /\ \A q \in Positions : q <= proc.last =>
          q \in DOMAIN db.migration_positions /\ db.migration_positions[q] = eventTarget
    /\ proc.last = 0 \/ proc.last \in Positions

\* What each step relies on.
StepInv ==
    /\ proc.step = "state" /\ proc.cmd = "finalize" => AllAt(1..target)
    /\ proc.step \in {"plan", "positions", "aux", "fill", "keyframes", "swap", "index"} =>
          ToMigrate /\ Uniform /\ writing # -1
    /\ proc.step = "current" => AllAt(1..target)
    /\ proc.step \in {"current", "aux", "fill", "keyframes", "swap", "index"} /\ ToMigrate => Complete
    /\ proc.step = "positions" =>
          proc.todo \in Seq(Int) /\ Len(proc.todo) > 0 /\ proc.last \in Nat /\ WalkInv
    /\ proc.step = "clean" /\ proc.cmd = "finalize" => AllAt({eventTarget})
    /\ proc.step \in {"modelplan", "models", "aux2", "index2"} =>
          eventTarget < target /\ AllAt(eventTarget..target)
    /\ proc.step = "index2" \/ proc.step = "aux2" => Positions # {}

PlaceInv == RowsInv /\ StepInv

\* In a datastore with one migration index, get_current_migration_index is that of every
\* position.
LEMMA IndexOfAll ==
    ASSUME Shape, Uniform, NEW p \in Positions
    PROVE  db.positions[p] = CurrentIndex /\ CurrentIndex \in Int
BY CurrentOfUniform DEF Shape

SamePlaces ==
    /\ db'.positions = db.positions /\ db'.migration_positions = db.migration_positions
    /\ eventTarget' = eventTarget /\ target' = target /\ writing' = writing

\* Steps that leave positions and migration_positions ...
LEMMA SamePlacesFacts ==
    ASSUME SamePlaces, RowsInv
    PROVE  /\ Positions' = Positions /\ Uniform' = Uniform
           /\ ToMigrate' = ToMigrate /\ Complete' = Complete /\ RowsInv'
<1>1. Positions' = Positions
  BY DEF SamePlaces, Positions
<1>2. Uniform' = Uniform /\ Complete' = Complete /\ ToMigrate' = ToMigrate
  BY <1>1 DEF SamePlaces, Uniform, Complete, ToMigrate, AllAt
<1>3. RowsInv'
  BY <1>1, <1>2 DEF SamePlaces, RowsInv, AllAt, Values
<1> QED
  BY <1>1, <1>2, <1>3

\* ... and go to a step that relies on nothing.
LEMMA SamePlacesKeep ==
    ASSUME SamePlaces, RowsInv,
           \/ proc'.step \in {"idle", "checks", "resetKeyframes", "auxOnly"}
           \/ proc'.step = "clean" /\ proc'.cmd = "reset"
           \/ proc'.step = "state" /\ proc'.cmd # "finalize"
    PROVE  PlaceInv'
BY SamePlacesFacts DEF PlaceInv, StepInv

\* The end of a command that stops, and what the operator does but for new migrations.
LEMMA OperatorKeepsPlaces ==
    ASSUME Shape, PlaceInv, Stop \/ (Operator /\ ~RegisterMigration)
    PROVE  PlaceInv'
<1>1. SamePlaces
  BY DEF Stop, Operator, StartMigrate, StartReset, StartFinalize, RunAgain, BringOnline,
         Others, SamePlaces
<1>2. proc'.step \in {"idle", "checks"}
  <2>1. CASE Stop
    BY <2>1, EndFacts DEF Stop
  <2>2. CASE BringOnline
    BY <2>2 DEF BringOnline, Finalized, At
  <2>3. CASE StartMigrate \/ StartReset \/ StartFinalize \/ RunAgain
    BY <2>3, StartFacts DEF StartMigrate, StartReset, StartFinalize, RunAgain
  <2> QED
    BY <2>1, <2>2, <2>3 DEF Operator
<1> QED
  BY <1>1, <1>2, SamePlacesKeep DEF PlaceInv

\* register_migrations: an event migration is only added while there is no model migration,
\* and then the positions have one index.
LEMMA RegisterKeepsPlaces ==
    ASSUME Shape, PlaceInv, RegisterMigration
    PROVE  PlaceInv'
<1>1. /\ db' = db /\ writing' = writing /\ proc' = proc /\ proc.step = "idle"
      /\ target' = target + 1 /\ eventTarget' \in {eventTarget, eventTarget + 1}
      /\ eventTarget' # eventTarget => eventTarget = target /\ eventTarget' = target + 1
      /\ -1 \notin Values(db.positions) /\ writing # -1
      /\ eventTarget \in Nat /\ target \in Nat /\ eventTarget >= 1 /\ eventTarget <= target
      /\ writing \in Int /\ writing >= -1
  BY DEF RegisterMigration, At, Shape
<1>2. Positions' = Positions /\ Uniform' = Uniform
  BY <1>1 DEF Positions, Uniform
<1>3. \A p \in Positions : db.positions[p] # -1 /\ db.positions[p] \in 1..target
  BY <1>1 DEF Values, Positions, PlaceInv, RowsInv, AllAt
<1>4. AllAt({-1} \cup 1..target)' /\ writing' <= target'
  BY <1>1, <1>2, <1>3 DEF AllAt, PlaceInv, RowsInv
<1>5. (writing > 0 => AllAt({writing}))' /\ (writing = -1 => AllAt({-1, target}))'
  BY <1>1, <1>2 DEF AllAt, PlaceInv, RowsInv
<1>6. \/ Uniform' 
      \/ AllAt(eventTarget..target)' /\ eventTarget' < target'
  <2>1. CASE Uniform
    BY <1>2, <2>1
  <2>2. CASE AllAt({-1, target}) /\ -1 \in Values(db.positions)
    BY <1>1, <2>2
  <2>3. CASE AllAt(eventTarget..target) /\ eventTarget < target
    <3>1. eventTarget' = eventTarget
      BY <1>1, <2>3
    <3> QED
      BY <1>1, <1>2, <2>3, <3>1 DEF AllAt
  <2> QED
    BY <2>1, <2>2, <2>3 DEF PlaceInv, RowsInv
<1>7. /\ DOMAIN db'.migration_positions \subseteq Positions'
      /\ \A p \in DOMAIN db'.migration_positions :
          /\ db'.migration_positions[p] \in 1..eventTarget'
          /\ \A q \in Positions' : q < p => q \in DOMAIN db'.migration_positions
  BY <1>1, <1>2 DEF PlaceInv, RowsInv
<1>8. RowsInv'
  BY <1>4, <1>5, <1>6, <1>7 DEF RowsInv
<1>9. StepInv'
  BY <1>1 DEF StepInv
<1> QED
  BY <1>8, <1>9 DEF PlaceInv

\* run_checks: it goes on with an index that is known, and sets one that is not.
LEMMA ChecksKeepPlaces ==
    ASSUME Shape, PlaceInv, RunChecks
    PROVE  PlaceInv'
<1>1. CASE db' = db
  <2>1. SamePlaces
    BY <1>1 DEF RunChecks, SamePlaces, Others
  <2>2. \/ proc'.step \in {"idle", "resetKeyframes", "auxOnly"}
        \/ proc'.step = "state" /\ Positions # {} /\ ValidIndex /\ CurrentIndex # -1
    <3>1. \/ End("ok") \/ End("refused") \/ Goto("auxOnly") \/ Goto("resetKeyframes")
          \/ Goto("state") /\ Positions # {} /\ ValidIndex /\ CurrentIndex # -1
      BY DEF RunChecks
    <3> QED
      BY <3>1, GotoFacts, EndFacts
  <2>3. CASE proc'.step \in {"idle", "resetKeyframes", "auxOnly"}
    BY <2>1, <2>3, SamePlacesKeep DEF PlaceInv
  <2>4. CASE proc'.step = "state" /\ Positions # {} /\ ValidIndex /\ CurrentIndex # -1
    <3>1. Uniform
      BY <2>4, ConsistentMeansUniform DEF ValidIndex
    <3>2. AllAt(1..target)
      BY <2>4, <3>1, IndexOfAll DEF AllAt, PlaceInv, RowsInv
    <3>3. AllAt(1..target)'
      BY <2>1, <3>2, SamePlacesFacts DEF AllAt, SamePlaces, PlaceInv
    <3> QED
      BY <2>1, <2>4, <3>3, SamePlacesFacts DEF PlaceInv, StepInv
  <2> QED
    BY <2>2, <2>3, <2>4
<1>2. CASE db' # db
  <2>1. /\ Positions # {} /\ ValidIndex /\ CurrentIndex = -1 /\ UNCHANGED Others
        /\ db' = [db EXCEPT !.positions = SetIndex(@, target),
                              !.migration_events = <<>>, !.migration_positions = <<>>,
                              !.migration_keyframes = <<>>]
        /\ End("ok") \/ Goto("auxOnly")
    BY <1>2 DEF RunChecks
  <2>2. /\ db'.positions = [p \in Positions |-> target]
        /\ db'.migration_positions = <<>>
    BY <2>1 DEF Shape, SetIndex, Positions
  <2>3. Positions' = Positions /\ \A p \in Positions : db'.positions[p] = target
    BY <2>2 DEF Positions
  <2>4. eventTarget' = eventTarget /\ target' = target /\ writing' = writing
    BY <2>1 DEF Others
  <2>5. proc'.step \in {"idle", "auxOnly"}
    BY <2>1, GotoFacts, EndFacts
  <2>6. writing <= 0
    <3>1. Uniform
      BY <2>1, ConsistentMeansUniform DEF ValidIndex
    <3>2. PICK p \in Positions : TRUE
      BY <2>1
    <3>3. db.positions[p] = -1
      BY <2>1, <3>1, IndexOfAll
    <3> QED
      BY <3>3 DEF PlaceInv, RowsInv, AllAt, Shape
  <2>7. RowsInv'
    <3>1. target \in Nat /\ target >= 1 /\ writing \in Int
      BY DEF Shape
    <3>2. AllAt({-1} \cup 1..target)' /\ writing' <= target'
      BY <2>3, <2>4, <2>6, <3>1 DEF AllAt
    <3>3. (writing > 0 => AllAt({writing}))' /\ (writing = -1 => AllAt({-1, target}))'
      BY <2>3, <2>4, <2>6, <3>1 DEF AllAt
    <3>4. Uniform'
      BY <2>3 DEF Uniform
    <3>5. DOMAIN db'.migration_positions = {}
      BY <2>2
    <3> QED
      BY <3>2, <3>3, <3>4, <3>5 DEF RowsInv
  <2> QED
    BY <2>5, <2>7 DEF PlaceInv, StepInv
<1> QED
  BY <1>1, <1>2

\* get_migration_state: what it means to have something to migrate ...
LEMMA StateMeansMigrate ==
    ASSUME Shape, PlaceInv, Uniform, Positions # {}, MigrationState = "migrate"
    PROVE  ToMigrate /\ writing # -1
<1>1. CurrentIndex < eventTarget /\ CurrentIndex # -1
  BY DEF MigrationState
<1>2. \A p \in Positions : db.positions[p] = CurrentIndex /\ CurrentIndex \in Int
  BY IndexOfAll
<1>3. PICK p \in Positions : TRUE
  OBVIOUS
<1>4. eventTarget \in Nat /\ target \in Nat /\ eventTarget <= target
  BY DEF Shape
<1>5. CurrentIndex \in 1..target
  BY <1>1, <1>2, <1>3 DEF PlaceInv, RowsInv, AllAt
<1>6. ToMigrate
  BY <1>1, <1>2, <1>4, <1>5 DEF ToMigrate, AllAt
<1>7. writing # -1
  BY <1>1, <1>2, <1>3, <1>4, <1>5 DEF PlaceInv, RowsInv, AllAt
<1> QED
  BY <1>6, <1>7

\* ... and to have nothing left.
LEMMA StateMeansComplete ==
    ASSUME Shape, PlaceInv, Uniform, ToMigrate, MigrationState # "migrate"
    PROVE  Complete
<1> DEFINE migrated == Values(db.migration_positions)
           minIndex == IF migrated = {} THEN CurrentIndex ELSE Min(migrated)
           D == DOMAIN db.migration_positions
<1>1. PICK p \in Positions : TRUE
  BY DEF ToMigrate
<1>2. /\ CurrentIndex \in Int /\ 1 <= CurrentIndex /\ CurrentIndex < eventTarget
      /\ eventTarget \in Nat
  BY <1>1, IndexOfAll DEF ToMigrate, AllAt, Shape
<1>3. minIndex = eventTarget /\ Cardinality(Positions) = Cardinality(D)
  BY <1>2 DEF MigrationState
<1>4. migrated # {} /\ Min(migrated) = eventTarget
  BY <1>2, <1>3
<1>5. \A q \in D : db.migration_positions[q] \in 1..eventTarget
  BY DEF PlaceInv, RowsInv
<1>6. migrated \in SUBSET Nat
  BY <1>2, <1>5 DEF Values
<1>7. \A x \in migrated : eventTarget <= x
  <2> HIDE DEF migrated
  <2> QED
    BY <1>4, <1>6, MinFacts
<1>8. \A q \in D : db.migration_positions[q] = eventTarget
  BY <1>2, <1>5, <1>7 DEF Values
<1>9. D = Positions
  <2>1. IsFiniteSet(1..db.position_seq)
    BY FS_Interval DEF Shape
  <2>2. IsFiniteSet(Positions)
    BY <2>1, FS_Subset DEF Shape
  <2>3. D \subseteq Positions
    BY DEF PlaceInv, RowsInv
  <2> HIDE DEF D
  <2> QED
    BY <1>3, <2>2, <2>3, FS_Subset
<1> QED
  BY <1>8, <1>9 DEF Complete

\* Finalize runs while nothing is written.
LEMMA FinalizeAlone ==
    ASSUME CommandInv, proc.cmd = "finalize", proc.step # "idle"
    PROVE  ~online /\ writing = 0
BY DEF CommandInv, Discipline

\* get_migration_state decides how migrate and finalize go on.
LEMMA StateKeepsPlaces ==
    ASSUME CommandInv, PlaceInv, GetMigrationState
    PROVE  PlaceInv'
<1>1. SamePlaces /\ Shape /\ Positions # {} /\ proc.step = "state"
  BY DEF GetMigrationState, SamePlaces, Others, CommandInv, Discipline, At
<1>2. \/ proc'.step = "idle"
      \/ proc'.step = "plan" /\ ConsistentIndex /\ MigrationState = "migrate"
      \/ /\ proc'.step = "current" /\ ConsistentIndex /\ MigrationState # "migrate"
         /\ proc.cmd = "finalize"
  <2>1. \/ End("refused") \/ End("ok")
        \/ Goto("plan") /\ ConsistentIndex /\ MigrationState = "migrate"
        \/ /\ Goto("current") /\ ConsistentIndex /\ MigrationState # "migrate"
           /\ proc.cmd = "finalize"
    BY DEF GetMigrationState
  <2> QED
    BY <1>1, <2>1, GotoFacts, EndFacts
<1>3. /\ RowsInv' /\ ToMigrate' = ToMigrate /\ Complete' = Complete /\ Uniform' = Uniform
      /\ Positions' = Positions
  BY <1>1, SamePlacesFacts DEF PlaceInv
<1>4. CASE proc'.step = "idle"
  BY <1>1, <1>4, SamePlacesKeep DEF PlaceInv
<1>5. CASE proc'.step = "plan" /\ ConsistentIndex /\ MigrationState = "migrate"
  <2>1. Uniform
    BY <1>1, <1>5, ConsistentMeansUniform
  <2>2. ToMigrate /\ writing # -1
    BY <1>1, <1>5, <2>1, StateMeansMigrate
  <2>3. writing' # -1
    BY <1>1, <2>2 DEF SamePlaces
  <2> QED
    BY <1>3, <1>5, <2>1, <2>2, <2>3 DEF PlaceInv, StepInv
<1>6. CASE /\ proc'.step = "current" /\ ConsistentIndex /\ MigrationState # "migrate"
           /\ proc.cmd = "finalize"
  <2>1. Uniform
    BY <1>1, <1>6, ConsistentMeansUniform
  <2>2. ToMigrate => Complete
    BY <1>1, <1>6, <2>1, StateMeansComplete
  <2>3. AllAt(1..target)
    BY <1>1, <1>6 DEF PlaceInv, StepInv
  <2>4. AllAt(1..target)'
    BY <1>1, <1>3, <2>3 DEF AllAt, SamePlaces
  <2> QED
    BY <1>3, <1>6, <2>2, <2>4 DEF PlaceInv, StepInv
<1> QED
  BY <1>2, <1>4, <1>5, <1>6

\* The index that finalize reads before it exchanges the events.
LEMMA ReadIndexKeepsPlaces ==
    ASSUME CommandInv, PlaceInv, ReadIndex
    PROVE  PlaceInv'
<1>1. SamePlaces /\ Shape /\ Positions # {} /\ proc.step = "current" /\ proc.cmd = "finalize"
  BY DEF ReadIndex, SamePlaces, Others, CommandInv, Discipline, At, FinalizeSteps
<1>2. \/ proc'.step = "idle"
      \/ proc'.step = "aux" /\ ConsistentIndex /\ CurrentIndex < eventTarget
      \/ /\ proc'.step = "modelplan" /\ ConsistentIndex /\ ~(CurrentIndex < eventTarget)
         /\ eventTarget < target
  <2>1. \/ End("refused") \/ End("ok")
        \/ Goto("aux") /\ ConsistentIndex /\ CurrentIndex < eventTarget
        \/ /\ Goto("modelplan") /\ ConsistentIndex /\ ~(CurrentIndex < eventTarget)
           /\ eventTarget < target
    BY DEF ReadIndex, GotoOrEnd, AfterEvents
  <2> QED
    BY <1>1, <2>1, GotoFacts, EndFacts
<1>3. /\ RowsInv' /\ ToMigrate' = ToMigrate /\ Complete' = Complete /\ Uniform' = Uniform
      /\ Positions' = Positions
  BY <1>1, SamePlacesFacts DEF PlaceInv
<1>4. CASE proc'.step = "idle"
  BY <1>1, <1>4, SamePlacesKeep DEF PlaceInv
<1>5. ASSUME ConsistentIndex
      PROVE  /\ Uniform
             /\ \A p \in Positions : /\ db.positions[p] = CurrentIndex /\ CurrentIndex \in Int
                                     /\ db.positions[p] \in 1..target
  <2>1. Uniform
    BY <1>1, <1>5, ConsistentMeansUniform
  <2>2. AllAt(1..target)
    BY <1>1 DEF PlaceInv, StepInv
  <2> QED
    BY <1>1, <2>1, <2>2, IndexOfAll DEF AllAt
<1>6. eventTarget \in Nat /\ target \in Nat
  BY <1>1 DEF Shape
<1>7. CASE proc'.step = "aux" /\ ConsistentIndex /\ CurrentIndex < eventTarget
  <2>1. ToMigrate
    BY <1>1, <1>5, <1>6, <1>7 DEF ToMigrate, AllAt
  <2>2. Complete
    BY <1>1, <2>1 DEF PlaceInv, StepInv
  <2>3. writing' # -1
    BY <1>1, FinalizeAlone DEF SamePlaces
  <2> QED
    BY <1>3, <1>5, <1>7, <2>1, <2>2, <2>3 DEF PlaceInv, StepInv
<1>8. CASE /\ proc'.step = "modelplan" /\ ConsistentIndex /\ ~(CurrentIndex < eventTarget)
           /\ eventTarget < target
  <2>1. AllAt(eventTarget..target)'
    BY <1>1, <1>3, <1>5, <1>6, <1>8 DEF AllAt, SamePlaces
  <2>2. eventTarget' < target'
    BY <1>1, <1>8 DEF SamePlaces
  <2> QED
    BY <1>3, <1>8, <2>1, <2>2 DEF PlaceInv, StepInv
<1> QED
  BY <1>2, <1>4, <1>7, <1>8

\* The steps of finalize that leave the rows and rely on what the step before relied on.
LEMMA FinalizeKeepsPlaces ==
    ASSUME CommandInv, PlaceInv,
           DeleteCollectionfieldAuxTables \/ FillModelsAndIdSequences
           \/ DeleteMigrationKeyframes \/ SwapEvents
    PROVE  PlaceInv'
<1>1. SamePlaces /\ Shape
  BY DEF DeleteCollectionfieldAuxTables, FillModelsAndIdSequences, DeleteMigrationKeyframes,
         SwapEvents, SamePlaces, Others, CommandInv, Shape
<1>2. \/ proc'.step = "idle"
      \/ proc'.step = "fill" /\ proc.step = "aux"
      \/ proc'.step = "keyframes" /\ proc.step = "fill"
      \/ proc'.step = "swap" /\ proc.step = "keyframes"
      \/ proc'.step = "index" /\ proc.step = "swap"
      \/ proc'.step = "index2" /\ proc.step = "aux2"
      \/ proc'.step = "clean" /\ proc'.cmd = "reset"
  <2>1. CASE DeleteCollectionfieldAuxTables
    BY <1>1, <2>1, GotoFacts, EndFacts DEF DeleteCollectionfieldAuxTables, At
  <2>2. CASE FillModelsAndIdSequences
    BY <1>1, <2>2, GotoFacts, EndFacts DEF FillModelsAndIdSequences, At
  <2>3. CASE DeleteMigrationKeyframes
    BY <1>1, <2>3, GotoFacts DEF DeleteMigrationKeyframes, At, CommandInv, Discipline
  <2>4. CASE SwapEvents
    BY <1>1, <2>4, GotoFacts DEF SwapEvents, At
  <2> QED
    BY <2>1, <2>2, <2>3, <2>4
<1>3. /\ RowsInv' /\ ToMigrate' = ToMigrate /\ Complete' = Complete /\ Uniform' = Uniform
      /\ Positions' = Positions
  BY <1>1, SamePlacesFacts DEF PlaceInv
<1>4. CASE \/ proc'.step = "fill" /\ proc.step = "aux"
           \/ proc'.step = "keyframes" /\ proc.step = "fill"
           \/ proc'.step = "swap" /\ proc.step = "keyframes"
           \/ proc'.step = "index" /\ proc.step = "swap"
  <2>1. ToMigrate /\ Uniform /\ writing # -1 /\ Complete
    BY <1>4 DEF PlaceInv, StepInv
  <2>2. ToMigrate' /\ Uniform' /\ writing' # -1 /\ Complete'
    BY <1>1, <1>3, <2>1 DEF SamePlaces
  <2> QED
    BY <1>3, <1>4, <2>2 DEF PlaceInv, StepInv
<1>5. CASE proc'.step = "index2" /\ proc.step = "aux2"
  <2>1. eventTarget < target /\ AllAt(eventTarget..target) /\ Positions # {}
    BY <1>5 DEF PlaceInv, StepInv
  <2>2. eventTarget' < target' /\ AllAt(eventTarget..target)' /\ Positions' # {}
    BY <1>1, <1>3, <2>1 DEF SamePlaces, AllAt
  <2> QED
    BY <1>3, <1>5, <2>2 DEF PlaceInv, StepInv
<1> QED
  BY <1>1, <1>2, <1>4, <1>5, SamePlacesKeep DEF PlaceInv

\* The first position to migrate: those before it are migrated.
LEMMA FirstFacts ==
    ASSUME Shape, RowsInv, ToMigrate
    PROVE  /\ FirstToMigrate \in Positions
           /\ \A p \in Positions : p < FirstToMigrate =>
                 p \in DOMAIN db.migration_positions /\ db.migration_positions[p] = eventTarget
<1> DEFINE D == DOMAIN db.migration_positions
           unfinished == {p \in Positions : db.positions[p] < eventTarget}
           behind == {p \in D : db.migration_positions[p] < eventTarget}
           new == IF D = {} THEN {} ELSE {p \in Positions : p > Max(D)}
<1>1. /\ eventTarget \in Nat /\ db.position_seq \in Nat /\ Positions # {}
      /\ \A p \in Positions : p \in Nat /\ p <= db.position_seq
  BY DEF Shape, ToMigrate
<1>2. unfinished = Positions
  BY <1>1 DEF ToMigrate, AllAt
<1>3. Positions \in SUBSET Nat /\ D \in SUBSET Positions /\ behind \in SUBSET D
      /\ new \in SUBSET Positions
  BY <1>1 DEF RowsInv
<1>4. Min(Positions) \in Positions /\ \A x \in Positions : Min(Positions) <= x
  BY <1>1, <1>3, MinFacts
<1>5. \A x, y \in Nat : x <= y => Max({x, y}) = y
  BY DEF Max
<1>6. \A p \in D : /\ db.migration_positions[p] \in 1..eventTarget
                   /\ \A q \in Positions : q < p => q \in D
  BY DEF RowsInv
<1>7. \A p \in D : p \notin behind => db.migration_positions[p] = eventTarget
  BY <1>1, <1>6
<1>8. FirstToMigrate = IF behind # {} THEN Max({Min(Positions), Min(behind)})
                       ELSE IF new # {} THEN Max({Min(Positions), Min(new)})
                       ELSE Min(Positions)
  BY <1>2 DEF FirstToMigrate
<1>9. \A x \in new : D # {} /\ x > Max(D) /\ x \in Positions
  OBVIOUS
<1>10. \A x \in Positions : D # {} /\ x > Max(D) => x \in new
  OBVIOUS
<1> HIDE DEF unfinished, behind, new, D
<1>11. CASE behind # {}
  <2>1. Min(behind) \in behind /\ \A x \in behind : Min(behind) <= x
    <3>1. behind \in SUBSET Nat
      BY <1>3
    <3> QED
      BY <1>11, <3>1, MinFacts
  <2>2. FirstToMigrate = Min(behind) /\ Min(behind) \in Positions /\ Min(behind) \in D
    BY <1>1, <1>3, <1>4, <1>5, <1>8, <1>11, <2>1
  <2>3. ASSUME NEW p \in Positions, p < FirstToMigrate
        PROVE  p \in D /\ db.migration_positions[p] = eventTarget
    <3>1. p \in D
      BY <1>6, <2>2, <2>3
    <3>2. p \notin behind
      BY <1>1, <2>1, <2>2, <2>3
    <3> QED
      BY <1>7, <3>1, <3>2
  <2> QED
    BY <2>2, <2>3 DEF D
<1>12. CASE behind = {} /\ new # {}
  <2>1. Min(new) \in new /\ \A x \in new : Min(new) <= x
    <3>1. new \in SUBSET Nat
      BY <1>3
    <3> QED
      BY <1>12, <3>1, MinFacts
  <2>2. FirstToMigrate = Min(new) /\ Min(new) \in Positions
    BY <1>1, <1>3, <1>4, <1>5, <1>8, <1>12, <2>1
  <2>3. D # {} /\ Max(D) \in D /\ Max(D) \in Positions
    <3>1. D # {}
      BY <1>9, <2>1
    <3>2. D \in SUBSET (0..db.position_seq)
      BY <1>1, <1>3
    <3> QED
      BY <1>1, <1>3, <3>1, <3>2, MaxFacts, Zenon
  <2>4. ASSUME NEW p \in Positions, p < FirstToMigrate
        PROVE  p \in D /\ db.migration_positions[p] = eventTarget
    <3>1. ~(p > Max(D))
      BY <1>1, <1>10, <2>1, <2>2, <2>3, <2>4
    <3>2. p = Max(D) \/ p < Max(D)
      BY <1>1, <2>3, <3>1
    <3>3. p \in D
      BY <1>6, <2>3, <3>2
    <3> QED
      BY <1>7, <1>12, <3>3
  <2> QED
    BY <2>2, <2>4 DEF D
<1>13. CASE behind = {} /\ new = {}
  BY <1>1, <1>4, <1>8, <1>13
<1> QED
  BY <1>11, <1>12, <1>13

\* EventMigraterImplementation.migrate plans all positions from there on.
LEMMA PlanKeepsPlaces ==
    ASSUME CommandInv, PlaceInv, PlanEventMigration
    PROVE  PlaceInv'
<1> DEFINE F == FirstToMigrate
           S == {p \in Positions : p >= F}
           before == {p \in Positions : p < F}
           last == IF before = {} THEN 0 ELSE Max(before)
           todo == Ascending(S)
<1>1. /\ SamePlaces /\ Shape /\ ToMigrate /\ Uniform /\ writing # -1 /\ proc.step = "plan"
      /\ RowsInv
  BY DEF PlanEventMigration, SamePlaces, Others, CommandInv, PlaceInv, StepInv, At
<1>2. /\ RowsInv' /\ ToMigrate' = ToMigrate /\ Uniform' = Uniform /\ Positions' = Positions
  BY <1>1, SamePlacesFacts
<1>3. /\ F \in Positions
      /\ \A p \in Positions : p < F =>
            p \in DOMAIN db.migration_positions /\ db.migration_positions[p] = eventTarget
  BY <1>1, FirstFacts
<1>4. /\ db.position_seq \in Nat
      /\ \A p \in Positions : p \in Nat /\ 1 <= p /\ p <= db.position_seq
  BY <1>1 DEF Shape
<1>5. \/ proc'.step = "idle"
      \/ proc'.step = "positions" /\ proc'.todo = todo /\ proc'.last = last /\ proc'.cmd = proc.cmd
  <2>1. CASE End("refused")
    BY <1>1, <2>1, EndFacts
  <2>2. CASE ~End("refused")
    BY <1>1, <2>2 DEF PlanEventMigration, Shape
  <2> QED
    BY <2>1, <2>2
<1>6. CASE proc'.step = "idle"
  BY <1>1, <1>6, SamePlacesKeep
<1>7. CASE proc'.step = "positions" /\ proc'.todo = todo /\ proc'.last = last
  <2>1. S \in SUBSET (1..db.position_seq) /\ F \in S /\ \A x \in S : x \in Positions /\ F <= x
    BY <1>3, <1>4
  <2>2. \A x \in Positions : x \in S \/ x < F
    BY <1>3, <1>4
  <2>3. last \in Nat /\ (last = 0 \/ last \in Positions) /\ last < F
        /\ \A x \in Positions : x < F => x <= last
    <3>1. CASE before = {}
      BY <1>3, <1>4, <3>1
    <3>2. CASE before # {}
      <4>1. before \in SUBSET (0..db.position_seq)
        BY <1>4
      <4>2. Max(before) \in before /\ \A x \in before : x <= Max(before)
        <5> HIDE DEF before
        <5> QED
          BY <1>4, <3>2, <4>1, MaxFacts
      <4> QED
        BY <1>3, <1>4, <3>2, <4>2
    <3> QED
      BY <3>1, <3>2
  <2> HIDE DEF S, last, before, F
  <2>4. IsAscending(todo, S)
    BY <1>4, <2>1, AscendingFacts
  <2> DEFINE c == Cardinality(S)
  <2>5. c \in Nat
    <3>1. IsFiniteSet(1..db.position_seq)
      BY <1>4, FS_Interval
    <3>2. IsFiniteSet(S)
      BY <2>1, <3>1, FS_Subset
    <3> QED
      BY <3>2, FS_CardinalityType
  <2>6. /\ DOMAIN todo = 1..c /\ \A i \in 1..c : todo[i] \in S
        /\ \A y \in S : \E i \in 1..c : todo[i] = y
        /\ \A i, j \in 1..c : i < j => todo[i] < todo[j]
        /\ todo \in [1..c -> S]
    BY <2>4 DEF IsAscending, Values
  <2> HIDE DEF c, todo
  <2>7. \A x \in S : x \in Int
    BY <1>4, <2>1
  <2>8. todo \in [1..c -> Int]
    BY <2>6, <2>7
  <2>9. todo \in Seq(Int) /\ Len(todo) = c
    BY <2>5, <2>8
  <2>10. c > 0
    BY <2>1, <2>5, <2>6
  <2>11. \A i \in 1..c : todo[i] \in Positions /\ last < todo[i]
    <3> SUFFICES ASSUME NEW i \in 1..c PROVE todo[i] \in Positions /\ last < todo[i]
      OBVIOUS
    <3>1. todo[i] \in S
      BY <2>6
    <3>2. todo[i] \in Positions /\ F <= todo[i]
      BY <2>1, <3>1
    <3> QED
      BY <1>3, <1>4, <2>3, <3>2
  <2>12. \A q \in Positions : q <= last \/ \E i \in 1..c : todo[i] = q
    BY <2>2, <2>3, <2>6
  <2>13. \A q \in Positions : q <= last =>
            q \in DOMAIN db.migration_positions /\ db.migration_positions[q] = eventTarget
    <3> SUFFICES ASSUME NEW q \in Positions, q <= last PROVE q < F
      BY <1>3
    <3> QED
      BY <1>3, <1>4, <2>3
  <2>14. WalkInv'
    BY <1>1, <1>2, <1>7, <2>3, <2>6, <2>9, <2>11, <2>12, <2>13 DEF WalkInv, SamePlaces
  <2>15. StepInv'
    BY <1>1, <1>2, <1>7, <2>3, <2>9, <2>10, <2>14 DEF StepInv, SamePlaces
  <2> QED
    BY <1>2, <2>15 DEF PlaceInv
<1> QED
  BY <1>5, <1>6, <1>7

\* One position of the plan: what the walk does with its rows.
LEMMA NextPositionFacts ==
    ASSUME CommandInv, PlaceInv, MigrateNextPosition, ~(End("refused") /\ UNCHANGED db)
    PROVE  LET p == Head(proc.todo)
           IN  /\ p = proc.todo[1] /\ p \in Positions /\ proc.last < p /\ proc.last \in Nat
               /\ \A q \in Positions : q < p => q <= proc.last
               /\ MigratePosition(p, proc.last).ok
               /\ DOMAIN db' = DOMAIN db /\ db'.positions = db.positions
               /\ db'.position_seq = db.position_seq /\ db'.events = db.events
               /\ db'.models = db.models /\ db'.id_sequences = db.id_sequences
               /\ db'.collectionfields = db.collectionfields
               /\ db'.migration_keyframes = MigratePosition(p, proc.last).keyframes
               /\ db'.migration_events =
                     With(db.migration_events, p, MigratePosition(p, proc.last).format)
               /\ db'.migration_positions = With(db.migration_positions, p, eventTarget)
               /\ \/ proc'.step = "idle" /\ proc'.cmd = proc.cmd /\ proc'.outcome = "ok"
                     /\ proc.cmd # "finalize"
                  \/ /\ Len(proc.todo) > 1 /\ proc'.step = "positions"
                     /\ proc'.todo = Tail(proc.todo) /\ proc'.last = p /\ proc'.cmd = proc.cmd
                  \/ /\ ~(Len(proc.todo) > 1) /\ proc'.step = "current"
                     /\ proc.cmd = "finalize" /\ proc'.cmd = proc.cmd
<1> DEFINE p == Head(proc.todo)
           m == MigratePosition(p, proc.last)
<1>1. Shape /\ proc.step = "positions"
  BY DEF CommandInv, MigrateNextPosition, At
<1>2. proc.todo \in Seq(Int) /\ Len(proc.todo) > 0 /\ proc.last \in Nat /\ WalkInv
  BY <1>1 DEF PlaceInv, StepInv
<1>3. p = proc.todo[1]
  BY <1>2
<1>4. p \in Positions /\ proc.last < p
  BY <1>2, <1>3 DEF WalkInv
<1>5. ASSUME NEW q \in Positions, q < p PROVE q <= proc.last
  <2>1. \A x \in Positions : x \in Nat
    BY <1>1 DEF Shape
  <2>2. \A i \in 1..Len(proc.todo) : p <= proc.todo[i]
    <3> SUFFICES ASSUME NEW i \in 1..Len(proc.todo) PROVE p <= proc.todo[i]
      OBVIOUS
    <3>1. CASE i = 1
      BY <1>3, <1>4, <2>1, <3>1
    <3>2. CASE i # 1
      <4>1. 1 \in 1..Len(proc.todo) /\ 1 < i
        BY <1>2, <3>2
      <4>2. proc.todo[1] < proc.todo[i] /\ proc.todo[i] \in Positions
        BY <1>2, <4>1 DEF WalkInv
      <4> QED
        BY <1>3, <1>4, <2>1, <4>2
    <3> QED
      BY <3>1, <3>2
  <2>3. 1 \in 1..Len(proc.todo) /\ \A i \in 1..Len(proc.todo) : proc.todo[i] \in Positions
    BY <1>2 DEF WalkInv
  <2>4. ~ \E i \in 1..Len(proc.todo) : proc.todo[i] = q
    BY <1>4, <1>5, <2>1, <2>2, <2>3
  <2>5. ~ \A i \in 1..Len(proc.todo) : proc.todo[i] < q
    BY <1>3, <1>4, <1>5, <2>1, <2>3
  <2> QED
    BY <1>2, <2>4, <2>5 DEF WalkInv
<1> HIDE DEF p
<1>6. /\ m.ok
      /\ db' = [db EXCEPT !.migration_keyframes = m.keyframes,
                          !.migration_events = WriteNewEvents(@, p, m.format),
                          !.migration_positions = With(@, p, eventTarget)]
      /\ IF AfterPositions = "idle" THEN End("ok")
         ELSE proc' = [proc EXCEPT !.step = AfterPositions, !.todo = Tail(@),
                                   !.last = p, !.lastIndex = IndexOf(p)]
  <2>1. PICK migrated \in {m} :
           IF ~migrated.ok \/ (proc.last # 0 /\ IndexOf(p) > proc.lastIndex)
           THEN End("refused") /\ UNCHANGED db
           ELSE /\ db' = [db EXCEPT
                            !.migration_keyframes = migrated.keyframes,
                            !.migration_events = WriteNewEvents(@, p, migrated.format),
                            !.migration_positions = With(@, p, eventTarget)]
                /\ IF AfterPositions = "idle" THEN End("ok")
                   ELSE proc' = [proc EXCEPT !.step = AfterPositions, !.todo = Tail(@),
                                             !.last = p, !.lastIndex = IndexOf(p)]
    BY DEF MigrateNextPosition, p
  <2> HIDE DEF m
  <2> QED
    BY <2>1
<1> HIDE DEF m
<1>7. /\ DOMAIN db' = DOMAIN db /\ db'.positions = db.positions
      /\ db'.position_seq = db.position_seq /\ db'.events = db.events
      /\ db'.models = db.models /\ db'.id_sequences = db.id_sequences
      /\ db'.collectionfields = db.collectionfields
      /\ db'.migration_keyframes = m.keyframes
      /\ db'.migration_events = With(db.migration_events, p, m.format)
      /\ db'.migration_positions = With(db.migration_positions, p, eventTarget)
  BY <1>1, <1>6 DEF Shape, WriteNewEvents
<1>8. CASE AfterPositions = "idle"
  <2>1. proc.cmd # "finalize" /\ End("ok")
    BY <1>6, <1>8 DEF AfterPositions
  <2>2. proc'.step = "idle" /\ proc'.cmd = proc.cmd /\ proc'.outcome = "ok"
    BY <1>1, <2>1, EndFacts
  <2> QED
    BY <1>2, <1>3, <1>4, <1>5, <1>6, <1>7, <2>1, <2>2 DEF p, m
<1>9. CASE AfterPositions # "idle"
  <2>1. /\ proc'.step = AfterPositions /\ proc'.todo = Tail(proc.todo) /\ proc'.last = p
        /\ proc'.cmd = proc.cmd
    BY <1>1, <1>6, <1>9 DEF Shape
  <2>2. \/ Len(proc.todo) > 1 /\ AfterPositions = "positions"
        \/ ~(Len(proc.todo) > 1) /\ AfterPositions = "current" /\ proc.cmd = "finalize"
    BY <1>9 DEF AfterPositions
  <2> QED
    BY <1>2, <1>3, <1>4, <1>5, <1>6, <1>7, <2>1, <2>2 DEF p, m
<1> QED
  BY <1>8, <1>9

\* migrate_position: the walk keeps its place.
LEMMA MigrateNextKeepsPlaces ==
    ASSUME CommandInv, PlaceInv, MigrateNextPosition
    PROVE  PlaceInv'
<1> DEFINE p == Head(proc.todo)
           D == DOMAIN db.migration_positions
<1>1. /\ Shape /\ proc.step = "positions" /\ RowsInv
      /\ eventTarget' = eventTarget /\ target' = target /\ writing' = writing
      /\ ToMigrate /\ Uniform /\ writing # -1 /\ WalkInv
      /\ proc.todo \in Seq(Int) /\ Len(proc.todo) > 0
  BY DEF CommandInv, MigrateNextPosition, At, PlaceInv, StepInv, Others
<1>2. CASE End("refused") /\ UNCHANGED db
  <2>1. SamePlaces
    BY <1>1, <1>2 DEF SamePlaces
  <2>2. proc'.step = "idle"
    BY <1>1, <1>2, EndFacts
  <2> QED
    BY <1>1, <2>1, <2>2, SamePlacesKeep
<1>3. CASE ~(End("refused") /\ UNCHANGED db)
  <2>1. /\ p = proc.todo[1] /\ p \in Positions /\ proc.last < p /\ proc.last \in Nat
        /\ \A q \in Positions : q < p => q <= proc.last
        /\ db'.positions = db.positions
        /\ db'.migration_positions = With(db.migration_positions, p, eventTarget)
        /\ \/ proc'.step = "idle"
           \/ /\ Len(proc.todo) > 1 /\ proc'.step = "positions"
              /\ proc'.todo = Tail(proc.todo) /\ proc'.last = p /\ proc'.cmd = proc.cmd
           \/ /\ ~(Len(proc.todo) > 1) /\ proc'.step = "current" /\ proc.cmd = "finalize"
              /\ proc'.cmd = proc.cmd
    BY <1>3, NextPositionFacts
  <2> HIDE DEF p
  <2>2. /\ DOMAIN db'.migration_positions = D \cup {p}
        /\ db'.migration_positions[p] = eventTarget
        /\ \A q \in D : db'.migration_positions[q] = IF q = p THEN eventTarget
                                                     ELSE db.migration_positions[q]
    BY <2>1 DEF With
  <2>3. Positions' = Positions /\ Uniform' = Uniform /\ ToMigrate' = ToMigrate
    BY <1>1, <2>1 DEF Positions, Uniform, ToMigrate, AllAt
  <2>4. eventTarget \in Nat /\ eventTarget >= 1 /\ \A q \in Positions : q \in Nat
    BY <1>1 DEF Shape
  <2>5. \A q \in Positions : q <= proc.last =>
           q \in D /\ db.migration_positions[q] = eventTarget
    BY <1>1 DEF WalkInv
  <2>6. /\ DOMAIN db'.migration_positions \subseteq Positions
        /\ \A r \in DOMAIN db'.migration_positions :
            /\ db'.migration_positions[r] \in 1..eventTarget
            /\ \A q \in Positions : q < r => q \in DOMAIN db'.migration_positions
    <3>1. D \subseteq Positions
      BY <1>1 DEF RowsInv
    <3>2. ASSUME NEW r \in D \cup {p}
          PROVE  /\ db'.migration_positions[r] \in 1..eventTarget
                 /\ \A q \in Positions : q < r => q \in D \cup {p}
      <4>1. CASE r = p
        BY <2>1, <2>2, <2>4, <2>5, <4>1
      <4>2. CASE r # p
        <5>1. r \in D /\ db.migration_positions[r] \in 1..eventTarget
              /\ \A q \in Positions : q < r => q \in D
          BY <1>1, <4>2 DEF RowsInv
        <5> QED
          BY <2>2, <4>2, <5>1
      <4> QED
        BY <4>1, <4>2
    <3> QED
      BY <2>1, <2>2, <3>1, <3>2
  <2>7. RowsInv'
    BY <1>1, <2>1, <2>3, <2>6 DEF RowsInv, AllAt, Values
  <2>8. \A q \in Positions : q <= p =>
           q \in DOMAIN db'.migration_positions /\ db'.migration_positions[q] = eventTarget
    <3> SUFFICES ASSUME NEW q \in Positions, q <= p
                 PROVE  q = p \/ q <= proc.last
      BY <2>2, <2>5
    <3> QED
      BY <2>1, <2>4
  <2>9. CASE proc'.step = "idle"
    BY <2>7, <2>9 DEF PlaceInv, StepInv
  <2>10. CASE /\ Len(proc.todo) > 1 /\ proc'.step = "positions"
              /\ proc'.todo = Tail(proc.todo) /\ proc'.last = p /\ proc'.cmd = proc.cmd
    <3> DEFINE n == Len(proc.todo)
               r == Tail(proc.todo)
    <3>1. n \in Nat /\ n > 1 /\ r \in Seq(Int) /\ Len(r) = n - 1
          /\ \A i \in 1..(n - 1) : r[i] = proc.todo[i + 1]
      BY <1>1, <2>10
    <3>2. /\ \A i \in 1..n : proc.todo[i] \in Positions
          /\ \A i, j \in 1..n : i < j => proc.todo[i] < proc.todo[j]
          /\ \A q \in Positions :
                \/ q <= proc.last
                \/ \E i \in 1..n : proc.todo[i] = q
                \/ proc.cmd # "finalize" /\ \A i \in 1..n : proc.todo[i] < q
      BY <1>1 DEF WalkInv
    <3> HIDE DEF n, r
    <3>3. \A i \in 1..(n - 1) : r[i] \in Positions /\ p < r[i]
      <4> SUFFICES ASSUME NEW i \in 1..(n - 1) PROVE r[i] \in Positions /\ p < r[i]
        OBVIOUS
      <4>1. i + 1 \in 1..n /\ 1 \in 1..n /\ 1 < i + 1
        BY <3>1
      <4> QED
        BY <2>1, <3>1, <3>2, <4>1
    <3>4. \A i, j \in 1..(n - 1) : i < j => r[i] < r[j]
      <4> SUFFICES ASSUME NEW i \in 1..(n - 1), NEW j \in 1..(n - 1), i < j PROVE r[i] < r[j]
        OBVIOUS
      <4>1. i + 1 \in 1..n /\ j + 1 \in 1..n /\ i + 1 < j + 1
        BY <3>1
      <4> QED
        BY <3>1, <3>2, <4>1
    <3>5. ASSUME NEW q \in Positions
          PROVE  \/ q <= p
                 \/ \E i \in 1..(n - 1) : r[i] = q
                 \/ proc.cmd # "finalize" /\ \A i \in 1..(n - 1) : r[i] < q
      <4>1. CASE q <= proc.last
        BY <2>1, <2>4, <4>1
      <4>2. CASE \E i \in 1..n : proc.todo[i] = q
        <5>1. PICK i \in 1..n : proc.todo[i] = q
          BY <4>2
        <5>2. CASE i = 1
          BY <2>1, <2>4, <5>1, <5>2
        <5>3. CASE i # 1
          <6>1. i - 1 \in 1..(n - 1) /\ (i - 1) + 1 = i
            BY <3>1, <5>3
          <6>2. r[i - 1] = q
            BY <3>1, <5>1, <6>1
          <6> QED
            BY <6>1, <6>2
        <5> QED
          BY <5>2, <5>3
      <4>3. CASE proc.cmd # "finalize" /\ \A i \in 1..n : proc.todo[i] < q
        <5>1. \A i \in 1..(n - 1) : r[i] < q
          <6> SUFFICES ASSUME NEW i \in 1..(n - 1) PROVE r[i] < q
            OBVIOUS
          <6>1. i + 1 \in 1..n
            BY <3>1
          <6> QED
            BY <3>1, <4>3, <6>1
        <5> QED
          BY <4>3, <5>1
      <4> QED
        BY <3>2, <4>1, <4>2, <4>3
    <3>6. proc'.todo = r /\ Len(proc'.todo) = n - 1
      BY <2>10, <3>1 DEF r
    <3>7. WalkInv'
      BY <1>1, <2>1, <2>3, <2>8, <2>10, <3>3, <3>4, <3>5, <3>6 DEF WalkInv
    <3>8. proc'.todo \in Seq(Int) /\ Len(proc'.todo) > 0 /\ proc'.last \in Nat
      <4>1. n - 1 > 0
        BY <3>1
      <4>2. proc'.last \in Nat
        BY <2>1, <2>4, <2>10
      <4> QED
        BY <3>1, <3>6, <4>1, <4>2, Zenon
    <3> QED
      BY <1>1, <2>3, <2>7, <2>10, <3>7, <3>8 DEF PlaceInv, StepInv
  <2>11. CASE /\ ~(Len(proc.todo) > 1) /\ proc'.step = "current" /\ proc.cmd = "finalize"
    <3>1. Len(proc.todo) = 1
      <4> DEFINE n == Len(proc.todo)
      <4>1. n \in Nat
        BY <1>1
      <4>2. n > 0 /\ ~(n > 1)
        BY <1>1, <2>11, Zenon
      <4> HIDE DEF n
      <4>3. n = 1
        BY <4>1, <4>2
      <4> QED
        BY <4>3 DEF n
    <3>2. \A q \in Positions : q <= p
      <4> SUFFICES ASSUME NEW q \in Positions PROVE q <= p
        OBVIOUS
      <4>1. q <= proc.last \/ \E i \in 1..1 : proc.todo[i] = q
        BY <1>1, <2>11, <3>1 DEF WalkInv
      <4> QED
        BY <2>1, <2>4, <4>1
    <3>3. Complete'
      BY <1>1, <2>3, <2>8, <3>2 DEF Complete
    <3>4. AllAt(1..target)'
      <4>1. target \in Nat /\ eventTarget <= target
        BY <1>1 DEF Shape
      <4> QED
        BY <1>1, <2>1, <2>3, <2>4, <4>1 DEF AllAt, ToMigrate
    <3> QED
      BY <2>7, <2>11, <3>3, <3>4 DEF PlaceInv, StepInv
  <2> QED
    BY <2>1, <2>9, <2>10, <2>11
<1> QED
  BY <1>2, <1>3

\* _update_migration_index in both phases of finalize.
LEMMA UpdateIndexKeepsPlaces ==
    ASSUME CommandInv, PlaceInv, UpdateMigrationIndex \/ UpdateMigrationIndexToTarget
    PROVE  PlaceInv'
<1> DEFINE index == IF proc.step = "index" THEN eventTarget ELSE target
<1>1. /\ Shape /\ proc.cmd = "finalize" /\ proc.step \in {"index", "index2"}
      /\ eventTarget' = eventTarget /\ target' = target /\ writing' = writing
  BY DEF CommandInv, Discipline, FinalizeSteps, UpdateMigrationIndex, Others,
         UpdateMigrationIndexToTarget, At
<1>2. /\ db'.positions = SetIndex(db.positions, index)
      /\ db'.migration_positions = db.migration_positions
  <2>1. CASE UpdateMigrationIndex
    BY <1>1, <2>1 DEF UpdateMigrationIndex, Shape, At
  <2>2. CASE UpdateMigrationIndexToTarget
    BY <1>1, <2>2 DEF UpdateMigrationIndexToTarget, Shape, At
  <2> QED
    BY <2>1, <2>2
<1>3. Positions' = Positions /\ \A p \in Positions : db'.positions[p] = index
  BY <1>2 DEF SetIndex, Positions
<1>4. index \in Nat /\ 1 <= index /\ index <= target /\ writing = 0
  BY <1>1, FinalizeAlone DEF Shape
<1>5. \/ proc'.step = "clean" /\ proc.step = "index"
      \/ proc'.step = "idle"
  BY <1>1, GotoFacts, EndFacts DEF UpdateMigrationIndex, UpdateMigrationIndexToTarget, At
<1> HIDE DEF index
<1>6. target \in Nat
  BY <1>1 DEF Shape
<1>7. AllAt({-1} \cup 1..target)' /\ writing' <= target' /\ Uniform'
  BY <1>1, <1>3, <1>4, <1>6 DEF AllAt, Uniform
<1>8. /\ DOMAIN db'.migration_positions \subseteq Positions'
      /\ \A p \in DOMAIN db'.migration_positions :
          /\ db'.migration_positions[p] \in 1..eventTarget'
          /\ \A q \in Positions' : q < p => q \in DOMAIN db'.migration_positions
  BY <1>1, <1>2, <1>3 DEF PlaceInv, RowsInv
<1>9. RowsInv'
  BY <1>1, <1>4, <1>7, <1>8 DEF RowsInv
<1>10. proc'.step = "clean" => AllAt({eventTarget})'
  BY <1>1, <1>3, <1>5 DEF index, AllAt
<1> QED
  BY <1>5, <1>9, <1>10 DEF PlaceInv, StepInv

\* _clean_migration_data
LEMMA CleanKeepsPlaces ==
    ASSUME CommandInv, PlaceInv, CleanMigrationData
    PROVE  PlaceInv'
<1>1. /\ Shape /\ proc.step = "clean"
      /\ eventTarget' = eventTarget /\ target' = target /\ writing' = writing
  BY DEF CommandInv, CleanMigrationData, At, Others
<1>2. db'.positions = db.positions /\ DOMAIN db'.migration_positions = {}
  BY <1>1 DEF CleanMigrationData, Shape
<1>3. Positions' = Positions /\ Uniform' = Uniform
  BY <1>2 DEF Positions, Uniform
<1>4. RowsInv'
  BY <1>1, <1>2, <1>3 DEF PlaceInv, RowsInv, AllAt, Values
<1>5. \/ proc'.step = "idle"
      \/ proc'.step = "modelplan" /\ proc.cmd = "finalize" /\ eventTarget < target
  <2>1. \/ End("ok")
        \/ Goto("modelplan") /\ proc.cmd # "reset" /\ eventTarget < target
    BY DEF CleanMigrationData, GotoOrEnd, AfterEvents
  <2> QED
    BY <1>1, <2>1, GotoFacts, EndFacts DEF CommandInv, Discipline
<1>6. ASSUME proc.cmd = "finalize" PROVE AllAt(eventTarget..target)'
  <2>1. AllAt({eventTarget})
    BY <1>1, <1>6 DEF PlaceInv, StepInv
  <2>2. eventTarget \in Nat /\ target \in Nat /\ eventTarget <= target
    BY <1>1 DEF Shape
  <2> QED
    BY <1>1, <1>2, <1>3, <2>1, <2>2 DEF AllAt
<1> QED
  BY <1>1, <1>4, <1>5, <1>6 DEF PlaceInv, StepInv

\* The plan of the model migrations.
LEMMA PlanModelsKeepsPlaces ==
    ASSUME CommandInv, PlaceInv, PlanModelMigration
    PROVE  PlaceInv'
<1>1. SamePlaces /\ Shape /\ proc.step = "modelplan" /\ Positions # {}
  BY DEF PlanModelMigration, SamePlaces, Others, CommandInv, Discipline, At
<1>2. proc'.step \in {"idle", "models", "aux2"}
  BY <1>1, EndFacts DEF PlanModelMigration, Shape
<1>3. RowsInv' /\ Positions' = Positions
  BY <1>1, SamePlacesFacts DEF PlaceInv
<1>4. eventTarget < target /\ AllAt(eventTarget..target)
  BY <1>1 DEF PlaceInv, StepInv
<1>5. eventTarget' < target' /\ AllAt(eventTarget..target)' /\ Positions' # {}
  BY <1>1, <1>3, <1>4 DEF SamePlaces, AllAt
<1> QED
  BY <1>2, <1>3, <1>5 DEF PlaceInv, StepInv

\* The model migration that is next lies between the events' target and the target.
LEMMA ModelHead ==
    ASSUME CommandInv, PlaceInv, proc.step = "models"
    PROVE  /\ Head(proc.todo) \in Int /\ eventTarget <= Head(proc.todo)
           /\ Head(proc.todo) < target /\ Positions # {}
<1> DEFINE n == Len(proc.todo)
           head == proc.todo[1]
<1>1. /\ proc.todo \in Seq(Int) /\ n \in Nat /\ n > 0 /\ target \in Nat /\ eventTarget \in Nat
      /\ \A i \in 1..n : proc.todo[i] = target - n + i - 1
  BY DEF CommandInv, ModelInv, Shape
<1>2. Head(proc.todo) = head
  BY <1>1
<1>3. head = target - n + 1 - 1
  <2>1. 1 \in 1..n
    BY <1>1
  <2> QED
    BY <1>1, <2>1
<1>4. PICK q \in Positions : db.positions[q] <= head
  BY DEF CommandInv, ModelInv
<1>5. db.positions[q] \in eventTarget..target
  BY DEF PlaceInv, StepInv, AllAt
<1> HIDE DEF n, head
<1>6. head \in Int /\ eventTarget <= head /\ head < target
  BY <1>1, <1>3, <1>4, <1>5
<1> QED
  BY <1>2, <1>4, <1>6

\* insert_events: the new position is the only one with another index.
LEMMA InsertPlaces ==
    ASSUME Shape, RowsInv, NEW index, NEW format, db' = InsertEvents(db, index, format)
    PROVE  LET p == db.position_seq + 1
           IN  /\ p \notin Positions /\ Positions' = Positions \cup {p} /\ p \in Nat
               /\ \A q \in Positions : q < p /\ q \in Nat /\ db'.positions[q] = db.positions[q]
               /\ db'.positions[p] = index
               /\ db'.migration_positions = db.migration_positions
               /\ DOMAIN db'.migration_positions \subseteq Positions
               /\ \A r \in DOMAIN db'.migration_positions :
                   \A q \in Positions' : q < r => q \in DOMAIN db'.migration_positions
<1> DEFINE p == db.position_seq + 1
<1>1. /\ p \notin Positions /\ Positions' = Positions \cup {p}
      /\ db'.positions = With(db.positions, p, index)
      /\ db'.migration_positions = db.migration_positions
  BY InsertFacts
<1>2. p \in Nat /\ \A q \in Positions : q < p /\ q \in Nat
  BY DEF Shape
<1>3. (\A q \in Positions : db'.positions[q] = db.positions[q]) /\ db'.positions[p] = index
  BY <1>1 DEF With, Positions
<1>4. /\ DOMAIN db.migration_positions \subseteq Positions
      /\ \A r \in DOMAIN db.migration_positions :
          \A q \in Positions : q < r => q \in DOMAIN db.migration_positions
  BY DEF RowsInv
<1> HIDE DEF p
<1>5. \A r \in DOMAIN db.migration_positions :
          \A q \in Positions' : q < r => q \in DOMAIN db.migration_positions
  BY <1>1, <1>2, <1>4
<1> QED
  BY <1>1, <1>2, <1>3, <1>4, <1>5 DEF p

\* One model migration.
LEMMA MigrateModelsKeepsPlaces ==
    ASSUME CommandInv, PlaceInv, MigrateModels
    PROVE  PlaceInv'
<1> DEFINE head == Head(proc.todo)
           p == db.position_seq + 1
<1>1. /\ Shape /\ proc.step = "models" /\ proc.cmd = "finalize"
      /\ eventTarget' = eventTarget /\ target' = target /\ writing' = writing
      /\ proc'.step \in {"models", "aux2"}
  BY DEF MigrateModels, CommandInv, Discipline, FinalizeSteps, At, Shape
<1>2. head \in Int /\ eventTarget <= head /\ head < target /\ Positions # {}
  BY <1>1, ModelHead
<1>3. eventTarget < target /\ AllAt(eventTarget..target)
  BY <1>1 DEF PlaceInv, StepInv
<1>4. CASE db' = db
  <2>1. SamePlaces
    BY <1>1, <1>4 DEF SamePlaces
  <2>2. RowsInv' /\ Positions' = Positions
    BY <2>1, SamePlacesFacts DEF PlaceInv
  <2>3. eventTarget' < target' /\ AllAt(eventTarget..target)' /\ Positions' # {}
    BY <1>2, <1>3, <2>1, <2>2 DEF SamePlaces, AllAt
  <2> QED
    BY <1>1, <2>2, <2>3 DEF PlaceInv, StepInv
<1>5. CASE db' = InsertEvents(db, head + 1, head + 1)
  <2>1. /\ p \notin Positions /\ Positions' = Positions \cup {p} /\ p \in Nat
        /\ \A q \in Positions : q < p /\ q \in Nat /\ db'.positions[q] = db.positions[q]
        /\ db'.positions[p] = head + 1
        /\ db'.migration_positions = db.migration_positions
        /\ DOMAIN db'.migration_positions \subseteq Positions
        /\ \A r \in DOMAIN db'.migration_positions :
            \A q \in Positions' : q < r => q \in DOMAIN db'.migration_positions
    BY <1>1, <1>5, InsertPlaces DEF PlaceInv
  <2> HIDE DEF p, head
  <2>2. /\ eventTarget \in Nat /\ target \in Nat /\ eventTarget >= 1 /\ writing = 0
    BY <1>1, FinalizeAlone DEF Shape
  <2>3. AllAt(eventTarget..target)' /\ AllAt({-1} \cup 1..target)'
    BY <1>1, <1>2, <1>3, <2>1, <2>2 DEF AllAt
  <2>4. \A r \in DOMAIN db'.migration_positions : db'.migration_positions[r] \in 1..eventTarget
    BY <2>1 DEF PlaceInv, RowsInv
  <2>5. eventTarget' < target' /\ writing' = 0 /\ writing' <= target' /\ Positions' # {}
    BY <1>1, <1>3, <2>1, <2>2
  <2>6. RowsInv'
    BY <1>1, <2>1, <2>3, <2>4, <2>5 DEF RowsInv
  <2> QED
    BY <1>1, <2>3, <2>5, <2>6 DEF PlaceInv, StepInv
<1> QED
  BY <1>4, <1>5 DEF MigrateModels

\* A write reads the migration index ...
LEMMA BeginWriteKeepsPlaces ==
    ASSUME CommandInv, PlaceInv, BeginWrite
    PROVE  PlaceInv'
<1>1. /\ Shape /\ online /\ UNCHANGED <<db, eventTarget, target, proc>> /\ writing = 0
      /\ ConsistentIndex
  BY DEF BeginWrite, CommandInv
<1>2. Positions' = Positions /\ Uniform' = Uniform /\ ToMigrate' = ToMigrate
      /\ Complete' = Complete
  BY <1>1 DEF Positions, Uniform, ToMigrate, AllAt, Complete
<1>3. Uniform
  BY <1>1, ConsistentMeansUniform
<1>4. /\ writing' \in Int /\ writing' <= target /\ AllAt({writing'})
  <2>1. CASE Positions = {}
    BY <2>1, MigrationAssumption DEF BeginWrite, AllAt
  <2>2. CASE Positions # {}
    <3>1. PICK p \in Positions : TRUE
      BY <2>2
    <3>2. writing' = CurrentIndex
      BY <2>2 DEF BeginWrite
    <3>3. \A q \in Positions : db.positions[q] = CurrentIndex /\ CurrentIndex \in Int
      BY <1>1, <1>3, IndexOfAll
    <3>4. db.positions[p] \in {-1} \cup 1..target /\ target \in Nat
      BY <1>1 DEF PlaceInv, RowsInv, AllAt, Shape
    <3> QED
      BY <3>1, <3>2, <3>3, <3>4 DEF AllAt
  <2> QED
    BY <2>1, <2>2
<1>5. RowsInv'
  BY <1>1, <1>2, <1>3, <1>4 DEF PlaceInv, RowsInv, AllAt
<1>6. proc.step \in {"plan", "positions"} => writing' # -1
  <2> SUFFICES ASSUME proc.step \in {"plan", "positions"} PROVE writing' # -1
    OBVIOUS
  <2>1. ToMigrate
    BY DEF PlaceInv, StepInv
  <2>2. PICK p \in Positions : db.positions[p] \in 1..(eventTarget - 1)
    BY <2>1 DEF ToMigrate, AllAt
  <2> QED
    BY <1>4, <2>2 DEF AllAt
<1>7. proc.step \notin FinalizeSteps /\ ~(proc.step \in {"state", "clean", "positions", "plan"}
         /\ proc.cmd = "finalize")
  BY <1>1 DEF CommandInv, Discipline, FinalizeSteps
<1>8. proc.step = "positions" => WalkInv'
  BY <1>1, <1>2 DEF PlaceInv, StepInv, WalkInv
<1>9. StepInv'
  BY <1>1, <1>2, <1>6, <1>7, <1>8 DEF PlaceInv, StepInv, FinalizeSteps
<1> QED
  BY <1>5, <1>9 DEF PlaceInv

\* ... and ends without events ...
LEMMA FailWriteKeepsPlaces ==
    ASSUME CommandInv, PlaceInv, FailWrite
    PROVE  PlaceInv'
<1>1. /\ Shape /\ writing' = 0 /\ UNCHANGED <<eventTarget, target, proc>>
      /\ db'.positions = db.positions /\ db'.migration_positions = db.migration_positions
  BY DEF FailWrite, CommandInv, Shape
<1>2. Positions' = Positions /\ Uniform' = Uniform /\ ToMigrate' = ToMigrate
      /\ Complete' = Complete
  BY <1>1 DEF Positions, Uniform, ToMigrate, AllAt, Complete
<1>3. RowsInv'
  BY <1>1, <1>2 DEF PlaceInv, RowsInv, AllAt, Values, Shape
<1>4. WalkInv => WalkInv'
  BY <1>1, <1>2 DEF WalkInv
<1>5. StepInv'
  BY <1>1, <1>2, <1>4 DEF PlaceInv, StepInv, AllAt
<1> QED
  BY <1>3, <1>5 DEF PlaceInv

\* ... or with a position that migrate, which runs next to it, has not planned.
LEMMA CommitWriteKeepsPlaces ==
    ASSUME CommandInv, PlaceInv, CommitWrite
    PROVE  PlaceInv'
<1> DEFINE p == db.position_seq + 1
           format == IF writing = -1 THEN target ELSE writing
<1>1. /\ Shape /\ writing # 0 /\ writing' = 0 /\ UNCHANGED <<eventTarget, target, proc>>
      /\ db' = InsertEvents(db, writing, format) /\ online /\ RowsInv
  BY DEF CommitWrite, CommandInv, Discipline, PlaceInv
<1>2. /\ p \notin Positions /\ Positions' = Positions \cup {p} /\ p \in Nat
      /\ \A q \in Positions : q < p /\ q \in Nat /\ db'.positions[q] = db.positions[q]
      /\ db'.positions[p] = writing
      /\ db'.migration_positions = db.migration_positions
      /\ DOMAIN db'.migration_positions \subseteq Positions
      /\ \A r \in DOMAIN db'.migration_positions :
          \A q \in Positions' : q < r => q \in DOMAIN db'.migration_positions
  BY <1>1, InsertPlaces
<1> HIDE DEF p, format
<1>3. /\ eventTarget \in Nat /\ target \in Nat /\ eventTarget >= 1 /\ eventTarget <= target
      /\ writing \in Int /\ writing >= -1 /\ writing <= target
  BY <1>1 DEF Shape, RowsInv
<1>4. AllAt({-1} \cup 1..target)'
  BY <1>1, <1>2, <1>3 DEF RowsInv, AllAt
<1>5. \/ Uniform'
      \/ AllAt({-1, target})' /\ -1 \in Values(db.positions)'
  <2>1. CASE writing = -1
    <3>1. AllAt({-1, target})'
      BY <1>1, <1>2, <2>1 DEF RowsInv, AllAt
    <3>2. -1 \in Values(db.positions)'
      BY <1>2, <2>1 DEF Values, Positions
    <3> QED
      BY <3>1, <3>2
  <2>2. CASE writing > 0
    BY <1>1, <1>2, <2>2 DEF RowsInv, AllAt, Uniform
  <2> QED
    BY <1>1, <1>3, <2>1, <2>2
<1>6. \A r \in DOMAIN db'.migration_positions : db'.migration_positions[r] \in 1..eventTarget
  BY <1>1, <1>2 DEF RowsInv
<1>7. RowsInv'
  BY <1>1, <1>2, <1>3, <1>4, <1>5, <1>6 DEF RowsInv
<1>8. proc.step \notin FinalizeSteps /\ ~(proc.step \in {"state", "clean", "positions", "plan"}
         /\ proc.cmd = "finalize")
  BY <1>1 DEF CommandInv, Discipline, FinalizeSteps
<1>9. ASSUME proc.step \in {"plan", "positions"}
      PROVE  ToMigrate' /\ Uniform'
  <2>1. ToMigrate /\ writing # -1
    BY <1>9 DEF PlaceInv, StepInv
  <2>2. writing > 0
    BY <1>1, <1>3, <2>1
  <2>3. Uniform' 
    BY <1>1, <1>2, <2>2 DEF RowsInv, AllAt, Uniform
  <2>4. writing \in 1..(eventTarget - 1)
    BY <1>1, <2>1, <2>2 DEF RowsInv, AllAt, ToMigrate
  <2>5. ToMigrate'
    BY <1>1, <1>2, <2>1, <2>4 DEF AllAt, ToMigrate
  <2> QED
    BY <2>3, <2>5
<1>10. ASSUME proc.step = "positions" PROVE WalkInv'
  <2>1. WalkInv /\ proc.cmd # "finalize" /\ proc.last \in Nat
    BY <1>8, <1>10 DEF PlaceInv, StepInv
  <2> DEFINE n == Len(proc.todo)
  <2>2. /\ \A i \in 1..n : proc.todo[i] \in Positions /\ proc.last < proc.todo[i]
        /\ \A i, j \in 1..n : i < j => proc.todo[i] < proc.todo[j]
        /\ \A q \in Positions :
              \/ q <= proc.last
              \/ \E i \in 1..n : proc.todo[i] = q
              \/ \A i \in 1..n : proc.todo[i] < q
        /\ \A q \in Positions : q <= proc.last =>
              q \in DOMAIN db.migration_positions /\ db.migration_positions[q] = eventTarget
        /\ proc.last = 0 \/ proc.last \in Positions
    BY <2>1 DEF WalkInv
  <2> HIDE DEF n
  <2>3. proc.last < p
    <3>1. CASE proc.last = 0
      BY <3>1 DEF p, Shape, CommandInv
    <3>2. CASE proc.last \in Positions
      BY <1>2, <3>2
    <3> QED
      BY <2>2, <3>1, <3>2
  <2>4. \A i \in 1..n : proc.todo[i] < p
    BY <1>2, <2>2
  <2>5. ~(p <= proc.last)
    BY <1>2, <2>1, <2>3
  <2>6. \A q \in Positions' :
              \/ q <= proc.last
              \/ \E i \in 1..n : proc.todo[i] = q
              \/ \A i \in 1..n : proc.todo[i] < q
    BY <1>2, <2>2, <2>4
  <2>7. \A q \in Positions' : q <= proc.last =>
              q \in DOMAIN db'.migration_positions /\ db'.migration_positions[q] = eventTarget
    BY <1>2, <2>2, <2>5
  <2> QED
    BY <1>1, <1>2, <2>1, <2>2, <2>6, <2>7 DEF WalkInv, n
<1>11. StepInv'
  BY <1>1, <1>8, <1>9, <1>10 DEF PlaceInv, StepInv, FinalizeSteps
<1> QED
  BY <1>7, <1>11 DEF PlaceInv

\* Init satisfies the invariant.
LEMMA PlaceInit == Init => PlaceInv
<1> SUFFICES ASSUME Init PROVE PlaceInv
  OBVIOUS
<1>1. /\ db.positions = <<>> /\ db.migration_positions = <<>> /\ writing = 0 /\ target = 1
      /\ proc.step = "idle"
  BY DEF Init, EmptyDb, Idle
<1>2. Positions = {} /\ DOMAIN db.migration_positions = {}
  BY <1>1 DEF Positions
<1> QED
  BY <1>1, <1>2 DEF PlaceInv, RowsInv, StepInv, AllAt, Uniform

\* Every step keeps it.
LEMMA PlaceStep == CommandInv /\ PlaceInv /\ [Next]_vars => PlaceInv'
<1> SUFFICES ASSUME CommandInv, PlaceInv, [Next]_vars PROVE PlaceInv'
  OBVIOUS
<1>1. Shape
  BY DEF CommandInv
<1>2. CASE UNCHANGED vars
  <2>1. RowsInv'
    BY <1>2, SamePlacesFacts DEF vars, PlaceInv, SamePlaces
  <2>2. StepInv'
    BY <1>2, SMTT(20) DEF vars, PlaceInv, StepInv, AllAt, Uniform, Positions, ToMigrate,
                          Complete, WalkInv, Values
  <2> QED
    BY <2>1, <2>2 DEF PlaceInv
<1>3. CASE Step
  BY <1>1, <1>3, ChecksKeepPlaces, StateKeepsPlaces, PlanKeepsPlaces, MigrateNextKeepsPlaces,
     ReadIndexKeepsPlaces, FinalizeKeepsPlaces, UpdateIndexKeepsPlaces, CleanKeepsPlaces,
     PlanModelsKeepsPlaces, MigrateModelsKeepsPlaces DEF Step
<1>4. CASE Stop \/ Operator
  BY <1>1, <1>4, OperatorKeepsPlaces, RegisterKeepsPlaces
<1>5. CASE BeginWrite \/ CommitWrite \/ FailWrite
  BY <1>5, BeginWriteKeepsPlaces, CommitWriteKeepsPlaces, FailWriteKeepsPlaces
<1> QED
  BY <1>2, <1>3, <1>4, <1>5 DEF Next

\* The rows of the positions and of the migrated positions fit the step that a command is at:
\* migrate walks through the positions without a gap, and finalize exchanges the events only
\* when every position has its migrated events.
THEOREM PlaceInvariant == Spec => [](CommandInv /\ PlaceInv)
<1>1. Init => CommandInv /\ PlaceInv
  BY CommandInit, PlaceInit
<1>2. CommandInv /\ PlaceInv /\ [Next]_vars => (CommandInv /\ PlaceInv)'
  BY CommandStep, PlaceStep
<1> QED
  BY <1>1, <1>2, PTL DEF Spec

-----------------------------------------------------------------------------
(* The content of the datastore at a position                               *)

UpTo(p) == {q \in Positions : q <= p}

\* Appending to a list, element by element.
LEMMA AppendIs ==
    ASSUME NEW V, NEW s \in Seq(V), NEW e \in V
    PROVE  /\ Append(s, e) \in Seq(V) /\ Len(s) \in Nat /\ Len(Append(s, e)) = Len(s) + 1
           /\ Append(s, e) = [i \in 1..(Len(s) + 1) |-> IF i = Len(s) + 1 THEN e ELSE s[i]]
<1> DEFINE t == Append(s, e)
<1>1. /\ Len(s) \in Nat /\ t \in Seq(V) /\ Len(t) = Len(s) + 1 /\ DOMAIN t = 1..(Len(s) + 1)
      /\ t[Len(s) + 1] = e /\ \A i \in 1..Len(s) : t[i] = s[i]
  OBVIOUS
<1> HIDE DEF t
<1>2. t = [i \in 1..(Len(s) + 1) |-> t[i]]
  BY <1>1
<1>3. \A i \in 1..(Len(s) + 1) : t[i] = IF i = Len(s) + 1 THEN e ELSE s[i]
  BY <1>1
<1>4. [i \in 1..(Len(s) + 1) |-> t[i]] = [i \in 1..(Len(s) + 1) |-> IF i = Len(s) + 1 THEN e ELSE s[i]]
  BY <1>3, Zenon
<1> QED
  BY <1>1, <1>2, <1>4 DEF t

\* How many positions there are up to one ...
LEMMA UpToFacts ==
    ASSUME Shape, NEW p \in Nat
    PROVE  /\ UpTo(p) \in SUBSET (1..db.position_seq) /\ db.position_seq \in Nat
           /\ Cardinality(UpTo(p)) \in Nat /\ IsFiniteSet(UpTo(p))
           /\ IsAscending(Ascending(UpTo(p)), UpTo(p))
<1>1. UpTo(p) \in SUBSET (1..db.position_seq) /\ db.position_seq \in Nat
  BY DEF UpTo, Shape
<1>2. IsFiniteSet(UpTo(p))
  <2>1. IsFiniteSet(1..db.position_seq)
    BY <1>1, FS_Interval
  <2> QED
    BY <1>1, <2>1, FS_Subset
<1> QED
  BY <1>1, <1>2, AscendingFacts, FS_CardinalityType

\* ... and to the next.
LEMMA UpToNext ==
    ASSUME Shape, NEW last \in Nat, NEW p \in Positions, last < p,
           \A q \in Positions : q < p => q <= last
    PROVE  LET s == Ascending(UpTo(last))
               c == Cardinality(UpTo(last))
               t == [i \in 1..(c + 1) |-> IF i = c + 1 THEN p ELSE s[i]]
           IN  /\ UpTo(p) = UpTo(last) \cup {p} /\ Ascending(UpTo(p)) = t
               /\ Cardinality(UpTo(p)) = c + 1
<1> DEFINE s == Ascending(UpTo(last))
           c == Cardinality(UpTo(last))
           t == [i \in 1..(c + 1) |-> IF i = c + 1 THEN p ELSE s[i]]
<1>1. \A q \in Positions : q \in Nat
  BY DEF Shape
<1>2. UpTo(p) = UpTo(last) \cup {p} /\ \A y \in UpTo(last) : y < p
  BY <1>1 DEF UpTo
<1>3. /\ UpTo(last) \in SUBSET (1..db.position_seq) /\ db.position_seq \in Nat
      /\ IsAscending(s, UpTo(last)) /\ p \in Nat
  BY <1>1, UpToFacts
<1>4. Cardinality(UpTo(last) \cup {p}) = c + 1 /\ IsAscending(t, UpTo(last) \cup {p})
  BY <1>2, <1>3, AscendingNext
<1>5. IsAscending(Ascending(UpTo(p)), UpTo(p)) /\ UpTo(p) \in SUBSET (1..db.position_seq)
  BY <1>3, UpToFacts
<1> HIDE DEF t, c, s
<1>6. IsAscending(t, UpTo(p))
  BY <1>2, <1>4
<1>7. Ascending(UpTo(p)) = t
  BY <1>3, <1>5, <1>6, AscendingUnique
<1> QED
  BY <1>2, <1>4, <1>7 DEF t, c, s

\* Position 0 is the empty datastore.
LEMMA ContentZero ==
    ASSUME Shape, NEW index
    PROVE  Content(0, index) = <<>> /\ Cardinality(UpTo(0)) = 0
<1>1. UpTo(0) = {}
  <2>1. \A q \in Positions : q \in Nat /\ 1 <= q
    BY DEF Shape
  <2> QED
    BY <2>1 DEF UpTo
<1>2. Cardinality(UpTo(0)) = 0
  BY <1>1, FS_EmptySet
<1>3. IsAscending(Ascending(UpTo(0)), UpTo(0))
  BY UpToFacts
<1>4. DOMAIN Ascending(UpTo(0)) = {}
  BY <1>2, <1>3 DEF IsAscending
<1>5. Content(0, index) = [i \in {} |-> <<Ascending(UpTo(0))[i], index>>]
  BY <1>4 DEF Content, UpTo
<1>6. \A f : [i \in {} |-> f[i]] = <<>>
  OBVIOUS
<1> QED
  BY <1>2, <1>5, <1>6

\* apply_event: with the events of the next position it is the content there.
LEMMA ContentNext ==
    ASSUME Shape, NEW last \in Nat, NEW p \in Positions, last < p,
           \A q \in Positions : q < p => q <= last, NEW index
    PROVE  Content(p, index) = Append(Content(last, index), <<p, index>>)
<1> DEFINE s == Ascending(UpTo(last))
           c == Cardinality(UpTo(last))
           V == Nat \X {index}
           old == Content(last, index)
<1>1. IsAscending(s, UpTo(last)) /\ c \in Nat
  BY UpToFacts
<1>2. \A q \in Positions : q \in Nat
  BY DEF Shape
<1>3. DOMAIN s = 1..c /\ \A i \in 1..c : s[i] \in Nat
  BY <1>1, <1>2 DEF IsAscending, UpTo
<1>4. old = [i \in 1..c |-> <<s[i], index>>]
  BY <1>3 DEF Content, UpTo
<1>5. DOMAIN Ascending(UpTo(p)) = 1..(c + 1)
      /\ \A i \in 1..(c + 1) : Ascending(UpTo(p))[i] = IF i = c + 1 THEN p ELSE s[i]
  <2>1. Ascending(UpTo(p)) = [i \in 1..(c + 1) |-> IF i = c + 1 THEN p ELSE s[i]]
    BY UpToNext, Zenon
  <2> HIDE DEF s, c
  <2> QED
    BY <2>1
<1>6. Content(p, index) = [i \in 1..(c + 1) |-> <<Ascending(UpTo(p))[i], index>>]
  BY <1>5 DEF Content, UpTo
<1> HIDE DEF s, c
<1>7. old \in Seq(V) /\ Len(old) = c
  <2>1. \A i \in 1..c : <<s[i], index>> \in V
    BY <1>3
  <2> HIDE DEF V, old
  <2>2. old \in [1..c -> V]
    BY <1>4, <2>1
  <2> QED
    BY <1>1, <2>2
<1>8. <<p, index>> \in V
  BY <1>2
<1>9. \A i \in 1..c : old[i] = <<s[i], index>>
  BY <1>4
<1> HIDE DEF V, old
<1>10. Append(old, <<p, index>>) = [i \in 1..(c + 1) |-> IF i = c + 1 THEN <<p, index>> ELSE old[i]]
  BY <1>7, <1>8, AppendIs
<1>11. \A i \in 1..(c + 1) : <<Ascending(UpTo(p))[i], index>> = IF i = c + 1 THEN <<p, index>> ELSE old[i]
  <2> SUFFICES ASSUME NEW i \in 1..(c + 1)
               PROVE  <<Ascending(UpTo(p))[i], index>> = IF i = c + 1 THEN <<p, index>> ELSE old[i]
    OBVIOUS
  <2>1. i = c + 1 \/ i \in 1..c
    BY <1>1
  <2> QED
    BY <1>5, <1>9, <2>1
<1>12. Content(p, index) = [i \in 1..(c + 1) |-> IF i = c + 1 THEN <<p, index>> ELSE old[i]]
  BY <1>6, <1>11, Zenon
<1> QED
  BY <1>10, <1>12 DEF old

\* get_next_position
LEMMA NextIs ==
    ASSUME Shape, NEW last \in Nat, NEW p \in Positions, last < p,
           \A q \in Positions : q < p => q <= last
    PROVE  NextPosition(last) = p
<1> DEFINE S == {q \in Positions : q > last}
<1>1. \A q \in Positions : q \in Nat
  BY DEF Shape
<1>2. p \in S /\ \A q \in S : p <= q /\ q \in Nat
  BY <1>1
<1> HIDE DEF S
<1>3. Min(S) \in S /\ \A q \in S : Min(S) <= q
  <2>1. S \in SUBSET Nat /\ S # {}
    BY <1>2
  <2> QED
    BY <2>1, MinFacts
<1>4. Min(S) = p
  BY <1>2, <1>3
<1> QED
  BY <1>4 DEF NextPosition, S

-----------------------------------------------------------------------------
(* migrate_position: the loop over the migrations                           *)

MigrateStart(p) ==
    [ok |-> TRUE, format |-> EventsToMigrate(p), keyframes |-> db.migration_keyframes]

\* The values of the loop variables after each turn.
MigrateRun(g, p, last, m) ==
    g = [n \in 0..m |-> IF n = 0 THEN MigrateStart(p)
                        ELSE MigrateOneIndex(g[n - 1], Sources(IndexOf(p), eventTarget)[n], p, last)]

\* There are such values.
LEMMA MigrateRunExists ==
    ASSUME NEW p, NEW last, NEW N \in Nat
    PROVE  \E g : MigrateRun(g, p, last, N)
<1> DEFINE sources == Sources(IndexOf(p), eventTarget)
           T == {m \in Nat : ~ \E g : MigrateRun(g, p, last, m)}
<1> SUFFICES ASSUME T # {} PROVE FALSE
  OBVIOUS
<1>1. PICK m \in T : \A k \in T : ~(k < m)
  <2>1. T \in SUBSET Nat
    OBVIOUS
  <2> HIDE DEF T
  <2> QED
    BY <2>1, LeastNat
<1>2. CASE m = 0
  <2>1. MigrateRun([n \in 0..0 |-> MigrateStart(p)], p, last, 0)
    BY DEF MigrateRun
  <2> QED
    BY <1>2, <2>1
<1>3. CASE m # 0
  <2>1. m - 1 \in Nat /\ m - 1 \notin T
    BY <1>1, <1>3
  <2>2. PICK g : MigrateRun(g, p, last, m - 1)
    BY <2>1
  <2> DEFINE h == [n \in 0..m |-> IF n = m THEN MigrateOneIndex(g[m - 1], sources[m], p, last) ELSE g[n]]
  <2>3. \A n \in 0..m : h[n] = IF n = 0 THEN MigrateStart(p)
                               ELSE MigrateOneIndex(h[n - 1], sources[n], p, last)
    BY <1>3, <2>2 DEF MigrateRun
  <2>4. MigrateRun(h, p, last, m)
    BY <2>3 DEF MigrateRun
  <2> QED
    BY <2>4
<1> QED
  BY <1>2, <1>3

\* get_migrations: one migration for each index from the one the events are at.
LEMMA SourcesOf ==
    ASSUME NEW c \in Int, NEW t \in Int, c <= t
    PROVE  LET s == Sources(c, t)
           IN  Len(s) = t - c /\ t - c \in Nat /\ \A n \in 1..(t - c) : s[n] = c + n - 1
<1> DEFINE s == Sources(c, t)
<1>1. t - c \in Nat
  OBVIOUS
<1>2. s = [i \in 1..(t - c) |-> c + i - 1]
  BY DEF Sources
<1>3. \A i \in 1..(t - c) : c + i - 1 \in Int
  OBVIOUS
<1>4. s \in Seq(Int) /\ Len(s) = t - c
  BY <1>1, <1>2, <1>3
<1>5. \A i \in 1..(t - c) : s[i] = c + i - 1
  BY <1>2
<1> QED
  BY <1>1, <1>4, <1>5

\* The result of the loop is what its last turn leaves.
LEMMA MigratePositionIs ==
    ASSUME NEW p, NEW last, IndexOf(p) \in Int, eventTarget \in Int, IndexOf(p) <= eventTarget
    PROVE  \E g : /\ MigratePosition(p, last) = g[eventTarget - IndexOf(p)]
                  /\ g[0] = MigrateStart(p)
                  /\ \A n \in 1..(eventTarget - IndexOf(p)) :
                        g[n] = MigrateOneIndex(g[n - 1], IndexOf(p) + n - 1, p, last)
<1> DEFINE c == IndexOf(p)
           N == eventTarget - c
           sources == Sources(c, eventTarget)
           g == CHOOSE g : MigrateRun(g, p, last, N)
<1>1. Len(sources) = N /\ N \in Nat /\ \A n \in 1..N : sources[n] = c + n - 1
  BY SourcesOf
<1>2. MigrateRun(g, p, last, N)
  BY <1>1, MigrateRunExists
<1>3. MigratePosition(p, last) = g[N]
  BY <1>1 DEF MigratePosition, MigrateRun, MigrateStart
<1> HIDE DEF g, N
<1>4. g[0] = MigrateStart(p)
  BY <1>1, <1>2 DEF MigrateRun
<1>5. \A n \in 1..N : g[n] = MigrateOneIndex(g[n - 1], sources[n], p, last)
  BY <1>1, <1>2 DEF MigrateRun
<1>6. \A n \in 1..N : g[n] = MigrateOneIndex(g[n - 1], c + n - 1, p, last)
  <2> HIDE DEF sources, c
  <2> QED
    BY <1>1, <1>5
<1> QED
  BY <1>3, <1>4, <1>6 DEF N

\* The keyframes of a list are the content at their positions in the formats of their indices.
Faithful(kf) ==
    /\ DOMAIN kf \subseteq Positions \X Int
    /\ \A k \in DOMAIN kf : kf[k] = Content(k[1], k[2])

\* A row that is moved with the events of its position in the format of its index is faithful.
LEMMA MoveFaithful ==
    ASSUME Shape, NEW last \in Nat, NEW p \in Positions, last < p,
           \A q \in Positions : q < p => q <= last,
           NEW kf, Faithful(kf), NEW index \in Int, NEW content,
           content = Append(Content(last, index), <<p, index>>)
    PROVE  Faithful(MoveToNextPosition(kf, last, index, content))
<1> DEFINE moved == MoveToNextPosition(kf, last, index, content)
<1>1. NextPosition(last) = p
  BY NextIs
<1>2. Content(p, index) = content
  BY ContentNext
<1>3. \A k \in DOMAIN moved : \/ k \in DOMAIN kf /\ moved[k] = kf[k]
                              \/ k = <<p, index>> /\ moved[k] = content
  BY <1>1 DEF MoveToNextPosition, With, Without
<1> HIDE DEF moved
<1>4. ASSUME NEW k \in DOMAIN moved
      PROVE  k \in Positions \X Int /\ moved[k] = Content(k[1], k[2])
  <2>1. CASE k \in DOMAIN kf /\ moved[k] = kf[k]
    BY <2>1 DEF Faithful
  <2>2. CASE k = <<p, index>> /\ moved[k] = content
    <3>1. k \in Positions \X Int /\ k[1] = p /\ k[2] = index
      BY <2>2
    <3> QED
      BY <1>2, <2>2, <3>1
  <2> QED
    BY <1>3, <1>4, <2>1, <2>2
<1> QED
  BY <1>4 DEF Faithful, moved

\* The rows of position last show it in their formats.
LEMMA AccessorFaithful ==
    ASSUME Shape, NEW kf, Faithful(kf), NEW last, NEW index, KeyframeExists(kf, last, index)
    PROVE  Accessor(kf, last, index) = Content(last, index)
<1>1. CASE last = 0
  BY <1>1, ContentZero DEF Accessor
<1>2. CASE last # 0
  <2>1. <<last, index>> \in DOMAIN kf
    BY <1>2 DEF KeyframeExists
  <2> QED
    BY <1>2, <2>1 DEF Accessor, Faithful
<1> QED
  BY <1>1, <1>2

\* The loop variables of a migration that has not failed.
Migrating(acc, source) ==
    /\ DOMAIN acc = {"ok", "format", "keyframes"}
    /\ acc.ok => acc.format = source /\ Faithful(acc.keyframes)

\* One turn: the migration gets what it is written for, events of its source index and
\* accessors that show the position before in both formats.
LEMMA MigrateOneFaithful ==
    ASSUME Shape, NEW last \in Nat, NEW p \in Positions, last < p,
           \A q \in Positions : q < p => q <= last,
           NEW acc, NEW source \in Int, Migrating(acc, source)
    PROVE  Migrating(MigrateOneIndex(acc, source, p, last), source + 1)
<1> DEFINE kf == acc.keyframes
           old == Accessor(kf, last, source)
           new == Accessor(kf, last, source + 1)
           exist == /\ acc.ok
                    /\ KeyframeExists(kf, last, source)
                    /\ KeyframeExists(kf, last, source + 1)
           oldMoved == MoveToNextPosition(kf, last, source, ApplyEvents(old, p, acc.format))
           migrated == MigrateEvents(acc.format, source, old, new, last)
           newMoved == MoveToNextPosition(oldMoved, last, source + 1, ApplyEvents(new, p, migrated))
           result == MigrateOneIndex(acc, source, p, last)
<1>1. CASE ~exist
  <2>1. result = [acc EXCEPT !.ok = FALSE]
    BY <1>1 DEF MigrateOneIndex
  <2>2. DOMAIN result = {"ok", "format", "keyframes"} /\ result.ok = FALSE
    BY <2>1 DEF Migrating
  <2> QED
    BY <2>2 DEF Migrating
<1>2. CASE exist
  <2>1. acc.format = source /\ Faithful(kf)
    BY <1>2 DEF Migrating
  <2>2. old = Content(last, source) /\ new = Content(last, source + 1)
    BY <1>2, <2>1, AccessorFaithful
  <2>3. migrated = source + 1
    BY <2>1, <2>2 DEF MigrateEvents
  <2>4. result = [ok |-> TRUE, format |-> migrated,
                  keyframes |-> IF source + 1 # eventTarget THEN oldMoved ELSE newMoved]
    BY <1>2 DEF MigrateOneIndex
  <2> HIDE DEF old, new, migrated
  <2>5. ApplyEvents(old, p, acc.format) = Append(Content(last, source), <<p, source>>)
    BY <2>1, <2>2 DEF ApplyEvents
  <2>6. Faithful(oldMoved)
    <3> DEFINE content == ApplyEvents(old, p, acc.format)
    <3>1. content = Append(Content(last, source), <<p, source>>)
      BY <2>5
    <3> HIDE DEF content
    <3>2. Faithful(MoveToNextPosition(kf, last, source, content))
      BY <2>1, <3>1, MoveFaithful
    <3> QED
      BY <3>2 DEF content
  <2> HIDE DEF oldMoved
  <2>7. Faithful(newMoved)
    <3> DEFINE content == ApplyEvents(new, p, migrated)
    <3>1. content = Append(Content(last, source + 1), <<p, source + 1>>) /\ source + 1 \in Int
      BY <2>2, <2>3 DEF ApplyEvents
    <3> HIDE DEF content
    <3>2. Faithful(MoveToNextPosition(oldMoved, last, source + 1, content))
      BY <2>6, <3>1, MoveFaithful
    <3> QED
      BY <3>2 DEF content
  <2> HIDE DEF newMoved, result
  <2>8. /\ DOMAIN result = {"ok", "format", "keyframes"} /\ result.format = migrated
        /\ result.keyframes = IF source + 1 # eventTarget THEN oldMoved ELSE newMoved
    BY <2>4
  <2>9. Faithful(result.keyframes)
    BY <2>6, <2>7, <2>8
  <2>10. Migrating(result, source + 1)
    BY <2>3, <2>8, <2>9 DEF Migrating
  <2> QED
    BY <2>10 DEF result
<1> QED
  BY <1>1, <1>2

\* All of them: the events come out in the format of the target.
LEMMA MigratePositionFaithful ==
    ASSUME Shape, NEW last \in Nat, NEW p \in Positions, last < p,
           \A q \in Positions : q < p => q <= last,
           Faithful(db.migration_keyframes),
           IndexOf(p) \in Int, IndexOf(p) <= eventTarget, EventsToMigrate(p) = IndexOf(p)
    PROVE  Migrating(MigratePosition(p, last), eventTarget)
<1> DEFINE c == IndexOf(p)
           N == eventTarget - c
<1>1. eventTarget \in Int
  BY DEF Shape
<1>2. PICK g : /\ MigratePosition(p, last) = g[N]
               /\ g[0] = MigrateStart(p)
               /\ \A n \in 1..N : g[n] = MigrateOneIndex(g[n - 1], c + n - 1, p, last)
  BY <1>1, MigratePositionIs
<1>3. c \in Int /\ N \in Nat /\ c + N = eventTarget
  BY <1>1
<1>4. Migrating(g[0], c + 0)
  <2> DEFINE start == MigrateStart(p)
  <2>1. /\ DOMAIN start = {"ok", "format", "keyframes"} /\ start.format = c
        /\ start.keyframes = db.migration_keyframes
    BY DEF MigrateStart
  <2> HIDE DEF start
  <2>2. c + 0 = c
    BY <1>3
  <2>3. Migrating(start, c)
    BY <2>1 DEF Migrating
  <2> QED
    BY <1>2, <2>2, <2>3 DEF start
<1> HIDE DEF c, N
<1> DEFINE T == {n \in 0..N : ~Migrating(g[n], c + n)}
<1>5. T = {}
  <2> SUFFICES ASSUME T # {} PROVE FALSE
    OBVIOUS
  <2>1. T \in SUBSET Nat
    BY <1>3
  <2>2. PICK m \in T : \A k \in T : ~(k < m)
    <3> HIDE DEF T
    <3> QED
      BY <2>1, LeastNat
  <2>3. m \in 0..N /\ ~Migrating(g[m], c + m) /\ m # 0
    BY <1>4
  <2>4. m - 1 \in 0..N /\ m - 1 < m /\ m \in 1..N
    BY <1>3, <2>3
  <2>5. Migrating(g[m - 1], c + (m - 1))
    BY <2>2, <2>4
  <2> HIDE DEF T
  <2>6. /\ c + (m - 1) \in Int /\ c + m - 1 = c + (m - 1) /\ c + (m - 1) + 1 = c + m
    BY <1>3, <2>4
  <2>7. g[m] = MigrateOneIndex(g[m - 1], c + (m - 1), p, last)
    BY <1>2, <2>4, <2>6
  <2>8. Migrating(MigrateOneIndex(g[m - 1], c + (m - 1), p, last), c + (m - 1) + 1)
    BY <2>5, <2>6, MigrateOneFaithful
  <2> QED
    BY <2>3, <2>6, <2>7, <2>8
<1>6. Migrating(g[N], c + N)
  BY <1>3, <1>5
<1> QED
  BY <1>2, <1>3, <1>6

-----------------------------------------------------------------------------
(* The formats of the events, the keyframes and the models                  *)

\* The events in use are in the format that the index of their position says, but for model
\* migrations, which leave older events as they are.
EventFormats ==
    \A p \in Positions :
        LET index == IF db.positions[p] = -1 THEN target ELSE db.positions[p]
        IN  IF index <= eventTarget THEN db.events[p] = index
            ELSE db.events[p] \in eventTarget..index

\* A migrated position has migrated events in the format that migration_positions says, or
\* the ones in use are in it, or no event migration will look at it again.
MigratedFormats ==
    \A p \in DOMAIN db.migration_positions :
        \/ db.migration_positions[p] = db.positions[p]
        \/ p \in DOMAIN db.migration_events /\ db.migration_events[p] = db.migration_positions[p]
        \/ db.positions[p] >= eventTarget /\ eventTarget < target

\* Between the exchange of the events and the update of the index all events are in the
\* format of the target.
EventsInv ==
    /\ DOMAIN db.events = Positions /\ DOMAIN db.migration_events \subseteq Positions
    /\ IF proc.step = "index" THEN \A p \in Positions : db.events[p] = eventTarget
       ELSE EventFormats /\ MigratedFormats

\* The models may be those of the migrated events from the time that finalize has replaced
\* them until it has exchanged the events, in this or in a later attempt.
ModelsReplaced ==
    /\ ~online /\ ~Finalized /\ ToMigrate
    /\ \/ proc.step \in {"idle", "checks", "state", "plan", "positions", "current", "aux",
                         "fill", "keyframes", "swap", "resetKeyframes"}
       \/ proc.step = "clean" /\ proc.cmd = "reset"

ModelsInv ==
    /\ db.id_sequences \in Int
    /\ ModelsMatchEvents \/ ModelsReplaced
    /\ proc.step \in {"keyframes", "swap"} =>
          db.models = Content(Max(Positions), eventTarget) /\ db.id_sequences > Len(db.models)

FormatInv == EventsInv /\ Faithful(db.migration_keyframes) /\ ModelsInv

\* The content at a position does not depend on anything but the positions.
LEMMA SameContent ==
    ASSUME Positions' = Positions
    PROVE  \A p, index : Content(p, index)' = Content(p, index)
BY DEF Content

\* A step that leaves the positions and the keyframes leaves them faithful.
LEMMA SameKeyframes ==
    ASSUME Positions' = Positions, Faithful(db.migration_keyframes),
           db'.migration_keyframes = db.migration_keyframes
    PROVE  Faithful(db.migration_keyframes)'
BY SameContent DEF Faithful

SameFormats ==
    /\ SamePlaces /\ db'.events = db.events /\ db'.migration_events = db.migration_events

\* Steps that leave the events and the indices ...
LEMMA SameFormatsFacts ==
    ASSUME SameFormats, EventsInv, proc.step # "index", proc'.step # "index"
    PROVE  EventsInv'
<1>1. Positions' = Positions
  BY DEF SameFormats, SamePlaces, Positions
<1>2. EventFormats' /\ MigratedFormats'
  BY <1>1 DEF SameFormats, SamePlaces, EventsInv, EventFormats, MigratedFormats
<1> QED
  BY <1>1, <1>2 DEF EventsInv, SameFormats

SameModels ==
    /\ Positions' = Positions /\ db'.events = db.events
    /\ db'.models = db.models /\ db'.id_sequences = db.id_sequences

\* ... and the models.
LEMMA SameModelsFacts ==
    ASSUME SameModels, ModelsInv, ModelsReplaced => ModelsReplaced',
           proc'.step \notin {"keyframes", "swap"}
    PROVE  ModelsInv'
<1>1. ModelsMatchEvents' = ModelsMatchEvents
  BY DEF SameModels, ModelsMatchEvents
<1> QED
  BY <1>1 DEF SameModels, ModelsInv

SameState ==
    /\ SameFormats /\ db'.migration_keyframes = db.migration_keyframes
    /\ db'.models = db.models /\ db'.id_sequences = db.id_sequences

\* What is left to show of a step that leaves all of these tables.
LEMMA SameStateKeeps ==
    ASSUME SameState, FormatInv, proc.step # "index",
           proc'.step \notin {"index", "keyframes", "swap"}, ModelsReplaced => ModelsReplaced'
    PROVE  FormatInv'
<1>1. Positions' = Positions
  BY DEF SameState, SameFormats, SamePlaces, Positions
<1>2. EventsInv'
  BY SameFormatsFacts DEF SameState, FormatInv
<1>3. Faithful(db.migration_keyframes)'
  BY <1>1, SameKeyframes DEF SameState, FormatInv
<1>4. SameModels
  BY <1>1 DEF SameState, SameFormats, SameModels
<1>5. ModelsInv'
  BY <1>4, SameModelsFacts DEF FormatInv
<1> QED
  BY <1>2, <1>3, <1>5 DEF FormatInv

\* Whether there is something to migrate depends on the positions.
LEMMA SameToMigrate ==
    ASSUME SamePlaces
    PROVE  ToMigrate' = ToMigrate /\ Positions' = Positions
BY DEF SamePlaces, ToMigrate, AllAt, Positions

\* Steps that only decide how to go on: while there is something to migrate, finalize goes on
\* to migrate it.
LEMMA DecidingKeepsFormats ==
    ASSUME CommandInv, PlaceInv, FormatInv, GetMigrationState \/ PlanEventMigration \/ ReadIndex
    PROVE  FormatInv'
<1>1. /\ Shape /\ db' = db /\ UNCHANGED Others /\ proc.step \in {"state", "plan", "current"}
      /\ Positions # {}
  BY DEF GetMigrationState, PlanEventMigration, ReadIndex, At, CommandInv, Discipline
<1>2. SameState /\ online' = online
  BY <1>1 DEF SameState, SameFormats, SamePlaces, Others
<1>3. \/ End("refused") \/ proc'.step \in {"plan", "positions", "current", "aux"}
      \/ /\ End("ok") \/ Goto("modelplan")
         /\ ConsistentIndex
         /\ \/ proc.step = "state" /\ ~(MigrationState = "migrate")
               /\ ~(MigrationState = "finalize" /\ proc.cmd = "finalize")
            \/ proc.step = "current" /\ ~(CurrentIndex < eventTarget)
  <2>1. CASE GetMigrationState
    <3>1. \/ End("refused") \/ Goto("plan") \/ Goto("current")
          \/ /\ End("ok") /\ ConsistentIndex /\ ~(MigrationState = "migrate")
             /\ ~(MigrationState = "finalize" /\ proc.cmd = "finalize")
      BY <2>1 DEF GetMigrationState
    <3> QED
      BY <1>1, <2>1, <3>1, GotoFacts DEF GetMigrationState, At
  <2>2. CASE PlanEventMigration
    BY <1>1, <2>2 DEF PlanEventMigration, Shape
  <2>3. CASE ReadIndex
    <3>1. \/ End("refused") \/ Goto("aux")
          \/ (End("ok") \/ Goto("modelplan")) /\ ConsistentIndex /\ ~(CurrentIndex < eventTarget)
      BY <2>3 DEF ReadIndex, GotoOrEnd, AfterEvents
    <3> QED
      BY <1>1, <2>3, <3>1, GotoFacts DEF ReadIndex, At
  <2> QED
    BY <2>1, <2>2, <2>3
<1>4. proc'.step \in {"idle", "plan", "positions", "current", "aux", "modelplan"}
  BY <1>1, <1>3, GotoFacts, EndFacts
<1>5. ASSUME ModelsReplaced PROVE ModelsReplaced'
  <2>1. ToMigrate /\ ToMigrate' /\ ~online'
    BY <1>2, <1>5, SameToMigrate DEF ModelsReplaced, SameState, SameFormats
  <2>2. CASE End("refused")
    BY <1>1, <2>1, <2>2, EndFacts DEF ModelsReplaced, Finalized, At
  <2>3. CASE proc'.step \in {"plan", "positions", "current", "aux"}
    BY <2>1, <2>3 DEF ModelsReplaced, Finalized, At
  <2>4. CASE /\ End("ok") \/ Goto("modelplan")
             /\ ConsistentIndex
             /\ \/ proc.step = "state" /\ ~(MigrationState = "migrate")
                   /\ ~(MigrationState = "finalize" /\ proc.cmd = "finalize")
                \/ proc.step = "current" /\ ~(CurrentIndex < eventTarget)
    <3>1. PICK p \in Positions : TRUE
      BY <1>1
    <3>2. CurrentIndex < eventTarget
      <4>1. Uniform
        BY <1>1, <2>4, ConsistentMeansUniform
      <4>2. db.positions[p] = CurrentIndex
        BY <1>1, <3>1, <4>1, IndexOfAll
      <4>3. db.positions[p] \in 1..(eventTarget - 1) /\ eventTarget \in Nat
        BY <1>1, <2>1, <3>1 DEF ToMigrate, AllAt, Shape
      <4> QED
        BY <4>2, <4>3
    <3>3. MigrationState \in {"migrate", "finalize"}
      BY <3>2 DEF MigrationState
    <3>4. proc.step = "state" /\ proc.cmd # "finalize"
      BY <2>4, <3>2, <3>3
    <3>5. ~Goto("modelplan")
      <4>1. ~(ReadIndex \/ PlanEventMigration)
        BY <3>4 DEF ReadIndex, PlanEventMigration, At
      <4>2. GetMigrationState
        BY <4>1
      <4>3. proc'.step \in {"idle", "plan", "current"}
        BY <1>1, <4>2, GotoFacts, EndFacts DEF GetMigrationState
      <4> QED
        BY <1>1, <4>3, GotoFacts
    <3>6. proc'.step = "idle" /\ proc'.cmd # "finalize"
      BY <1>1, <2>4, <3>4, <3>5, EndFacts
    <3> QED
      BY <2>1, <3>6 DEF ModelsReplaced, Finalized, At
  <2> QED
    BY <1>3, <2>2, <2>3, <2>4
<1> QED
  BY <1>1, <1>2, <1>4, <1>5, SameStateKeeps

\* The transaction that follows the exchange of the events does not fail.
NoStopAfterSwap == "index" \notin StopSteps

\* The end of a command that stops, and what the operator does but for new migrations.
LEMMA OperatorKeepsFormats ==
    ASSUME CommandInv, FormatInv, NoStopAfterSwap, Stop \/ (Operator /\ ~RegisterMigration)
    PROVE  FormatInv'
<1>1. /\ Shape /\ db' = db /\ eventTarget' = eventTarget /\ target' = target
      /\ writing' = writing
  BY DEF Stop, Operator, StartMigrate, StartReset, StartFinalize, RunAgain, BringOnline,
         Others, CommandInv
<1>2. SameState
  BY <1>1 DEF SameState, SameFormats, SamePlaces
<1>3. proc.step # "index" /\ proc'.step \in {"idle", "checks"}
  <2>1. CASE Stop
    BY <1>1, <2>1, EndFacts DEF Stop, NoStopAfterSwap
  <2>2. CASE StartMigrate \/ StartReset \/ StartFinalize \/ RunAgain
    BY <1>1, <2>2, StartFacts DEF StartMigrate, StartReset, StartFinalize, RunAgain, At
  <2>3. CASE BringOnline
    BY <2>3 DEF BringOnline, Finalized, At
  <2> QED
    BY <2>1, <2>2, <2>3 DEF Operator
<1>4. ASSUME ModelsReplaced PROVE ModelsReplaced'
  <2>1. ToMigrate' /\ ~online /\ ~Finalized
    BY <1>2, <1>4, SameToMigrate DEF ModelsReplaced, SameState, SameFormats
  <2>2. Stop \/ RunAgain
    BY <2>1 DEF Operator, StartMigrate, StartReset, StartFinalize, BringOnline
  <2>3. ~online'
    BY <2>1, <2>2 DEF Stop, RunAgain, Others
  <2>4. (proc'.step = "idle" /\ proc'.outcome = "stopped") \/ proc'.step = "checks"
    BY <1>1, <2>2, EndFacts, StartFacts DEF Stop, RunAgain
  <2> QED
    BY <2>1, <2>3, <2>4 DEF ModelsReplaced, Finalized, At
<1> QED
  BY <1>2, <1>3, <1>4, SameStateKeeps

\* A write that begins or fails.
LEMMA NoWriteKeepsFormats ==
    ASSUME CommandInv, FormatInv, BeginWrite \/ FailWrite
    PROVE  FormatInv'
<1>1. Shape /\ online /\ proc' = proc /\ eventTarget' = eventTarget /\ target' = target
  BY DEF BeginWrite, FailWrite, CommandInv, Discipline
<1>2. /\ db'.positions = db.positions /\ db'.events = db.events /\ db'.models = db.models
      /\ db'.id_sequences = db.id_sequences
      /\ db'.migration_positions = db.migration_positions
      /\ db'.migration_events = db.migration_events
      /\ db'.migration_keyframes = db.migration_keyframes
  <2>1. CASE BeginWrite
    BY <2>1 DEF BeginWrite
  <2>2. CASE FailWrite
    BY <1>1, <2>2 DEF FailWrite, Shape
  <2> QED
    BY <2>1, <2>2
<1>3. Positions' = Positions
  BY <1>2 DEF Positions
<1>4. proc.step \notin FinalizeSteps
  BY <1>1 DEF CommandInv, Discipline, FinalizeSteps
<1>5. EventFormats' /\ MigratedFormats'
  BY <1>1, <1>2, <1>3, <1>4 DEF FormatInv, EventsInv, EventFormats, MigratedFormats, FinalizeSteps
<1>6. EventsInv'
  BY <1>1, <1>2, <1>3, <1>4, <1>5 DEF FormatInv, EventsInv, FinalizeSteps
<1>7. Faithful(db.migration_keyframes)'
  BY <1>2, <1>3, SameKeyframes DEF FormatInv
<1>8. ~ModelsReplaced /\ SameModels /\ proc'.step \notin {"keyframes", "swap"}
  BY <1>1, <1>2, <1>3, <1>4 DEF ModelsReplaced, SameModels, FinalizeSteps
<1>9. ModelsInv'
  BY <1>8, SameModelsFacts DEF FormatInv
<1> QED
  BY <1>6, <1>7, <1>9 DEF FormatInv

\* run_checks: the index that it sets is the one that the events are in.
LEMMA ChecksKeepFormats ==
    ASSUME CommandInv, PlaceInv, FormatInv, RunChecks
    PROVE  FormatInv'
<1>1. Shape /\ UNCHANGED Others /\ proc.step = "checks"
  BY DEF RunChecks, CommandInv, At
<1>2. CASE db' = db
  <2>1. SameState /\ online' = online
    BY <1>1, <1>2 DEF SameState, SameFormats, SamePlaces, Others
  <2>2. \/ Positions = {} /\ proc'.step \in {"idle", "auxOnly"}
        \/ proc'.step = "idle" /\ proc'.outcome = "refused"
        \/ proc'.step \in {"resetKeyframes", "state"}
        \/ -1 \in Values(db.positions) /\ proc'.step \in {"idle", "auxOnly"}
    <3>1. \/ Positions = {} /\ (End("ok") \/ Goto("auxOnly"))
          \/ End("refused") \/ Goto("resetKeyframes") \/ Goto("state")
          \/ Positions # {} /\ ValidIndex /\ CurrentIndex = -1 /\ (End("ok") \/ Goto("auxOnly"))
      BY DEF RunChecks
    <3>2. Positions # {} /\ ValidIndex /\ CurrentIndex = -1 => -1 \in Values(db.positions)
      BY <1>1, ConsistentMeansUniform, IndexOfAll DEF ValidIndex, Values, Positions
    <3> QED
      BY <1>1, <3>1, <3>2, GotoFacts, EndFacts
  <2>3. ASSUME ModelsReplaced PROVE ModelsReplaced'
    <3>1. ToMigrate' /\ ~online' /\ ToMigrate
      BY <2>1, <2>3, SameToMigrate DEF ModelsReplaced, SameState, SameFormats
    <3>2. Positions # {} /\ -1 \notin Values(db.positions)
      BY <3>1 DEF ToMigrate, AllAt, Values, Positions
    <3> QED
      BY <2>2, <3>1, <3>2 DEF ModelsReplaced, Finalized, At
  <2> QED
    BY <1>1, <2>1, <2>2, <2>3, SameStateKeeps
<1>3. CASE db' # db
  <2>1. /\ Positions # {} /\ ValidIndex /\ CurrentIndex = -1
        /\ db' = [db EXCEPT !.positions = SetIndex(@, target),
                              !.migration_events = <<>>, !.migration_positions = <<>>,
                              !.migration_keyframes = <<>>]
        /\ End("ok") \/ Goto("auxOnly")
    BY <1>3 DEF RunChecks
  <2>2. /\ db'.positions = [p \in Positions |-> target] /\ db'.events = db.events
        /\ db'.models = db.models /\ db'.id_sequences = db.id_sequences
        /\ DOMAIN db'.migration_positions = {} /\ DOMAIN db'.migration_events = {}
        /\ DOMAIN db'.migration_keyframes = {}
    BY <1>1, <2>1 DEF Shape, SetIndex, Positions
  <2>3. Positions' = Positions /\ \A p \in Positions : db'.positions[p] = target
    BY <2>2 DEF Positions
  <2>4. \A p \in Positions : db.positions[p] = -1
    BY <1>1, <2>1, ConsistentMeansUniform, IndexOfAll DEF ValidIndex
  <2>5. eventTarget' = eventTarget /\ target' = target /\ target \in Nat
    BY <1>1 DEF Others, Shape
  <2>6. EventFormats' /\ MigratedFormats'
    <3>1. EventFormats
      BY <1>1 DEF FormatInv, EventsInv
    <3> QED
      BY <2>2, <2>3, <2>4, <2>5, <3>1 DEF EventFormats, MigratedFormats
  <2>7. proc'.step \in {"idle", "auxOnly"}
    BY <1>1, <2>1, GotoFacts, EndFacts
  <2>8. EventsInv'
    BY <2>2, <2>3, <2>6, <2>7 DEF FormatInv, EventsInv
  <2>9. Faithful(db.migration_keyframes)'
    BY <2>2 DEF Faithful
  <2>10. ~ModelsReplaced
    <3>1. ~ToMigrate
      BY <2>1, <2>4 DEF ToMigrate, AllAt
    <3> QED
      BY <3>1 DEF ModelsReplaced
  <2>11. ModelsInv'
    BY <2>2, <2>3, <2>7, <2>10, SameModelsFacts DEF FormatInv, SameModels
  <2> QED
    BY <2>8, <2>9, <2>11 DEF FormatInv
<1> QED
  BY <1>2, <1>3

\* The events that migrate_position starts with are in the format of the index that it
\* starts from.
LEMMA EventsToMigrateFit ==
    ASSUME CommandInv, PlaceInv, FormatInv, proc.step = "positions", NEW p \in Positions
    PROVE  /\ EventsToMigrate(p) = IndexOf(p)
           /\ IndexOf(p) \in Int /\ IndexOf(p) <= eventTarget
<1>1. /\ eventTarget \in Nat /\ target \in Nat
      /\ db.positions[p] \in Int /\ 1 <= db.positions[p] /\ db.positions[p] < eventTarget
  BY DEF CommandInv, Shape, PlaceInv, StepInv, ToMigrate, AllAt
<1>2. EventFormats /\ MigratedFormats
  BY DEF FormatInv, EventsInv
<1>3. db.events[p] = db.positions[p]
  BY <1>1, <1>2 DEF EventFormats
<1>4. CASE p \notin DOMAIN db.migration_positions
  BY <1>1, <1>3, <1>4 DEF IndexOf, EventsToMigrate
<1>5. CASE p \in DOMAIN db.migration_positions
  <2>1. db.migration_positions[p] \in 1..eventTarget
    BY <1>5 DEF PlaceInv, RowsInv
  <2>2. \/ db.migration_positions[p] = db.positions[p]
        \/ db.migration_events[p] = db.migration_positions[p]
    BY <1>1, <1>2, <1>5 DEF MigratedFormats
  <2> QED
    BY <1>1, <1>3, <1>5, <2>1, <2>2 DEF IndexOf, EventsToMigrate
<1> QED
  BY <1>4, <1>5

\* migrate_position: its events come out in the format of the target and its keyframes are
\* the content at the position.
LEMMA MigrateNextKeepsFormats ==
    ASSUME CommandInv, PlaceInv, FormatInv, MigrateNextPosition
    PROVE  FormatInv'
<1> DEFINE p == Head(proc.todo)
           m == MigratePosition(p, proc.last)
<1>1. /\ Shape /\ proc.step = "positions" /\ UNCHANGED Others
      /\ eventTarget' = eventTarget /\ target' = target /\ online' = online /\ writing' = writing
  BY DEF CommandInv, MigrateNextPosition, At, Others
<1>2. CASE End("refused") /\ UNCHANGED db
  <2>1. SameState
    BY <1>1, <1>2 DEF SameState, SameFormats, SamePlaces
  <2>2. proc'.step = "idle" /\ proc'.outcome = "refused"
    BY <1>1, <1>2, EndFacts
  <2>3. ModelsReplaced => ModelsReplaced'
    <3>1. ToMigrate' = ToMigrate
      BY <2>1, SameToMigrate DEF SameState, SameFormats
    <3> QED
      BY <1>1, <2>2, <3>1 DEF ModelsReplaced, Finalized, At
  <2> QED
    BY <1>1, <2>1, <2>2, <2>3, SameStateKeeps
<1>3. CASE ~(End("refused") /\ UNCHANGED db)
  <2>1. /\ p \in Positions /\ proc.last < p /\ proc.last \in Nat
        /\ \A q \in Positions : q < p => q <= proc.last
        /\ m.ok
        /\ db'.positions = db.positions /\ db'.events = db.events
        /\ db'.models = db.models /\ db'.id_sequences = db.id_sequences
        /\ db'.migration_keyframes = m.keyframes
        /\ db'.migration_events = With(db.migration_events, p, m.format)
        /\ db'.migration_positions = With(db.migration_positions, p, eventTarget)
        /\ \/ proc'.step = "idle" /\ proc'.cmd = proc.cmd /\ proc.cmd # "finalize"
           \/ proc'.step = "positions" \/ proc'.step = "current"
    BY <1>3, NextPositionFacts
  <2> HIDE DEF p
  <2>2. EventsToMigrate(p) = IndexOf(p) /\ IndexOf(p) \in Int /\ IndexOf(p) <= eventTarget
    BY <1>1, <2>1, EventsToMigrateFit
  <2>3. Faithful(db.migration_keyframes)
    BY DEF FormatInv
  <2>4. Migrating(m, eventTarget)
    BY <1>1, <2>1, <2>2, <2>3, MigratePositionFaithful
  <2> HIDE DEF m
  <2>5. m.format = eventTarget /\ Faithful(m.keyframes)
    BY <2>1, <2>4 DEF Migrating
  <2>6. Positions' = Positions
    BY <2>1 DEF Positions
  <2>7. Faithful(db.migration_keyframes)'
    <3>1. /\ DOMAIN db'.migration_keyframes \subseteq Positions \X Int
          /\ \A k \in DOMAIN db'.migration_keyframes :
                db'.migration_keyframes[k] = Content(k[1], k[2])
      BY <2>1, <2>5 DEF Faithful
    <3> QED
      BY <2>6, <3>1, SameContent DEF Faithful
  <2>8. EventFormats' /\ MigratedFormats'
    <3>1. EventFormats /\ MigratedFormats
      BY <1>1 DEF FormatInv, EventsInv
    <3>2. EventFormats'
      BY <1>1, <2>1, <2>6, <3>1 DEF EventFormats
    <3>3. ASSUME NEW q \in DOMAIN db'.migration_positions
          PROVE  \/ db'.migration_positions[q] = db'.positions[q]
                 \/ q \in DOMAIN db'.migration_events
                    /\ db'.migration_events[q] = db'.migration_positions[q]
                 \/ db'.positions[q] >= eventTarget /\ eventTarget < target
      <4>1. CASE q = p
        BY <2>1, <2>5, <4>1 DEF With
      <4>2. CASE q # p
        <5>1. /\ q \in DOMAIN db.migration_positions
              /\ db'.migration_positions[q] = db.migration_positions[q]
          BY <2>1, <4>2 DEF With
        <5>2. q \in DOMAIN db.migration_events =>
                q \in DOMAIN db'.migration_events /\ db'.migration_events[q] = db.migration_events[q]
          BY <2>1, <4>2 DEF With
        <5> QED
          BY <2>1, <3>1, <5>1, <5>2 DEF MigratedFormats
      <4> QED
        BY <4>1, <4>2
    <3> QED
      BY <1>1, <3>2, <3>3 DEF MigratedFormats
  <2>9. EventsInv'
    <3>1. DOMAIN db'.migration_events = DOMAIN db.migration_events \cup {p}
      BY <2>1 DEF With
    <3> QED
      BY <2>1, <2>6, <2>8, <3>1 DEF FormatInv, EventsInv
  <2>10. ModelsReplaced => ModelsReplaced'
    <3>1. ToMigrate' = ToMigrate
      BY <1>1, <2>1, <2>6 DEF ToMigrate, AllAt
    <3> QED
      BY <1>1, <2>1, <3>1 DEF ModelsReplaced, Finalized, At
  <2>11. ModelsInv'
    BY <2>1, <2>6, <2>10, SameModelsFacts DEF FormatInv, SameModels
  <2> QED
    BY <2>7, <2>9, <2>11 DEF FormatInv
<1> QED
  BY <1>2, <1>3

\* The lock tables are emptied, and the model migrations planned.
LEMMA AuxTablesKeepFormats ==
    ASSUME CommandInv, FormatInv, DeleteCollectionfieldAuxTables \/ PlanModelMigration
    PROVE  FormatInv'
<1>1. /\ Shape /\ UNCHANGED Others
      /\ proc.step \in {"aux", "auxOnly", "aux2", "modelplan"}
  BY DEF CommandInv, DeleteCollectionfieldAuxTables, PlanModelMigration, At
<1>2. /\ db'.positions = db.positions /\ db'.events = db.events /\ db'.models = db.models
      /\ db'.id_sequences = db.id_sequences
      /\ db'.migration_positions = db.migration_positions
      /\ db'.migration_events = db.migration_events
      /\ db'.migration_keyframes = db.migration_keyframes
  BY <1>1 DEF DeleteCollectionfieldAuxTables, PlanModelMigration, Shape
<1>3. SameState /\ online' = online
  BY <1>1, <1>2 DEF SameState, SameFormats, SamePlaces, Others
<1>4. /\ proc'.step \in {"idle", "fill", "index2", "models", "aux2"}
      /\ proc.step = "aux" => proc'.step = "fill"
  <2>1. CASE DeleteCollectionfieldAuxTables
    BY <1>1, <2>1, GotoFacts, EndFacts DEF DeleteCollectionfieldAuxTables, At
  <2>2. CASE PlanModelMigration
    <3>1. End("refused") \/ proc'.step \in {"models", "aux2"}
      BY <1>1, <2>2 DEF PlanModelMigration, Shape
    <3> QED
      BY <1>1, <2>2, <3>1, EndFacts DEF PlanModelMigration, At
  <2> QED
    BY <2>1, <2>2
<1>5. ModelsReplaced => ModelsReplaced'
  <2>1. ToMigrate' = ToMigrate
    BY <1>3, SameToMigrate DEF SameState, SameFormats
  <2> QED
    BY <1>1, <1>3, <1>4, <2>1 DEF ModelsReplaced, Finalized, At
<1> QED
  BY <1>1, <1>3, <1>4, <1>5, SameStateKeeps

\* The content at the highest position is that of the datastore.
LEMMA WholeContent ==
    ASSUME Shape, Positions # {}, NEW index
    PROVE  LET ps == Ascending(Positions)
           IN  /\ Content(Max(Positions), index) = [i \in DOMAIN ps |-> <<ps[i], index>>]
               /\ Len(Content(Max(Positions), index)) \in Nat
               /\ Max(Positions) \in Positions
               /\ IsAscending(ps, Positions)
<1> DEFINE ps == Ascending(Positions)
           c == Cardinality(Positions)
           n == db.position_seq
           top == Max(Positions)
<1>1. n \in Nat /\ Positions \in SUBSET (1..n)
  BY DEF Shape
<1>2. \A q \in Positions : q \in Nat /\ 1 <= q /\ q <= n
  BY <1>1
<1>3. top \in Positions /\ \A q \in Positions : q <= top
  <2>1. Positions \in SUBSET (0..n)
    BY <1>1
  <2> QED
    BY <1>1, <2>1, MaxFacts
<1>4. UpTo(top) = Positions
  BY <1>3 DEF UpTo
<1>5. IsAscending(ps, Positions) /\ c \in Nat
  BY <1>2, <1>3, <1>4, UpToFacts
<1>6. Content(top, index) = [i \in DOMAIN ps |-> <<ps[i], index>>]
  BY <1>4 DEF Content, UpTo
<1>7. DOMAIN ps = 1..c
  BY <1>5 DEF IsAscending
<1> HIDE DEF ps, c, top
<1>8. Len(Content(top, index)) = c
  BY <1>5, <1>6, <1>7
<1> QED
  BY <1>3, <1>5, <1>6, <1>8 DEF ps, c, top

\* fill_models_aux_tables and fill_id_sequences_table: they copy the keyframe of the target.
LEMMA FillKeepsFormats ==
    ASSUME CommandInv, PlaceInv, FormatInv, FillModelsAndIdSequences
    PROVE  FormatInv'
<1>1. /\ Shape /\ proc.step = "fill" /\ UNCHANGED Others /\ proc.cmd = "finalize" /\ ToMigrate
      /\ Positions # {}
  BY DEF CommandInv, FillModelsAndIdSequences, At, Discipline, FinalizeSteps, PlaceInv, StepInv,
         ToMigrate
<1>2. CASE End("refused") /\ UNCHANGED db
  <2>1. SameState /\ online' = online
    BY <1>1, <1>2 DEF SameState, SameFormats, SamePlaces, Others
  <2>2. proc'.step = "idle" /\ proc'.outcome = "refused"
    BY <1>1, <1>2, EndFacts
  <2>3. ModelsReplaced => ModelsReplaced'
    <3>1. ToMigrate' = ToMigrate
      BY <2>1, SameToMigrate DEF SameState, SameFormats
    <3> QED
      BY <2>1, <2>2, <3>1 DEF ModelsReplaced, Finalized, At
  <2> QED
    BY <1>1, <2>1, <2>2, <2>3, SameStateKeeps
<1>3. CASE ~(End("refused") /\ UNCHANGED db)
  <2> DEFINE k == <<Max(Positions), eventTarget>>
  <2>1. /\ k \in DOMAIN db.migration_keyframes /\ Goto("keyframes")
        /\ db' = [db EXCEPT !.models = db.migration_keyframes[k],
                            !.id_sequences = RebuiltIdSequences(db.migration_keyframes[k])]
    BY <1>3 DEF FillModelsAndIdSequences, KeyframeToCopy
  <2>2. db.migration_keyframes[k] = Content(Max(Positions), eventTarget)
    BY <2>1 DEF FormatInv, Faithful
  <2>3. /\ db'.positions = db.positions /\ db'.events = db.events
        /\ db'.migration_positions = db.migration_positions
        /\ db'.migration_events = db.migration_events
        /\ db'.migration_keyframes = db.migration_keyframes
        /\ db'.models = Content(Max(Positions), eventTarget)
        /\ db'.id_sequences = Len(Content(Max(Positions), eventTarget)) + 1
    BY <1>1, <2>1, <2>2 DEF Shape, RebuiltIdSequences
  <2>4. SameFormats /\ SamePlaces /\ Positions' = Positions
    BY <1>1, <2>3 DEF SameFormats, SamePlaces, Others, Positions
  <2>5. proc'.step = "keyframes" /\ eventTarget' = eventTarget
    BY <1>1, <2>1, GotoFacts DEF Others
  <2>6. EventsInv'
    BY <1>1, <2>4, <2>5, SameFormatsFacts DEF FormatInv
  <2>7. Faithful(db.migration_keyframes)'
    BY <2>3, <2>4, SameKeyframes DEF FormatInv
  <2>8. ModelsReplaced'
    <3>1. ~online' /\ ToMigrate'
      BY <1>1, <2>4, SameToMigrate, FinalizeAlone DEF Others
    <3> QED
      BY <2>5, <3>1 DEF ModelsReplaced, Finalized, At
  <2>9. /\ db'.models = Content(Max(Positions), eventTarget)'
        /\ db'.id_sequences \in Int /\ db'.id_sequences > Len(db'.models)
    <3>1. Len(Content(Max(Positions), eventTarget)) \in Nat
      BY <1>1, WholeContent
    <3>2. Content(Max(Positions), eventTarget)' = Content(Max(Positions), eventTarget)
      BY <2>4, <2>5 DEF Content
    <3> QED
      BY <2>3, <3>1, <3>2
  <2>10. ModelsInv'
    BY <2>5, <2>8, <2>9 DEF ModelsInv
  <2> QED
    BY <2>6, <2>7, <2>10 DEF FormatInv
<1> QED
  BY <1>2, <1>3

\* _delete_migration_keyframes
LEMMA DeleteKeyframesKeepsFormats ==
    ASSUME CommandInv, PlaceInv, FormatInv, DeleteMigrationKeyframes
    PROVE  FormatInv'
<1>1. Shape /\ UNCHANGED Others /\ proc.step \in {"keyframes", "resetKeyframes"}
  BY DEF CommandInv, DeleteMigrationKeyframes, At
<1>2. /\ db'.positions = db.positions /\ db'.events = db.events /\ db'.models = db.models
      /\ db'.id_sequences = db.id_sequences
      /\ db'.migration_positions = db.migration_positions
      /\ db'.migration_events = db.migration_events
      /\ DOMAIN db'.migration_keyframes = {}
  BY <1>1 DEF DeleteMigrationKeyframes, Shape
<1>3. SameFormats /\ SamePlaces /\ Positions' = Positions /\ online' = online
      /\ eventTarget' = eventTarget
  BY <1>1, <1>2 DEF SameFormats, SamePlaces, Others, Positions
<1>4. /\ proc.step = "keyframes" => proc'.step = "swap"
      /\ proc.step = "resetKeyframes" => proc'.step = "clean" /\ proc'.cmd = "reset"
  BY <1>1, GotoFacts DEF DeleteMigrationKeyframes, At, CommandInv, Discipline
<1>5. EventsInv'
  BY <1>1, <1>3, <1>4, SameFormatsFacts DEF FormatInv
<1>6. Faithful(db.migration_keyframes)'
  BY <1>2 DEF Faithful
<1>7. ModelsReplaced => ModelsReplaced'
  <2>1. ToMigrate' = ToMigrate
    BY <1>3, SameToMigrate
  <2> QED
    BY <1>1, <1>3, <1>4, <2>1 DEF ModelsReplaced, Finalized, At
<1>8. ModelsMatchEvents' = ModelsMatchEvents
  BY <1>2, <1>3 DEF ModelsMatchEvents
<1>9. Content(Max(Positions), eventTarget)' = Content(Max(Positions), eventTarget)
  BY <1>3 DEF Content
<1>10. ModelsInv'
  BY <1>1, <1>2, <1>4, <1>7, <1>8, <1>9 DEF FormatInv, ModelsInv
<1> QED
  BY <1>5, <1>6, <1>10 DEF FormatInv

\* The exchange of the events: every position has migrated events in the format of the
\* target, and the models are theirs already.
LEMMA SwapKeepsFormats ==
    ASSUME CommandInv, PlaceInv, FormatInv, SwapEvents
    PROVE  FormatInv'
<1>1. /\ Shape /\ proc.step = "swap" /\ UNCHANGED Others /\ ToMigrate /\ Complete
      /\ Positions # {} /\ proc'.step = "index"
  BY GotoFacts DEF CommandInv, SwapEvents, At, PlaceInv, StepInv, ToMigrate
<1>2. /\ db'.positions = db.positions /\ db'.models = db.models
      /\ db'.id_sequences = db.id_sequences
      /\ db'.events = db.migration_events /\ db'.migration_events = db.events
      /\ db'.migration_keyframes = db.migration_keyframes
      /\ db'.migration_positions = db.migration_positions
  BY <1>1 DEF SwapEvents, Shape
<1>3. Positions' = Positions /\ eventTarget' = eventTarget
  BY <1>1, <1>2 DEF Positions, Others
<1>4. MigratedFormats /\ DOMAIN db.events = Positions /\ DOMAIN db.migration_events \subseteq Positions
  BY <1>1 DEF FormatInv, EventsInv
<1>5. \A p \in Positions : p \in DOMAIN db.migration_events /\ db.migration_events[p] = eventTarget
  <2> SUFFICES ASSUME NEW p \in Positions
               PROVE  p \in DOMAIN db.migration_events /\ db.migration_events[p] = eventTarget
    OBVIOUS
  <2>1. p \in DOMAIN db.migration_positions /\ db.migration_positions[p] = eventTarget
    BY <1>1 DEF Complete
  <2>2. db.positions[p] \in 1..(eventTarget - 1) /\ eventTarget \in Nat
    BY <1>1 DEF ToMigrate, AllAt, Shape
  <2> QED
    BY <1>4, <2>1, <2>2 DEF MigratedFormats
<1>6. EventsInv'
  BY <1>1, <1>2, <1>3, <1>4, <1>5 DEF EventsInv
<1>7. Faithful(db.migration_keyframes)'
  BY <1>2, <1>3, SameKeyframes DEF FormatInv
<1>8. ModelsMatchEvents'
  <2> DEFINE ps == Ascending(Positions)
  <2>1. /\ db.models = Content(Max(Positions), eventTarget)
        /\ db.id_sequences > Len(db.models)
    BY <1>1 DEF FormatInv, ModelsInv
  <2>2. /\ Content(Max(Positions), eventTarget) = [i \in DOMAIN ps |-> <<ps[i], eventTarget>>]
        /\ IsAscending(ps, Positions)
    BY <1>1, WholeContent
  <2>3. \A i \in DOMAIN ps : db.migration_events[ps[i]] = eventTarget
    BY <1>5, <2>2 DEF IsAscending
  <2>4. [i \in DOMAIN ps |-> <<ps[i], eventTarget>>]
            = [i \in DOMAIN ps |-> <<ps[i], db.migration_events[ps[i]]>>]
    <3> HIDE DEF ps
    <3> QED
      BY <2>3
  <2> QED
    BY <1>2, <1>3, <2>1, <2>2, <2>4 DEF ModelsMatchEvents
<1>9. ModelsInv'
  BY <1>1, <1>2, <1>8 DEF FormatInv, ModelsInv
<1> QED
  BY <1>6, <1>7, <1>9 DEF FormatInv

\* _update_migration_index, after the exchange of the events and after the model migrations.
LEMMA UpdateIndexKeepsFormats ==
    ASSUME CommandInv, PlaceInv, FormatInv, UpdateMigrationIndex \/ UpdateMigrationIndexToTarget
    PROVE  FormatInv'
<1> DEFINE index == IF proc.step = "index" THEN eventTarget ELSE target
<1>1. /\ Shape /\ proc.step \in {"index", "index2"}
      /\ eventTarget' = eventTarget /\ target' = target /\ proc'.step \in {"clean", "idle"}
      /\ eventTarget \in Nat /\ target \in Nat /\ eventTarget <= target /\ 1 <= eventTarget
  BY GotoFacts, EndFacts DEF CommandInv, Shape, UpdateMigrationIndex, Others,
                             UpdateMigrationIndexToTarget, At
<1>2. /\ db'.positions = SetIndex(db.positions, index)
      /\ db'.events = db.events /\ db'.models = db.models
      /\ db'.id_sequences = db.id_sequences
      /\ db'.migration_positions = db.migration_positions
      /\ db'.migration_events = db.migration_events
      /\ db'.migration_keyframes = db.migration_keyframes
  <2>1. CASE UpdateMigrationIndex
    BY <1>1, <2>1 DEF UpdateMigrationIndex, Shape, At
  <2>2. CASE UpdateMigrationIndexToTarget
    BY <1>1, <2>2 DEF UpdateMigrationIndexToTarget, Shape, At
  <2> QED
    BY <2>1, <2>2
<1>3. Positions' = Positions /\ \A p \in Positions : db'.positions[p] = index
  BY <1>2 DEF SetIndex, Positions
<1>4. CASE proc.step = "index"
  <2>1. index = eventTarget /\ Complete /\ \A p \in Positions : db.events[p] = eventTarget
    BY <1>4 DEF PlaceInv, StepInv, FormatInv, EventsInv
  <2>2. EventFormats'
    BY <1>1, <1>2, <1>3, <2>1 DEF EventFormats
  <2>3. MigratedFormats'
    BY <1>2, <1>3, <2>1 DEF MigratedFormats, Complete, PlaceInv, RowsInv
  <2> QED
    BY <1>1, <1>2, <1>3, <1>4, <2>2, <2>3, SameKeyframes, SameModelsFacts
       DEF FormatInv, EventsInv, SameModels, ModelsReplaced
<1>5. CASE proc.step = "index2"
  <2>1. index = target /\ eventTarget < target /\ AllAt(eventTarget..target)
    BY <1>5 DEF PlaceInv, StepInv
  <2>2. EventFormats
    BY <1>5 DEF FormatInv, EventsInv
  <2>3. \A p \in Positions : db.events[p] \in eventTarget..target
    <3> SUFFICES ASSUME NEW p \in Positions PROVE db.events[p] \in eventTarget..target
      OBVIOUS
    <3>1. db.positions[p] \in eventTarget..target
      BY <2>1 DEF AllAt
    <3> QED
      BY <1>1, <2>1, <2>2, <3>1 DEF EventFormats
  <2>4. EventFormats'
    BY <1>1, <1>2, <1>3, <2>1, <2>3 DEF EventFormats
  <2>5. MigratedFormats'
    <3>1. \A p \in DOMAIN db.migration_positions : p \in Positions
      BY DEF PlaceInv, RowsInv
    <3> QED
      BY <1>1, <1>2, <1>3, <2>1, <3>1 DEF MigratedFormats
  <2> QED
    BY <1>1, <1>2, <1>3, <1>5, <2>4, <2>5, SameKeyframes, SameModelsFacts
       DEF FormatInv, EventsInv, SameModels, ModelsReplaced
<1> QED
  BY <1>1, <1>4, <1>5

\* _clean_migration_data
LEMMA CleanKeepsFormats ==
    ASSUME CommandInv, FormatInv, CleanMigrationData
    PROVE  FormatInv'
<1>1. /\ Shape /\ proc.step = "clean" /\ UNCHANGED Others
      /\ eventTarget' = eventTarget /\ target' = target /\ online' = online
  BY DEF CommandInv, CleanMigrationData, At, Others
<1>2. /\ db'.positions = db.positions /\ db'.events = db.events /\ db'.models = db.models
      /\ db'.id_sequences = db.id_sequences
      /\ DOMAIN db'.migration_positions = {} /\ DOMAIN db'.migration_events = {}
      /\ db'.migration_keyframes = db.migration_keyframes
  BY <1>1 DEF CleanMigrationData, Shape
<1>3. Positions' = Positions
  BY <1>2 DEF Positions
<1>4. /\ proc'.step \in {"idle", "modelplan"} /\ proc'.cmd = proc.cmd
      /\ proc.cmd = "reset" => proc'.step = "idle"
  <2>1. End("ok") \/ (Goto("modelplan") /\ proc.cmd # "reset")
    BY DEF CleanMigrationData, GotoOrEnd, AfterEvents
  <2> QED
    BY <1>1, <2>1, GotoFacts, EndFacts
<1>5. EventFormats' /\ MigratedFormats'
  BY <1>1, <1>2, <1>3 DEF FormatInv, EventsInv, EventFormats, MigratedFormats
<1>6. EventsInv'
  BY <1>2, <1>3, <1>4, <1>5 DEF FormatInv, EventsInv
<1>7. Faithful(db.migration_keyframes)'
  BY <1>2, <1>3, SameKeyframes DEF FormatInv
<1>8. ModelsReplaced => ModelsReplaced'
  <2>1. ToMigrate' = ToMigrate
    BY <1>1, <1>2, <1>3 DEF ToMigrate, AllAt
  <2> QED
    BY <1>1, <1>4, <2>1 DEF ModelsReplaced, Finalized, At
<1>9. ModelsInv'
  BY <1>2, <1>3, <1>4, <1>8, SameModelsFacts DEF FormatInv, SameModels
<1> QED
  BY <1>6, <1>7, <1>9 DEF FormatInv

\* A new release: where it has a new event migration, the events are in the format of the
\* target so far, whichever it was.
LEMMA RegisterKeepsFormats ==
    ASSUME CommandInv, PlaceInv, FormatInv, RegisterMigration
    PROVE  FormatInv'
<1>1. /\ Shape /\ db' = db /\ proc' = proc /\ online' = online /\ proc.step = "idle"
      /\ target' = target + 1 /\ eventTarget' \in {eventTarget, eventTarget + 1}
      /\ eventTarget' # eventTarget => eventTarget = target /\ eventTarget' = target + 1
      /\ -1 \notin Values(db.positions)
      /\ eventTarget \in Nat /\ target \in Nat /\ eventTarget <= target
  BY DEF RegisterMigration, At, CommandInv, Shape
<1>2. Positions' = Positions /\ \A p \in Positions : db.positions[p] \in 1..target
  BY <1>1 DEF Positions, Values, PlaceInv, RowsInv, AllAt
<1>3. EventFormats /\ MigratedFormats
  BY <1>1 DEF FormatInv, EventsInv
<1>4. EventFormats'
  <2> SUFFICES ASSUME NEW p \in Positions
               PROVE  IF db.positions[p] <= eventTarget' THEN db.events[p] = db.positions[p]
                      ELSE db.events[p] \in eventTarget'..db.positions[p]
    BY <1>1, <1>2 DEF EventFormats
  <2>1. IF db.positions[p] <= eventTarget THEN db.events[p] = db.positions[p]
        ELSE db.events[p] \in eventTarget..db.positions[p]
    BY <1>2, <1>3 DEF EventFormats
  <2> QED
    BY <1>1, <1>2, <2>1
<1>5. MigratedFormats'
  BY <1>1, <1>2, <1>3 DEF MigratedFormats, PlaceInv, RowsInv
<1>6. EventsInv'
  BY <1>1, <1>2, <1>4, <1>5 DEF FormatInv, EventsInv
<1>7. Faithful(db.migration_keyframes)'
  BY <1>1, <1>2, SameKeyframes DEF FormatInv
<1>8. ModelsReplaced => ModelsReplaced'
  <2>1. ToMigrate => ToMigrate'
    BY <1>1, <1>2 DEF ToMigrate, AllAt
  <2> QED
    BY <1>1, <2>1 DEF ModelsReplaced, Finalized, At
<1>9. ModelsInv'
  BY <1>1, <1>2, <1>8, SameModelsFacts DEF FormatInv, SameModels
<1> QED
  BY <1>6, <1>7, <1>9 DEF FormatInv

\* insert_events leaves the content of the datastore at the positions before.
LEMMA InsertContent ==
    ASSUME Shape, RowsInv, NEW index, NEW format, db' = InsertEvents(db, index, format)
    PROVE  \A p \in Positions : \A i : Content(p, i)' = Content(p, i)
<1> SUFFICES ASSUME NEW p \in Positions, NEW i PROVE Content(p, i)' = Content(p, i)
  OBVIOUS
<1> DEFINE new == db.position_seq + 1
<1>1. Positions' = Positions \cup {new} /\ new \in Nat /\ \A q \in Positions : q < new /\ q \in Nat
  BY InsertPlaces
<1> HIDE DEF new
<1>2. {q \in Positions' : q <= p} = {q \in Positions : q <= p}
  BY <1>1
<1> QED
  BY <1>2 DEF Content

\* It applies the events to the models.
LEMMA InsertModels ==
    ASSUME Shape, RowsInv, DOMAIN db.events = Positions, db.id_sequences \in Int,
           NEW index, NEW format, db' = InsertEvents(db, index, format), ModelsMatchEvents
    PROVE  ModelsMatchEvents'
<1> DEFINE p == db.position_seq + 1
           s == Ascending(Positions)
           c == Cardinality(Positions)
           V == Nat \X (Values(db.events) \cup {format})
           t == [i \in 1..(c + 1) |-> IF i = c + 1 THEN p ELSE s[i]]
           row == <<p, format>>
<1>1. /\ p \notin Positions /\ Positions' = Positions \cup {p} /\ p \in Nat
      /\ \A q \in Positions : q < p /\ q \in Nat
  BY InsertPlaces
<1>2. /\ db'.events = With(db.events, p, format) /\ db'.models = Append(db.models, row)
      /\ db'.id_sequences = db.id_sequences + 1
  BY InsertFacts
<1>3. /\ Positions \in SUBSET (1..db.position_seq) /\ db.position_seq \in Nat
  BY DEF Shape
<1>4. IsAscending(s, Positions)
  BY <1>3, AscendingFacts
<1>5. c \in Nat /\ Cardinality(Positions \cup {p}) = c + 1 /\ IsAscending(t, Positions \cup {p})
  BY <1>1, <1>3, <1>4, AscendingNext
<1>6. Ascending(Positions') = t
  <2> DEFINE S == Positions \cup {p}
  <2>1. S \in SUBSET (1..p)
    <3>1. \A q \in Positions : 1 <= q
      BY <1>3
    <3>2. p >= 1
      BY <1>3
    <3> HIDE DEF p
    <3>3. \A q \in S : q \in 1..p
      BY <1>1, <3>1, <3>2
    <3> QED
      BY <3>3
  <2>2. IsAscending(Ascending(S), S)
    BY <1>1, <2>1, AscendingFacts
  <2>3. IsAscending(t, S)
    BY <1>5
  <2> HIDE DEF t, S
  <2>4. Ascending(S) = t
    BY <1>1, <2>1, <2>2, <2>3, AscendingUnique
  <2> QED
    BY <1>1, <2>4 DEF S
<1>7. DOMAIN s = 1..c /\ \A i \in 1..c : s[i] \in Positions
  BY <1>4 DEF IsAscending
<1>8. db.models = [i \in 1..c |-> <<s[i], db.events[s[i]]>>] /\ db.id_sequences > Len(db.models)
  BY <1>7 DEF ModelsMatchEvents
<1>9. /\ (\A q \in Positions : db'.events[q] = db.events[q]) /\ db'.events[p] = format
  BY <1>1, <1>2 DEF With
<1>10. row \in V /\ \A i \in 1..c : <<s[i], db.events[s[i]]>> \in V
  BY <1>1, <1>7 DEF Values
<1> HIDE DEF V, p, s, c, row
<1>11. db.models \in Seq(V) /\ Len(db.models) = c
  <2>1. db.models \in [1..c -> V]
    BY <1>8, <1>10
  <2> QED
    BY <1>5, <1>8, <2>1
<1>12. /\ db'.models = [i \in 1..(c + 1) |-> IF i = c + 1 THEN row ELSE db.models[i]]
       /\ Len(db'.models) = c + 1
  BY <1>2, <1>10, <1>11, AppendIs
<1>13. DOMAIN t = 1..(c + 1) /\ \A i \in 1..(c + 1) : t[i] = IF i = c + 1 THEN p ELSE s[i]
  OBVIOUS
<1> HIDE DEF t
<1>14. \A i \in 1..(c + 1) : <<t[i], db'.events[t[i]]>> = IF i = c + 1 THEN row ELSE db.models[i]
  <2> SUFFICES ASSUME NEW i \in 1..(c + 1)
               PROVE  <<t[i], db'.events[t[i]]>> = IF i = c + 1 THEN row ELSE db.models[i]
    OBVIOUS
  <2>1. CASE i = c + 1
    BY <1>9, <1>13, <2>1 DEF row
  <2>2. CASE i # c + 1
    <3>1. i \in 1..c
      BY <1>5, <2>2
    <3>2. t[i] = s[i] /\ s[i] \in Positions /\ db.models[i] = <<s[i], db.events[s[i]]>>
      BY <1>7, <1>8, <1>13, <2>2, <3>1
    <3> QED
      BY <1>9, <2>2, <3>2
  <2> QED
    BY <2>1, <2>2
<1>15. [i \in 1..(c + 1) |-> <<t[i], db'.events[t[i]]>>]
          = [i \in 1..(c + 1) |-> IF i = c + 1 THEN row ELSE db.models[i]]
  BY <1>14, Zenon
<1>16. db'.models = [i \in DOMAIN t |-> <<t[i], db'.events[t[i]]>>]
  BY <1>12, <1>13, <1>15
<1>17. db'.id_sequences > Len(db'.models)
  BY <1>2, <1>5, <1>8, <1>11, <1>12
<1> QED
  BY <1>6, <1>16, <1>17 DEF ModelsMatchEvents

\* insert_events with events in a format that fits their index.
LEMMA InsertKeepsFormats ==
    ASSUME Shape, RowsInv, FormatInv, ~ModelsReplaced, proc.step # "index",
           proc'.step \notin {"index", "keyframes", "swap"},
           eventTarget' = eventTarget, target' = target,
           NEW index, NEW format, db' = InsertEvents(db, index, format),
           LET known == IF index = -1 THEN target ELSE index
           IN  IF known <= eventTarget THEN format = known ELSE format \in eventTarget..known
    PROVE  FormatInv'
<1> DEFINE p == db.position_seq + 1
<1>1. /\ p \notin Positions /\ Positions' = Positions \cup {p} /\ p \in Nat
      /\ \A q \in Positions : q < p /\ q \in Nat /\ db'.positions[q] = db.positions[q]
      /\ db'.positions[p] = index
      /\ db'.migration_positions = db.migration_positions
      /\ DOMAIN db'.migration_positions \subseteq Positions
  BY InsertPlaces
<1>2. /\ db'.events = With(db.events, p, format)
      /\ db'.id_sequences = db.id_sequences + 1
      /\ db'.migration_events = db.migration_events
      /\ db'.migration_keyframes = db.migration_keyframes
  BY InsertFacts
<1>3. /\ DOMAIN db.events = Positions /\ DOMAIN db.migration_events \subseteq Positions
      /\ EventFormats /\ MigratedFormats /\ db.id_sequences \in Int /\ ModelsMatchEvents
  BY DEF FormatInv, EventsInv, ModelsInv
<1>4. \A q \in Positions : \A i : Content(q, i)' = Content(q, i)
  BY InsertContent
<1>5. ModelsMatchEvents'
  BY <1>3, InsertModels
<1> HIDE DEF p
<1>6. /\ DOMAIN db'.events = Positions \cup {p} /\ db'.events[p] = format
      /\ \A q \in Positions : db'.events[q] = db.events[q]
  BY <1>1, <1>2, <1>3 DEF With
<1>7. EventFormats'
  BY <1>1, <1>3, <1>6 DEF EventFormats
<1>8. MigratedFormats'
  BY <1>1, <1>2, <1>3 DEF MigratedFormats
<1>9. EventsInv'
  BY <1>1, <1>2, <1>3, <1>6, <1>7, <1>8 DEF EventsInv
<1>10. Faithful(db.migration_keyframes)'
  <2>1. Faithful(db.migration_keyframes)
    BY DEF FormatInv
  <2>2. \A k \in DOMAIN db.migration_keyframes : k \in Positions \X Int /\ k[1] \in Positions
    BY <2>1 DEF Faithful
  <2>3. DOMAIN db.migration_keyframes \subseteq Positions' \X Int
    BY <1>1, <2>2
  <2> QED
    BY <1>2, <1>4, <2>1, <2>2, <2>3 DEF Faithful
<1>11. ModelsInv'
  BY <1>2, <1>3, <1>5 DEF ModelsInv
<1> QED
  BY <1>9, <1>10, <1>11 DEF FormatInv

\* A write and a model migration store events in the format of the index that they write.
LEMMA WriteKeepsFormats ==
    ASSUME CommandInv, PlaceInv, FormatInv, CommitWrite \/ MigrateModels
    PROVE  FormatInv'
<1>1. /\ Shape /\ RowsInv /\ eventTarget' = eventTarget /\ target' = target
      /\ eventTarget \in Nat /\ target \in Nat /\ eventTarget <= target /\ writing \in Int
  BY DEF CommandInv, PlaceInv, CommitWrite, MigrateModels, Shape
<1>2. CASE CommitWrite
  <2> DEFINE format == IF writing = -1 THEN target ELSE writing
  <2>1. /\ db' = InsertEvents(db, writing, format) /\ online /\ proc' = proc
    BY <1>2 DEF CommitWrite, CommandInv, Discipline
  <2>2. /\ proc.step \notin {"index", "keyframes", "swap"} /\ ~ModelsReplaced
    BY <2>1 DEF CommandInv, Discipline, FinalizeSteps, ModelsReplaced
  <2>3. IF format <= eventTarget THEN format = format ELSE format \in eventTarget..format
    BY <1>1
  <2> QED
    BY <1>1, <2>1, <2>2, <2>3, InsertKeepsFormats
<1>3. CASE MigrateModels
  <2> DEFINE head == Head(proc.todo)
  <2>1. /\ proc.step = "models" /\ proc'.step \in {"models", "aux2"} /\ online' = online
        /\ writing' = writing /\ proc'.cmd = proc.cmd /\ proc.cmd = "finalize"
    BY <1>1, <1>3 DEF MigrateModels, At, Shape, CommandInv, Discipline, FinalizeSteps
  <2>2. ~ModelsReplaced
    BY <2>1 DEF ModelsReplaced
  <2>3. CASE db' = db
    <3>1. SameState
      BY <1>1, <2>1, <2>3 DEF SameState, SameFormats, SamePlaces
    <3> QED
      BY <2>1, <2>2, <3>1, SameStateKeeps
  <2>4. CASE db' = InsertEvents(db, head + 1, head + 1)
    <3>1. head \in Int /\ eventTarget <= head
      BY <2>1, ModelHead
    <3> DEFINE index == head + 1
    <3>2. index # -1 /\ index \in Int /\ ~(index <= eventTarget) /\ index \in eventTarget..index
      BY <1>1, <3>1
    <3>3. db' = InsertEvents(db, index, index)
      BY <2>4
    <3> HIDE DEF index, head
    <3> QED
      BY <1>1, <2>1, <2>2, <3>2, <3>3, InsertKeepsFormats
  <2> QED
    BY <1>3, <2>3, <2>4 DEF MigrateModels
<1> QED
  BY <1>2, <1>3

\* Init satisfies the invariant.
LEMMA FormatInit == Init => FormatInv
<1> SUFFICES ASSUME Init PROVE FormatInv
  OBVIOUS
<1>1. /\ db.positions = <<>> /\ db.events = <<>> /\ db.models = <<>> /\ db.id_sequences = 1
      /\ db.migration_positions = <<>> /\ db.migration_events = <<>>
      /\ db.migration_keyframes = <<>> /\ proc.step = "idle"
  BY DEF Init, EmptyDb, Idle
<1>2. /\ Positions = {} /\ DOMAIN db.events = {} /\ DOMAIN db.migration_positions = {}
      /\ DOMAIN db.migration_events = {} /\ DOMAIN db.migration_keyframes = {}
  BY <1>1 DEF Positions
<1>3. EventsInv
  BY <1>1, <1>2 DEF EventsInv, EventFormats, MigratedFormats
<1>4. Faithful(db.migration_keyframes)
  BY <1>2 DEF Faithful
<1>5. ModelsMatchEvents
  <2> DEFINE ps == Ascending(Positions)
  <2>1. IsAscending(ps, Positions)
    BY <1>2, AscendingFacts
  <2>2. Cardinality(Positions) = 0
    BY <1>2, FS_EmptySet
  <2>3. DOMAIN ps = {}
    BY <2>1, <2>2 DEF IsAscending
  <2> HIDE DEF ps
  <2>4. [i \in DOMAIN ps |-> <<ps[i], db.events[ps[i]]>>] = <<>>
    BY <2>3
  <2> QED
    BY <1>1, <2>4 DEF ModelsMatchEvents, ps
<1>6. ModelsInv
  BY <1>1, <1>5 DEF ModelsInv
<1> QED
  BY <1>3, <1>4, <1>6 DEF FormatInv

\* Every step keeps it.
LEMMA FormatStep ==
    ASSUME NoStopAfterSwap
    PROVE  CommandInv /\ PlaceInv /\ FormatInv /\ [Next]_vars => FormatInv'
<1> SUFFICES ASSUME CommandInv, PlaceInv, FormatInv, [Next]_vars PROVE FormatInv'
  OBVIOUS
<1>1. CASE UNCHANGED vars
  <2>1. EventsInv'
    BY <1>1 DEF vars, FormatInv, EventsInv, EventFormats, MigratedFormats, Positions
  <2>2. Positions' = Positions
    BY <1>1 DEF vars, Positions
  <2>3. Faithful(db.migration_keyframes)'
    BY <1>1, <2>2, SameKeyframes DEF vars, FormatInv
  <2>4. ModelsInv'
    BY <1>1 DEF vars, FormatInv, ModelsInv, ModelsMatchEvents, ModelsReplaced, Finalized, At,
                ToMigrate, AllAt, Positions, Content
  <2> QED
    BY <2>1, <2>3, <2>4 DEF FormatInv
<1>2. CASE Step
  BY <1>2, ChecksKeepFormats, DecidingKeepsFormats, MigrateNextKeepsFormats,
     AuxTablesKeepFormats, FillKeepsFormats, DeleteKeyframesKeepsFormats, SwapKeepsFormats,
     UpdateIndexKeepsFormats, CleanKeepsFormats, WriteKeepsFormats DEF Step
<1>3. CASE Stop \/ Operator
  BY <1>3, OperatorKeepsFormats, RegisterKeepsFormats
<1>4. CASE BeginWrite \/ CommitWrite \/ FailWrite
  BY <1>4, NoWriteKeepsFormats, WriteKeepsFormats
<1> QED
  BY <1>1, <1>2, <1>3, <1>4 DEF Next

\* Events, keyframes and models have the formats that the indices and the steps of the
\* commands say, where the transaction that follows the exchange of the events does not fail.
THEOREM FormatInvariant ==
    ASSUME NoStopAfterSwap
    PROVE  Spec => [](CommandInv /\ PlaceInv /\ FormatInv)
<1>1. Init => CommandInv /\ PlaceInv /\ FormatInv
  BY CommandInit, PlaceInit, FormatInit
<1>2. CommandInv /\ PlaceInv /\ FormatInv /\ [Next]_vars => (CommandInv /\ PlaceInv /\ FormatInv)'
  BY CommandStep, PlaceStep, FormatStep
<1> QED
  BY <1>1, <1>2, PTL DEF Spec

\* migration_keyframes.py, class comments: every keyframe is the content of the datastore at
\* its position in the format of its index, for any number of attempts, of migrations that
\* are registered between them and of writes that run next to them.
THEOREM KeyframesFaithfulHolds ==
    ASSUME NoStopAfterSwap
    PROVE  Spec => []KeyframesFaithful
<1>1. FormatInv => KeyframesFaithful
  BY DEF FormatInv, Faithful, KeyframesFaithful
<1> QED
  BY <1>1, FormatInvariant, PTL

\* docs/migrations.md:3: in a datastore that runs, the events are in the format that the index
\* of their position says. The hypothesis cannot be left out: a finalize that stops between
\* the exchange of the events and the update of the index breaks it.
THEOREM EventsHaveTheirIndexHolds ==
    ASSUME NoStopAfterSwap
    PROVE  Spec => []EventsHaveTheirIndex
<1>1. CommandInv /\ FormatInv => EventsHaveTheirIndex
  BY DEF CommandInv, Discipline, FinalizeSteps, FormatInv, EventsInv, EventFormats,
         EventsHaveTheirIndex
<1> QED
  BY <1>1, FormatInvariant, PTL

\* fill_models_aux_tables, fill_id_sequences_table: the models of a datastore that runs are
\* the ones its events build, and the next id is not taken, although finalize replaces the
\* models before the events and may stop in between.
THEOREM ModelsMatchEventsOnlineHolds ==
    ASSUME NoStopAfterSwap
    PROVE  Spec => []ModelsMatchEventsOnline
<1>1. FormatInv => ModelsMatchEventsOnline
  BY DEF FormatInv, ModelsInv, ModelsReplaced, ModelsMatchEventsOnline
<1> QED
  BY <1>1, FormatInvariant, PTL

-----------------------------------------------------------------------------
(* The types of the tables                                                  *)

Formats == Indices \cup {Garbled}
Rows == (1..MaxPosition) \X Formats

\* A write that is open has room for its position.
BoundsInv ==
    /\ db.position_seq <= MaxPosition /\ (writing # 0 => db.position_seq < MaxPosition)
    /\ target <= MaxTarget /\ stops \in 0..MaxStops

\* A migrated position has migrated events.
EventsTyped ==
    /\ DOMAIN db.events = Positions /\ DOMAIN db.migration_events \subseteq Positions
    /\ DOMAIN db.migration_positions \subseteq DOMAIN db.migration_events
    /\ \A p \in DOMAIN db.events : db.events[p] \in Formats
    /\ \A p \in DOMAIN db.migration_events : db.migration_events[p] \in Formats

\* A keyframe has an event of every position up to its own.
KeyframesTyped(kf) ==
    \A k \in DOMAIN kf : /\ k \in Positions \X Indices
                         /\ kf[k] \in [1..Cardinality(UpTo(k[1])) -> Rows]

TablesInv ==
    /\ BoundsInv /\ EventsTyped /\ KeyframesTyped(db.migration_keyframes)
    /\ db.models \in [1..Cardinality(Positions) -> Rows]

\* The bounds hold on.
LEMMA BoundsKeep ==
    ASSUME CommandInv, BoundsInv, Next
    PROVE  BoundsInv'
<1>1. /\ Shape /\ db.position_seq \in Nat /\ stops \in 0..MaxStops /\ MaxStops \in Nat
      /\ MaxPosition \in Nat /\ MaxTarget \in Nat /\ target \in Nat
  BY MigrationAssumption DEF CommandInv, Shape, BoundsInv
<1>2. CASE Step /\ ~MigrateModels
  <2>1. UNCHANGED Others
    BY <1>2 DEF Step, RunChecks, GetMigrationState, PlanEventMigration, MigrateNextPosition,
       ReadIndex, DeleteCollectionfieldAuxTables, FillModelsAndIdSequences,
       DeleteMigrationKeyframes, SwapEvents, UpdateMigrationIndex, CleanMigrationData,
       PlanModelMigration, UpdateMigrationIndexToTarget
  <2>2. db'.position_seq = db.position_seq
    BY <1>1, <1>2 DEF Step, RunChecks, GetMigrationState, PlanEventMigration, MigrateNextPosition,
       ReadIndex, DeleteCollectionfieldAuxTables, FillModelsAndIdSequences,
       DeleteMigrationKeyframes, SwapEvents, UpdateMigrationIndex, CleanMigrationData,
       PlanModelMigration, UpdateMigrationIndexToTarget, Shape
  <2> QED
    BY <2>1, <2>2 DEF BoundsInv, Others
<1>3. CASE MigrateModels
  <2>1. /\ writing = 0 /\ writing' = 0 /\ target' = target /\ stops' = stops
    BY <1>3, FinalizeAlone DEF MigrateModels, At, CommandInv, Discipline, FinalizeSteps
  <2>2. \/ db' = db
        \/ /\ db.position_seq < MaxPosition
           /\ db' = InsertEvents(db, Head(proc.todo) + 1, Head(proc.todo) + 1)
    BY <1>3 DEF MigrateModels
  <2>3. db'.position_seq <= MaxPosition
    BY <1>1, <2>2, InsertFacts DEF BoundsInv
  <2> QED
    BY <2>1, <2>3 DEF BoundsInv
<1>4. CASE Stop \/ Operator
  BY <1>1, <1>4 DEF Stop, Operator, RegisterMigration, StartMigrate, StartReset, StartFinalize,
                    RunAgain, BringOnline, Others, BoundsInv
<1>5. CASE BeginWrite
  BY <1>5 DEF BeginWrite, BoundsInv
<1>6. CASE CommitWrite \/ FailWrite
  <2>1. /\ writing' = 0 /\ target' = target /\ stops' = stops /\ db.position_seq < MaxPosition
    BY <1>6 DEF CommitWrite, FailWrite, BoundsInv
  <2>2. db'.position_seq = db.position_seq + 1
    <3>1. CASE CommitWrite
      BY <1>1, <3>1, InsertFacts DEF CommitWrite
    <3>2. CASE FailWrite
      BY <1>1, <3>2 DEF FailWrite, Shape
    <3> QED
      BY <1>6, <3>1, <3>2
  <2> QED
    BY <1>1, <2>1, <2>2 DEF BoundsInv
<1> QED
  BY <1>2, <1>3, <1>4, <1>5, <1>6 DEF Next

\* What most steps leave.
Leaves ==
    /\ Positions' = Positions /\ db'.events = db.events /\ db'.models = db.models
    /\ \/ /\ db'.migration_events = db.migration_events
          /\ db'.migration_positions = db.migration_positions
       \/ DOMAIN db'.migration_events = {} /\ DOMAIN db'.migration_positions = {}
    /\ \/ db'.migration_keyframes = db.migration_keyframes
       \/ DOMAIN db'.migration_keyframes = {}

\* Keyframes keep their types with the positions.
LEMMA SameKeyframeTypes ==
    ASSUME Positions' = Positions, KeyframesTyped(db.migration_keyframes),
           \/ db'.migration_keyframes = db.migration_keyframes
           \/ DOMAIN db'.migration_keyframes = {}
    PROVE  KeyframesTyped(db.migration_keyframes)'
<1>1. \A p : UpTo(p)' = UpTo(p)
  BY DEF UpTo
<1> QED
  BY <1>1 DEF KeyframesTyped

\* Such a step keeps the types.
LEMMA LeavingKeepsTypes ==
    ASSUME TablesInv, BoundsInv', Leaves
    PROVE  TablesInv'
<1>1. KeyframesTyped(db.migration_keyframes)'
  BY SameKeyframeTypes DEF Leaves, TablesInv
<1>2. EventsTyped'
  BY DEF Leaves, TablesInv, EventsTyped
<1>3. (db.models \in [1..Cardinality(Positions) -> Rows])'
  BY DEF Leaves, TablesInv
<1> QED
  BY <1>1, <1>2, <1>3 DEF TablesInv

\* Which steps these are.
LEMMA LeavingSteps ==
    ASSUME Shape, Next, ~MigrateNextPosition, ~FillModelsAndIdSequences, ~SwapEvents,
           ~MigrateModels, ~CommitWrite
    PROVE  Leaves
<1>1. CASE GetMigrationState \/ PlanEventMigration \/ ReadIndex \/ PlanModelMigration \/ Stop
           \/ Operator \/ BeginWrite
  <2>1. db' = db
    BY <1>1 DEF GetMigrationState, PlanEventMigration, ReadIndex, PlanModelMigration, Stop,
       Operator, RegisterMigration, StartMigrate, StartReset, StartFinalize, RunAgain,
       BringOnline, BeginWrite
  <2> QED
    BY <2>1 DEF Leaves, Positions
<1>2. CASE RunChecks
  <2>1. \/ db' = db
        \/ db' = [db EXCEPT !.positions = SetIndex(@, target),
                              !.migration_events = <<>>, !.migration_positions = <<>>,
                              !.migration_keyframes = <<>>]
    BY <1>2 DEF RunChecks
  <2>2. CASE db' = [db EXCEPT !.positions = SetIndex(@, target),
                              !.migration_events = <<>>, !.migration_positions = <<>>,
                              !.migration_keyframes = <<>>]
    <3>1. /\ db'.positions = [p \in Positions |-> target] /\ db'.events = db.events
          /\ db'.models = db.models /\ DOMAIN db'.migration_positions = {}
          /\ DOMAIN db'.migration_events = {} /\ DOMAIN db'.migration_keyframes = {}
      BY <2>2 DEF Shape, SetIndex, Positions
    <3>2. Positions' = Positions
      BY <3>1 DEF Positions
    <3> QED
      BY <3>1, <3>2 DEF Leaves
  <2>3. CASE db' = db
    BY <2>3 DEF Leaves, Positions
  <2> QED
    BY <2>1, <2>2, <2>3
<1>3. CASE DeleteCollectionfieldAuxTables \/ DeleteMigrationKeyframes \/ FailWrite
  BY <1>3 DEF DeleteCollectionfieldAuxTables, DeleteMigrationKeyframes, FailWrite, Leaves,
              Positions, Shape
<1>4. CASE UpdateMigrationIndex \/ UpdateMigrationIndexToTarget \/ CleanMigrationData
  <2>1. CASE UpdateMigrationIndex \/ UpdateMigrationIndexToTarget
    <3>1. \/ db' = [db EXCEPT !.positions = SetIndex(@, target)]
          \/ db' = [db EXCEPT !.positions = SetIndex(@, eventTarget)]
      BY <2>1 DEF UpdateMigrationIndex, UpdateMigrationIndexToTarget
    <3>2. /\ db'.events = db.events /\ db'.models = db.models
          /\ db'.migration_positions = db.migration_positions
          /\ db'.migration_events = db.migration_events
          /\ db'.migration_keyframes = db.migration_keyframes
          /\ \/ db'.positions = [p \in Positions |-> target]
             \/ db'.positions = [p \in Positions |-> eventTarget]
      BY <3>1 DEF Shape, SetIndex, Positions
    <3>3. Positions' = Positions
      BY <3>2 DEF Positions
    <3> QED
      BY <3>2, <3>3 DEF Leaves
  <2>2. CASE CleanMigrationData
    <3>1. /\ db'.events = db.events /\ db'.models = db.models /\ db'.positions = db.positions
          /\ DOMAIN db'.migration_positions = {} /\ DOMAIN db'.migration_events = {}
          /\ db'.migration_keyframes = db.migration_keyframes
      BY <2>2 DEF CleanMigrationData, Shape
    <3> QED
      BY <3>1 DEF Leaves, Positions
  <2> QED
    BY <1>4, <2>1, <2>2
<1> QED
  BY <1>1, <1>2, <1>3, <1>4 DEF Next, Step

\* Appending a row to a history.
LEMMA AppendRow ==
    ASSUME NEW n \in Nat, NEW V, NEW s \in [1..n -> V], NEW e \in V
    PROVE  Append(s, e) \in [1..(n + 1) -> V]
<1>1. s \in Seq(V) /\ Len(s) = n
  OBVIOUS
<1>2. Append(s, e) \in Seq(V) /\ Len(Append(s, e)) = n + 1
  BY <1>1, AppendIs
<1> DEFINE t == Append(s, e)
<1> HIDE DEF t
<1>3. t \in Seq(V) /\ Len(t) = n + 1
  BY <1>2 DEF t
<1>4. t \in [1..(n + 1) -> V]
  BY <1>3
<1> QED
  BY <1>4 DEF t

\* What position p adds to a history is one row.
LEMMA RowOf ==
    ASSUME Shape, BoundsInv, NEW p \in Positions, NEW format \in Formats
    PROVE  <<p, format>> \in Rows
<1>1. p \in 1..db.position_seq /\ db.position_seq \in Nat /\ db.position_seq <= MaxPosition
      /\ MaxPosition \in Nat
  BY MigrationAssumption DEF Shape, BoundsInv
<1>2. p \in 1..MaxPosition
  BY <1>1
<1> QED
  BY <1>2 DEF Rows

\* move_to_next_position keeps the types ...
LEMMA MoveTyped ==
    ASSUME Shape, NEW last \in Nat, NEW p \in Positions, last < p,
           \A q \in Positions : q < p => q <= last,
           NEW kf, KeyframesTyped(kf), NEW index \in Indices,
           NEW content \in [1..Cardinality(UpTo(p)) -> Rows]
    PROVE  KeyframesTyped(MoveToNextPosition(kf, last, index, content))
<1> DEFINE moved == MoveToNextPosition(kf, last, index, content)
<1>1. NextPosition(last) = p
  BY NextIs
<1>2. \A k \in DOMAIN moved : \/ k \in DOMAIN kf /\ moved[k] = kf[k]
                              \/ k = <<p, index>> /\ moved[k] = content
  BY <1>1 DEF MoveToNextPosition, With, Without
<1> HIDE DEF moved
<1>3. ASSUME NEW k \in DOMAIN moved
      PROVE  k \in Positions \X Indices /\ moved[k] \in [1..Cardinality(UpTo(k[1])) -> Rows]
  <2>1. CASE k \in DOMAIN kf /\ moved[k] = kf[k]
    BY <2>1 DEF KeyframesTyped
  <2>2. CASE k = <<p, index>> /\ moved[k] = content
    <3>1. k \in Positions \X Indices /\ k[1] = p
      BY <2>2
    <3> QED
      BY <2>2, <3>1
  <2> QED
    BY <1>2, <1>3, <2>1, <2>2
<1> QED
  BY <1>3 DEF KeyframesTyped, moved

\* ... and so does get_accessors.
LEMMA AccessorTyped ==
    ASSUME Shape, NEW kf, KeyframesTyped(kf), NEW last \in Nat, NEW index,
           KeyframeExists(kf, last, index)
    PROVE  Accessor(kf, last, index) \in [1..Cardinality(UpTo(last)) -> Rows]
<1>1. CASE last = 0
  <2>1. Accessor(kf, last, index) = <<>>
    BY <1>1 DEF Accessor
  <2>2. Cardinality(UpTo(last)) = 0
    BY <1>1, ContentZero
  <2>3. <<>> \in [1..0 -> Rows]
    OBVIOUS
  <2> QED
    BY <2>1, <2>2, <2>3
<1>2. CASE last # 0
  <2>1. <<last, index>> \in DOMAIN kf
    BY <1>2 DEF KeyframeExists
  <2> QED
    BY <1>2, <2>1 DEF Accessor, KeyframesTyped
<1> QED
  BY <1>1, <1>2

\* The types of the loop variables.
MigratingTyped(acc) ==
    /\ DOMAIN acc = {"ok", "format", "keyframes"}
    /\ acc.format \in Formats /\ KeyframesTyped(acc.keyframes)

\* One turn keeps them.
LEMMA MigrateOneTyped ==
    ASSUME Shape, BoundsInv, NEW last \in Nat, NEW p \in Positions, last < p,
           \A q \in Positions : q < p => q <= last,
           NEW acc, NEW source \in Indices, source < eventTarget, MigratingTyped(acc)
    PROVE  MigratingTyped(MigrateOneIndex(acc, source, p, last))
<1> DEFINE kf == acc.keyframes
           old == Accessor(kf, last, source)
           new == Accessor(kf, last, source + 1)
           c == Cardinality(UpTo(last))
           exist == /\ acc.ok
                    /\ KeyframeExists(kf, last, source)
                    /\ KeyframeExists(kf, last, source + 1)
           oldContent == ApplyEvents(old, p, acc.format)
           oldMoved == MoveToNextPosition(kf, last, source, oldContent)
           migrated == MigrateEvents(acc.format, source, old, new, last)
           newContent == ApplyEvents(new, p, migrated)
           newMoved == MoveToNextPosition(oldMoved, last, source + 1, newContent)
           result == MigrateOneIndex(acc, source, p, last)
<1>1. acc.format \in Formats /\ KeyframesTyped(kf) /\ DOMAIN acc = {"ok", "format", "keyframes"}
  BY DEF MigratingTyped
<1>2. CASE ~exist
  <2>1. result = [acc EXCEPT !.ok = FALSE]
    BY <1>2 DEF MigrateOneIndex
  <2>2. /\ DOMAIN result = {"ok", "format", "keyframes"} /\ result.format = acc.format
        /\ result.keyframes = acc.keyframes
    BY <1>1, <2>1
  <2> QED
    BY <1>1, <2>2 DEF MigratingTyped
<1>3. CASE exist
  <2>1. source + 1 \in Indices
    BY MigrationAssumption DEF Indices, Shape, BoundsInv
  <2>2. migrated \in Formats
    BY <2>1 DEF MigrateEvents, Formats
  <2>3. result = [ok |-> TRUE, format |-> migrated,
                  keyframes |-> IF source + 1 # eventTarget THEN oldMoved ELSE newMoved]
    BY <1>3 DEF MigrateOneIndex
  <2>4. old \in [1..c -> Rows] /\ new \in [1..c -> Rows]
    BY <1>1, <1>3, AccessorTyped
  <2>5. Cardinality(UpTo(p)) = c + 1 /\ c \in Nat
    BY UpToNext, UpToFacts
  <2> HIDE DEF old, new, migrated, c
  <2>6. <<p, acc.format>> \in Rows /\ <<p, migrated>> \in Rows
    BY <1>1, <2>2, RowOf
  <2>7. /\ oldContent \in [1..Cardinality(UpTo(p)) -> Rows]
        /\ newContent \in [1..Cardinality(UpTo(p)) -> Rows]
    BY <2>4, <2>5, <2>6, AppendRow DEF ApplyEvents
  <2> HIDE DEF oldContent, newContent
  <2>8. KeyframesTyped(oldMoved)
    BY <1>1, <2>7, MoveTyped
  <2> HIDE DEF oldMoved
  <2>9. KeyframesTyped(newMoved)
    BY <2>1, <2>7, <2>8, MoveTyped
  <2> HIDE DEF newMoved, result
  <2>10. /\ DOMAIN result = {"ok", "format", "keyframes"} /\ result.format = migrated
         /\ result.keyframes = IF source + 1 # eventTarget THEN oldMoved ELSE newMoved
    BY <2>3
  <2>11. KeyframesTyped(result.keyframes)
    BY <2>8, <2>9, <2>10
  <2>12. MigratingTyped(result)
    BY <2>2, <2>10, <2>11 DEF MigratingTyped
  <2> QED
    BY <2>12 DEF result
<1> QED
  BY <1>2, <1>3

\* All of them.
LEMMA MigratePositionTyped ==
    ASSUME Shape, BoundsInv, NEW last \in Nat, NEW p \in Positions, last < p,
           \A q \in Positions : q < p => q <= last,
           KeyframesTyped(db.migration_keyframes), EventsToMigrate(p) \in Formats,
           IndexOf(p) \in Int, 1 <= IndexOf(p), IndexOf(p) <= eventTarget
    PROVE  MigratingTyped(MigratePosition(p, last))
<1> DEFINE c == IndexOf(p)
           N == eventTarget - c
<1>1. eventTarget \in Int /\ eventTarget <= MaxTarget /\ MaxTarget \in Nat
  BY MigrationAssumption DEF Shape, BoundsInv
<1>2. PICK g : /\ MigratePosition(p, last) = g[N]
               /\ g[0] = MigrateStart(p)
               /\ \A n \in 1..N : g[n] = MigrateOneIndex(g[n - 1], c + n - 1, p, last)
  BY <1>1, MigratePositionIs
<1>3. c \in Int /\ 1 <= c /\ N \in Nat /\ c + N = eventTarget
  BY <1>1
<1>4. MigratingTyped(g[0])
  <2> DEFINE start == MigrateStart(p)
  <2>1. /\ DOMAIN start = {"ok", "format", "keyframes"} /\ start.format = EventsToMigrate(p)
        /\ start.keyframes = db.migration_keyframes
    BY DEF MigrateStart
  <2> HIDE DEF start
  <2>2. MigratingTyped(start)
    BY <2>1 DEF MigratingTyped
  <2> QED
    BY <1>2, <2>2 DEF start
<1> HIDE DEF c, N
<1> DEFINE T == {n \in 0..N : ~MigratingTyped(g[n])}
<1>5. T = {}
  <2> SUFFICES ASSUME T # {} PROVE FALSE
    OBVIOUS
  <2>1. T \in SUBSET Nat
    BY <1>3
  <2>2. PICK m \in T : \A k \in T : ~(k < m)
    <3> HIDE DEF T
    <3> QED
      BY <2>1, LeastNat
  <2>3. m \in 0..N /\ ~MigratingTyped(g[m]) /\ m # 0
    BY <1>4
  <2>4. m - 1 \in 0..N /\ m - 1 < m /\ m \in 1..N
    BY <1>3, <2>3
  <2>5. MigratingTyped(g[m - 1])
    BY <2>2, <2>4
  <2> HIDE DEF T
  <2> DEFINE source == c + m - 1
             acc == g[m - 1]
  <2>6. source \in Indices /\ source < eventTarget
    BY <1>1, <1>3, <2>4 DEF Indices
  <2>7. g[m] = MigrateOneIndex(acc, source, p, last)
    BY <1>2, <2>4
  <2>8. MigratingTyped(acc)
    BY <2>5
  <2> HIDE DEF source, acc
  <2>9. MigratingTyped(g[m])
    BY <2>6, <2>7, <2>8, MigrateOneTyped
  <2> QED
    BY <2>3, <2>9
<1>6. MigratingTyped(g[N])
  <2>1. N \in 0..N
    BY <1>3
  <2> QED
    BY <1>5, <2>1
<1> QED
  BY <1>2, <1>6

\* migrate_position writes events and keyframes of their types.
LEMMA MigrateNextKeepsTypes ==
    ASSUME CommandInv, PlaceInv, TablesInv, BoundsInv', MigrateNextPosition
    PROVE  TablesInv'
<1> DEFINE p == Head(proc.todo)
           m == MigratePosition(p, proc.last)
<1>1. /\ Shape /\ proc.step = "positions" /\ ToMigrate /\ RowsInv
  BY DEF CommandInv, MigrateNextPosition, At, PlaceInv, StepInv
<1>2. CASE End("refused") /\ UNCHANGED db
  <2>1. Leaves
    BY <1>2 DEF Leaves, Positions
  <2> QED
    BY <2>1, LeavingKeepsTypes
<1>3. CASE ~(End("refused") /\ UNCHANGED db)
  <2>1. /\ p \in Positions /\ proc.last < p /\ proc.last \in Nat
        /\ \A q \in Positions : q < p => q <= proc.last
        /\ db'.positions = db.positions /\ db'.events = db.events /\ db'.models = db.models
        /\ db'.migration_keyframes = m.keyframes
        /\ db'.migration_events = With(db.migration_events, p, m.format)
        /\ db'.migration_positions = With(db.migration_positions, p, eventTarget)
    BY <1>3, NextPositionFacts
  <2> HIDE DEF p
  <2>2. /\ DOMAIN db.events = Positions /\ DOMAIN db.migration_events \subseteq Positions
        /\ DOMAIN db.migration_positions \subseteq DOMAIN db.migration_events
        /\ \A q \in DOMAIN db.events : db.events[q] \in Formats
        /\ \A q \in DOMAIN db.migration_events : db.migration_events[q] \in Formats
        /\ BoundsInv /\ KeyframesTyped(db.migration_keyframes)
    BY DEF TablesInv, EventsTyped
  <2>3. /\ EventsToMigrate(p) \in Formats /\ IndexOf(p) \in Int /\ 1 <= IndexOf(p)
        /\ IndexOf(p) <= eventTarget
    <3>1. db.positions[p] \in 1..(eventTarget - 1) /\ eventTarget \in Nat
      BY <1>1, <2>1 DEF ToMigrate, AllAt, Shape
    <3>2. p \in DOMAIN db.migration_positions => db.migration_positions[p] \in 1..eventTarget
      BY <1>1 DEF RowsInv
    <3> QED
      BY <2>1, <2>2, <3>1, <3>2 DEF EventsToMigrate, IndexOf
  <2>4. MigratingTyped(m)
    BY <1>1, <2>1, <2>2, <2>3, MigratePositionTyped
  <2> HIDE DEF m
  <2>5. m.format \in Formats /\ KeyframesTyped(m.keyframes)
    BY <2>4 DEF MigratingTyped
  <2>6. Positions' = Positions
    BY <2>1 DEF Positions
  <2>7. KeyframesTyped(db.migration_keyframes)'
    <3>1. \A q : UpTo(q)' = UpTo(q)
      BY <2>6 DEF UpTo
    <3> QED
      BY <2>1, <2>5, <2>6, <3>1 DEF KeyframesTyped
  <2>8. EventsTyped'
    <3>1. /\ DOMAIN db'.migration_events = DOMAIN db.migration_events \cup {p}
          /\ DOMAIN db'.migration_positions = DOMAIN db.migration_positions \cup {p}
          /\ \A q \in DOMAIN db'.migration_events : db'.migration_events[q] \in Formats
      BY <2>1, <2>2, <2>5 DEF With
    <3> QED
      BY <2>1, <2>2, <2>6, <3>1 DEF EventsTyped
  <2> QED
    BY <2>1, <2>6, <2>7, <2>8 DEF TablesInv
<1> QED
  BY <1>2, <1>3

\* fill_models_aux_tables copies a keyframe of the highest position.
LEMMA FillKeepsTypes ==
    ASSUME CommandInv, PlaceInv, TablesInv, BoundsInv', FillModelsAndIdSequences
    PROVE  TablesInv'
<1>1. Shape /\ Positions # {}
  BY DEF CommandInv, FillModelsAndIdSequences, At, PlaceInv, StepInv, ToMigrate
<1>2. CASE End("refused") /\ UNCHANGED db
  <2>1. Leaves
    BY <1>2 DEF Leaves, Positions
  <2> QED
    BY <2>1, LeavingKeepsTypes
<1>3. CASE ~(End("refused") /\ UNCHANGED db)
  <2> DEFINE k == <<Max(Positions), eventTarget>>
  <2>1. /\ k \in DOMAIN db.migration_keyframes
        /\ db' = [db EXCEPT !.models = db.migration_keyframes[k],
                            !.id_sequences = RebuiltIdSequences(db.migration_keyframes[k])]
    BY <1>3 DEF FillModelsAndIdSequences, KeyframeToCopy
  <2>2. /\ db'.positions = db.positions /\ db'.events = db.events
        /\ db'.migration_positions = db.migration_positions
        /\ db'.migration_events = db.migration_events
        /\ db'.migration_keyframes = db.migration_keyframes
        /\ db'.models = db.migration_keyframes[k]
    BY <1>1, <2>1 DEF Shape
  <2>3. db.migration_keyframes[k] \in [1..Cardinality(UpTo(Max(Positions))) -> Rows]
    BY <2>1 DEF TablesInv, KeyframesTyped
  <2>4. UpTo(Max(Positions)) = Positions
    <3>1. Positions \in SUBSET (0..db.position_seq) /\ db.position_seq \in Nat
      BY <1>1 DEF Shape
    <3>2. \A q \in Positions : q <= Max(Positions)
      BY <1>1, <3>1, MaxFacts
    <3> QED
      BY <3>2 DEF UpTo
  <2>5. Positions' = Positions
    BY <2>2 DEF Positions
  <2>6. EventsTyped' /\ KeyframesTyped(db.migration_keyframes)'
    BY <2>2, <2>5, SameKeyframeTypes DEF TablesInv, EventsTyped
  <2>7. (db.models \in [1..Cardinality(Positions) -> Rows])'
    BY <2>2, <2>3, <2>4, <2>5
  <2> QED
    BY <2>6, <2>7 DEF TablesInv
<1> QED
  BY <1>2, <1>3

\* The exchange of the events leaves every position with events.
LEMMA SwapKeepsTypes ==
    ASSUME CommandInv, PlaceInv, TablesInv, BoundsInv', SwapEvents
    PROVE  TablesInv'
<1>1. Shape /\ Complete
  BY DEF CommandInv, SwapEvents, At, PlaceInv, StepInv
<1>2. /\ db'.positions = db.positions /\ db'.models = db.models
      /\ db'.events = db.migration_events /\ db'.migration_events = db.events
      /\ db'.migration_keyframes = db.migration_keyframes
      /\ db'.migration_positions = db.migration_positions
  BY <1>1 DEF SwapEvents, Shape
<1>3. Positions' = Positions
  BY <1>2 DEF Positions
<1>4. DOMAIN db.migration_events = Positions
  BY <1>1 DEF Complete, TablesInv, EventsTyped
<1>5. EventsTyped'
  BY <1>2, <1>3, <1>4 DEF TablesInv, EventsTyped
<1>6. KeyframesTyped(db.migration_keyframes)'
  BY <1>2, <1>3, SameKeyframeTypes DEF TablesInv
<1> QED
  BY <1>2, <1>3, <1>5, <1>6 DEF TablesInv

\* A write or a model migration adds a position.
LEMMA InsertKeepsTypes ==
    ASSUME Shape, RowsInv, TablesInv, BoundsInv', NEW index, NEW format \in Formats,
           db' = InsertEvents(db, index, format)
    PROVE  TablesInv'
<1> DEFINE p == db.position_seq + 1
           row == <<p, format>>
           c == Cardinality(Positions)
<1>1. /\ p \notin Positions /\ Positions' = Positions \cup {p} /\ p \in Nat
      /\ \A q \in Positions : q < p /\ q \in Nat
      /\ db'.migration_positions = db.migration_positions
  BY InsertPlaces
<1>2. /\ db'.events = With(db.events, p, format) /\ db'.models = Append(db.models, row)
      /\ db'.migration_events = db.migration_events
      /\ db'.migration_keyframes = db.migration_keyframes
      /\ db'.position_seq = p
  BY InsertFacts
<1>3. c \in Nat /\ Cardinality(Positions \cup {p}) = c + 1
  <2>1. Positions \in SUBSET (1..db.position_seq) /\ db.position_seq \in Nat
    BY DEF Shape
  <2>2. IsAscending(Ascending(Positions), Positions)
    BY <2>1, AscendingFacts
  <2> QED
    BY <1>1, <2>1, <2>2, AscendingNext
<1>4. row \in Rows
  <2>1. p <= MaxPosition /\ MaxPosition \in Nat /\ 1 <= p
    BY <1>2, MigrationAssumption DEF BoundsInv, Shape
  <2> QED
    BY <1>1, <2>1 DEF Rows
<1> HIDE DEF p, row, c
<1>5. db.models \in [1..c -> Rows]
  BY DEF TablesInv, c
<1>6. (db.models \in [1..Cardinality(Positions) -> Rows])'
  <2>1. Append(db.models, row) \in [1..(c + 1) -> Rows]
    BY <1>3, <1>4, <1>5, AppendRow
  <2> QED
    BY <1>1, <1>2, <1>3, <2>1
<1>7. EventsTyped'
  <2>1. EventsTyped
    BY DEF TablesInv
  <2>2. DOMAIN db'.events = Positions \cup {p} /\ \A q \in DOMAIN db'.events : db'.events[q] \in Formats
    BY <1>2, <2>1 DEF With, EventsTyped
  <2> QED
    BY <1>1, <1>2, <2>1, <2>2 DEF EventsTyped
<1>8. KeyframesTyped(db.migration_keyframes)'
  <2>1. \A q \in Positions : UpTo(q)' = UpTo(q)
    <3> SUFFICES ASSUME NEW q \in Positions
                 PROVE  {x \in Positions' : x <= q} = {x \in Positions : x <= q}
      BY DEF UpTo
    <3> QED
      BY <1>1
  <2>2. \A k \in DOMAIN db.migration_keyframes :
          /\ k \in Positions \X Indices /\ k[1] \in Positions
          /\ db.migration_keyframes[k] \in [1..Cardinality(UpTo(k[1])) -> Rows]
    BY DEF TablesInv, KeyframesTyped
  <2>3. \A k \in DOMAIN db.migration_keyframes : k \in Positions' \X Indices
    BY <1>1, <2>2
  <2> QED
    BY <1>2, <2>1, <2>2, <2>3 DEF KeyframesTyped
<1> QED
  BY <1>6, <1>7, <1>8 DEF TablesInv

\* Their events have formats that there are.
LEMMA WriteKeepsTypes ==
    ASSUME CommandInv, PlaceInv, TablesInv, BoundsInv', CommitWrite \/ MigrateModels
    PROVE  TablesInv'
<1>1. /\ Shape /\ RowsInv /\ eventTarget \in Nat /\ target \in Nat /\ 1 <= eventTarget
      /\ eventTarget <= target /\ target <= MaxTarget /\ MaxTarget \in Nat
      /\ writing \in Int /\ writing >= -1 /\ writing <= target
  BY MigrationAssumption DEF CommandInv, PlaceInv, Shape, RowsInv, TablesInv, BoundsInv
<1>2. CASE CommitWrite
  <2> DEFINE format == IF writing = -1 THEN target ELSE writing
  <2>1. db' = InsertEvents(db, writing, format) /\ writing # 0
    BY <1>2 DEF CommitWrite
  <2>2. format \in Formats
    BY <1>1, <2>1 DEF Formats, Indices
  <2> HIDE DEF format
  <2> QED
    BY <1>1, <2>1, <2>2, InsertKeepsTypes
<1>3. CASE MigrateModels
  <2> DEFINE head == Head(proc.todo)
  <2>1. proc.step = "models"
    BY <1>3 DEF MigrateModels, At
  <2>2. CASE db' = db
    <3>1. Leaves
      BY <2>2 DEF Leaves, Positions
    <3> QED
      BY <3>1, LeavingKeepsTypes
  <2>3. CASE db' = InsertEvents(db, head + 1, head + 1)
    <3>1. head \in Int /\ eventTarget <= head /\ head < target
      BY <2>1, ModelHead
    <3>2. head + 1 \in Formats
      BY <1>1, <3>1 DEF Formats, Indices
    <3> QED
      BY <1>1, <2>3, <3>2, InsertKeepsTypes
  <2> QED
    BY <1>3, <2>2, <2>3 DEF MigrateModels
<1> QED
  BY <1>2, <1>3

\* Init satisfies the invariant.
LEMMA TablesInit == Init => TablesInv
<1> SUFFICES ASSUME Init PROVE TablesInv
  OBVIOUS
<1>1. /\ db.positions = <<>> /\ db.events = <<>> /\ db.models = <<>> /\ db.position_seq = 0
      /\ db.migration_positions = <<>> /\ db.migration_events = <<>>
      /\ db.migration_keyframes = <<>> /\ writing = 0 /\ target = 1 /\ stops = 0
  BY DEF Init, EmptyDb
<1>2. /\ Positions = {} /\ DOMAIN db.events = {} /\ DOMAIN db.migration_positions = {}
      /\ DOMAIN db.migration_events = {} /\ DOMAIN db.migration_keyframes = {}
  BY <1>1 DEF Positions
<1>3. BoundsInv
  BY <1>1, MigrationAssumption DEF BoundsInv
<1>4. Cardinality(Positions) = 0
  BY <1>2, FS_EmptySet
<1>5. <<>> \in [1..0 -> Rows]
  OBVIOUS
<1>6. db.models \in [1..Cardinality(Positions) -> Rows]
  BY <1>1, <1>4, <1>5
<1> QED
  BY <1>2, <1>3, <1>6 DEF TablesInv, EventsTyped, KeyframesTyped

\* Every step keeps it.
LEMMA TablesStep == CommandInv /\ PlaceInv /\ TablesInv /\ [Next]_vars => TablesInv'
<1> SUFFICES ASSUME CommandInv, PlaceInv, TablesInv, [Next]_vars PROVE TablesInv'
  OBVIOUS
<1>1. CASE UNCHANGED vars
  <2>1. Leaves /\ BoundsInv'
    BY <1>1 DEF vars, Leaves, Positions, TablesInv, BoundsInv
  <2> QED
    BY <2>1, LeavingKeepsTypes
<1>2. CASE Next
  <2>1. BoundsInv' /\ Shape
    BY <1>2, BoundsKeep DEF TablesInv, CommandInv
  <2>2. CASE MigrateNextPosition
    BY <2>1, <2>2, MigrateNextKeepsTypes
  <2>3. CASE FillModelsAndIdSequences
    BY <2>1, <2>3, FillKeepsTypes
  <2>4. CASE SwapEvents
    BY <2>1, <2>4, SwapKeepsTypes
  <2>5. CASE CommitWrite \/ MigrateModels
    BY <2>1, <2>5, WriteKeepsTypes
  <2> QED
    BY <1>2, <2>1, <2>2, <2>3, <2>4, <2>5, LeavingSteps, LeavingKeepsTypes
<1> QED
  BY <1>1, <1>2

\* A list of as many rows as there are positions is a history.
LEMMA HistoryBound ==
    ASSUME Shape, BoundsInv, NEW S, S \subseteq Positions, NEW h \in [1..Cardinality(S) -> Rows]
    PROVE  h \in Histories
<1> DEFINE n == db.position_seq
           c == Cardinality(S)
<1>1. n \in Nat /\ n <= MaxPosition /\ MaxPosition \in Nat /\ S \subseteq 1..n
  BY MigrationAssumption DEF Shape, BoundsInv
<1> HIDE DEF n
<1>2. IsFiniteSet(1..n) /\ Cardinality(1..n) = n
  <2>1. 1 \in Int /\ n \in Int
    BY <1>1
  <2>2. IsFiniteSet(1..n) /\ Cardinality(1..n) = IF 1 > n THEN 0 ELSE n - 1 + 1
    BY <2>1, FS_Interval
  <2> QED
    BY <1>1, <2>2
<1>3. c \in Nat /\ c <= n
  BY <1>1, <1>2, FS_Subset, FS_CardinalityType
<1>4. c \in 0..MaxPosition
  BY <1>1, <1>3
<1> HIDE DEF c
<1>5. h \in [1..c -> (1..MaxPosition) \X (Indices \cup {Garbled})]
  BY DEF c, Rows, Formats
<1> QED
  BY <1>4, <1>5 DEF Histories

\* What schema.sql and the queries say of the tables holds in every state: events, migrated
\* events and keyframes belong to positions that exist, also after an exchange of the events,
\* and models and keyframes list events of positions that were written.
THEOREM TypesCorrect == Spec => []TypeOk
<1>1. Init => CommandInv /\ PlaceInv /\ TablesInv
  BY CommandInit, PlaceInit, TablesInit
<1>2. CommandInv /\ PlaceInv /\ TablesInv /\ [Next]_vars => (CommandInv /\ PlaceInv /\ TablesInv)'
  BY CommandStep, PlaceStep, TablesStep
<1>3. CommandInv /\ PlaceInv /\ TablesInv => TypeOk
  <2> SUFFICES ASSUME CommandInv, PlaceInv, TablesInv PROVE TypeOk
    OBVIOUS
  <2>1. Shape /\ BoundsInv /\ RowsInv /\ EventsTyped /\ LockInv
    BY DEF CommandInv, PlaceInv, TablesInv
  <2>2. /\ db.position_seq \in Nat /\ db.position_seq <= MaxPosition /\ MaxPosition \in Nat
        /\ eventTarget \in Nat /\ 1 <= eventTarget /\ eventTarget <= target /\ target \in Nat
        /\ target <= MaxTarget /\ MaxTarget \in Nat /\ stops \in 0..MaxStops
        /\ writing \in Int /\ -1 <= writing /\ writing <= target /\ online \in BOOLEAN
    BY <2>1, MigrationAssumption DEF Shape, BoundsInv, RowsInv, CommandInv, Discipline
  <2>3. Positions \subseteq 1..db.position_seq /\ db.position_seq \in 0..MaxPosition
    BY <2>1, <2>2 DEF Shape
  <2>4. Values(db.positions) \subseteq Indices \cup {-1}
    <3>1. \A p \in Positions : db.positions[p] \in {-1} \cup 1..target
      BY <2>1 DEF RowsInv, AllAt
    <3>2. \A p \in Positions : db.positions[p] \in Indices \cup {-1}
      BY <2>2, <3>1 DEF Indices
    <3> QED
      BY <3>2 DEF Values, Positions
  <2>5. /\ DOMAIN db.events \subseteq Positions /\ DOMAIN db.migration_events \subseteq Positions
        /\ DOMAIN db.collectionfields \subseteq Positions
        /\ DOMAIN db.migration_positions \subseteq Positions
    BY <2>1 DEF EventsTyped, LockInv
  <2>6. DOMAIN db.migration_keyframes \subseteq Positions \X Indices
    BY DEF TablesInv, KeyframesTyped
  <2>7. db.models \in Histories
    BY <2>1, HistoryBound DEF TablesInv
  <2>8. ASSUME NEW k \in DOMAIN db.migration_keyframes
        PROVE  db.migration_keyframes[k] \in Histories
    <3>1. UpTo(k[1]) \subseteq Positions
      BY DEF UpTo
    <3>2. db.migration_keyframes[k] \in [1..Cardinality(UpTo(k[1])) -> Rows]
      BY DEF TablesInv, KeyframesTyped
    <3> QED
      BY <2>1, <3>1, <3>2, HistoryBound
  <2>9. Values(db.migration_keyframes) \subseteq Histories
    BY <2>8 DEF Values
  <2>10. /\ eventTarget \in Indices /\ target \in eventTarget..MaxTarget
         /\ writing \in Indices \cup {-1, 0}
    BY <2>2 DEF Indices
  <2> QED
    BY <2>2, <2>3, <2>4, <2>5, <2>6, <2>7, <2>9, <2>10 DEF TypeOk
<1> QED
  BY <1>1, <1>2, <1>3, PTL DEF Spec

=============================================================================
