---------------------------- MODULE SerialWrites ----------------------------
(***************************************************************************)
(* What the writer promises its clients, without threads, locks, retries   *)
(* and connections: calls of write take effect one after the other, each   *)
(* with all of its positions at once, and are announced in that order;     *)
(* reservations hand out ids that nobody has. A client may be left without *)
(* a clear answer at any time. Module WriterService implements this.       *)
(***************************************************************************)
EXTENDS Integers, FiniteSets

CONSTANTS Writers, Reservers, RequestsOf, CreateId, Amount

VARIABLES visible,    \* the rows readers see: position and call
          announced,  \* the messages on the bus: call and positions
          used,       \* ids of models
          held,       \* ids handed out to each call of reserve_ids
          answer      \* what each client was told

sVars == <<visible, announced, used, held, answer>>

Callers == Writers \cup Reservers

RowsOf(w) == {row \in visible : row.writer = w}
PositionsOf(w) == {row.position : row \in RowsOf(w)}

Init ==
    /\ visible = {} /\ announced = {} /\ used = {}
    /\ held = [r \in Reservers |-> {}]
    /\ answer = [t \in Callers |-> "none"]

Reply(t, outcome) ==
    /\ answer[t] = "none"
    /\ answer' = [answer EXCEPT ![t] = outcome]

\* The call takes effect: one new row per request, above all rows that are visible.
\* The client knows nothing yet, or never will.
Apply(w, outcome) ==
    /\ RowsOf(w) = {}
    /\ Reply(w, outcome)
    /\ visible \subseteq visible'
    /\ \A new \in visible' \ visible :
          new.writer = w /\ \A old \in visible : new.position > old.position
    /\ Cardinality(visible' \ visible) = RequestsOf[w]
    /\ used' = used \cup {CreateId[w]}
    /\ UNCHANGED <<announced, held>>

\* All positions of the call are announced in one message, above all that are
\* announced, and the client is told.
Announce(w) ==
    /\ RowsOf(w) # {}
    /\ \A message \in announced : \A p \in PositionsOf(w), q \in message.positions : p > q
    /\ Reply(w, "ok")
    /\ announced' = announced \cup {[writer |-> w, positions |-> PositionsOf(w)]}
    /\ UNCHANGED <<visible, used, held>>

\* A refused call never takes effect.
Refuse(w) ==
    /\ RowsOf(w) = {}
    /\ Reply(w, "refused")
    /\ UNCHANGED <<visible, announced, used, held>>

\* The ids are handed out, with or without the client learning of them.
Reserve(r, outcome) ==
    /\ held[r] = {}
    /\ Reply(r, outcome)
    /\ \A s \in Reservers : s # r => held'[s] = held[s]
    /\ Cardinality(held'[r]) = Amount[r]
    /\ held'[r] \cap (used \cup UNION {held[s] : s \in Reservers}) = {}
    /\ UNCHANGED <<visible, announced, used>>

\* Calls under way, one or all of them, end with an error.
Fail ==
    /\ answer' # answer
    /\ \A t \in Callers : answer'[t] # answer[t] => answer[t] = "none" /\ answer'[t] = "error"
    /\ UNCHANGED <<visible, announced, used, held>>

Next ==
    \/ \E w \in Writers : Apply(w, "none") \/ Apply(w, "error") \/ Announce(w) \/ Refuse(w)
    \/ \E r \in Reservers : Reserve(r, "ok") \/ Reserve(r, "error")
    \/ Fail

Spec == Init /\ [][Next]_sVars
=============================================================================
