-------------------------- MODULE MCWriterService --------------------------
(***************************************************************************)
(* Two writers, one with two write requests in its body, and two reservers.  *)
(***************************************************************************)
EXTENDS WriterService

CONSTANTS w1, w2, r1, r2

Requests == [w \in Writers |-> IF w = w1 THEN 2 ELSE 1]
Ids == [w \in Writers |-> IF w = w1 THEN 3 ELSE 1]
Amounts == [r \in Reservers |-> IF r = r1 THEN 1 ELSE 2]
=============================================================================
