---------------------------- MODULE MCOccClients ----------------------------
(***************************************************************************)
(* A small instance of OccClients: two models of one collection, a filtered *)
(* field f and another field g.                                             *)
(***************************************************************************)
EXTENDS OccClients

CONSTANTS x, y

A1 == <<"a", 1>>
A2 == <<"a", 2>>

Request(events) ==
    <<[events |-> events, information |-> "given", migration_index |-> None,
       locked_fqids |-> <<>>, locked_fqfields |-> <<>>, locked_collectionfields |-> <<>>]>>

Set(q, f, v) == UpdateEvent(q, f :> v, <<>>, <<>>)

OtherWrites ==
    {Request(<<CreateEvent(A1, [f |-> x, g |-> x])>>),
     Request(<<CreateEvent(A2, [f |-> y])>>),
     Request(<<Set(A1, "f", y)>>), Request(<<Set(A1, "g", y)>>),
     Request(<<Set(A2, "f", x)>>),
     Request(<<DeleteEvent(A1)>>), Request(<<RestoreEvent(A1)>>)}

FEqualsX == [field |-> "f", value |-> x]
SetA2 == <<Set(A2, "g", y)>>
=============================================================================
