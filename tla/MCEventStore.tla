---------------------------- MODULE MCEventStore ----------------------------
(***************************************************************************)
(* Two instances of EventStore: one model with every kind of event on       *)
(* scalar and list fields, and several collections with identifiers,        *)
(* collections without history, trimming and truncation.                    *)
(***************************************************************************)
EXTENDS MemoryMigration

CONSTANTS x, X,    \* a string and the same in capitals, which no model has
          y, z,    \* a number and a greater one, which no model has
          o        \* a JSON object

Request(events, migrationIndex) ==
    [events |-> events, information |-> "given", migration_index |-> migrationIndex,
     locked_fqids |-> <<>>, locked_fqfields |-> <<>>, locked_collectionfields |-> <<>>]

One(event) == <<Request(<<event>>, None)>>

-----------------------------------------------------------------------------
A1 == <<"a", 1>>
A2 == <<"a", 2>>

SetF(v) == UpdateEvent(A1, "f" :> v, <<>>, <<>>)
SetL(v) == UpdateEvent(A1, "l" :> v, <<>>, <<>>)
AddL(v) == UpdateEvent(A1, <<>>, "l" :> v, <<>>)
RemoveL(v) == UpdateEvent(A1, <<>>, <<>>, "l" :> v)
Mixed == UpdateEvent(A1, "f" :> None, "l" :> <<x, y>>, "l" :> <<x>>)
AddToScalar == UpdateEvent(A1, <<>>, "f" :> <<x>>, <<>>)
Clash == UpdateEvent(A1, "f" :> x, "f" :> <<x>>, <<>>)

ModelWrites ==
    {One(CreateEvent(A1, [f |-> x, l |-> None])), One(CreateEvent(A2, [f |-> y])),
     One(SetF(y)), One(SetL(<<o>>)), One(AddL(<<y, x>>)), One(RemoveL(<<x>>)),
     One(Mixed), One(AddToScalar), One(Clash),
     One(DeleteEvent(A1)), One(RestoreEvent(A1)),
     <<Request(<<DeleteEvent(A1), RestoreEvent(A1), SetL(<<x>>)>>, None)>>,
     <<Request(<<CreateEvent(A1, [l |-> <<y>>]), DeleteEvent(A1)>>, None),
       Request(<<RestoreEvent(A1)>>, None)>>,
     <<Request(<<SetF(y)>>, None), Request(<<DeleteEvent(A1)>>, None)>>,
     <<Request(<<SetF(None)>>, None), Request(<<SetF(x), SetF(x)>>, None)>>}

Part(fqids, fields) == [fqids |-> fqids, mapped_fields |-> fields]

ModelReads ==
    {{Part({A1, A2}, {})}, {Part({A1}, {"f"}), Part({A2}, {"l"})},
     {Part({A1}, {}), Part({A2}, {"f"})}, {Part({A1}, {"l", META_POSITION}), Part({A1}, {})}}

Lower == (x :> x) @@ (X :> x)
Order == {<<y, z>>}

F(operator, value) == FilterOperator("f", operator, value)
NoL == FilterOperator("l", "=", None)
Alive == FilterOperator(META_DELETED, "=", FALSE)

Filters ==
    {F("=", x), F("!=", x), Not(F("=", x)), F("<", z), F(">=", z), F(">", x), F("=", None),
     F("!=", None), F("<", None), F("~=", X), F("%=", X), And(<<F("!=", None), F("~=", X)>>),
     And(<<Alive, Not(NoL), F("<=", y)>>), Or(<<NoL, F("!=", y)>>), And(<<>>),
     Or(<<F("=", y), And(<<>>)>>)}

ModelFilters == {[collection |-> "a", filter |-> f, fields |-> p] : f \in Filters, p \in {{}, {"l"}}}

ModelEventMigrations ==
    <<RenameField("a", "l", "m"), AddFields("a", "g" :> x), RemoveFields("a", {"f"})>>

\* The second one finds what the first one wrote.
ModelModelMigrations ==
    <<[collection |-> "a", filter |-> And(<<Or(<<FilterOperator("m", "!=", None), F("=", x)>>), Alive>>),
       fields |-> ("g" :> y) @@ ("m" :> None)],
      [collection |-> "a", filter |-> And(<<FilterOperator("g", "=", y), Alive>>), fields |-> "h" :> x]>>

-----------------------------------------------------------------------------
NoMigrations == <<>>

Create(c, i, v) == CreateEvent(<<c, i>>, "f" :> v)

TableWrites ==
    {One(Create("a", 1, x)), One(Create("a", 3, y)),
     <<Request(<<Create("a", 2, x)>>, 5)>>,
     <<Request(<<Create("a", 2, x)>>, 5), Request(<<Create("b", 1, x)>>, 6)>>,
     <<Request(<<Create("b", 2, x), Create("b", 1, x)>>, None)>>,
     One(UpdateEvent(A1, "g" :> y, <<>>, <<>>))}

WorkerWrites == {CreateEvent(<<"w", 1>>, "f" :> x),
                 UpdateEvent(<<"w", 1>>, "f" :> None, <<>>, <<>>)}
WorkerDeletes == {{<<"w", 1>>}}
Reserve == {<<"a", 1>>, <<"a", 2>>, <<"b", 1>>, <<"a", 0>>}
=============================================================================
