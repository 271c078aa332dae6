------------------------------ MODULE Filters -------------------------------
(***************************************************************************)
(* The filter language and its two evaluations: SqlQueryHelper turns a     *)
(* filter into SQL, where a comparison with a missing field is NULL and a  *)
(* cast may fail; filter_models turns that SQL into Python code for the    *)
(* migrations in memory, where a missing field is None.                    *)
(***************************************************************************)
EXTENDS DbEvents

CONSTANTS Strings,    \* JSON strings, none of which is spelled like a number
          Numbers,    \* JSON integers
          LowerCase,  \* the function lower on Strings
          Below       \* the pairs of strings and the pairs of numbers in their order

ASSUME FilterAssumption ==
    /\ Strings \cap Numbers = {} /\ None \notin Strings \cup Numbers
    /\ LowerCase \in [Strings -> Strings]
    /\ Below \subseteq (Strings \X Strings) \cup (Numbers \X Numbers)

FilterOperator(field, operator, value) ==
    [kind |-> "operator", field |-> field, operator |-> operator, value |-> value]
Not(part) == [kind |-> "not", parts |-> <<part>>]
And(parts) == [kind |-> "and", parts |-> parts]
Or(parts) == [kind |-> "or", parts |-> parts]

OrderOperators == {"<", "<=", ">", ">="}

\* The comparisons that a filter is made of.
RECURSIVE Operators(_)
Operators(filter) ==
    IF filter.kind = "operator" THEN {filter}
    ELSE UNION {Operators(filter.parts[i]) : i \in DOMAIN filter.parts}

\* An "and" or "or" without parts somewhere in the filter.
RECURSIVE HasEmptyPart(_)
HasEmptyPart(filter) ==
    /\ filter.kind # "operator"
    /\ \/ filter.parts = <<>>
       \/ \E i \in DOMAIN filter.parts : HasEmptyPart(filter.parts[i])

\* build_filter_str raises InvalidFormat: None is compared with = and != only.
InvalidFormat(filter) ==
    \E c \in Operators(filter) : c.value = None /\ c.operator \notin {"=", "!="}

HasField(model, field) == field \in DOMAIN model /\ model[field] # None

InOrder(operator, a, b) ==
    CASE operator = "<" -> <<a, b>> \in Below
      [] operator = "<=" -> <<a, b>> \in Below \/ a = b
      [] operator = ">" -> <<a, b>> \notin Below /\ a # b
      [] operator = ">=" -> <<a, b>> \notin Below

Verdict(condition) == IF condition THEN "true" ELSE "false"

-----------------------------------------------------------------------------
(* PostgreSQL: "true", "false", "null" or an error that ends the query      *)

LowerText(value) == IF value \in Strings THEN LowerCase[value] ELSE value

\* The conditions of build_filter_str on the column data, for a value that is not None;
\* ILIKE for patterns without wildcards.
Comparison(c, value) ==
    CASE c.operator = "=" -> Verdict(value = c.value)
      [] c.operator = "!=" -> Verdict(value # c.value)
      [] c.operator \in {"~=", "%="} -> Verdict(LowerText(value) = LowerText(c.value))
      [] c.operator \in OrderOperators ->
            IF value \notin Numbers THEN "error" ELSE Verdict(InOrder(c.operator, value, c.value))

SqlOperator(c, model) ==
    IF c.value = None THEN Verdict(HasField(model, c.field) = (c.operator = "!="))
    ELSE IF HasField(model, c.field) THEN Comparison(c, model[c.field]) ELSE "null"

\* The server chooses the order of evaluation, so the error of any part may end the query.
RECURSIVE SqlEval(_, _)
SqlEval(filter, model) ==
    LET parts == {SqlEval(filter.parts[i], model) : i \in DOMAIN filter.parts}
        Among(values) == CHOOSE v \in parts : \E i \in DOMAIN values :
            v = values[i] /\ \A j \in 1..(i - 1) : values[j] \notin parts
    IN  CASE filter.kind = "operator" -> SqlOperator(filter, model)
          [] filter.kind = "and" -> Among(<<"error", "false", "null", "true">>)
          [] filter.kind = "or" -> Among(<<"error", "true", "null", "false">>)
          [] filter.kind = "not" ->
                CASE parts = {"true"} -> "false"
                  [] parts = {"false"} -> "true"
                  [] OTHER -> Among(<<"error", "null">>)

\* A statement that the server rejects before it looks at a row.
SqlRejected(filter) ==
    \/ HasEmptyPart(filter)
    \/ \E c \in Operators(filter) : c.operator \in OrderOperators /\ c.value \notin Numbers

Refusal(error) == [error |-> error, models |-> <<>>]

\* The row of a model: its data, or a column for each of the fields.
SqlRow(model, fields) ==
    IF fields = {} THEN model
    ELSE [f \in fields |-> IF f \in DOMAIN model THEN model[f] ELSE None]

InCollection(models, collection) == {q \in DOMAIN models : CollectionOf(q) = collection}

\* build_filter_query and fetch_models. There is no condition on deleted models.
SqlFilter(models, collection, filter, fields) ==
    LET all == InCollection(models, collection)
    IN  IF InvalidFormat(filter) THEN Refusal("InvalidFormat")
        ELSE IF \/ SqlRejected(filter)
                \/ \E q \in all : SqlEval(filter, models[q]) = "error"
        THEN Refusal("DatabaseError")
        ELSE [error |-> "ok",
              models |-> [q \in {p \in all : SqlEval(filter, models[p]) = "true"} |->
                             SqlRow(models[q], fields)]]

-----------------------------------------------------------------------------
(* filter_models: Python code made from the SQL text                        *)

\* is_comparable
IsComparable(a, b) == \E type \in {Strings, Numbers} : a \in type /\ b \in type

\* Faulty variant: without the check of the types.
PyOrderUnguarded(operator, a, b) ==
    IF IsComparable(a, b) THEN Verdict(InOrder(operator, a, b)) ELSE "error"

PyOrder(operator, a, b) ==
    IF IsComparable(a, b) THEN Verdict(InOrder(operator, a, b)) ELSE "false"

\* model.get(field) on the left. lower() is called on whatever is there, which raises an
\* AttributeError if it is no string.
PyOperator(c, model) ==
    LET value == IF HasField(model, c.field) THEN model[c.field] ELSE None
    IN  CASE c.operator = "=" -> Verdict(value = c.value)
          [] c.operator = "!=" -> Verdict(value # c.value)
          [] c.operator = "~=" ->
                IF value \in Strings /\ c.value \in Strings
                THEN Verdict(LowerCase[value] = LowerCase[c.value]) ELSE "error"
          [] c.operator \in OrderOperators -> PyOrder(c.operator, value, c.value)

\* From left to right, up to the part that decides; "()" is an empty tuple and false.
RECURSIVE PyEval(_, _)
PyEval(filter, model) ==
    LET Part(i) == PyEval(filter.parts[i], model)
        Decided(neutral) ==
            LET deciding == {i \in DOMAIN filter.parts : Part(i) # neutral}
            IN  IF deciding = {} THEN Verdict(neutral = "true" /\ filter.parts # <<>>)
                ELSE Part(Min(deciding))
    IN  CASE filter.kind = "operator" -> PyOperator(filter, model)
          [] filter.kind = "and" -> Decided("true")
          [] filter.kind = "or" -> Decided("false")
          [] filter.kind = "not" ->
                IF Part(1) = "error" THEN "error" ELSE Verdict(Part(1) = "false")

\* Code that is not built or not valid: %=, and nothing at all.
PyRejected(filter) ==
    \/ \E c \in Operators(filter) : c.operator = "%="
    \/ filter.kind # "operator" /\ filter.parts = <<>>

PyRow(model, fields) ==
    IF fields = {} THEN model ELSE Restrict(model, fields \cap DOMAIN model)

FilterModels(models, collection, filter, fields) ==
    LET all == InCollection(models, collection)
    IN  IF InvalidFormat(filter) THEN Refusal("InvalidFormat")
        ELSE IF PyRejected(filter) \/ \E q \in all : PyEval(filter, models[q]) = "error"
        THEN Refusal("PythonError")
        ELSE [error |-> "ok",
              models |-> [q \in {p \in all : PyEval(filter, models[p]) = "true"} |->
                             PyRow(models[q], fields)]]
=============================================================================
