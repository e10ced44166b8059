---------------------------- MODULE RuleEvaluator ----------------------------
(***************************************************************************)
(* RuleEvaluator::evaluate, the test of a rule's condition (and of its     *)
(* clear_condition) on the JSON value a device reported.                   *)
(*                                                                         *)
(* A JSON value is a pair of its kind and its content.  An f64 is a number *)
(* of half epsilons, an infinity or NaN: two readings may be apart by less *)
(* than f64::EPSILON, and "inf", "-inf" and "nan" are strings that parse   *)
(* as f64.                                                                 *)
(***************************************************************************)
EXTENDS Integers

CONSTANTS Number,     \* numbers in JSON, in half epsilons
          Str,        \* strings
          Parse,      \* Parse[s]: the f64 that s parses as, or Missing
          StrLess,    \* the pairs in lexicographic order
          Substring,  \* the pairs <<s, t>> where t is a part of s
          Inf, NegInf, NaN,
          Missing     \* None: no such field, no such reading of a value

Epsilon == 2

\* What Value::as_f64 and str::parse::<f64> return, in half epsilons.
F64 == Int \cup {Inf, NegInf, NaN}

\* The JSON values of the conditions and of the reports.
Json == {<<"number", n>> : n \in Number} \cup {<<"string", s>> : s \in Str}
        \cup {<<"bool", b>> : b \in BOOLEAN} \cup {<<"null", 0>>}

\* The order of strings is total, and the special values are no others.
ASSUME EvaluatorAssumption ==
    /\ Number \subseteq Int
    /\ Parse \in [Str -> F64 \cup {Missing}]
    /\ \A s, t \in Str : <<s, t>> \in StrLess <=> s # t /\ <<t, s>> \notin StrLess
    /\ Inf \notin Int /\ NegInf \notin Int /\ NaN \notin Int
    /\ Inf # NegInf /\ Inf # NaN /\ NegInf # NaN
    /\ Missing \notin F64 /\ Missing \notin Json

Operator == {">", ">=", "<", "<=", "==", "!=", "between", "contains", "always"}

Condition(op, value) ==
    [operator |-> op, value |-> value, min |-> Missing, max |-> Missing]

Between(min, max) ==
    [operator |-> "between", value |-> Missing, min |-> min, max |-> max]

-----------------------------------------------------------------------------
\* IEEE order and difference: NaN is in no relation, and Inf - Inf is NaN.
FloatLess(a, b) ==
    /\ NaN \notin {a, b} /\ a # b
    /\ a # Inf /\ b # NegInf /\ (a # NegInf /\ b # Inf => a < b)

FloatLeq(a, b) == FloatLess(a, b) \/ (a = b /\ a # NaN)

Distance(a, b) ==
    IF NaN \in {a, b} \/ (a = b /\ a \in {Inf, NegInf}) THEN NaN
    ELSE IF a \in {Inf, NegInf} \/ b \in {Inf, NegInf} THEN Inf
    ELSE IF a >= b THEN a - b ELSE b - a

JsonToF64(v) ==
    IF v = Missing THEN Missing
    ELSE IF v[1] = "number" THEN v[2]
    ELSE IF v[1] = "string" THEN Parse[v[2]]
    ELSE Missing

Numeric(v, w) == Missing \notin {JsonToF64(v), JsonToF64(w)}

Textual(v, w) == v[1] = "string" /\ w[1] = "string"

\* compare_ordered: as numbers if both can be, else as strings if both are.
Less(v, w) ==
    IF Numeric(v, w) THEN FloatLess(JsonToF64(v), JsonToF64(w))
    ELSE Textual(v, w) /\ <<v[2], w[2]>> \in StrLess

Leq(v, w) ==
    IF Numeric(v, w) THEN FloatLeq(JsonToF64(v), JsonToF64(w))
    ELSE Textual(v, w) /\ (v[2] = w[2] \/ <<v[2], w[2]>> \in StrLess)

Equal(v, w) ==
    IF Numeric(v, w) THEN FloatLess(Distance(JsonToF64(v), JsonToF64(w)), Epsilon)
                     ELSE v = w

UnequalBeyond(v, w) ==  \* mutant: apart by more than an epsilon
    IF Numeric(v, w) THEN FloatLess(Epsilon, Distance(JsonToF64(v), JsonToF64(w)))
                     ELSE v # w

Unequal(v, w) ==
    IF Numeric(v, w) THEN FloatLeq(Epsilon, Distance(JsonToF64(v), JsonToF64(w)))
                     ELSE v # w

Within(v, min, max) ==
    /\ Missing \notin {JsonToF64(min), JsonToF64(max), JsonToF64(v)}
    /\ FloatLeq(JsonToF64(min), JsonToF64(v)) /\ FloatLeq(JsonToF64(v), JsonToF64(max))

\* A condition with an unknown operator, or without the field it needs, is false.
Evaluate(c, v) ==
    \/ /\ c.value # Missing
       /\ \/ c.operator = ">"  /\ Less(c.value, v)
          \/ c.operator = ">=" /\ Leq(c.value, v)
          \/ c.operator = "<"  /\ Less(v, c.value)
          \/ c.operator = "<=" /\ Leq(v, c.value)
          \/ c.operator = "==" /\ Equal(v, c.value)
          \/ c.operator = "!=" /\ Unequal(v, c.value)
          \/ c.operator = "contains" /\ Textual(v, c.value)
                                     /\ <<v[2], c.value[2]>> \in Substring
    \/ c.operator = "between" /\ Within(v, c.min, c.max)
    \/ c.operator = "always"

-----------------------------------------------------------------------------
(***************************************************************************)
(* What the operators should mean together.                                *)
(***************************************************************************)

IsNumeric(v) == JsonToF64(v) # Missing

Ordered(v, w) ==
    IF Numeric(v, w) THEN NaN \notin {JsonToF64(v), JsonToF64(w)} ELSE Textual(v, w)

Equatable(v, w) == Numeric(v, w) => Distance(JsonToF64(v), JsonToF64(w)) # NaN

\* Exactly one of two opposite operators holds if the values can be compared, and
\* neither if they cannot.
Opposite(p, q, comparable) == IF comparable THEN p <=> ~q ELSE ~p /\ ~q

Partitioned ==
    {v \in Json : \A w \in Json :
        LET Is(op) == Evaluate(Condition(op, w), v) IN
        /\ Opposite(Is(">"), Is("<="), Ordered(v, w))
        /\ Opposite(Is("<"), Is(">="), Ordered(v, w))
        /\ Opposite(Is("=="), Is("!="), Equatable(v, w))
        /\ \A u \in Json : IsNumeric(u) /\ IsNumeric(v) /\ IsNumeric(w) =>
              (Evaluate(Between(u, w), v) <=> Evaluate(Condition(">=", u), v) /\ Is("<="))}
=============================================================================
