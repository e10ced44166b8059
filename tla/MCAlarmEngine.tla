---------------------------- MODULE MCAlarmEngine ----------------------------
(* Model-checking instance of AlarmEngine, with conditions that RuleEvaluator *)
(* evaluates: a rule "> 2" that clears between 0 and 2, in half epsilons.     *)
EXTENDS AlarmRules, TLC

Symmetry == Permutations(Task)

\* Numbers around a threshold.
Numbers == 0..(2 * Epsilon)

\* "1" is a string that parses as a number.
Words == {"a", "ab", "1", "inf", "-inf", "nan"}
WordParse == [s \in Words |-> CASE s = "1"   -> Epsilon
                                [] s = "inf" -> Inf
                                [] s = "-inf" -> NegInf
                                [] s = "nan" -> NaN
                                [] OTHER     -> Missing]
Sorted == <<"-inf", "1", "a", "ab", "inf", "nan">>
WordLess == {<<Sorted[p[1]], Sorted[p[2]]>> : p \in {q \in (1..6) \X (1..6) : q[1] < q[2]}}
WordPart == {<<s, s>> : s \in Words} \cup {<<"ab", "a">>, <<"nan", "a">>}

\* A number above the threshold and a string that parses as one below it; NaN is a
\* reading that neither triggers nor clears.
Readings    == {<<"number", 2 * Epsilon>>, <<"string", "1">>}
AllReadings == Readings \cup {<<"string", "nan">>}

Hot  == {v \in Value : Evaluate(Condition(">", <<"number", Epsilon>>), v)}
Cool == {v \in Value : Evaluate(Between(<<"number", 0>>, <<"number", Epsilon>>), v)}
=============================================================================
