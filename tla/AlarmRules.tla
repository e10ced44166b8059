------------------------------ MODULE AlarmRules ------------------------------
(***************************************************************************)
(* The rule engine with the evaluator of its conditions: what a device     *)
(* reports is a JSON value, which RuleEvaluator compares with thresholds   *)
(* that are JSON values too.                                               *)
(***************************************************************************)
EXTENDS AlarmEngine, RuleEvaluator

ASSUME RulesAssumption == Value \subseteq Json

\* Whatever a device reports, a rule that triggers on one operator and clears on its
\* opposite never does both for one reading, and does one of them for every reading
\* it can compare with its threshold: no value, however close and whatever its JSON
\* type, falls between the two.  A range is its two bounds.
OperatorsPartition == \A t \in Task : val[t] # None => val[t] \in Partitioned
=============================================================================
