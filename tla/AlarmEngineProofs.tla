-------------------------- MODULE AlarmEngineProofs --------------------------
(***************************************************************************)
(* Proofs about AlarmEngine, for any number of evaluations in flight, any  *)
(* rule and any number of alarm rows: type correctness, the finality of    *)
(* "cleared", the duration window of the in-memory store, the bound on     *)
(* alarms per throttle window, and the evaluator of the conditions.        *)
(***************************************************************************)
EXTENDS AlarmRules, FiniteSetTheorems, TLAPS

\* The types of an evaluation's locals.
TaskTypeOK ==
    /\ pc \in [Task -> Pc]
    /\ val \in [Task -> Value \cup {None}]
    /\ found \in [Task -> SUBSET Alarm]
    /\ stamp \in [Task -> (0..Larger(DurationTtl, Throttle)) \cup {None}]

\* In memory no evaluation found the condition false since the streak began.
Streak ==
    backend = "memory" /\ dur # None => miss >= dur \/ miss = Duration

\* A task that starts a streak, or stores a mark, has read the clock; in memory there
\* is no time between the two.
StampTaken ==
    \A t \in Task :
        /\ pc[t] = "start" => /\ stamp[t] \in 0..DurationTtl
                              /\ backend = "memory" => stamp[t] = 0
        /\ pc[t] = "store" => stamp[t] \in 0..Throttle /\ backend = "redis"

\* The inductive invariant.
EngineInv == TypeOK /\ Streak /\ StampTaken

-----------------------------------------------------------------------------
\* The EX of each key is a number of minutes no smaller than its window.
LEMMA Ttls ==
    /\ DedupTtl \in Nat /\ DurationTtl \in Nat
    /\ DurationTtl >= Duration /\ DedupTtl >= Throttle
    /\ Larger(DurationTtl, Throttle) \in Nat
    /\ Larger(DurationTtl, Throttle) >= DurationTtl /\ Larger(DurationTtl, Throttle) >= Throttle
BY EngineAssumption DEF DedupTtl, DurationTtl, Larger

\* A task that moves on keeps its locals well typed.
LEMMA GoType ==
    ASSUME TypeOK, NEW t \in Task, NEW l \in Pc, 
           NEW s \in (0..Larger(DurationTtl, Throttle)) \cup {None}, Go(t, l, s)
    PROVE  /\ TaskTypeOK'
           /\ pc'[t] = l /\ stamp'[t] = s
           /\ \A u \in Task \ {t} : pc'[u] = pc[u] /\ stamp'[u] = stamp[u]
BY DEF TypeOK, TaskTypeOK, Go

\* A task that ends keeps its locals well typed.
LEMMA DoneType ==
    ASSUME TypeOK, NEW t \in Task, Done(t)
    PROVE  /\ TaskTypeOK'
           /\ pc'[t] = "idle" /\ stamp'[t] = None
           /\ \A u \in Task \ {t} : pc'[u] = pc[u] /\ stamp'[u] = stamp[u]
BY DEF TypeOK, TaskTypeOK, Done, Pc

\* Some clock readings and labels.
LEMMA Labels ==
    /\ {"idle", "load", "evaluate", "start", "dedup", "mark", "store", "insert",
        "clear_query", "clear", "reset"} \subseteq Pc
    /\ None \in (0..Larger(DurationTtl, Throttle)) \cup {None}
    /\ 0 \in 0..Larger(DurationTtl, Throttle) /\ 0 \in 0..Throttle /\ 0 \in 0..DurationTtl /\ 0 \in 0..DedupTtl
    /\ 0 \in 0..Duration /\ Duration \in 0..Duration
BY Ttls, EngineAssumption DEF Pc

\* A task's move, or its end, that changes nothing else of the store.
Moves(t) ==
    /\ TaskTypeOK'
    /\ pc'[t] \in {"start", "store"} => stamp'[t] = 0
    /\ pc'[t] = "store" => backend = "redis"
    /\ \A u \in Task \ {t} : pc'[u] = pc[u] /\ stamp'[u] = stamp[u]

\* Every step of an evaluation is such a move.
LEMMA EvaluationMoves ==
    ASSUME EngineInv, NEW t \in Task, Evaluation(t)
    PROVE  Moves(t)
<1> USE DEF EngineInv
<1>1. ASSUME NEW l \in Pc \ {"start", "store"}, Go(t, l, None) PROVE Moves(t)
  BY <1>1, GoType, Labels DEF Moves
<1>2. ASSUME Done(t) PROVE Moves(t)
  BY <1>2, DoneType DEF Moves
<1>3. ASSUME Go(t, "start", 0) PROVE Moves(t)
  BY <1>3, GoType, Labels DEF Moves
<1>3a. ASSUME backend = "redis", Go(t, "store", 0) PROVE Moves(t)
  BY <1>3a, GoType, Labels DEF Moves
<1>4. CASE LoadRules(t) \/ LoadRulesError(t)
  BY <1>1, <1>2, <1>4, Labels DEF LoadRules, LoadRulesError
<1>5. CASE ConditionFails(t) \/ ConditionFailsUnreset(t)
  BY <1>1, <1>5, Labels DEF ConditionFails, ConditionFailsUnreset
<1>6. CASE CheckDuration(t)
  BY <1>1, <1>3, <1>6, Labels DEF CheckDuration
<1>7. CASE StartDuration(t) \/ CheckDurationError(t)
  BY <1>1, <1>7, Labels DEF StartDuration, CheckDurationError
<1>8. CASE \/ CheckDedup(t) \/ CheckDedupError(t) \/ MarkTriggered(t)
           \/ StoreMark(t) \/ MarkTriggeredError(t)
  BY <1>1, <1>8, Labels
     DEF CheckDedup, CheckDedupError, MarkTriggered, StoreMark, MarkTriggeredError
<1>8a. CASE DateMark(t)
  BY <1>3a, <1>8a DEF DateMark
<1>9. CASE InsertAlarmError(t) \/ \E i \in Alarm : InsertAlarm(t, i)
  BY <1>1, <1>9, Labels DEF InsertAlarmError, InsertAlarm
<1>10. CASE ClearQuery(t) \/ ClearQueryError(t)
  BY <1>2, <1>10, Labels DEF ClearQuery, ClearQueryError, OpenAlarms, TypeOK, TaskTypeOK, Moves
<1>11. CASE \E i \in Alarm : ClearAuto(t, i) \/ ClearError(t, i)
  BY <1>11, Labels DEF ClearAuto, ClearError, ClearNext, TypeOK, TaskTypeOK, Moves
<1>12. CASE ResetDuration(t) \/ ResetDurationError(t)
  BY <1>2, <1>12 DEF ResetDuration, ResetDurationError
<1> QED
  BY <1>4, <1>5, <1>6, <1>7, <1>8, <1>8a, <1>9, <1>10, <1>11, <1>12 DEF Evaluation

\* The types of what an evaluation shares with others.
SharedTypeOK ==
    /\ backend \in {"memory", "redis"}
    /\ enabled \in BOOLEAN /\ cached \in BOOLEAN
    /\ dedup \in (0..DedupTtl) \cup {None}
    /\ dur \in (0..DurationTtl) \cup {None}
    /\ st \in [Alarm -> Status]
    /\ admin \in {NoRequest} \cup ({"ack", "clear"} \X Alarm)
    /\ miss \in 0..Duration
    /\ marks \in [0..(Throttle - 1) -> Nat]
    /\ unmarked \in BOOLEAN

\* Every step of an evaluation keeps what it shares with others well typed, and
\* resets or begins the streak when it should.
LEMMA EvaluationShared ==
    ASSUME EngineInv, NEW t \in Task, Evaluation(t)
    PROVE  SharedTypeOK' /\ Streak' /\ backend' = backend
<1> USE DEF EngineInv, SharedTypeOK, TypeOK, Streak, ruleVars, storeVars, seenVars
<1>1. CASE LoadRules(t) \/ LoadRulesError(t)
  BY <1>1 DEF LoadRules, LoadRulesError
<1>2. CASE ConditionFails(t)
  BY <1>2, Labels, EngineAssumption DEF ConditionFails
<1>3. CASE ConditionFailsUnreset(t)
  BY <1>3, Labels DEF ConditionFailsUnreset
<1>4. CASE CheckDuration(t)
  BY <1>4, Labels, EngineAssumption DEF CheckDuration
<1>5. CASE StartDuration(t)
  BY <1>5, Labels, EngineAssumption DEF StartDuration, StampTaken
<1>6. CASE CheckDurationError(t) \/ CheckDedup(t) \/ CheckDedupError(t)
  BY <1>6 DEF CheckDurationError, CheckDedup, CheckDedupError
<1>7. CASE MarkTriggered(t)
  BY <1>7, Labels DEF MarkTriggered, CountMark
<1>7a. CASE DateMark(t)
  BY <1>7a DEF DateMark
<1>7b. CASE StoreMark(t)
  BY <1>7b, Ttls, EngineAssumption DEF StoreMark, CountMark, StampTaken
<1>8. CASE MarkTriggeredError(t)
  BY <1>8 DEF MarkTriggeredError
<1>9. CASE InsertAlarmError(t) \/ ClearQuery(t) \/ ClearQueryError(t)
  BY <1>9 DEF InsertAlarmError, ClearQuery, ClearQueryError
<1>10. CASE \E i \in Alarm : InsertAlarm(t, i)
  BY <1>10 DEF InsertAlarm, Status
<1>11. CASE \E i \in Alarm : ClearAuto(t, i) \/ ClearError(t, i)
  BY <1>11 DEF ClearAuto, ClearError, ClearNext, ClearRow, Status
<1>12. CASE ResetDuration(t) \/ ResetDurationError(t)
  BY <1>12 DEF ResetDuration, ResetDurationError
<1> QED
  BY <1>1, <1>2, <1>3, <1>4, <1>5, <1>6, <1>7, <1>7a, <1>7b, <1>8, <1>9, <1>10, <1>11, <1>12
     DEF Evaluation

\* An evaluation preserves the invariant.
LEMMA EvaluationInv ==
    ASSUME EngineInv, NEW t \in Task, Evaluation(t)
    PROVE  EngineInv'
<1>1. Moves(t) /\ SharedTypeOK' /\ Streak' /\ backend' = backend
  BY EvaluationMoves, EvaluationShared
<1>2. TypeOK'
  BY <1>1 DEF Moves, TaskTypeOK, SharedTypeOK, TypeOK
<1>3. Streak' /\ StampTaken'
  BY <1>1, Labels DEF EngineInv, Moves, StampTaken
<1> QED
  BY <1>2, <1>3 DEF EngineInv

\* So does the arrival of a report.
LEMMA ReportInv ==
    ASSUME EngineInv, NEW t \in Task, NEW v \in Value, Report(t, v)
    PROVE  EngineInv'
<1> USE DEF EngineInv, Report, ruleVars, storeVars, seenVars
<1>1. TypeOK'
  BY DEF TypeOK, Pc
<1>2. Streak' /\ StampTaken'
  BY DEF TypeOK, Streak, StampTaken
<1> QED
  BY <1>1, <1>2

\* So do the administrators' requests.
LEMMA AdminInv ==
    ASSUME EngineInv,
           \/ \E op \in {"ack", "clear"}, i \in Alarm : AdminRead(op, i)
           \/ AckAlarm \/ ClearAlarm \/ AdminGivesUp
    PROVE  EngineInv'
<1> USE DEF EngineInv, ruleVars, storeVars, taskVars, seenVars
<1>1. CASE \E op \in {"ack", "clear"}, i \in Alarm : AdminRead(op, i)
  BY <1>1 DEF AdminRead, TypeOK, Streak, StampTaken
<1>2. CASE AckAlarm
  BY <1>2 DEF AckAlarm, TypeOK, Streak, StampTaken, NoRequest, Status
<1>3. CASE ClearAlarm
  BY <1>3 DEF ClearAlarm, ClearRow, TypeOK, Streak, StampTaken, NoRequest, Status
<1>4. CASE AdminGivesUp
  BY <1>4 DEF AdminGivesUp, TypeOK, Streak, StampTaken
<1> QED
  BY <1>1, <1>2, <1>3, <1>4

\* A change of the rule (update_alarm_rule_status) preserves it.
LEMMA RuleInv ==
    ASSUME EngineInv, UpdateRuleStatus
    PROVE  EngineInv'
<1> USE DEF EngineInv, UpdateRuleStatus, taskVars, seenVars
<1>1. TypeOK'
  BY DEF TypeOK
<1>2. Streak' /\ StampTaken'
  BY DEF Streak, StampTaken
<1> QED
  BY <1>1, <1>2

\* Growing older keeps an age in its range.
LEMMA OlderType ==
    ASSUME NEW cap \in Nat, NEW age \in (0..cap) \cup {None}
    PROVE  /\ Older(age, cap) \in (0..cap) \cup {None}
           /\ age # None => /\ Older(age, cap) # None
                            /\ Older(age, cap) = IF age < cap THEN age + 1 ELSE cap
           /\ age = None => Older(age, cap) = None
BY EngineAssumption DEF Older

\* A minute passes: the streak and the last miss grow older together.
LEMMA TickInv ==
    ASSUME EngineInv, Tick
    PROVE  EngineInv'
<1> USE DEF EngineInv, Tick, ruleVars
<1>a. Duration \in Nat /\ Throttle \in Nat /\ None \notin Nat
  BY EngineAssumption
<1>1. dedup' \in (0..DedupTtl) \cup {None}
  BY OlderType, Ttls DEF TypeOK
<1>2. dur' \in (0..DurationTtl) \cup {None}
  BY OlderType, Ttls DEF TypeOK
<1>3. ASSUME NEW t \in Task
      PROVE  /\ stamp'[t] \in (0..Larger(DurationTtl, Throttle)) \cup {None}
             /\ pc[t] = "start" => /\ stamp'[t] \in 0..DurationTtl
                                   /\ backend # "memory"
             /\ pc[t] = "store" => stamp'[t] \in 0..Throttle
  <2> DEFINE cap == IF pc[t] = "start" THEN DurationTtl ELSE Throttle
  <2>1. cap \in Nat /\ cap <= Larger(DurationTtl, Throttle)
    BY <1>a, Ttls
  <2>2. stamp'[t] = Older(stamp[t], cap)
    OBVIOUS
  <2>3. stamp[t] \in Nat \cup {None}
    BY Ttls DEF TypeOK
  <2>4. stamp'[t] \in (0..cap) \cup {None} /\ (stamp[t] # None => stamp'[t] \in 0..cap)
    BY <1>a, <2>1, <2>2, <2>3 DEF Older
  <2>5. pc[t] \in {"start", "store"} => stamp[t] # None
    BY <1>a, Ttls DEF StampTaken
  <2> QED BY <2>1, <2>4, <2>5, Ttls
<1>4. miss' \in 0..Duration /\ miss' = (IF miss < Duration THEN miss + 1 ELSE Duration)
  BY <1>a, OlderType DEF TypeOK
<1>5. marks' \in [0..(Throttle - 1) -> Nat]
  BY <1>a DEF TypeOK
<1>6. TypeOK'
  <2>1. stamp' \in [Task -> (0..Larger(DurationTtl, Throttle)) \cup {None}]
    BY <1>3
  <2> QED BY <1>1, <1>2, <2>1, <1>4, <1>5 DEF TypeOK
<1>7. Streak'
  <2> SUFFICES ASSUME backend = "memory", dur' # None
               PROVE  miss' >= dur' \/ miss' = Duration
    BY DEF Streak
  <2>1. dur # None /\ dur' = IF dur < DurationTtl THEN dur + 1 ELSE DurationTtl
    BY OlderType, Ttls DEF TypeOK
  <2>2. miss >= dur \/ miss = Duration
    BY <2>1 DEF Streak
  <2>3. miss \in 0..Duration /\ dur \in 0..DurationTtl
    BY <2>1 DEF TypeOK
  <2> QED
    BY <1>a, <1>4, <2>1, <2>2, <2>3, Ttls
<1>8. StampTaken'
  BY <1>3 DEF StampTaken
<1> QED
  BY <1>6, <1>7, <1>8

\* Keys that expire, and crashes.
LEMMA ExpireInv ==
    ASSUME EngineInv, Expire
    PROVE  EngineInv'
BY DEF EngineInv, Expire, TypeOK, Streak, StampTaken, ruleVars, taskVars, seenVars

\* A crash drops evaluations, and in memory the windows with them.
LEMMA CrashInv ==
    ASSUME EngineInv, NEW S \in SUBSET Task, Crash(S)
    PROVE  EngineInv'
<1> USE DEF EngineInv, Crash, ruleVars, storeVars
<1>1. TypeOK'
  BY Labels, EngineAssumption DEF TypeOK
<1>2. Streak' /\ StampTaken'
  BY DEF TypeOK, Streak, StampTaken
<1> QED
  BY <1>1, <1>2

-----------------------------------------------------------------------------
\* The invariant holds initially.
LEMMA EngineInit == Init => EngineInv
<1> SUFFICES ASSUME Init PROVE EngineInv
  OBVIOUS
<1>1. TypeOK
  BY Labels, EngineAssumption DEF Init, TypeOK, Pc, Status
<1>2. Streak /\ StampTaken
  BY DEF Init, Streak, StampTaken
<1> QED
  BY <1>1, <1>2 DEF EngineInv

\* Every step, and every stutter, preserves the invariant.
LEMMA EngineNext == EngineInv /\ [Next]_vars => EngineInv'
<1> SUFFICES ASSUME EngineInv, [Next]_vars PROVE EngineInv'
  OBVIOUS
<1>1. CASE UNCHANGED vars
  BY <1>1 DEF EngineInv, TypeOK, Streak, StampTaken, vars
<1>2. CASE \E t \in Task : Evaluation(t) \/ \E v \in Value : Report(t, v)
  BY <1>2, EvaluationInv, ReportInv
<1>3. CASE \/ \E op \in {"ack", "clear"}, i \in Alarm : AdminRead(op, i)
           \/ AckAlarm \/ ClearAlarm \/ AdminGivesUp
  BY <1>3, AdminInv
<1>4. CASE UpdateRuleStatus \/ Tick \/ Expire
  BY <1>4, RuleInv, TickInv, ExpireInv
<1>5. CASE \E S \in SUBSET Task : Crash(S)
  BY <1>5, CrashInv
<1> QED
  BY <1>1, <1>2, <1>3, <1>4, <1>5 DEF Next

\* The invariant holds in every reachable state.
THEOREM EngineSpecInv == Spec => []EngineInv
BY EngineInit, EngineNext, PTL DEF Spec

\* For any rule, any number of evaluations in flight and of alarm rows: the
\* state store, the rows and the locals of evaluations keep their types.
THEOREM EngineTypeCorrect == Spec => []TypeOK
<1>1. EngineInv => TypeOK
  BY DEF EngineInv
<1> QED
  BY <1>1, EngineSpecInv, PTL

\* A cleared alarm stays cleared, whatever acknowledgements, manual clears and
\* evaluations overlap.
THEOREM ClearedStaysCleared == Spec => ClearedFinal
<1>1. EngineInv /\ [Next]_vars =>
        [\A i \in Alarm : st[i] = "cleared" => st'[i] = "cleared"]_vars
  <2> SUFFICES ASSUME EngineInv, Next, NEW i \in Alarm, st[i] = "cleared"
               PROVE  st'[i] = "cleared"
    OBVIOUS
  <2> USE DEF EngineInv, TypeOK
  <2>1. CASE \E t \in Task : Evaluation(t)
    <3> PICK t \in Task : Evaluation(t)
      BY <2>1
    <3>1. CASE \E j \in Alarm : InsertAlarm(t, j)
      BY <3>1 DEF InsertAlarm
    <3>2. CASE \E j \in Alarm : ClearAuto(t, j) \/ ClearError(t, j)
      BY <3>2 DEF ClearAuto, ClearError, ClearRow
    <3>3. CASE UNCHANGED st
      BY <3>3
    <3> QED
      BY <3>1, <3>2, <3>3 DEF Evaluation, LoadRules, LoadRulesError, ConditionFails,
         ConditionFailsUnreset, CheckDuration, StartDuration, CheckDurationError, CheckDedup,
         CheckDedupError, MarkTriggered, DateMark, StoreMark, MarkTriggeredError, InsertAlarmError, ClearQuery,
         ClearQueryError, ResetDuration, ResetDurationError
  <2>2. CASE \E t \in Task, v \in Value : Report(t, v)
    BY <2>2 DEF Report
  <2>3. CASE AckAlarm
    BY <2>3 DEF AckAlarm
  <2>4. CASE ClearAlarm
    BY <2>4 DEF ClearAlarm, ClearRow
  <2>5. CASE UNCHANGED st
    BY <2>5
  <2> QED
    BY <2>1, <2>2, <2>3, <2>4, <2>5
       DEF Next, AdminRead, AdminGivesUp, UpdateRuleStatus, Tick, Expire, Crash
<1> QED
  BY <1>1, EngineSpecInv, PTL DEF Spec, ClearedFinal

\* With the in-memory store no rule gets past its duration window while some
\* evaluation of the last duration_minutes found the condition false.
THEOREM DurationWindowHolds == Spec => SustainedOnly
<1>1. EngineInv /\ [Next]_vars =>
        [\A t \in Task : (backend = "memory" /\ pc[t] = "evaluate" /\ pc'[t] = "dedup") =>
                          miss >= Duration]_vars
  <2> SUFFICES ASSUME EngineInv, Next, NEW t \in Task,
                      backend = "memory", pc[t] = "evaluate", pc'[t] = "dedup"
               PROVE  miss >= Duration
    OBVIOUS
  <2> USE DEF EngineInv, TypeOK
  <2>1. CheckDuration(t)
    <3>1. ASSUME NEW u \in Task, u # t, Evaluation(u) PROVE FALSE
      BY <3>1, EvaluationMoves DEF Moves
    <3>2. CASE Evaluation(t)
      BY <3>2 DEF Evaluation, Go, Done, LoadRules, LoadRulesError, ConditionFails,
         ConditionFailsUnreset, StartDuration, CheckDurationError, CheckDedup,
         CheckDedupError, MarkTriggered, DateMark, StoreMark, MarkTriggeredError, InsertAlarmError, InsertAlarm,
         ClearQuery, ClearQueryError, ClearAuto, ClearError, ClearNext, ResetDuration,
         ResetDurationError
    <3>3. ASSUME NEW u \in Task, NEW v \in Value, Report(u, v) PROVE FALSE
      BY <3>3 DEF Report
    <3>4. ASSUME NEW S \in SUBSET Task, Crash(S) PROVE FALSE
      BY <3>4 DEF Crash
    <3>5. pc' # pc
      OBVIOUS
    <3> QED
      BY <3>1, <3>2, <3>3, <3>4, <3>5
         DEF Next, AdminRead, AdminGivesUp, AckAlarm, ClearAlarm, UpdateRuleStatus, Tick,
             Expire, taskVars
  <2>2. Duration = 0 \/ (dur # None /\ dur >= Duration)
    BY <2>1 DEF CheckDuration, Go
  <2>3. miss \in 0..Duration /\ Duration \in Nat
    BY EngineAssumption
  <2>4. CASE Duration = 0
    BY <2>3, <2>4
  <2>5. CASE dur # None /\ dur >= Duration
    <3>1. dur \in 0..DurationTtl /\ DurationTtl \in Nat
      BY <2>5, Ttls
    <3> QED
      BY <2>3, <2>5, <3>1 DEF Streak
  <2> QED
    BY <2>2, <2>4, <2>5
<1> QED
  BY <1>1, EngineSpecInv, PTL DEF Spec, SustainedOnly

-----------------------------------------------------------------------------
(***************************************************************************)
(* The throttle window.                                                    *)
(***************************************************************************)

\* Evaluations whose mark was dated before the last a minutes and is not stored yet,
Late(a) == {t \in Task : pc[t] = "store" /\ stamp[t] > a}

\* the others,
Prompt(a) == Task \ Late(a)

\* and those of them that have passed check_dedup and stored no mark yet.
Deciding(a) == {t \in Prompt(a) : pc[t] \in {"mark", "store"}}

\* The entry tells check_dedup of an alarm of the last a minutes.
Shut(a) == dedup # None /\ dedup <= a

\* What the last a minutes have seen.  While the window is shut only those about to
\* decide can add to it; while it is open every prompt evaluation may.  A late mark opens
\* it, and makes one evaluation more prompt.
WindowInv(a) ==
    marks[a] + Cardinality(IF Shut(a) THEN Deciding(a) ELSE Prompt(a))
        <= Burst(Cardinality(Prompt(a)))

\* The shared rule cache is never filled, so no change of the rule drops the entry.
BurstInv ==
    /\ EngineInv /\ ~cached
    /\ ~unmarked => \A a \in 0..(Throttle - 1) : WindowInv(a)

\* The triangular numbers.
LEMMA Triangle ==
    ASSUME NEW m \in Nat
    PROVE  /\ (m * (m + 1)) \div 2 \in Nat
           /\ 2 * ((m * (m + 1)) \div 2) = m * (m + 1)
           /\ m <= (m * (m + 1)) \div 2
<1>1. PICK k \in Nat : m = 2 * k \/ m = 2 * k + 1
  <2>1. m \div 2 \in Nat /\ (m = 2 * (m \div 2) \/ m = 2 * (m \div 2) + 1) OBVIOUS
  <2> QED BY <2>1
<1>2. PICK j \in Nat : m * (m + 1) = 2 * j
  <2>1. CASE m = 2 * k
    <3>1. m * (m + 1) = 2 * (k * (m + 1)) /\ k * (m + 1) \in Nat BY <2>1
    <3> QED BY <3>1
  <2>2. CASE m = 2 * k + 1
    <3>1. m * (m + 1) = 2 * (m * (k + 1)) /\ m * (k + 1) \in Nat BY <2>2
    <3> QED BY <3>1
  <2> QED BY <1>1, <2>1, <2>2
<1>3. (2 * j) \div 2 = j OBVIOUS
<1>4. m <= j
  <2>1. CASE m = 0 BY <2>1
  <2>2. CASE m >= 1
    <3>1. m * (m + 1) = m * (m - 1) + 2 * m /\ m * (m - 1) \in Nat BY <2>2
    <3> QED BY <1>2, <3>1
  <2> QED BY <2>1, <2>2
<1> QED BY <1>2, <1>3, <1>4

\* More evaluations decide on more, and each one that joins adds at least itself.
LEMMA BurstGrows ==
    ASSUME NEW m \in Nat, NEW n \in Nat, m <= n
    PROVE  /\ Burst(m) \in Nat /\ m <= Burst(m)
           /\ Burst(m) <= Burst(n) /\ Burst(m) + n <= Burst(n) + m
           /\ backend = "redis" => Burst(m + 1) = Burst(m) + m + 1
<1>1. CASE backend = "memory" BY <1>1 DEF Burst
<1>2. CASE backend # "memory"
  <2>1. ASSUME NEW k \in Nat
        PROVE  /\ Burst(k) \in Nat /\ 2 * Burst(k) = k * (k + 1)
               /\ Burst(k + 1) = Burst(k) + k + 1
    <3>1. Burst(k) \in Nat /\ 2 * Burst(k) = k * (k + 1) BY <1>2, Triangle DEF Burst
    <3>2. Burst(k + 1) \in Nat /\ 2 * Burst(k + 1) = (k + 1) * (k + 2)
      <4>1. k + 1 \in Nat /\ (k + 1) + 1 = k + 2 OBVIOUS
      <4> QED BY <1>2, <4>1, Triangle DEF Burst
    <3>3. (k + 1) * (k + 2) = k * (k + 1) + 2 * (k + 1) OBVIOUS
    <3>4. 2 * Burst(k + 1) = 2 * Burst(k) + 2 * (k + 1) BY <3>1, <3>2, <3>3
    <3>5. Burst(k + 1) = Burst(k) + k + 1 BY <3>1, <3>2, <3>4
    <3> QED BY <3>1, <3>5
  <2>2. m <= Burst(m) BY <1>2, Triangle DEF Burst
  <2>3. PICK d \in Nat : n = m + d
    <3>1. n - m \in Nat /\ n = m + (n - m) OBVIOUS
    <3> QED BY <3>1
  <2>4. n * (n + 1) >= m * (m + 1) + 2 * d
    <3>1. n * (n + 1) = m * (m + 1) + 2 * (m * d) + d * (d + 1) BY <2>3
    <3>2. m * d >= 0 /\ d * (d + 1) >= 2 * d
      <4>1. m * d \in Nat OBVIOUS
      <4>2. CASE d = 0 BY <4>1, <4>2
      <4>3. CASE d >= 1
        <5>1. d * (d + 1) = d * (d - 1) + 2 * d /\ d * (d - 1) \in Nat BY <4>3
        <5> QED BY <4>1, <5>1
      <4> QED BY <4>2, <4>3
    <3>3. m * (m + 1) \in Nat /\ m * d \in Nat /\ d * (d + 1) \in Nat OBVIOUS
    <3> QED BY <3>1, <3>2, <3>3
  <2>5. /\ Burst(n) \in Nat /\ 2 * Burst(n) = n * (n + 1)
        /\ Burst(m) \in Nat /\ 2 * Burst(m) = m * (m + 1)
    BY <2>1
  <2>6. 2 * Burst(n) >= 2 * Burst(m) + 2 * d BY <2>4, <2>5
  <2>7. Burst(n) \in Nat /\ Burst(m) \in Nat BY <2>5
  <2>8. Burst(n) >= Burst(m) + d BY <2>6, <2>7
  <2>9. Burst(m) <= Burst(n) /\ Burst(m) + n <= Burst(n) + m BY <2>3, <2>7, <2>8
  <2>10. Burst(m + 1) = Burst(m) + m + 1 BY <2>1
  <2> QED BY <2>2, <2>7, <2>9, <2>10
<1> QED BY <1>1, <1>2

\* Parts of the evaluations in flight can be counted.
LEMMA Parts ==
    ASSUME NEW P \in SUBSET Task, NEW D \in SUBSET P
    PROVE  /\ IsFiniteSet(D) /\ IsFiniteSet(P)
           /\ Cardinality(D) \in Nat /\ Cardinality(P) \in Nat /\ Cardinality(Task) \in Nat
           /\ Cardinality(D) <= Cardinality(P) /\ Cardinality(P) <= Cardinality(Task)
<1>1. IsFiniteSet(P) /\ Cardinality(P) <= Cardinality(Task)
  BY EngineAssumption, FS_Subset
<1>2. IsFiniteSet(D) /\ Cardinality(D) <= Cardinality(P)
  BY <1>1, FS_Subset
<1> QED BY <1>1, <1>2, EngineAssumption, FS_CardinalityType

\* A step that leaves a window alone keeps its bound: nobody turns late, and while it is
\* shut nobody joins those about to decide.
LEMMA WindowAlone ==
    ASSUME EngineInv, EngineInv', backend' = backend, NEW a \in 0..(Throttle - 1),
           marks'[a] = marks[a], Shut(a)' = Shut(a), Prompt(a) \subseteq Prompt(a)',
           Shut(a) => Deciding(a)' \subseteq Deciding(a),
           WindowInv(a)
    PROVE  WindowInv(a)'
<1> DEFINE P == Prompt(a)  Q == Prompt(a)'  D == Deciding(a)  E == Deciding(a)'
<1>1. P \in SUBSET Task /\ Q \in SUBSET Task /\ D \in SUBSET P /\ P \in SUBSET Q
  BY DEF Prompt, Deciding
<1>2. /\ Cardinality(P) \in Nat /\ Cardinality(Q) \in Nat /\ Cardinality(D) \in Nat
      /\ Cardinality(P) <= Cardinality(Q)
  BY <1>1, Parts
<1>3. marks[a] \in Nat BY DEF EngineInv, TypeOK
<1>4. /\ Burst(Cardinality(P)) \in Nat /\ Burst(Cardinality(Q)) \in Nat
      /\ Burst(Cardinality(P)) <= Burst(Cardinality(Q))
      /\ Burst(Cardinality(P)) + Cardinality(Q) <= Burst(Cardinality(Q)) + Cardinality(P)
  BY <1>2, BurstGrows
<1>6. CASE Shut(a)
  <2>1. E \in SUBSET D BY <1>6
  <2>2. Cardinality(E) \in Nat /\ Cardinality(E) <= Cardinality(D)
    BY <1>1, <2>1, Parts, FS_Subset
  <2> QED BY <1>2, <1>3, <1>4, <1>6, <2>2 DEF WindowInv, Burst
<1>7. CASE ~Shut(a)
  BY <1>2, <1>3, <1>4, <1>7 DEF WindowInv, Burst
<1> QED BY <1>6, <1>7

\* A mark that is not late turns an evaluation about to decide into an alarm decided on,
\* and shuts the window.
LEMMA WindowMarked ==
    ASSUME EngineInv, EngineInv', backend' = backend, NEW a \in 0..(Throttle - 1),
           NEW t \in Task, marks'[a] = marks[a] + 1, Shut(a)', Prompt(a)' = Prompt(a),
           t \in Deciding(a), Deciding(a)' = Deciding(a) \ {t},
           WindowInv(a)
    PROVE  WindowInv(a)'
<1> DEFINE P == Prompt(a)  D == Deciding(a)
<1>1. P \in SUBSET Task /\ D \in SUBSET P BY DEF Prompt, Deciding
<1>2. /\ IsFiniteSet(D) /\ Cardinality(P) \in Nat /\ Cardinality(D) \in Nat
      /\ Cardinality(D) <= Cardinality(P)
  BY <1>1, Parts
<1>3. marks[a] \in Nat BY DEF EngineInv, TypeOK
<1>4. Cardinality(D \ {t}) = Cardinality(D) - 1 BY <1>2, FS_RemoveElement
<1>5. Burst(Cardinality(P)) \in Nat BY <1>2, BurstGrows
<1>6. marks[a] + Cardinality(D) <= Burst(Cardinality(P))
  BY <1>2, <1>3, <1>5 DEF WindowInv
<1> QED BY <1>2, <1>3, <1>4, <1>5, <1>6 DEF WindowInv, Burst

\* A late mark opens the window, to one prompt evaluation more.
LEMMA WindowReopened ==
    ASSUME EngineInv, EngineInv', backend' = backend, backend = "redis",
           NEW a \in 0..(Throttle - 1), NEW t \in Task, marks'[a] = marks[a], ~Shut(a)',
           t \notin Prompt(a), Prompt(a)' = Prompt(a) \cup {t},
           WindowInv(a)
    PROVE  WindowInv(a)'
<1> DEFINE P == Prompt(a)  D == Deciding(a)
<1>1. P \in SUBSET Task /\ D \in SUBSET P BY DEF Prompt, Deciding
<1>2. IsFiniteSet(P) /\ Cardinality(P) \in Nat /\ Cardinality(D) \in Nat
  BY <1>1, Parts
<1>3. marks[a] \in Nat BY DEF EngineInv, TypeOK
<1>4. Cardinality(P \cup {t}) = Cardinality(P) + 1 BY <1>2, FS_AddElement
<1>5. /\ Burst(Cardinality(P)) \in Nat
      /\ Burst(Cardinality(P) + 1) = Burst(Cardinality(P)) + Cardinality(P) + 1
  BY <1>2, BurstGrows
<1>6. marks[a] <= Burst(Cardinality(P)) BY <1>2, <1>3, <1>5 DEF WindowInv
<1> QED BY <1>2, <1>3, <1>4, <1>5, <1>6 DEF WindowInv, Burst

\* A window that has seen nothing keeps within the bound.
LEMMA WindowEmpty ==
    ASSUME EngineInv', NEW a \in 0..(Throttle - 1), marks'[a] = 0
    PROVE  WindowInv(a)'
<1> DEFINE Q == Prompt(a)'  E == Deciding(a)'
<1>1. Q \in SUBSET Task /\ E \in SUBSET Q BY DEF Prompt, Deciding
<1>2. /\ Cardinality(Q) \in Nat /\ Cardinality(E) \in Nat
      /\ Cardinality(E) <= Cardinality(Q)
  BY <1>1, Parts
<1>3. CASE backend' = "memory" BY <1>2, <1>3 DEF WindowInv, Burst
<1>4. CASE backend' # "memory"
  <2> DEFINE m == Cardinality(Q)
  <2>1. m <= (m * (m + 1)) \div 2 /\ (m * (m + 1)) \div 2 \in Nat
    BY <1>2, Triangle
  <2> HIDE DEF m
  <2> QED BY <1>2, <1>4, <2>1 DEF WindowInv, Burst, m
<1> QED BY <1>3, <1>4

-----------------------------------------------------------------------------
\* Steps that neither decide on an alarm nor touch the window.
Quiet ==
    /\ UNCHANGED <<backend, cached, dedup, marks, unmarked>>
    /\ \A t \in Task : \/ pc'[t] = pc[t] /\ stamp'[t] = stamp[t]
                       \/ pc'[t] \notin {"mark", "store"}

LEMMA QuietBurst ==
    ASSUME BurstInv, EngineInv', Quiet
    PROVE  BurstInv'
<1>1. ASSUME NEW a \in 0..(Throttle - 1), WindowInv(a) PROVE WindowInv(a)'
  <2>1. Prompt(a) \subseteq Prompt(a)' BY DEF Quiet, Prompt, Late
  <2>2. Deciding(a)' \subseteq Deciding(a) BY DEF Quiet, Deciding, Prompt, Late
  <2>3. Shut(a)' = Shut(a) /\ marks'[a] = marks[a] /\ backend' = backend
    BY DEF Quiet, Shut
  <2> QED BY <1>1, <2>1, <2>2, <2>3, WindowAlone DEF BurstInv
<1> QED BY <1>1 DEF BurstInv, Quiet

\* The steps of an evaluation between check_dedup and the stored mark.
Decides(t) ==
    \/ CheckDedup(t) \/ MarkTriggered(t) \/ DateMark(t) \/ StoreMark(t)
    \/ MarkTriggeredError(t)

\* An evaluation is quiet in all other steps.
LEMMA EvaluationQuiet ==
    ASSUME BurstInv, NEW t \in Task, Evaluation(t), ~Decides(t)
    PROVE  Quiet
<1> USE DEF ruleVars, storeVars, seenVars
<1>1. UNCHANGED <<backend, cached, dedup, marks, unmarked>>
  BY DEF Decides, Evaluation, LoadRules, LoadRulesError, ConditionFails,
         ConditionFailsUnreset, CheckDuration, StartDuration, CheckDurationError,
         CheckDedupError, InsertAlarm, InsertAlarmError, ClearQuery, ClearQueryError,
         ClearAuto, ClearError, ClearNext, ResetDuration, ResetDurationError
<1>2. \A u \in Task \ {t} : pc'[u] = pc[u] /\ stamp'[u] = stamp[u]
  BY EvaluationMoves DEF Moves, BurstInv
<1>3. pc'[t] \notin {"mark", "store"}
  BY DEF Decides, Evaluation, LoadRules, LoadRulesError, ConditionFails,
         ConditionFailsUnreset, CheckDuration, StartDuration, CheckDurationError,
         CheckDedupError, InsertAlarm, InsertAlarmError, ClearQuery, ClearQueryError,
         ClearAuto, ClearError, ClearNext, ResetDuration, ResetDurationError, Go, Done,
         BurstInv, EngineInv, TypeOK
<1> QED BY <1>1, <1>2, <1>3 DEF Quiet

\* Who passes check_dedup finds the window open.
LEMMA CheckDedupBurst ==
    ASSUME BurstInv, NEW t \in Task, CheckDedup(t)
    PROVE  BurstInv'
<1>0. EngineInv' BY EvaluationInv DEF BurstInv, Evaluation
<1> USE DEF ruleVars, storeVars, seenVars
<1>1. /\ pc[t] = "dedup" /\ pc'[t] = IF InWindow THEN "clear_query" ELSE "mark"
      /\ \A u \in Task \ {t} : pc'[u] = pc[u] /\ stamp'[u] = stamp[u]
  BY DEF CheckDedup, Go, BurstInv, EngineInv, TypeOK
<1>2. UNCHANGED <<backend, cached, dedup, marks, unmarked>> BY DEF CheckDedup
<1>3. ASSUME NEW a \in 0..(Throttle - 1), WindowInv(a) PROVE WindowInv(a)'
  <2>1. Prompt(a)' = Prompt(a) BY <1>1 DEF Prompt, Late
  <2>2. ASSUME Shut(a) PROVE InWindow
    <3>1. dedup \in Nat /\ Throttle \in Nat
      BY <2>2, Ttls, EngineAssumption DEF Shut, BurstInv, EngineInv, TypeOK
    <3> QED BY <2>2, <3>1 DEF Shut, InWindow
  <2>3. Shut(a) => Deciding(a)' \subseteq Deciding(a)
    BY <1>1, <2>1, <2>2 DEF Deciding, Prompt
  <2>4. Shut(a)' = Shut(a) /\ marks'[a] = marks[a] BY <1>2 DEF Shut
  <2> QED BY <1>0, <1>2, <1>3, <2>1, <2>3, <2>4, WindowAlone DEF BurstInv
<1> QED BY <1>0, <1>2, <1>3 DEF BurstInv

\* An evaluation that reads the clock decides for the minute it is in.
LEMMA DateMarkBurst ==
    ASSUME BurstInv, NEW t \in Task, DateMark(t)
    PROVE  BurstInv'
<1>0. EngineInv' BY EvaluationInv DEF BurstInv, Evaluation
<1> USE DEF ruleVars, storeVars, seenVars
<1>1. /\ pc[t] = "mark" /\ pc'[t] = "store" /\ stamp'[t] = 0
      /\ \A u \in Task \ {t} : pc'[u] = pc[u] /\ stamp'[u] = stamp[u]
  BY DEF DateMark, Go, BurstInv, EngineInv, TypeOK
<1>2. UNCHANGED <<backend, cached, dedup, marks, unmarked>> BY DEF DateMark
<1>3. ASSUME NEW a \in 0..(Throttle - 1), WindowInv(a) PROVE WindowInv(a)'
  <2>1. Prompt(a)' = Prompt(a) BY <1>1 DEF Prompt, Late
  <2>2. Deciding(a)' = Deciding(a) BY <1>1, <2>1 DEF Deciding, Prompt
  <2>4. Shut(a)' = Shut(a) /\ marks'[a] = marks[a] BY <1>2 DEF Shut
  <2> QED BY <1>0, <1>2, <1>3, <2>1, <2>2, <2>4, WindowAlone DEF BurstInv
<1> QED BY <1>0, <1>2, <1>3 DEF BurstInv

\* The mark is stored: for the windows it is dated in it is an alarm decided on, the
\* shorter ones it opens again.
LEMMA MarkBurst ==
    ASSUME BurstInv, NEW t \in Task, MarkTriggered(t) \/ StoreMark(t)
    PROVE  BurstInv'
<1>0. EngineInv' BY EvaluationInv DEF BurstInv, Evaluation
<1> USE DEF ruleVars, storeVars, seenVars
<1> DEFINE age == IF pc[t] = "mark" THEN 0 ELSE stamp[t]
<1>1. /\ pc[t] \in {"mark", "store"} /\ pc'[t] = "insert"
      /\ \A u \in Task \ {t} : pc'[u] = pc[u] /\ stamp'[u] = stamp[u]
  BY DEF MarkTriggered, StoreMark, Go, BurstInv, EngineInv, TypeOK
<1>2. UNCHANGED <<backend, cached, unmarked>> /\ dedup' = age
  BY DEF MarkTriggered, StoreMark
<1>3. age \in Nat /\ (pc[t] = "store" => backend = "redis")
  BY <1>1, EngineAssumption DEF BurstInv, EngineInv, StampTaken
<1>4. CountMark(age) BY DEF MarkTriggered, StoreMark
<1>5. ASSUME ~unmarked, NEW a \in 0..(Throttle - 1), WindowInv(a) PROVE WindowInv(a)'
  <2>0. /\ marks'[a] = IF age <= a THEN marks[a] + 1 ELSE marks[a]
        /\ Shut(a)' <=> age <= a
    BY <1>2, <1>3, <1>4, <1>5, EngineAssumption
       DEF CountMark, Shut, BurstInv, EngineInv, TypeOK
  <2>1. CASE age <= a
    <3>1. Prompt(a)' = Prompt(a) /\ t \in Prompt(a) BY <1>1, <1>3, <2>1 DEF Prompt, Late
    <3>2. Deciding(a)' = Deciding(a) \ {t} /\ t \in Deciding(a)
      BY <1>1, <3>1 DEF Deciding, Prompt
    <3> QED BY <1>0, <1>2, <1>5, <2>0, <2>1, <3>1, <3>2, WindowMarked DEF BurstInv
  <2>2. CASE ~(age <= a)
    <3>1. pc[t] = "store" /\ stamp[t] > a BY <1>1, <1>3, <2>2
    <3>2. t \notin Prompt(a) /\ Prompt(a)' = Prompt(a) \cup {t}
      BY <1>1, <3>1 DEF Prompt, Late
    <3> QED BY <1>0, <1>2, <1>3, <1>5, <2>0, <2>2, <3>1, <3>2, WindowReopened DEF BurstInv
  <2> QED BY <2>1, <2>2
<1> QED BY <1>0, <1>2, <1>5 DEF BurstInv

\* A minute later every window is what the one a minute shorter was.
LEMMA TickBurst ==
    ASSUME BurstInv, Tick
    PROVE  BurstInv'
<1>0. EngineInv' BY TickInv DEF BurstInv
<1>a. /\ Throttle \in Nat /\ None \notin Nat
      /\ marks \in [0..(Throttle - 1) -> Nat] /\ dedup \in (0..DedupTtl) \cup {None}
      /\ DedupTtl \in Nat /\ DedupTtl >= Throttle
  BY EngineAssumption, Ttls DEF BurstInv, EngineInv, TypeOK
<1>1. UNCHANGED <<backend, cached, unmarked, pc>> BY DEF Tick, ruleVars
<1>2. \A a \in 0..(Throttle - 1) : marks'[a] = IF a = 0 THEN 0 ELSE marks[a - 1]
  BY <1>a DEF Tick
<1>3. ASSUME NEW a \in 0..(Throttle - 1), a # 0, WindowInv(a - 1) PROVE WindowInv(a)'
  <2>1. marks'[a] = marks[a - 1] BY <1>2, <1>3
  <2>2. ASSUME NEW t \in Task, pc[t] = "store"
        PROVE  stamp'[t] > a <=> stamp[t] > a - 1
    <3>1. stamp[t] \in 0..Throttle BY <2>2 DEF BurstInv, EngineInv, StampTaken
    <3>2. stamp'[t] = IF stamp[t] < Throttle THEN stamp[t] + 1 ELSE Throttle
      BY <1>a, <2>2, <3>1 DEF Tick, Older
    <3> QED BY <1>a, <3>1, <3>2
  <2>3. Late(a)' = Late(a - 1) BY <1>1, <2>2 DEF Late
  <2>4. Prompt(a)' = Prompt(a - 1) BY <2>3 DEF Prompt
  <2>5. Deciding(a)' = Deciding(a - 1) BY <1>1, <2>4 DEF Deciding
  <2>6. Shut(a)' = Shut(a - 1)
    <3>1. CASE dedup = None BY <3>1, <1>a DEF Tick, Older, Shut
    <3>2. CASE dedup # None
      <4>1. dedup' # None /\ dedup' = IF dedup < DedupTtl THEN dedup + 1 ELSE DedupTtl
        BY <1>a, <3>2, OlderType DEF Tick
      <4> QED BY <1>a, <3>2, <4>1 DEF Shut
    <3> QED BY <3>1, <3>2
  <2> QED BY <1>1, <1>3, <2>1, <2>4, <2>5, <2>6 DEF WindowInv, Burst
<1>4. ASSUME ~unmarked, NEW a \in 0..(Throttle - 1) PROVE WindowInv(a)'
  <2>1. CASE a = 0
    <3>1. marks'[a] = 0 BY <1>2, <2>1
    <3> QED BY <1>0, <3>1, WindowEmpty
  <2>2. CASE a # 0
    <3>1. a - 1 \in 0..(Throttle - 1) BY <1>a, <2>2
    <3> QED BY <1>3, <1>4, <2>2, <3>1 DEF BurstInv
  <2> QED BY <2>1, <2>2
<1> QED BY <1>0, <1>1, <1>4 DEF BurstInv

\* Redis forgets the last mark only when it is older than any window: the EX of the
\* key is twice the window.
LEMMA ExpireBurst ==
    ASSUME BurstInv, Expire
    PROVE  BurstInv'
<1>0. EngineInv' BY ExpireInv DEF BurstInv
<1> USE DEF ruleVars, taskVars, seenVars
<1>1. UNCHANGED <<backend, cached, unmarked, marks, pc, stamp>> BY DEF Expire
<1>2. ASSUME NEW a \in 0..(Throttle - 1), WindowInv(a) PROVE WindowInv(a)'
  <2>1. Prompt(a)' = Prompt(a) /\ Deciding(a)' = Deciding(a)
    BY <1>1 DEF Prompt, Deciding, Late
  <2>2. Shut(a)' = Shut(a)
    <3>1. CASE dedup' = dedup BY <3>1 DEF Shut
    <3>2. CASE dedup # None /\ dedup >= DedupTtl /\ dedup' = None
      <4>1. dedup \in Nat /\ Throttle \in Nat /\ dedup >= Throttle
        BY <3>2, Ttls, EngineAssumption DEF BurstInv, EngineInv, TypeOK
      <4> QED BY <3>2, <4>1 DEF Shut
    <3> QED BY <3>1, <3>2 DEF Expire
  <2> QED BY <1>0, <1>1, <1>2, <2>1, <2>2, WindowAlone DEF BurstInv
<1> QED BY <1>0, <1>1, <1>2 DEF BurstInv

\* A crash drops evaluations; the marks stay, or go with the window they describe.
LEMMA CrashBurst ==
    ASSUME BurstInv, NEW S \in SUBSET Task, Crash(S)
    PROVE  BurstInv'
<1>0. EngineInv' BY CrashInv DEF BurstInv
<1>1. UNCHANGED <<backend, cached, unmarked>> BY DEF Crash, ruleVars
<1>2. CASE backend = "memory"
  <2>1. \A a \in 0..(Throttle - 1) : marks'[a] = 0
    BY <1>2 DEF Crash, BurstInv, EngineInv, TypeOK
  <2> QED BY <1>0, <1>1, <2>1, WindowEmpty DEF BurstInv
<1>3. CASE backend # "memory"
  <2>1. Quiet
    BY <1>1, <1>3 DEF Crash, Quiet, storeVars, BurstInv, EngineInv, TypeOK
  <2> QED BY <1>0, <2>1, QuietBurst
<1> QED BY <1>2, <1>3

LEMMA BurstInit == Init => BurstInv
<1> SUFFICES ASSUME Init PROVE BurstInv OBVIOUS
<1>1. ASSUME NEW a \in 0..(Throttle - 1) PROVE WindowInv(a)
  <2>1. marks[a] = 0 /\ Shut(a) = FALSE BY <1>1 DEF Init, Shut
  <2>2. Prompt(a) \in SUBSET Task BY DEF Prompt
  <2>3. Cardinality(Prompt(a)) \in Nat BY <2>2, Parts
  <2> QED BY <2>1, <2>3, BurstGrows DEF WindowInv
<1> QED BY <1>1, EngineInit DEF BurstInv, Init

LEMMA BurstNext == BurstInv /\ [Next]_vars => BurstInv'
<1> SUFFICES ASSUME BurstInv, [Next]_vars PROVE BurstInv' OBVIOUS
<1>0. EngineInv' BY EngineNext DEF BurstInv
<1> USE DEF ruleVars, storeVars, taskVars, seenVars
<1>1. ASSUME NEW t \in Task, Evaluation(t) PROVE BurstInv'
  <2>1. CASE MarkTriggeredError(t)
    BY <1>0, <2>1 DEF MarkTriggeredError, BurstInv
  <2> QED
    BY <1>0, <1>1, <2>1, CheckDedupBurst, DateMarkBurst, MarkBurst, EvaluationQuiet,
       QuietBurst DEF Decides
<1>2. ASSUME NEW t \in Task, NEW v \in Value, Report(t, v) PROVE BurstInv'
  <2>1. Quiet BY <1>2 DEF Report, Quiet, BurstInv, EngineInv, TypeOK
  <2> QED BY <1>0, <2>1, QuietBurst
<1>3. CASE \/ \E op \in {"ack", "clear"}, i \in Alarm : AdminRead(op, i)
           \/ AckAlarm \/ ClearAlarm \/ AdminGivesUp \/ UNCHANGED vars
  <2>1. Quiet
    BY <1>3 DEF AdminRead, AckAlarm, ClearAlarm, AdminGivesUp, vars, Quiet
  <2> QED BY <1>0, <2>1, QuietBurst
<1>4. CASE UpdateRuleStatus
  <2>0. cached = FALSE BY Zenon DEF BurstInv, EngineInv, TypeOK
  <2>1. cached' = FALSE /\ dedup' = dedup
    BY <1>4, <2>0 DEF UpdateRuleStatus
  <2>2. Quiet BY <1>4, <2>0, <2>1 DEF UpdateRuleStatus, Quiet
  <2> QED BY <1>0, <2>2, QuietBurst
<1> QED
  BY <1>1, <1>2, <1>3, <1>4, TickBurst, ExpireBurst, CrashBurst DEF Next

\* For any number of evaluations in flight and any window, however late the marks are
\* stored and in whatever order: as long as none is lost, no throttle_minutes see more
\* alarms decided on than Burst(number of evaluations).
THEOREM BurstsAreBounded == Spec => []BurstBounded
<1>1. ASSUME BurstInv, ~unmarked PROVE Recent <= Burst(Cardinality(Task))
  <2>0. Cardinality(Task) \in Nat BY EngineAssumption, FS_CardinalityType
  <2>1. CASE Throttle = 0 BY <2>0, <2>1, BurstGrows DEF Recent
  <2>2. CASE Throttle # 0
    <3> DEFINE a == Throttle - 1  P == Prompt(a)  D == Deciding(a)
    <3>1. a \in 0..(Throttle - 1) BY <2>2, EngineAssumption
    <3>2. P \in SUBSET Task /\ D \in SUBSET P BY DEF Prompt, Deciding
    <3>3. /\ Cardinality(P) \in Nat /\ Cardinality(D) \in Nat
          /\ Cardinality(P) <= Cardinality(Task)
      BY <3>2, Parts
    <3>4. WindowInv(a) /\ marks[a] \in Nat BY <1>1, <3>1 DEF BurstInv, EngineInv, TypeOK
    <3>5. /\ Burst(Cardinality(P)) \in Nat /\ Burst(Cardinality(Task)) \in Nat
          /\ Burst(Cardinality(P)) <= Burst(Cardinality(Task))
      BY <2>0, <3>3, BurstGrows
    <3> HIDE DEF a
    <3>6. marks[a] <= Burst(Cardinality(P)) BY <3>3, <3>4, <3>5 DEF WindowInv
    <3> QED BY <2>2, <3>4, <3>5, <3>6 DEF Recent, a
  <2> QED BY <2>1, <2>2
<1>2. BurstInv => BurstBounded BY <1>1 DEF BurstBounded
<1> QED BY <1>2, BurstInit, BurstNext, PTL DEF Spec

-----------------------------------------------------------------------------
(***************************************************************************)
(* The evaluator of the conditions.                                        *)
(***************************************************************************)

\* The order of f64: a < b and b <= a exclude each other and leave out NaN only.
LEMMA FloatOrder ==
    ASSUME NEW a \in F64, NEW b \in F64
    PROVE  Opposite(FloatLess(a, b), FloatLeq(b, a), NaN \notin {a, b})
<1> USE EvaluatorAssumption DEF F64, FloatLess, FloatLeq, Opposite
<1>1. CASE NaN \in {a, b} BY <1>1
<1>2. CASE NaN \notin {a, b} /\ a \in Int /\ b \in Int BY <1>2
<1>3. CASE NaN \notin {a, b} /\ (a \notin Int \/ b \notin Int) BY <1>3
<1> QED BY <1>1, <1>2, <1>3

LEMMA DistanceType ==
    ASSUME NEW a \in F64, NEW b \in F64
    PROVE  Distance(a, b) \in F64
BY EvaluatorAssumption DEF F64, Distance

\* abs() < EPSILON and abs() >= EPSILON leave out a difference that is NaN only.
LEMMA FloatEquality ==
    ASSUME NEW a \in F64, NEW b \in F64
    PROVE  Opposite(FloatLess(Distance(a, b), Epsilon), FloatLeq(Epsilon, Distance(a, b)),
                    Distance(a, b) # NaN)
<1>1. Epsilon \in F64 /\ Epsilon # NaN BY EvaluatorAssumption DEF Epsilon, F64
<1> QED BY <1>1, DistanceType, FloatOrder DEF Opposite

LEMMA JsonReading ==
    ASSUME NEW v \in Json
    PROVE  v # Missing /\ JsonToF64(v) \in F64 \cup {Missing}
BY EvaluatorAssumption DEF Json, JsonToF64, F64

LEMMA TextOfString ==
    ASSUME NEW v \in Json, v[1] = "string"
    PROVE  v[2] \in Str
BY DEF Json

LEMMA OrderPartitions ==
    ASSUME NEW v \in Json, NEW w \in Json
    PROVE  Opposite(Less(v, w), Leq(w, v), Ordered(v, w))
<1>1. CASE Numeric(v, w)
  <2>1. JsonToF64(v) \in F64 /\ JsonToF64(w) \in F64
    BY <1>1, JsonReading DEF Numeric
  <2>2. Numeric(w, v) BY <1>1 DEF Numeric
  <2> QED BY <1>1, <2>1, <2>2, FloatOrder DEF Less, Leq, Ordered, Opposite
<1>2. CASE ~Numeric(v, w)
  <2>1. ~Numeric(w, v) BY <1>2 DEF Numeric
  <2>2. CASE Textual(v, w)
    <3>1. v[2] \in Str /\ w[2] \in Str BY <2>2, TextOfString DEF Textual
    <3>2. Textual(w, v) BY <2>2 DEF Textual
    <3>3. Opposite(<<v[2], w[2]>> \in StrLess, w[2] = v[2] \/ <<w[2], v[2]>> \in StrLess, TRUE)
      BY <3>1, EvaluatorAssumption DEF Opposite
    <3> QED BY <1>2, <2>1, <2>2, <3>2, <3>3 DEF Less, Leq, Ordered, Opposite
  <2>3. CASE ~Textual(v, w)
    BY <1>2, <2>1, <2>3 DEF Less, Leq, Ordered, Opposite, Textual
  <2> QED BY <2>2, <2>3
<1> QED BY <1>1, <1>2

LEMMA EqualityPartitions ==
    ASSUME NEW v \in Json, NEW w \in Json
    PROVE  Opposite(Equal(v, w), Unequal(v, w), Equatable(v, w))
<1>1. CASE Numeric(v, w)
  <2>1. JsonToF64(v) \in F64 /\ JsonToF64(w) \in F64
    BY <1>1, JsonReading DEF Numeric
  <2> QED BY <1>1, <2>1, FloatEquality DEF Equal, Unequal, Equatable, Opposite
<1>2. CASE ~Numeric(v, w)
  BY <1>2 DEF Equal, Unequal, Equatable, Opposite
<1> QED BY <1>1, <1>2

LEMMA OrderSymmetric ==
    ASSUME NEW v \in Json, NEW w \in Json
    PROVE  Ordered(v, w) <=> Ordered(w, v)
BY DEF Ordered, Numeric, Textual

\* What a condition with one of the comparing operators evaluates to.
LEMMA EvaluateOperators ==
    ASSUME NEW v \in Json, NEW w \in Json
    PROVE  /\ Evaluate(Condition(">", w), v) <=> Less(w, v)
           /\ Evaluate(Condition(">=", w), v) <=> Leq(w, v)
           /\ Evaluate(Condition("<", w), v) <=> Less(v, w)
           /\ Evaluate(Condition("<=", w), v) <=> Leq(v, w)
           /\ Evaluate(Condition("==", w), v) <=> Equal(v, w)
           /\ Evaluate(Condition("!=", w), v) <=> Unequal(v, w)
BY JsonReading DEF Evaluate, Condition

LEMMA EvaluateBetween ==
    ASSUME NEW v, NEW u, NEW w
    PROVE  Evaluate(Between(u, w), v) <=> Within(v, u, w)
BY DEF Evaluate, Between

\* Every JSON value falls on one side of every threshold it can be compared with.
LEMMA EvaluatorPartitions == Json \subseteq Partitioned
<1> SUFFICES ASSUME NEW v \in Json PROVE v \in Partitioned OBVIOUS
<1>1. ASSUME NEW w \in Json
      PROVE  /\ Opposite(Evaluate(Condition(">", w), v), Evaluate(Condition("<=", w), v), Ordered(v, w))
             /\ Opposite(Evaluate(Condition("<", w), v), Evaluate(Condition(">=", w), v), Ordered(v, w))
             /\ Opposite(Evaluate(Condition("==", w), v), Evaluate(Condition("!=", w), v), Equatable(v, w))
  <2>1. /\ Opposite(Less(w, v), Leq(v, w), Ordered(v, w))
        /\ Opposite(Less(v, w), Leq(w, v), Ordered(v, w))
        /\ Opposite(Equal(v, w), Unequal(v, w), Equatable(v, w))
    BY OrderPartitions, OrderSymmetric, EqualityPartitions DEF Opposite
  <2> QED BY <2>1, EvaluateOperators DEF Opposite
<1>2. ASSUME NEW w \in Json, NEW u \in Json, IsNumeric(u), IsNumeric(v), IsNumeric(w)
      PROVE  Evaluate(Between(u, w), v)
               <=> Evaluate(Condition(">=", u), v) /\ Evaluate(Condition("<=", w), v)
  <2>1. Within(v, u, w) <=> Leq(u, v) /\ Leq(v, w)
    BY <1>2 DEF Within, Leq, Numeric, IsNumeric
  <2> QED BY <2>1, EvaluateOperators, EvaluateBetween
<1> QED BY <1>1, <1>2 DEF Partitioned

\* For any readings, thresholds and texts: a reported value is on exactly one side of
\* each pair of opposite operators, or cannot be compared, and `between` is its bounds.
THEOREM ConditionsPartition == Spec => []OperatorsPartition
<1>1. ASSUME EngineInv PROVE OperatorsPartition
  BY <1>1, RulesAssumption, EvaluatorPartitions DEF EngineInv, TypeOK, OperatorsPartition
<1> QED BY <1>1, EngineSpecInv, PTL
=============================================================================
