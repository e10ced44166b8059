----------------------------- MODULE AlarmEngine -----------------------------
(***************************************************************************)
(* The rule engine (evaluate_and_trigger) for one alarm rule and one       *)
(* device: the trigger condition, its duration window, the throttle window *)
(* that suppresses repeated alarms, the alarm rows with their life cycle,  *)
(* and the clear condition.  A rule of another trigger type than           *)
(* "property" is the case Duration = 0, Clears = {}.                       *)
(*                                                                         *)
(* Every report of the device spawns an evaluation task; the steps of the  *)
(* tasks are the calls of the state store and of the database they await,  *)
(* and several tasks interleave.  The state store is the process's memory  *)
(* or a Redis server.  A minute is the unit of time.                       *)
(***************************************************************************)
EXTENDS Integers, FiniteSets

CONSTANTS Task,             \* slots for evaluations in flight
          Value,            \* reported values the conditions tell apart
          Triggers, Clears, \* values that satisfy condition / clear_condition
          Duration, Throttle, \* duration_minutes, throttle_minutes
          MaxAlarm,         \* bound: alarm rows ever inserted
          None              \* no entry, no clock reading, no value

Alarm == 1..MaxAlarm

ASSUME EngineAssumption ==
    /\ Triggers \subseteq Value /\ Clears \subseteq Value
    /\ Duration \in Nat /\ Throttle \in Nat /\ MaxAlarm \in Nat
    /\ None \notin Nat /\ None \notin Value
    /\ IsFiniteSet(Task)

\* Only elapsed times matter to the engine, so a time stamp is represented by
\* its age in whole minutes; ages beyond the last one that makes a difference
\* are not told apart.
VARIABLES backend,  \* "memory" or "redis": config.cache.cache_type
          enabled,  \* alarm_rule.enabled
          cached,   \* AdminAppState.rule_cache.rules holds the rule
          dedup,    \* age of the dedup entry: the last mark_triggered
          dur,      \* age of the duration entry: condition first seen true
          st,       \* st[i]: alarm.status, "none" before INSERT
          pc, val, found, stamp,  \* an evaluation: its value, the rows it is to
                                  \* clear, the age of its clock reading
          admin,    \* the ack / clear request in flight
          miss,     \* age of the last evaluation that found the condition false
          marks,    \* marks[a]: marks dated at most a minutes ago, until one is lost
          unmarked  \* Redis lost a mark, and the engine did not notice

storeVars == <<dedup, dur>>
taskVars  == <<pc, val, found, stamp>>
ruleVars  == <<backend, enabled, cached>>
seenVars  == <<miss, marks, unmarked>>
vars == <<backend, enabled, cached, dedup, dur, st, pc, val, found, stamp, admin,
          miss, marks, unmarked>>

Pc     == {"idle", "load", "evaluate", "start", "dedup", "mark", "store", "insert",
           "clear_query", "clear", "reset"}
Status == {"none", "active", "acknowledged", "cleared"}
NoRequest == <<"none", 0>>

\* The EX of the two Redis keys, in minutes.
Larger(m, n) == IF m >= n THEN m ELSE n

DedupTtl == Larger(2 * Throttle, 1)

DurationTtl == Larger(3 * Duration, 1)

TypeOK ==
    /\ backend \in {"memory", "redis"}
    /\ enabled \in BOOLEAN /\ cached \in BOOLEAN
    /\ dedup \in (0..DedupTtl) \cup {None}
    /\ dur \in (0..DurationTtl) \cup {None}
    /\ st \in [Alarm -> Status]
    /\ pc \in [Task -> Pc]
    /\ val \in [Task -> Value \cup {None}]
    /\ found \in [Task -> SUBSET Alarm]
    /\ stamp \in [Task -> (0..Larger(DurationTtl, Throttle)) \cup {None}]
    /\ admin \in {NoRequest} \cup ({"ack", "clear"} \X Alarm)
    /\ miss \in 0..Duration
    /\ marks \in [0..(Throttle - 1) -> Nat]
    /\ unmarked \in BOOLEAN

Init ==
    /\ backend \in {"memory", "redis"}
    /\ enabled = TRUE /\ cached = FALSE
    /\ dedup = None /\ dur = None
    /\ st = [i \in Alarm |-> "none"]
    /\ pc = [t \in Task |-> "idle"]
    /\ val = [t \in Task |-> None]
    /\ found = [t \in Task |-> {}]
    /\ stamp = [t \in Task |-> None]
    /\ admin = NoRequest
    /\ miss = Duration
    /\ marks = [a \in 0..(Throttle - 1) |-> 0]
    /\ unmarked = FALSE

-----------------------------------------------------------------------------
(***************************************************************************)
(* The steps of an evaluation.                                             *)
(***************************************************************************)

\* The task goes to label l, with its clock reading s.
Go(t, l, s) == /\ pc' = [pc EXCEPT ![t] = l]
               /\ stamp' = [stamp EXCEPT ![t] = s]
               /\ UNCHANGED <<val, found>>

Done(t) == /\ pc' = [pc EXCEPT ![t] = "idle"]
           /\ val' = [val EXCEPT ![t] = None]
           /\ found' = [found EXCEPT ![t] = {}]
           /\ stamp' = [stamp EXCEPT ![t] = None]

\* property_post (event_post, device_connect, device_disconnect) stores the
\* report and spawns the evaluation.
Report(t, v) ==
    /\ pc[t] = "idle"
    /\ pc' = [pc EXCEPT ![t] = "load"]
    /\ val' = [val EXCEPT ![t] = v]
    /\ UNCHANGED <<found, stamp, ruleVars, storeVars, st, admin, seenVars>>

\* The rules come from the database: the spawned task works on a clone of the
\* rule cache, and DashMap's clone is a copy, so set_rules fills the copy only.
LoadRules(t) ==
    /\ pc[t] = "load"
    /\ IF enabled THEN Go(t, "evaluate", None) ELSE Done(t)
    /\ UNCHANGED <<ruleVars, storeVars, st, admin, seenVars>>

LoadRulesError(t) ==
    /\ pc[t] = "load"
    /\ Done(t)
    /\ UNCHANGED <<ruleVars, storeVars, st, admin, seenVars>>

\* The condition does not hold: reset_duration, then the clear condition.
ConditionFailsOnly(t) ==  \* mutant: the streak is not reset
    /\ pc[t] = "evaluate"
    /\ val[t] \notin Triggers
    /\ miss' = 0
    /\ Go(t, "clear_query", None)
    /\ UNCHANGED <<ruleVars, storeVars, st, admin, marks, unmarked>>

ConditionFails(t) ==
    /\ pc[t] = "evaluate"
    /\ val[t] \notin Triggers
    /\ dur' = IF Duration > 0 THEN None ELSE dur
    /\ miss' = 0
    /\ Go(t, "clear_query", None)
    /\ UNCHANGED <<ruleVars, dedup, st, admin, marks, unmarked>>

\* An error of reset_duration is dropped (`let _`).
ConditionFailsUnreset(t) ==
    /\ pc[t] = "evaluate"
    /\ val[t] \notin Triggers
    /\ backend = "redis" /\ Duration > 0
    /\ miss' = 0
    /\ Go(t, "clear_query", None)
    /\ UNCHANGED <<ruleVars, storeVars, st, admin, marks, unmarked>>

\* The condition holds.  check_duration reads the start of the streak; a task
\* that finds none (JustStarted) writes its clock reading in a second step: the
\* DashMap's get and insert lock separately, and so do the commands of Redis.
CheckDuration(t) ==
    /\ pc[t] = "evaluate"
    /\ val[t] \in Triggers
    /\ \/ Duration = 0 /\ Go(t, "dedup", None)
       \/ Duration > 0 /\ dur = None /\ Go(t, "start", 0)
       \/ /\ Duration > 0 /\ dur # None
          /\ Go(t, IF dur >= Duration THEN "dedup" ELSE "clear_query", None)
    /\ UNCHANGED <<ruleVars, storeVars, st, admin, seenVars>>

StartDuration(t) ==
    /\ pc[t] = "start"
    /\ dur' = stamp[t]
    /\ Go(t, "clear_query", None)
    /\ UNCHANGED <<ruleVars, dedup, st, admin, seenVars>>

\* NotStarted: Redis is unavailable, the rule does not trigger.
CheckDurationError(t) ==
    /\ backend = "redis" /\ Duration > 0
    /\ pc[t] = "start" \/ (pc[t] = "evaluate" /\ val[t] \in Triggers)
    /\ Go(t, "clear_query", None)
    /\ UNCHANGED <<ruleVars, storeVars, st, admin, seenVars>>

\* check_dedup: in the window the rule is skipped.
InWindowShort ==  \* mutant: the window ends a minute early
    Throttle > 0 /\ dedup # None /\ dedup + 1 < Throttle

InWindow == Throttle > 0 /\ dedup # None /\ dedup < Throttle

CheckDedup(t) ==
    /\ pc[t] = "dedup"
    /\ Go(t, IF InWindow THEN "clear_query" ELSE "mark", None)
    /\ UNCHANGED <<ruleVars, storeVars, st, admin, seenVars>>

\* Redis is unavailable: check_dedup returns true, the rule is skipped.
CheckDedupError(t) ==
    /\ pc[t] = "dedup"
    /\ backend = "redis" /\ Throttle > 0
    /\ Go(t, "clear_query", None)
    /\ UNCHANGED <<ruleVars, storeVars, st, admin, seenVars>>

\* History: a mark that is so old is stored.
CountMark(age) ==
    marks' = [a \in DOMAIN marks |-> IF ~unmarked /\ age <= a THEN marks[a] + 1 ELSE marks[a]]

\* mark_triggered, before the row exists, with a clock reading of its own: in
\* memory the entry is there at once ...
MarkTriggered(t) ==
    /\ pc[t] = "mark"
    /\ backend = "memory"
    /\ dedup' = 0
    /\ CountMark(0)
    /\ Go(t, "insert", None)
    /\ UNCHANGED <<ruleVars, dur, st, admin, miss, unmarked>>

\* ... while the SET of Redis is awaited, for any time, and replaces what it finds.
DateMark(t) ==
    /\ pc[t] = "mark"
    /\ backend = "redis"
    /\ Go(t, "store", 0)
    /\ UNCHANGED <<ruleVars, storeVars, st, admin, seenVars>>

StoreMark(t) ==
    /\ pc[t] = "store"
    /\ dedup' = stamp[t]
    /\ CountMark(stamp[t])
    /\ Go(t, "insert", None)
    /\ UNCHANGED <<ruleVars, dur, st, admin, miss, unmarked>>

\* Its error is dropped (`let _`).
MarkTriggeredError(t) ==
    /\ pc[t] \in {"mark", "store"}
    /\ backend = "redis"
    /\ unmarked' = TRUE /\ marks' = [a \in DOMAIN marks |-> 0]
    /\ Go(t, "insert", None)
    /\ UNCHANGED <<ruleVars, storeVars, st, admin, miss>>

\* execute_actions, insert_alarm: status defaults to 'active'.  The webhooks it
\* calls next are the subject of WebhookRetry.
InsertAlarmAsNew(t, i) ==  \* mutant: the status of the old two-state model
    /\ pc[t] = "insert"
    /\ st[i] = "none" /\ \A j \in Alarm : j < i => st[j] # "none"
    /\ st' = [st EXCEPT ![i] = "new"]
    /\ Go(t, "clear_query", None)
    /\ UNCHANGED <<ruleVars, storeVars, admin, seenVars>>

InsertAlarm(t, i) ==
    /\ pc[t] = "insert"
    /\ st[i] = "none" /\ \A j \in Alarm : j < i => st[j] # "none"
    /\ st' = [st EXCEPT ![i] = "active"]
    /\ Go(t, "clear_query", None)
    /\ UNCHANGED <<ruleVars, storeVars, admin, seenVars>>

InsertAlarmError(t) ==
    /\ pc[t] = "insert"
    /\ Go(t, "clear_query", None)
    /\ UNCHANGED <<ruleVars, storeVars, st, admin, seenVars>>

\* query_active_alarms_for_clear
ActiveOnly == {i \in Alarm : st[i] = "active"}  \* mutant: acknowledged rows forgotten

OpenAlarms == {i \in Alarm : st[i] \in {"active", "acknowledged"}}

\* The query, then clear_condition on the reported value.
ClearQuery(t) ==
    /\ pc[t] = "clear_query"
    /\ IF OpenAlarms = {} \/ val[t] \notin Clears THEN Done(t)
       ELSE /\ pc' = [pc EXCEPT ![t] = "clear"]
            /\ found' = [found EXCEPT ![t] = OpenAlarms]
            /\ UNCHANGED <<val, stamp>>
    /\ UNCHANGED <<ruleVars, storeVars, st, admin, seenVars>>

ClearQueryError(t) ==
    /\ pc[t] = "clear_query"
    /\ Done(t)
    /\ UNCHANGED <<ruleVars, storeVars, st, admin, seenVars>>

\* UPDATE alarm ... WHERE id = i AND status != 'cleared'
ClearRow(i) == st' = [st EXCEPT ![i] = "cleared"]

\* clear_alarm for the next row found; a failed update does not stop the loop.
ClearNext(t, i) ==
    /\ pc[t] = "clear"
    /\ i \in found[t] /\ \A j \in found[t] : i <= j
    /\ found' = [found EXCEPT ![t] = @ \ {i}]
    /\ pc' = [pc EXCEPT ![t] = IF found[t] = {i} THEN "reset" ELSE "clear"]
    /\ UNCHANGED <<val, stamp, ruleVars, storeVars, admin, seenVars>>

ClearAuto(t, i)  == ClearNext(t, i) /\ ClearRow(i)
ClearError(t, i) == ClearNext(t, i) /\ UNCHANGED st

\* reset_duration after the rows are cleared, whatever Duration is.
ResetDuration(t) ==
    /\ pc[t] = "reset"
    /\ dur' = None
    /\ Done(t)
    /\ UNCHANGED <<ruleVars, dedup, st, admin, seenVars>>

ResetDurationError(t) ==
    /\ pc[t] = "reset"
    /\ backend = "redis"
    /\ Done(t)
    /\ UNCHANGED <<ruleVars, storeVars, st, admin, seenVars>>

-----------------------------------------------------------------------------
(***************************************************************************)
(* Administrators, the clock, Redis and crashes.                           *)
(***************************************************************************)

\* The handlers of ack and clear read the row first and answer 404 or 409 ...
AdminRead(op, i) ==
    /\ admin = NoRequest
    /\ IF op = "ack" THEN st[i] = "active" ELSE i \in OpenAlarms
    /\ admin' = <<op, i>>
    /\ UNCHANGED <<ruleVars, storeVars, st, taskVars, seenVars>>

\* ... and update it in a second statement, whose WHERE clause looks again.
AckAlarmUnguarded ==  \* mutant: the first read is trusted
    /\ admin[1] = "ack"
    /\ st' = [st EXCEPT ![admin[2]] = "acknowledged"]
    /\ admin' = NoRequest
    /\ UNCHANGED <<ruleVars, storeVars, taskVars, seenVars>>

AckAlarm ==
    /\ admin[1] = "ack"
    /\ st' = [st EXCEPT ![admin[2]] = IF @ = "active" THEN "acknowledged" ELSE @]
    /\ admin' = NoRequest
    /\ UNCHANGED <<ruleVars, storeVars, taskVars, seenVars>>

ClearAlarm ==
    /\ admin[1] = "clear"
    /\ ClearRow(admin[2])
    /\ admin' = NoRequest
    /\ UNCHANGED <<ruleVars, storeVars, taskVars, seenVars>>

\* The request is dropped before its update, or the update fails.
AdminGivesUp ==
    /\ admin # NoRequest
    /\ admin' = NoRequest
    /\ UNCHANGED <<ruleVars, storeVars, st, taskVars, seenVars>>

\* update_alarm_rule_status, with the invalidate_product at its end: only the
\* rules found in the shared cache have their state dropped.
UpdateRuleStatus ==
    /\ enabled' = ~enabled
    /\ cached' = FALSE
    /\ dedup' = IF cached THEN None ELSE dedup
    /\ dur' = IF cached THEN None ELSE dur
    /\ UNCHANGED <<backend, st, taskVars, admin, seenVars>>

\* A minute passes, but not between the in-memory store's get and insert: no
\* await separates them, and a thread is not held up that long.
Older(age, cap) == IF age = None THEN None ELSE IF age < cap THEN age + 1 ELSE cap

Tick ==
    /\ backend = "memory" => \A t \in Task : pc[t] # "start"
    /\ dedup' = Older(dedup, DedupTtl)
    /\ dur' = Older(dur, DurationTtl)
    /\ stamp' = [t \in Task |->
                   Older(stamp[t], IF pc[t] = "start" THEN DurationTtl ELSE Throttle)]
    /\ miss' = Older(miss, Duration)
    /\ marks' = [a \in DOMAIN marks |-> IF a = 0 THEN 0 ELSE marks[a - 1]]
    /\ UNCHANGED <<ruleVars, st, pc, val, found, admin, unmarked>>

\* Redis drops a key when its EX runs out.
Expire ==
    /\ backend = "redis"
    /\ \/ /\ dedup # None /\ dedup >= DedupTtl
          /\ dedup' = None /\ UNCHANGED dur
       \/ /\ dur # None /\ dur >= DurationTtl
          /\ dur' = None /\ UNCHANGED dedup
    /\ UNCHANGED <<ruleVars, st, taskVars, admin, seenVars>>

\* A backend process stops and its evaluations S with it.  With the in-memory
\* store there is one process, and the windows are gone too.
Crash(S) ==
    /\ backend = "memory" => S = Task
    /\ pc' = [t \in Task |-> IF t \in S THEN "idle" ELSE pc[t]]
    /\ val' = [t \in Task |-> IF t \in S THEN None ELSE val[t]]
    /\ found' = [t \in Task |-> IF t \in S THEN {} ELSE found[t]]
    /\ stamp' = [t \in Task |-> IF t \in S THEN None ELSE stamp[t]]
    /\ IF backend = "memory"
         THEN /\ dedup' = None /\ dur' = None
              /\ miss' = Duration /\ marks' = [a \in DOMAIN marks |-> 0]
         ELSE UNCHANGED <<storeVars, miss, marks>>
    /\ UNCHANGED <<ruleVars, st, admin, unmarked>>

Evaluation(t) ==
    \/ LoadRules(t) \/ LoadRulesError(t)
    \/ ConditionFails(t) \/ ConditionFailsUnreset(t)
    \/ CheckDuration(t) \/ StartDuration(t) \/ CheckDurationError(t)
    \/ CheckDedup(t) \/ CheckDedupError(t)
    \/ MarkTriggered(t) \/ DateMark(t) \/ StoreMark(t) \/ MarkTriggeredError(t)
    \/ InsertAlarmError(t) \/ \E i \in Alarm : InsertAlarm(t, i)
    \/ ClearQuery(t) \/ ClearQueryError(t)
    \/ \E i \in Alarm : ClearAuto(t, i) \/ ClearError(t, i)
    \/ ResetDuration(t) \/ ResetDurationError(t)

Next ==
    \/ \E t \in Task : Evaluation(t) \/ \E v \in Value : Report(t, v)
    \/ \E op \in {"ack", "clear"}, i \in Alarm : AdminRead(op, i)
    \/ AckAlarm \/ ClearAlarm \/ AdminGivesUp
    \/ UpdateRuleStatus \/ Tick \/ Expire
    \/ \E S \in SUBSET Task : Crash(S)

Spec == Init /\ [][Next]_vars

\* Spawned evaluations run, the device keeps reporting, and neither the rule
\* query nor the clear query nor a clear update fails for ever.
Fairness ==
    /\ WF_vars(\E t \in Task, v \in Value : Report(t, v))
    /\ \A t \in Task : /\ WF_vars(Evaluation(t))
                       /\ SF_vars(LoadRules(t)) /\ SF_vars(ClearQuery(t))
                       /\ \A i \in Alarm : SF_vars(ClearAuto(t, i))

FairSpec == Spec /\ Fairness

-----------------------------------------------------------------------------
(***************************************************************************)
(* Properties.                                                             *)
(***************************************************************************)

\* Alarms decided on, by the date of their marks, within the last Throttle minutes.
Recent == IF Throttle = 0 THEN 0 ELSE marks[Throttle - 1]

\* What m evaluations can decide on in one window.  In memory each can get between
\* another's check_dedup and mark_triggered, but once only.  With Redis the SET of an
\* evaluation that was held up since before the window puts an older mark in a newer
\* one's place and opens the window again, for those that are not held up themselves:
\* 1 + 2 + ... + m.
Burst(m) == IF backend = "memory" THEN m ELSE (m * (m + 1)) \div 2

\* The throttle window is not exact (check_dedup, the clock reading and the storing of
\* the mark are separate steps), but what defeats it is bounded: as long as the store
\* lives and takes the marks, however late and in whatever order, no Throttle minutes
\* see more alarms decided on than Burst of the evaluations in flight at once.
BurstBounded == ~unmarked => Recent <= Burst(Cardinality(Task))

\* "Cleared" is final: an acknowledgement that was decided on an older reading
\* of the row, or any other late update, does not bring an alarm back.
ClearedFinal == [][\A i \in Alarm : st[i] = "cleared" => st'[i] = "cleared"]_vars

\* With the in-memory store a rule gets past its duration window only if every
\* evaluation of the last Duration minutes found the condition true, in the
\* order in which the evaluations took place.
SustainedOnly ==
    [][\A t \in Task :
          (backend = "memory" /\ pc[t] = "evaluate" /\ pc'[t] = "dedup") =>
              miss >= Duration]_vars

\* An open alarm is cleared in the end if from some time on the rule is enabled,
\* the process stays up and the device only reports values that satisfy the clear
\* condition, however many evaluations overlap.
AutoClears ==
    (/\ <>[](enabled /\ \A t \in Task : pc[t] # "idle" => val[t] \in Clears)
     /\ \A S \in SUBSET Task : <>[][~Crash(S)]_vars) =>
        \A i \in Alarm : st[i] \in {"active", "acknowledged"} ~> st[i] = "cleared"
=============================================================================
