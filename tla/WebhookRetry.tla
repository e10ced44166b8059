---------------------------- MODULE WebhookRetry ----------------------------
(***************************************************************************)
(* Delivery of an alarm's webhooks: the evaluation task that inserts the   *)
(* alarm row calls every webhook of the rule once and records the outcome  *)
(* in the row (ActionExecutor::execute_actions); a background loop in each *)
(* backend instance (webhook_retry_task) calls them again while the row's  *)
(* retry budget lasts.  One rule, several alarms of it.                    *)
(***************************************************************************)
EXTENDS Naturals, FiniteSets

CONSTANTS Alarm,       \* alarm rows
          Url,         \* webhook URLs the rule may name
          Worker,      \* backend instances, each with its retry loop
          NoAlarm,     \* the row of a worker that is between rows
          MaxRetries   \* alarm.webhook_max_retries

ASSUME RetryAssumption == /\ MaxRetries \in Nat
                          /\ NoAlarm \notin Alarm
                          /\ IsFiniteSet(Worker)

VARIABLES urls,    \* webhook URLs of the rule now; {} once it has none or is deleted
          edited,  \* the rule's URLs were changed since the first alarm
          hook,    \* hook[a]: webhook_status
          left,    \* left[a]: webhook_retries_left
          due,     \* due[a]: webhook_next_retry_at <= NOW()
          got,     \* got[a]: URLs whose server took the alarm
          rounds,  \* rounds[a]: failed retry rounds, counted up to MaxRetries
          stranded, \* rows that a loop left behind between its last two updates
          xpc, xtodo, xfailed,    \* the evaluation task of an alarm
          wpc, batch, cur, wtodo  \* the retry loop of an instance

ruleVars == <<urls, edited>>
rowVars  == <<hook, left, due>>
seenVars == <<got, rounds, stranded>>
execVars == <<xpc, xtodo, xfailed>>
loopVars == <<wpc, batch, cur, wtodo>>
vars == <<urls, edited, hook, left, due, got, rounds, stranded, xpc, xtodo, xfailed,
          wpc, batch, cur, wtodo>>

\* "none": no row yet; "null", "success", "pending", "final": the column's
\* NULL, 0, 1 and 2.
Hook == {"none", "null", "success", "pending", "final"}

TypeOK ==
    /\ urls \in SUBSET Url
    /\ edited \in BOOLEAN
    /\ hook \in [Alarm -> Hook]
    /\ left \in [Alarm -> 0..MaxRetries]
    /\ due \in [Alarm -> BOOLEAN]
    /\ got \in [Alarm -> SUBSET Url]
    /\ rounds \in [Alarm -> 0..MaxRetries]
    /\ stranded \subseteq Alarm
    /\ xpc \in [Alarm -> {"idle", "send", "record"}]
    /\ xtodo \in [Alarm -> SUBSET Url]
    /\ xfailed \in [Alarm -> BOOLEAN]
    /\ wpc \in [Worker -> {"tick", "send", "success", "decrement", "final"}]
    /\ batch \in [Worker -> SUBSET Alarm]
    /\ cur \in [Worker -> Alarm \cup {NoAlarm}]
    /\ wtodo \in [Worker -> SUBSET Url]

Init ==
    /\ urls \in SUBSET Url
    /\ edited = FALSE
    /\ hook = [a \in Alarm |-> "none"]
    /\ left = [a \in Alarm |-> 0]
    /\ due = [a \in Alarm |-> FALSE]
    /\ got = [a \in Alarm |-> {}]
    /\ rounds = [a \in Alarm |-> 0]
    /\ stranded = {}
    /\ xpc = [a \in Alarm |-> "idle"]
    /\ xtodo = [a \in Alarm |-> {}]
    /\ xfailed = [a \in Alarm |-> FALSE]
    /\ wpc = [w \in Worker |-> "tick"]
    /\ batch = [w \in Worker |-> {}]
    /\ cur = [w \in Worker |-> NoAlarm]
    /\ wtodo = [w \in Worker |-> {}]

-----------------------------------------------------------------------------
(***************************************************************************)
(* The evaluation task that raised alarm a.                                *)
(***************************************************************************)

\* insert_alarm: webhook_status defaults to NULL.  Without webhook actions the
\* task is done.
InsertAlarm(a) ==
    /\ hook[a] = "none"
    /\ hook' = [hook EXCEPT ![a] = "null"]
    /\ xpc' = [xpc EXCEPT ![a] = IF urls = {} THEN "idle" ELSE "send"]
    /\ xtodo' = [xtodo EXCEPT ![a] = urls]
    /\ UNCHANGED <<ruleVars, left, due, seenVars, xfailed, loopVars>>

\* External: the server at u takes the alarm, or not.  A caller that sees an
\* error cannot tell (the answer may be lost or later than 5 seconds).
Takes(a, u) == got' = [got EXCEPT ![a] = @ \cup {u}]

\* One send_webhook of the task; a failure does not stop the loop.
ExecSend(a, u, ok) ==
    /\ xpc[a] = "send"
    /\ u \in xtodo[a]
    /\ IF ok THEN Takes(a, u) ELSE Takes(a, u) \/ UNCHANGED got
    /\ xfailed' = [xfailed EXCEPT ![a] = @ \/ ~ok]
    /\ xtodo' = [xtodo EXCEPT ![a] = @ \ {u}]
    /\ xpc' = [xpc EXCEPT ![a] = IF xtodo[a] = {u} THEN "record" ELSE "send"]
    /\ UNCHANGED <<ruleVars, rowVars, rounds, stranded, loopVars>>

\* update_alarm_webhook_status(_with_retry): one update for all webhooks.
ExecRecordOneMore(a) ==  \* mutant: the first attempt is not counted
    /\ xpc[a] = "record"
    /\ IF xfailed[a]
         THEN /\ hook' = [hook EXCEPT ![a] = "pending"]
              /\ left' = [left EXCEPT ![a] = MaxRetries + 1]
              /\ due' = [due EXCEPT ![a] = FALSE]
         ELSE /\ hook' = [hook EXCEPT ![a] = "success"]
              /\ UNCHANGED <<left, due>>
    /\ xpc' = [xpc EXCEPT ![a] = "idle"]
    /\ UNCHANGED <<ruleVars, seenVars, xtodo, xfailed, loopVars>>

ExecRecord(a) ==
    /\ xpc[a] = "record"
    /\ IF xfailed[a]
         THEN /\ hook' = [hook EXCEPT ![a] = "pending"]
              /\ left' = [left EXCEPT ![a] = MaxRetries]
              /\ due' = [due EXCEPT ![a] = FALSE]
         ELSE /\ hook' = [hook EXCEPT ![a] = "success"]
              /\ UNCHANGED <<left, due>>
    /\ xpc' = [xpc EXCEPT ![a] = "idle"]
    /\ UNCHANGED <<ruleVars, seenVars, xtodo, xfailed, loopVars>>

\* That update fails and is only logged, or the process stops anywhere in the
\* task: the row keeps webhook_status NULL.
ExecLost(a) ==
    /\ xpc[a] # "idle"
    /\ xpc' = [xpc EXCEPT ![a] = "idle"]
    /\ UNCHANGED <<ruleVars, rowVars, seenVars, xtodo, xfailed, loopVars>>

-----------------------------------------------------------------------------
(***************************************************************************)
(* The retry loop of instance w.                                           *)
(***************************************************************************)

\* query_pending_retries
PendingInAnyStatus ==  \* mutant: webhook_status IS NOT NULL, no budget, no clock
    {a \in Alarm : hook[a] \notin {"none", "null"}}

Pending == {a \in Alarm : hook[a] = "pending" /\ left[a] > 0 /\ due[a]}

\* interval.tick(): the loop reads the rows that are due.
Poll(w) ==
    /\ wpc[w] = "tick" /\ batch[w] = {}
    /\ Pending # {}
    /\ batch' = [batch EXCEPT ![w] = Pending]
    /\ UNCHANGED <<ruleVars, rowVars, seenVars, execVars, wpc, cur, wtodo>>

\* The loop takes row a of its batch and goes to label l.
Take(w, a, l) ==
    /\ wpc[w] = "tick"
    /\ a \in batch[w]
    /\ batch' = [batch EXCEPT ![w] = @ \ {a}]
    /\ cur' = [cur EXCEPT ![w] = a]
    /\ wpc' = [wpc EXCEPT ![w] = l]

\* retry_single_webhook, get_rule_actions: a rule that is gone or has no
\* webhook any more counts as delivered.
LoadActions(w, a) ==
    /\ Take(w, a, IF urls = {} THEN "success" ELSE "send")
    /\ wtodo' = [wtodo EXCEPT ![w] = urls]
    /\ UNCHANGED <<ruleVars, rowVars, seenVars, execVars>>

\* The round of the current row failed.
CountRound(a) ==
    rounds' = [rounds EXCEPT ![a] = IF @ < MaxRetries THEN @ + 1 ELSE @]

LoadActionsError(w, a) ==
    /\ Take(w, a, "decrement")
    /\ CountRound(a)
    /\ UNCHANGED <<ruleVars, rowVars, got, stranded, execVars, wtodo>>

\* One send_webhook of a retry round.
RetrySendOk(w, u) ==
    /\ wpc[w] = "send"
    /\ u \in wtodo[w]
    /\ Takes(cur[w], u)
    /\ wtodo' = [wtodo EXCEPT ![w] = @ \ {u}]
    /\ wpc' = [wpc EXCEPT ![w] = IF wtodo[w] = {u} THEN "success" ELSE "send"]
    /\ UNCHANGED <<ruleVars, rowVars, rounds, stranded, execVars, batch, cur>>

\* The first failure ends the round (`?`).
RetrySendIgnored(w, u) ==  \* mutant: the result of send_webhook is dropped
    /\ wpc[w] = "send"
    /\ u \in wtodo[w]
    /\ Takes(cur[w], u) \/ UNCHANGED got
    /\ wtodo' = [wtodo EXCEPT ![w] = @ \ {u}]
    /\ wpc' = [wpc EXCEPT ![w] = IF wtodo[w] = {u} THEN "success" ELSE "send"]
    /\ UNCHANGED <<ruleVars, rowVars, rounds, stranded, execVars, batch, cur>>

RetrySendFails(w, u) ==
    /\ wpc[w] = "send"
    /\ u \in wtodo[w]
    /\ Takes(cur[w], u) \/ UNCHANGED got
    /\ CountRound(cur[w])
    /\ wpc' = [wpc EXCEPT ![w] = "decrement"]
    /\ UNCHANGED <<ruleVars, rowVars, stranded, execVars, batch, cur, wtodo>>

\* The loop is done with the current row.
NextAlarm(w) == /\ wpc' = [wpc EXCEPT ![w] = "tick"]
                /\ cur' = [cur EXCEPT ![w] = NoAlarm]
                /\ wtodo' = [wtodo EXCEPT ![w] = {}]
                /\ UNCHANGED batch

\* mark_webhook_success, whatever the row holds by now.
MarkSuccess(w) ==
    /\ wpc[w] = "success"
    /\ hook' = [hook EXCEPT ![cur[w]] = "success"]
    /\ left' = [left EXCEPT ![cur[w]] = 0]
    /\ due' = [due EXCEPT ![cur[w]] = FALSE]
    /\ NextAlarm(w)
    /\ UNCHANGED <<ruleVars, seenVars, execVars>>

\* decrement_retry_and_schedule_next: only while the budget lasts.
DecrementNeverEnds(w) ==  \* mutant: the caller does not look at the retries left
    /\ wpc[w] = "decrement"
    /\ LET a == cur[w] IN
         \/ /\ left[a] > 0
            /\ left' = [left EXCEPT ![a] = @ - 1]
            /\ due' = [due EXCEPT ![a] = FALSE]
         \/ left[a] = 0 /\ UNCHANGED <<left, due>>
    /\ NextAlarm(w)
    /\ UNCHANGED <<ruleVars, hook, seenVars, execVars>>

DecrementEndsEarly(w) ==  \* mutant: the last retry is never made
    /\ wpc[w] = "decrement"
    /\ LET a == cur[w] IN
         \/ /\ left[a] > 0
            /\ left' = [left EXCEPT ![a] = @ - 1]
            /\ due' = [due EXCEPT ![a] = FALSE]
            /\ IF left[a] <= 2
                 THEN wpc' = [wpc EXCEPT ![w] = "final"] /\ UNCHANGED <<batch, cur, wtodo>>
                 ELSE NextAlarm(w)
         \/ /\ left[a] = 0
            /\ NextAlarm(w)
            /\ UNCHANGED <<left, due>>
    /\ UNCHANGED <<ruleVars, hook, seenVars, execVars>>

Decrement(w) ==
    /\ wpc[w] = "decrement"
    /\ LET a == cur[w] IN
         \/ /\ left[a] > 0
            /\ left' = [left EXCEPT ![a] = @ - 1]
            /\ due' = [due EXCEPT ![a] = FALSE]
            /\ IF left[a] = 1
                 THEN wpc' = [wpc EXCEPT ![w] = "final"] /\ UNCHANGED <<batch, cur, wtodo>>
                 ELSE NextAlarm(w)
         \/ /\ left[a] = 0
            /\ NextAlarm(w)
            /\ UNCHANGED <<left, due>>
    /\ UNCHANGED <<ruleVars, hook, seenVars, execVars>>

\* mark_webhook_final_failure, whatever the row holds by now.
MarkFinal(w) ==
    /\ wpc[w] = "final"
    /\ hook' = [hook EXCEPT ![cur[w]] = "final"]
    /\ left' = [left EXCEPT ![cur[w]] = 0]
    /\ due' = [due EXCEPT ![cur[w]] = FALSE]
    /\ NextAlarm(w)
    /\ UNCHANGED <<ruleVars, seenVars, execVars>>

\* The loop lets go of its row.  After the last retry, and before the row is given
\* up, that leaves a row that no loop will find again: pending, without a retry.
LetGo(w) == stranded' = IF wpc[w] = "final" THEN stranded \cup {cur[w]} ELSE stranded

\* One of the three updates fails and is only logged.
UpdateError(w) ==
    /\ wpc[w] \in {"success", "decrement", "final"}
    /\ LetGo(w)
    /\ NextAlarm(w)
    /\ UNCHANGED <<ruleVars, rowVars, got, rounds, execVars>>

\* The instance stops and starts again: the loop forgets where it was.
Restart(w) ==
    /\ wpc[w] # "tick" \/ batch[w] # {}
    /\ LetGo(w)
    /\ wpc' = [wpc EXCEPT ![w] = "tick"]
    /\ batch' = [batch EXCEPT ![w] = {}]
    /\ cur' = [cur EXCEPT ![w] = NoAlarm]
    /\ wtodo' = [wtodo EXCEPT ![w] = {}]
    /\ UNCHANGED <<ruleVars, rowVars, got, rounds, execVars>>

-----------------------------------------------------------------------------
\* The clock passes webhook_next_retry_at.
FallDue(a) ==
    /\ hook[a] = "pending" /\ ~due[a]
    /\ due' = [due EXCEPT ![a] = TRUE]
    /\ UNCHANGED <<ruleVars, hook, left, seenVars, execVars, loopVars>>

\* update_alarm_rule with new actions, or delete_alarm_rule ({}).
EditRule(S) ==
    /\ S # urls
    /\ urls' = S
    /\ edited' = TRUE
    /\ UNCHANGED <<rowVars, seenVars, execVars, loopVars>>

LoopStep(w) ==
    \/ Poll(w)
    \/ \E a \in Alarm : LoadActions(w, a) \/ LoadActionsError(w, a)
    \/ \E u \in Url : RetrySendOk(w, u) \/ RetrySendFails(w, u)
    \/ MarkSuccess(w) \/ Decrement(w) \/ MarkFinal(w) \/ UpdateError(w)

Next ==
    \/ \E a \in Alarm : \/ InsertAlarm(a) \/ ExecRecord(a) \/ ExecLost(a) \/ FallDue(a)
                        \/ \E u \in Url, ok \in BOOLEAN : ExecSend(a, u, ok)
    \/ \E w \in Worker : LoopStep(w) \/ Restart(w)
    \/ \E S \in SUBSET Url : EditRule(S)

Spec == Init /\ [][Next]_vars

\* The clock moves on, the loops run, and an update of the database that is
\* tried again and again succeeds in the end.  Nothing is assumed of the servers.
Fairness ==
    /\ \A a \in Alarm : WF_vars(FallDue(a))
    /\ \A w \in Worker : WF_vars(LoopStep(w)) /\ SF_vars(MarkSuccess(w)) /\ SF_vars(Decrement(w))

FairSpec == Spec /\ Fairness

-----------------------------------------------------------------------------
(***************************************************************************)
(* Properties.                                                             *)
(***************************************************************************)

\* A webhook is given up only after the configured number of retry rounds
\* really failed: no restart, lost update or second instance cuts it short.
FinalAfterAllRetries ==
    \A a \in Alarm : hook[a] = "final" => rounds[a] = MaxRetries

\* While the rule's webhooks stay as they are, a row says "success" only if
\* every webhook took the alarm, in the first attempt or in some retry.
SuccessIsDelivery ==
    \A a \in Alarm : hook[a] = "success" /\ ~edited => urls \subseteq got[a]

\* A row that is delivered or given up, and that no loop has in hand any more.
Settled(a) == /\ hook[a] \in {"success", "final"}
              /\ \A w \in Worker : a \notin batch[w] /\ cur[w] # a

\* However many instances retry the same rows: once the loops that read a row while
\* it was pending are done with it, its outcome stays and no loop takes it up again.
\* Until then one of them may still overwrite what another recorded.
SettledStays ==
    [][\A a \in Alarm : Settled(a) => Settled(a)' /\ hook'[a] = hook[a]]_vars

\* A pending webhook does not wait for ever: once the instances stay up, it is
\* delivered or given up, whatever the servers answer and however the rule is edited
\* meanwhile.  The one exception is a row whose loop was stopped, or whose update
\* failed, exactly between using up the last retry and giving the row up.
RetriesConclude ==
    (\A w \in Worker : <>[][~Restart(w)]_vars) =>
        \A a \in Alarm : hook[a] = "pending" ~> (hook[a] # "pending" \/ a \in stranded)
=============================================================================
