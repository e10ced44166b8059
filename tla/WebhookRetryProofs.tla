-------------------------- MODULE WebhookRetryProofs --------------------------
(***************************************************************************)
(* Proofs about WebhookRetry, for any number of alarms, webhooks, backend  *)
(* instances and retries: no webhook is given up early, and "success"      *)
(* means delivery.                                                         *)
(***************************************************************************)
EXTENDS WebhookRetry, FiniteSetTheorems, TLAPS

\* Instances that saw a round of alarm a fail and have not used up a retry yet.
Owing(a) == {w \in Worker : wpc[w] = "decrement" /\ cur[w] = a}

\* An evaluation works on a fresh row, and the loops only on recorded ones.
FreshRows ==
    /\ \A a \in Alarm : xpc[a] # "idle" => hook[a] = "null"
    /\ \A w \in Worker : \A a \in batch[w] : hook[a] \notin {"none", "null"}
    /\ \A w \in Worker : wpc[w] # "tick" =>
          cur[w] \in Alarm /\ hook[cur[w]] \notin {"none", "null"}

\* The budget of a row goes with its status.
BudgetShape ==
    \A a \in Alarm :
        /\ hook[a] # "pending" => left[a] = 0
        /\ hook[a] = "none" => xpc[a] = "idle" /\ ~xfailed[a]

\* Every retry that was used up, and every one about to be, has a failed round.
RoundsCover ==
    /\ \A a \in Alarm : hook[a] = "pending" =>
          \/ rounds[a] = MaxRetries
          \/ rounds[a] >= MaxRetries - left[a] + Cardinality(Owing(a))
    /\ \A w \in Worker : wpc[w] = "final" => rounds[cur[w]] = MaxRetries

\* What an attempt in progress has delivered so far.
Delivered ==
    ~edited =>
        /\ \A a \in Alarm : /\ xpc[a] # "idle" /\ ~xfailed[a] => urls \ xtodo[a] \subseteq got[a]
                            /\ xpc[a] = "record" => xtodo[a] = {}
        /\ \A w \in Worker : /\ wpc[w] = "send" => urls \ wtodo[w] \subseteq got[cur[w]]
                             /\ wpc[w] = "success" => urls \subseteq got[cur[w]]

\* The inductive invariant: FinalAfterAllRetries alone does not say why the
\* instance about to write "final" may do so, nor SuccessIsDelivery what the
\* attempt that is about to write "success" has delivered.
RetryInv ==
    /\ TypeOK
    /\ FreshRows
    /\ BudgetShape
    /\ RoundsCover
    /\ FinalAfterAllRetries
    /\ Delivered
    /\ SuccessIsDelivery

-----------------------------------------------------------------------------
\* Step of the loop of instance w: the other loops stay where they are.
OthersStay(w) ==
    \A v \in Worker \ {w} : /\ wpc'[v] = wpc[v] /\ cur'[v] = cur[v]
                            /\ batch'[v] = batch[v] /\ wtodo'[v] = wtodo[v]

\* Sets of instances are finite, so their sizes are numbers.
LEMMA WorkerSets ==
    ASSUME NEW S \in SUBSET Worker
    PROVE  IsFiniteSet(S) /\ Cardinality(S) \in Nat
BY RetryAssumption, FS_Subset, FS_CardinalityType

\* A loop that is not about to use up a retry owes none.
LEMMA OwingLoses ==
    ASSUME NEW w \in Worker, NEW a \in Alarm, OthersStay(w), wpc'[w] # "decrement"
    PROVE  /\ Cardinality(Owing(a)') \in Nat /\ Cardinality(Owing(a)) \in Nat
           /\ Cardinality(Owing(a)') <= Cardinality(Owing(a))
           /\ wpc[w] = "decrement" /\ cur[w] = a
                => Cardinality(Owing(a)') = Cardinality(Owing(a)) - 1
<1>1. Owing(a)' = Owing(a) \ {w}
  BY DEF Owing, OthersStay
<1>2. Owing(a) \in SUBSET Worker
  BY DEF Owing
<1>3. IsFiniteSet(Owing(a)) /\ Cardinality(Owing(a)) \in Nat
  BY <1>2, WorkerSets
<1>4. Cardinality(Owing(a) \ {w}) = IF w \in Owing(a) THEN Cardinality(Owing(a)) - 1
                                                      ELSE Cardinality(Owing(a))
  BY <1>3, FS_RemoveElement
<1>5. Cardinality(Owing(a) \ {w}) \in Nat
  BY <1>2, WorkerSets, Owing(a) \ {w} \in SUBSET Worker
<1>6. wpc[w] = "decrement" /\ cur[w] = a => w \in Owing(a)
  BY DEF Owing
<1> QED
  BY <1>1, <1>3, <1>4, <1>5, <1>6

\* A loop whose round just failed owes one retry more, for its current row.
LEMMA OwingGains ==
    ASSUME NEW w \in Worker, NEW a \in Alarm, OthersStay(w),
           wpc[w] # "decrement", wpc'[w] = "decrement"
    PROVE  /\ Cardinality(Owing(a)') \in Nat /\ Cardinality(Owing(a)) \in Nat
           /\ cur'[w] = a => Cardinality(Owing(a)') = Cardinality(Owing(a)) + 1
           /\ cur'[w] # a => Cardinality(Owing(a)') = Cardinality(Owing(a))
<1>1. Owing(a) \in SUBSET Worker /\ w \notin Owing(a)
  BY DEF Owing
<1>2. IsFiniteSet(Owing(a)) /\ Cardinality(Owing(a)) \in Nat
  BY <1>1, WorkerSets
<1>3. CASE cur'[w] = a
  <2>1. Owing(a)' = Owing(a) \cup {w}
    BY <1>3 DEF Owing, OthersStay
  <2>2. Cardinality(Owing(a) \cup {w}) = Cardinality(Owing(a)) + 1
    BY <1>1, <1>2, FS_AddElement
  <2> QED
    BY <1>2, <1>3, <2>1, <2>2
<1>4. CASE cur'[w] # a
  <2>1. Owing(a)' = Owing(a)
    BY <1>1, <1>4 DEF Owing, OthersStay
  <2> QED
    BY <1>2, <1>4, <2>1
<1> QED
  BY <1>3, <1>4

-----------------------------------------------------------------------------
\* The invariant holds before the first alarm.
LEMMA RetryInit == Init => RetryInv
<1> SUFFICES ASSUME Init PROVE RetryInv
  OBVIOUS
<1>1. TypeOK
  <2>1. /\ edited \in BOOLEAN
        /\ due \in [Alarm -> BOOLEAN]
        /\ xfailed \in [Alarm -> BOOLEAN]
    BY Zenon DEF Init
  <2>2. /\ left \in [Alarm -> 0..MaxRetries]
        /\ rounds \in [Alarm -> 0..MaxRetries]
    BY RetryAssumption DEF Init
  <2> QED
    BY <2>1, <2>2 DEF Init, TypeOK, Hook
<1>2. FreshRows /\ BudgetShape /\ RoundsCover
  BY DEF Init, FreshRows, BudgetShape, RoundsCover
<1>3. FinalAfterAllRetries /\ Delivered /\ SuccessIsDelivery
  BY DEF Init, FinalAfterAllRetries, Delivered, SuccessIsDelivery
<1> QED
  BY <1>1, <1>2, <1>3 DEF RetryInv

\* What no step of an evaluation or of the rule's editor touches.
LEMMA LoopsUntouched ==
    ASSUME RetryInv, UNCHANGED <<loopVars, rounds>>
    PROVE  \A a \in Alarm : Cardinality(Owing(a)') = Cardinality(Owing(a))
                            /\ Cardinality(Owing(a)) \in Nat
<1> TAKE a \in Alarm
<1>1. Owing(a)' = Owing(a) /\ Owing(a) \in SUBSET Worker
  BY DEF Owing, loopVars
<1> QED
  BY <1>1, WorkerSets

\* The first attempt: insert_alarm, the first calls, and their outcome.
LEMMA InsertInv ==
    ASSUME RetryInv, NEW a \in Alarm, InsertAlarm(a)
    PROVE  RetryInv'
<1> USE DEF RetryInv, InsertAlarm, ruleVars, seenVars, loopVars
<1>1. TypeOK'
  BY DEF TypeOK, Hook
<1>2. FreshRows'
  BY DEF TypeOK, FreshRows, Hook
<1>3. BudgetShape'
  BY DEF TypeOK, BudgetShape, Hook
<1>4. RoundsCover'
  BY LoopsUntouched DEF TypeOK, RoundsCover, Hook
<1>5. FinalAfterAllRetries' /\ SuccessIsDelivery'
  BY DEF TypeOK, FinalAfterAllRetries, SuccessIsDelivery, Hook
<1>6. Delivered'
  BY DEF TypeOK, Delivered, BudgetShape
<1> QED
  BY <1>1, <1>2, <1>3, <1>4, <1>5, <1>6

\* One call of the first attempt preserves the invariant.
LEMMA ExecSendInv ==
    ASSUME RetryInv, NEW a \in Alarm, NEW u \in Url, NEW ok \in BOOLEAN, ExecSend(a, u, ok)
    PROVE  RetryInv'
<1> USE DEF RetryInv, ExecSend, Takes, ruleVars, rowVars, loopVars
<1>1. TypeOK'
  <2>1. xfailed' \in [Alarm -> BOOLEAN]
    BY Zenon DEF TypeOK
  <2>2. got' \in [Alarm -> SUBSET Url] /\ xtodo' \in [Alarm -> SUBSET Url]
    BY DEF TypeOK
  <2> QED
    BY <2>1, <2>2 DEF TypeOK
<1>2. FreshRows' /\ BudgetShape' /\ FinalAfterAllRetries'
  BY DEF TypeOK, FreshRows, BudgetShape, FinalAfterAllRetries
<1>3. RoundsCover'
  BY LoopsUntouched DEF TypeOK, RoundsCover
<1>4. \A b \in Alarm : got[b] \subseteq got'[b]
  BY DEF TypeOK
<1>5. SuccessIsDelivery'
  BY <1>4 DEF SuccessIsDelivery
<1>6. ok => u \in got'[a]
  BY DEF TypeOK
<1>7. Delivered'
  BY <1>4, <1>6 DEF TypeOK, Delivered, FreshRows
<1> QED
  BY <1>1, <1>2, <1>3, <1>5, <1>7

\* So does recording the outcome of the first attempt.
LEMMA ExecRecordInv ==
    ASSUME RetryInv, NEW a \in Alarm, ExecRecord(a)
    PROVE  RetryInv'
<1> USE DEF RetryInv, ExecRecord, ruleVars, seenVars, loopVars
<1>1. TypeOK'
  <2>1. due' \in [Alarm -> BOOLEAN]
    BY Zenon DEF TypeOK
  <2>2. hook' \in [Alarm -> Hook] /\ left' \in [Alarm -> 0..MaxRetries]
    BY RetryAssumption DEF TypeOK, Hook
  <2> QED
    BY <2>1, <2>2 DEF TypeOK
<1>2. FreshRows'
  BY DEF TypeOK, FreshRows, Hook
<1>3. BudgetShape'
  BY DEF TypeOK, BudgetShape, FreshRows, Hook
<1>4. Owing(a) = {}
  BY DEF FreshRows, Owing
<1>5. Cardinality(Owing(a)') = 0
  BY <1>4, LoopsUntouched, FS_EmptySet
<1>6. RoundsCover'
  <2>1. \A b \in Alarm \ {a} : hook'[b] = hook[b] /\ left'[b] = left[b]
    BY DEF TypeOK
  <2>2. hook'[a] = "pending" => left'[a] = MaxRetries
    BY DEF TypeOK
  <2> QED
    BY <1>5, <2>1, <2>2, LoopsUntouched, RetryAssumption DEF TypeOK, RoundsCover
<1>7. FinalAfterAllRetries' /\ Delivered'
  BY DEF TypeOK, FinalAfterAllRetries, Delivered
<1>8. SuccessIsDelivery'
  BY DEF TypeOK, SuccessIsDelivery, Delivered
<1> QED
  BY <1>1, <1>2, <1>3, <1>6, <1>7, <1>8

\* So does losing the evaluation task before it recorded anything.
LEMMA ExecLostInv ==
    ASSUME RetryInv, NEW a \in Alarm, ExecLost(a)
    PROVE  RetryInv'
<1> USE DEF RetryInv, ExecLost, ruleVars, rowVars, seenVars, loopVars
<1>1. TypeOK' /\ FreshRows' /\ BudgetShape'
  BY DEF TypeOK, FreshRows, BudgetShape
<1>2. RoundsCover'
  BY LoopsUntouched DEF RoundsCover
<1>3. FinalAfterAllRetries' /\ Delivered' /\ SuccessIsDelivery'
  BY DEF TypeOK, FinalAfterAllRetries, Delivered, SuccessIsDelivery
<1> QED
  BY <1>1, <1>2, <1>3

\* The clock, and the editor of the rule.
LEMMA FallDueInv ==
    ASSUME RetryInv, NEW a \in Alarm, FallDue(a)
    PROVE  RetryInv'
<1> USE DEF RetryInv, FallDue, ruleVars, seenVars, execVars, loopVars
<1>1. TypeOK' /\ FreshRows' /\ BudgetShape'
  BY DEF TypeOK, FreshRows, BudgetShape
<1>2. RoundsCover'
  BY LoopsUntouched DEF RoundsCover
<1>3. FinalAfterAllRetries' /\ Delivered' /\ SuccessIsDelivery'
  BY DEF FinalAfterAllRetries, Delivered, SuccessIsDelivery
<1> QED
  BY <1>1, <1>2, <1>3

\* Editing the rule only weakens what success has to mean.
LEMMA EditRuleInv ==
    ASSUME RetryInv, NEW S \in SUBSET Url, EditRule(S)
    PROVE  RetryInv'
<1> USE DEF RetryInv, EditRule, rowVars, seenVars, execVars, loopVars
<1>1. TypeOK' /\ FreshRows' /\ BudgetShape'
  BY DEF TypeOK, FreshRows, BudgetShape
<1>2. RoundsCover'
  BY LoopsUntouched DEF RoundsCover
<1>3. FinalAfterAllRetries' /\ Delivered' /\ SuccessIsDelivery'
  BY DEF FinalAfterAllRetries, Delivered, SuccessIsDelivery
<1> QED
  BY <1>1, <1>2, <1>3

-----------------------------------------------------------------------------
\* The loop of instance w reads the rows that are due.
LEMMA PollInv ==
    ASSUME RetryInv, NEW w \in Worker, Poll(w)
    PROVE  RetryInv'
<1> USE DEF RetryInv, Poll, Pending, ruleVars, rowVars, seenVars, execVars
<1>1. TypeOK' /\ FreshRows' /\ BudgetShape'
  BY DEF TypeOK, FreshRows, BudgetShape
<1>2. \A a \in Alarm : Owing(a)' = Owing(a)
  BY DEF Owing
<1>3. RoundsCover'
  BY <1>2 DEF RoundsCover
<1>4. FinalAfterAllRetries' /\ Delivered' /\ SuccessIsDelivery'
  BY DEF FinalAfterAllRetries, Delivered, SuccessIsDelivery
<1> QED
  BY <1>1, <1>3, <1>4

\* It takes the next row and reads the rule's webhooks.
LEMMA LoadActionsInv ==
    ASSUME RetryInv, NEW w \in Worker, NEW a \in Alarm, LoadActions(w, a)
    PROVE  RetryInv'
<1> USE DEF RetryInv, LoadActions, Take, ruleVars, rowVars, seenVars, execVars
<1>1. TypeOK' /\ OthersStay(w)
  BY DEF TypeOK, OthersStay
<1>2. FreshRows' /\ BudgetShape'
  BY DEF TypeOK, FreshRows, BudgetShape
<1>3. wpc'[w] \in {"send", "success"}
  BY DEF TypeOK
<1>4. RoundsCover'
  <2>1. \A b \in Alarm : /\ Cardinality(Owing(b)') <= Cardinality(Owing(b))
                         /\ Cardinality(Owing(b)') \in Nat /\ Cardinality(Owing(b)) \in Nat
    BY <1>1, <1>3, OwingLoses
  <2> QED
    BY <1>1, <1>3, <2>1, RetryAssumption DEF TypeOK, RoundsCover, OthersStay
<1>5. FinalAfterAllRetries' /\ SuccessIsDelivery'
  BY DEF FinalAfterAllRetries, SuccessIsDelivery
<1>6. Delivered'
  BY <1>1 DEF TypeOK, Delivered, OthersStay
<1> QED
  BY <1>1, <1>2, <1>4, <1>5, <1>6

\* One more failed round: the count moves up unless it is full already.
LEMMA RoundCounted ==
    ASSUME TypeOK, NEW a \in Alarm, CountRound(a)
    PROVE  /\ rounds' \in [Alarm -> 0..MaxRetries]
           /\ rounds'[a] = MaxRetries \/ rounds'[a] = rounds[a] + 1
           /\ \A b \in Alarm : rounds'[b] = MaxRetries \/ rounds[b] # MaxRetries
           /\ \A b \in Alarm \ {a} : rounds'[b] = rounds[b]
BY RetryAssumption DEF TypeOK, CountRound

\* A failed round keeps the budget covered.
LEMMA FailedRoundCovers ==
    ASSUME RetryInv, NEW w \in Worker, NEW a \in Alarm, OthersStay(w), CountRound(a),
           UNCHANGED rowVars, wpc[w] # "decrement", wpc'[w] = "decrement", cur'[w] = a,
           TypeOK'
    PROVE  RoundsCover' /\ FinalAfterAllRetries'
<1> USE DEF RetryInv, rowVars
<1>1. \A b \in Alarm :
         /\ Cardinality(Owing(b)') \in Nat /\ Cardinality(Owing(b)) \in Nat
         /\ a = b => Cardinality(Owing(b)') = Cardinality(Owing(b)) + 1
         /\ a # b => Cardinality(Owing(b)') = Cardinality(Owing(b))
  BY OwingGains
<1>2. \A b \in Alarm : hook'[b] = "pending" =>
         \/ rounds'[b] = MaxRetries
         \/ rounds'[b] >= MaxRetries - left'[b] + Cardinality(Owing(b)')
  <2> TAKE b \in Alarm
  <2> HAVE hook'[b] = "pending"
  <2>1. /\ left'[b] = left[b] /\ left[b] \in Nat /\ MaxRetries \in Nat
        /\ rounds[b] \in Nat /\ rounds'[b] \in Nat
    BY RetryAssumption DEF TypeOK
  <2>2. \/ rounds[b] = MaxRetries
        \/ rounds[b] >= MaxRetries - left[b] + Cardinality(Owing(b))
    BY DEF RoundsCover
  <2>3. CASE a = b
    BY <1>1, <2>1, <2>2, <2>3, RoundCounted
  <2>4. CASE a # b
    <3>1. rounds'[b] = rounds[b]
      BY <2>4, RoundCounted
    <3> QED
      BY <1>1, <2>1, <2>2, <2>4, <3>1
  <2> QED
    BY <2>3, <2>4
<1>3. \A v \in Worker : wpc'[v] = "final" => rounds'[cur'[v]] = MaxRetries
  BY RoundCounted DEF TypeOK, RoundsCover, OthersStay, FreshRows
<1>4. FinalAfterAllRetries'
  BY RoundCounted DEF FinalAfterAllRetries
<1> QED
  BY <1>2, <1>3, <1>4 DEF RoundsCover

\* A rule that cannot be read is a failed round.
LEMMA LoadActionsErrorInv ==
    ASSUME RetryInv, NEW w \in Worker, NEW a \in Alarm, LoadActionsError(w, a)
    PROVE  RetryInv'
<1> USE DEF RetryInv, LoadActionsError, Take, ruleVars, rowVars, execVars
<1>1. TypeOK' /\ OthersStay(w)
  BY RoundCounted DEF TypeOK, OthersStay
<1>2. FreshRows' /\ BudgetShape'
  BY DEF TypeOK, FreshRows, BudgetShape
<1>3. wpc'[w] = "decrement" /\ cur'[w] = a /\ wpc[w] # "decrement"
  BY DEF TypeOK
<1>4. RoundsCover' /\ FinalAfterAllRetries'
  BY <1>1, <1>3, FailedRoundCovers
<1>5. SuccessIsDelivery' /\ Delivered'
  BY <1>1, <1>3 DEF SuccessIsDelivery, Delivered, OthersStay, TypeOK
<1> QED
  BY <1>1, <1>2, <1>4, <1>5

\* One call of a retry round: a success delivers, a failure ends the round.
LEMMA RetrySendOkInv ==
    ASSUME RetryInv, NEW w \in Worker, NEW u \in Url, RetrySendOk(w, u)
    PROVE  RetryInv'
<1> USE DEF RetryInv, RetrySendOk, Takes, ruleVars, rowVars, execVars
<1>1. cur[w] \in Alarm
  BY DEF FreshRows
<1>2. TypeOK' /\ OthersStay(w)
  BY <1>1 DEF TypeOK, OthersStay
<1>3. FreshRows' /\ BudgetShape' /\ FinalAfterAllRetries'
  BY DEF TypeOK, FreshRows, BudgetShape, FinalAfterAllRetries
<1>4. wpc'[w] \in {"send", "success"} /\ cur' = cur
  BY DEF TypeOK
<1>5. RoundsCover'
  <2>1. \A b \in Alarm : /\ Cardinality(Owing(b)') <= Cardinality(Owing(b))
                         /\ Cardinality(Owing(b)') \in Nat /\ Cardinality(Owing(b)) \in Nat
    BY <1>2, <1>4, OwingLoses
  <2> QED
    BY <1>2, <1>4, <2>1, RetryAssumption DEF TypeOK, RoundsCover, OthersStay
<1>6. \A b \in Alarm : got[b] \subseteq got'[b]
  BY <1>1 DEF TypeOK
<1>7. u \in got'[cur[w]]
  BY <1>1 DEF TypeOK
<1>8. SuccessIsDelivery'
  BY <1>6 DEF SuccessIsDelivery
<1>9. Delivered'
  <2> SUFFICES ASSUME ~edited PROVE Delivered'
    BY DEF Delivered
  <2>1. \A a \in Alarm : /\ xpc[a] # "idle" /\ ~xfailed[a] => urls \ xtodo[a] \subseteq got'[a]
                         /\ xpc[a] = "record" => xtodo[a] = {}
    BY <1>6 DEF Delivered
  <2>2. \A v \in Worker \ {w} : /\ wpc[v] = "send" => urls \ wtodo[v] \subseteq got'[cur[v]]
                                /\ wpc[v] = "success" => urls \subseteq got'[cur[v]]
    BY <1>6 DEF Delivered, FreshRows
  <2>3. urls \ wtodo'[w] \subseteq got'[cur[w]]
    BY <1>1, <1>6, <1>7 DEF Delivered, TypeOK
  <2>4. wpc'[w] = "success" => wtodo'[w] = {}
    BY DEF TypeOK
  <2> QED
    BY <1>2, <1>4, <2>1, <2>2, <2>3, <2>4 DEF Delivered, OthersStay
<1> QED
  BY <1>2, <1>3, <1>5, <1>8, <1>9

\* A refused or unanswered call ends the round as failed.
LEMMA RetrySendFailsInv ==
    ASSUME RetryInv, NEW w \in Worker, NEW u \in Url, RetrySendFails(w, u)
    PROVE  RetryInv'
<1> USE DEF RetryInv, RetrySendFails, Takes, ruleVars, rowVars, execVars
<1>1. cur[w] \in Alarm
  BY DEF FreshRows
<1>2. TypeOK' /\ OthersStay(w)
  BY <1>1, RoundCounted DEF TypeOK, OthersStay
<1>3. FreshRows' /\ BudgetShape'
  BY DEF TypeOK, FreshRows, BudgetShape
<1>4. wpc'[w] = "decrement" /\ cur' = cur /\ wpc[w] # "decrement"
  BY DEF TypeOK
<1>5. RoundsCover' /\ FinalAfterAllRetries'
  BY <1>1, <1>2, <1>4, FailedRoundCovers
<1>6. \A b \in Alarm : got[b] \subseteq got'[b]
  BY <1>1 DEF TypeOK
<1>7. SuccessIsDelivery'
  BY <1>6 DEF SuccessIsDelivery
<1>8. Delivered'
  BY <1>2, <1>4, <1>6 DEF Delivered, FreshRows, OthersStay
<1> QED
  BY <1>2, <1>3, <1>5, <1>7, <1>8

\* The loop leaves its row.
LEMMA RowLeft ==
    ASSUME RetryInv, NEW w \in Worker, NextAlarm(w)
    PROVE  /\ OthersStay(w)
           /\ wpc' \in [Worker -> {"tick", "send", "success", "decrement", "final"}]
           /\ cur' \in [Worker -> Alarm \cup {NoAlarm}]
           /\ wtodo' \in [Worker -> SUBSET Url]
           /\ batch' = batch /\ wpc'[w] = "tick"
BY DEF RetryInv, TypeOK, NextAlarm, OthersStay

\* A loop that leaves its row takes no retry from a row that stays pending.
LEMMA RowLeftCovers ==
    ASSUME RetryInv, NEW w \in Worker, OthersStay(w), wpc'[w] = "tick", rounds' = rounds,
           \A b \in Alarm : hook'[b] = "pending" => hook[b] = "pending" /\ left'[b] = left[b]
    PROVE  RoundsCover'
<1>1. ASSUME NEW b \in Alarm, hook'[b] = "pending"
      PROVE  \/ rounds'[b] = MaxRetries
             \/ rounds'[b] >= MaxRetries - left'[b] + Cardinality(Owing(b)')
  <2>1. /\ Cardinality(Owing(b)') <= Cardinality(Owing(b))
        /\ Cardinality(Owing(b)') \in Nat /\ Cardinality(Owing(b)) \in Nat
    BY OwingLoses
  <2>2. \/ rounds[b] = MaxRetries
        \/ rounds[b] >= MaxRetries - left[b] + Cardinality(Owing(b))
    BY <1>1 DEF RetryInv, RoundsCover
  <2>3. left[b] \in Nat /\ rounds[b] \in Nat /\ MaxRetries \in Nat
    BY RetryAssumption DEF RetryInv, TypeOK
  <2>4. left'[b] = left[b] /\ rounds'[b] = rounds[b]
    BY <1>1
  <2> QED
    BY <2>1, <2>2, <2>3, <2>4
<1>2. \A v \in Worker : wpc'[v] = "final" => rounds'[cur'[v]] = MaxRetries
  BY DEF RetryInv, RoundsCover, OthersStay
<1> QED
  BY <1>1, <1>2 DEF RoundsCover

\* A terminal status for the row of w: success after a delivered round, or
\* final failure after the last one.
LEMMA MarkSuccessInv ==
    ASSUME RetryInv, NEW w \in Worker, MarkSuccess(w)
    PROVE  RetryInv'
<1> USE DEF RetryInv, MarkSuccess, ruleVars, seenVars, execVars
<1>1. cur[w] \in Alarm /\ hook[cur[w]] \notin {"none", "null"}
  BY DEF FreshRows
<1>2. TypeOK'
  <2>1. due' \in [Alarm -> BOOLEAN]
    BY Zenon DEF TypeOK
  <2>2. hook' \in [Alarm -> Hook]
    BY DEF TypeOK, Hook
  <2>3. left' \in [Alarm -> 0..MaxRetries]
    <3>1. 0 \in 0..MaxRetries
      BY RetryAssumption
    <3> QED
      BY <3>1 DEF TypeOK
  <2> QED
    BY <2>1, <2>2, <2>3, RowLeft DEF TypeOK
<1>3. FreshRows' /\ BudgetShape'
  BY <1>1, RowLeft DEF TypeOK, FreshRows, BudgetShape, OthersStay
<1>4. RoundsCover'
  <2>1. \A b \in Alarm : hook'[b] = "pending" => hook[b] = "pending" /\ left'[b] = left[b]
    BY <1>1 DEF TypeOK
  <2>2. rounds' = rounds /\ OthersStay(w) /\ wpc'[w] = "tick"
    BY RowLeft
  <2> QED
    BY <2>1, <2>2, RowLeftCovers
<1>5. FinalAfterAllRetries'
  BY DEF TypeOK, FinalAfterAllRetries
<1>6. SuccessIsDelivery'
  BY DEF TypeOK, SuccessIsDelivery, Delivered
<1>7. Delivered'
  BY RowLeft DEF Delivered, OthersStay
<1> QED
  BY <1>2, <1>3, <1>4, <1>5, <1>6, <1>7

\* mark_webhook_final_failure preserves it: all rounds were counted.
LEMMA MarkFinalInv ==
    ASSUME RetryInv, NEW w \in Worker, MarkFinal(w)
    PROVE  RetryInv'
<1> USE DEF RetryInv, MarkFinal, ruleVars, seenVars, execVars
<1>1. cur[w] \in Alarm /\ hook[cur[w]] \notin {"none", "null"}
  BY DEF FreshRows
<1>2. TypeOK'
  <2>1. due' \in [Alarm -> BOOLEAN]
    BY Zenon DEF TypeOK
  <2>2. hook' \in [Alarm -> Hook]
    BY DEF TypeOK, Hook
  <2>3. left' \in [Alarm -> 0..MaxRetries]
    <3>1. 0 \in 0..MaxRetries
      BY RetryAssumption
    <3> QED
      BY <3>1 DEF TypeOK
  <2> QED
    BY <2>1, <2>2, <2>3, RowLeft DEF TypeOK
<1>3. FreshRows' /\ BudgetShape'
  BY <1>1, RowLeft DEF TypeOK, FreshRows, BudgetShape, OthersStay
<1>4. RoundsCover'
  <2>1. \A b \in Alarm : hook'[b] = "pending" => hook[b] = "pending" /\ left'[b] = left[b]
    BY <1>1 DEF TypeOK
  <2>2. rounds' = rounds /\ OthersStay(w) /\ wpc'[w] = "tick"
    BY RowLeft
  <2> QED
    BY <2>1, <2>2, RowLeftCovers
<1>5. FinalAfterAllRetries'
  BY DEF TypeOK, FinalAfterAllRetries, RoundsCover
<1>6. SuccessIsDelivery'
  BY DEF TypeOK, SuccessIsDelivery
<1>7. Delivered'
  BY RowLeft DEF Delivered, OthersStay
<1> QED
  BY <1>2, <1>3, <1>4, <1>5, <1>6, <1>7

\* A retry is used up, and with the last one the row is about to be given up.
LEMMA DecrementInv ==
    ASSUME RetryInv, NEW w \in Worker, Decrement(w)
    PROVE  RetryInv'
<1> USE DEF RetryInv, Decrement, ruleVars, seenVars, execVars
<1>1. cur[w] \in Alarm /\ hook[cur[w]] \notin {"none", "null"}
  BY DEF FreshRows
<1>2. OthersStay(w) /\ wpc'[w] \in {"tick", "final"} /\ batch' = batch
  BY RowLeft DEF OthersStay, TypeOK
<1>3. wpc'[w] = "final" => cur'[w] = cur[w] /\ left[cur[w]] = 1
  BY RowLeft DEF TypeOK
<1>4. TypeOK'
  <2>1. due' \in [Alarm -> BOOLEAN]
    <3>1. due' = [due EXCEPT ![cur[w]] = FALSE] \/ due' = due
      BY SMT
    <3> QED
      BY <3>1, Zenon DEF TypeOK
  <2>2. left' \in [Alarm -> 0..MaxRetries]
    BY <1>1, RetryAssumption DEF TypeOK
  <2>3. /\ wpc' \in [Worker -> {"tick", "send", "success", "decrement", "final"}]
        /\ cur' \in [Worker -> Alarm \cup {NoAlarm}]
        /\ wtodo' \in [Worker -> SUBSET Url]
    BY RowLeft DEF TypeOK
  <2> QED
    BY <1>2, <2>1, <2>2, <2>3 DEF TypeOK
<1>5. FreshRows'
  BY <1>1, <1>2, <1>3 DEF FreshRows, OthersStay
<1>6. BudgetShape'
  BY <1>1 DEF TypeOK, BudgetShape
<1>7. \A b \in Alarm : /\ Cardinality(Owing(b)') <= Cardinality(Owing(b))
                       /\ Cardinality(Owing(b)') \in Nat /\ Cardinality(Owing(b)) \in Nat
                       /\ b = cur[w] => Cardinality(Owing(b)') = Cardinality(Owing(b)) - 1
  BY <1>2, OwingLoses
<1>8. RoundsCover'
  <2>1. \A b \in Alarm : hook'[b] = "pending" =>
          \/ rounds'[b] = MaxRetries
          \/ rounds'[b] >= MaxRetries - left'[b] + Cardinality(Owing(b)')
    <3> TAKE b \in Alarm
    <3> HAVE hook'[b] = "pending"
    <3>1. \/ rounds[b] = MaxRetries
          \/ rounds[b] >= MaxRetries - left[b] + Cardinality(Owing(b))
      BY DEF RoundsCover
    <3>2. /\ left[b] \in Nat /\ left'[b] \in Nat /\ rounds[b] \in Nat /\ MaxRetries \in Nat
          /\ rounds'[b] = rounds[b]
      BY <1>4, RetryAssumption DEF TypeOK
    <3>3. left'[b] = left[b] \/ (b = cur[w] /\ left'[b] = left[b] - 1)
      <4>1. left' = left \/ left' = [left EXCEPT ![cur[w]] = @ - 1]
        BY SMT
      <4> QED
        BY <1>1, <4>1 DEF TypeOK
    <3> QED
      BY <1>7, <3>1, <3>2, <3>3
  <2>2. wpc'[w] = "final" => rounds[cur[w]] = MaxRetries
    <3> SUFFICES ASSUME wpc'[w] = "final" PROVE rounds[cur[w]] = MaxRetries
      OBVIOUS
    <3> DEFINE b == cur[w]
    <3>1. left[b] = 1 /\ hook[b] = "pending"
      BY <1>1, <1>3 DEF BudgetShape
    <3>2. \/ rounds[b] = MaxRetries
          \/ rounds[b] >= MaxRetries - left[b] + Cardinality(Owing(b))
      BY <1>1, <3>1 DEF RoundsCover
    <3>3. /\ Cardinality(Owing(b)) \in Nat /\ Cardinality(Owing(b)) - 1 \in Nat
          /\ rounds[b] \in 0..MaxRetries /\ MaxRetries \in Nat
      BY <1>1, <1>7, RetryAssumption DEF TypeOK
    <3> QED
      BY <3>1, <3>2, <3>3
  <2> QED
    BY <1>2, <1>3, <2>1, <2>2 DEF RoundsCover, OthersStay
<1>9. FinalAfterAllRetries' /\ SuccessIsDelivery'
  BY DEF FinalAfterAllRetries, SuccessIsDelivery
<1>10. Delivered'
  BY <1>2 DEF Delivered, OthersStay
<1> QED
  BY <1>4, <1>5, <1>6, <1>8, <1>9, <1>10

\* A lost update or a restart only makes the loop forget its row.
LEMMA ForgetInv ==
    ASSUME RetryInv, NEW w \in Worker, UpdateError(w) \/ Restart(w)
    PROVE  RetryInv'
<1> USE DEF RetryInv, UpdateError, Restart, LetGo, ruleVars, rowVars, seenVars, execVars
<1>0. stranded' \subseteq Alarm
  BY DEF TypeOK, FreshRows
<1>1. TypeOK' /\ OthersStay(w) /\ wpc'[w] = "tick" /\ batch'[w] \subseteq batch[w]
  <2>1. CASE UpdateError(w) BY <1>0, <2>1, RowLeft DEF TypeOK
  <2>2. CASE Restart(w) BY <1>0, <2>2 DEF TypeOK, OthersStay
  <2> QED BY <2>1, <2>2
<1>2. FreshRows' /\ BudgetShape'
  BY <1>1 DEF FreshRows, BudgetShape, OthersStay
<1>3. RoundsCover'
  BY <1>1, RowLeftCovers
<1>4. FinalAfterAllRetries' /\ Delivered' /\ SuccessIsDelivery'
  BY <1>1 DEF FinalAfterAllRetries, Delivered, SuccessIsDelivery, OthersStay
<1> QED
  BY <1>1, <1>2, <1>3, <1>4

-----------------------------------------------------------------------------
\* Every step, and every stutter, preserves the invariant.
LEMMA RetryNext == RetryInv /\ [Next]_vars => RetryInv'
<1> SUFFICES ASSUME RetryInv, [Next]_vars PROVE RetryInv'
  OBVIOUS
<1>1. CASE UNCHANGED vars
  <2>1. \A a \in Alarm : Owing(a)' = Owing(a)
    BY <1>1 DEF Owing, vars
  <2> QED
    BY <1>1, <2>1 DEF RetryInv, TypeOK, FreshRows, BudgetShape, RoundsCover,
                      FinalAfterAllRetries, Delivered, SuccessIsDelivery, vars
<1>2. CASE \E a \in Alarm : InsertAlarm(a) \/ ExecRecord(a) \/ ExecLost(a) \/ FallDue(a)
  BY <1>2, InsertInv, ExecRecordInv, ExecLostInv, FallDueInv
<1>3. CASE \E a \in Alarm, u \in Url, ok \in BOOLEAN : ExecSend(a, u, ok)
  BY <1>3, ExecSendInv
<1>4. CASE \E w \in Worker : LoopStep(w)
  <2> PICK w \in Worker : LoopStep(w)
    BY <1>4
  <2>1. CASE Poll(w)
    BY <2>1, PollInv
  <2>2. CASE \E a \in Alarm : LoadActions(w, a) \/ LoadActionsError(w, a)
    BY <2>2, LoadActionsInv, LoadActionsErrorInv
  <2>3. CASE \E u \in Url : RetrySendOk(w, u) \/ RetrySendFails(w, u)
    BY <2>3, RetrySendOkInv, RetrySendFailsInv
  <2>4. CASE MarkSuccess(w) \/ Decrement(w) \/ MarkFinal(w) \/ UpdateError(w)
    BY <2>4, MarkSuccessInv, DecrementInv, MarkFinalInv, ForgetInv
  <2> QED
    BY <2>1, <2>2, <2>3, <2>4 DEF LoopStep
<1>5. CASE \E w \in Worker : Restart(w)
  BY <1>5, ForgetInv
<1>6. CASE \E S \in SUBSET Url : EditRule(S)
  BY <1>6, EditRuleInv
<1> QED
  BY <1>1, <1>2, <1>3, <1>4, <1>5, <1>6 DEF Next

\* The invariant holds in every reachable state.
THEOREM RetrySpecInv == Spec => []RetryInv
BY RetryInit, RetryNext, PTL DEF Spec

\* For any number of rows, webhooks, instances and retries: the columns and the
\* locals of evaluations and retry loops keep their types, in particular the
\* budget webhook_retries_left never goes below zero.
THEOREM RetryTypeCorrect == Spec => []TypeOK
<1>1. RetryInv => TypeOK
  BY DEF RetryInv
<1> QED
  BY <1>1, RetrySpecInv, PTL

\* For any number of instances that retry the same rows at once: a webhook is
\* marked as finally failed only after webhook_max_retries failed rounds.
THEOREM GivenUpAfterAllRetries == Spec => []FinalAfterAllRetries
<1>1. RetryInv => FinalAfterAllRetries
  BY DEF RetryInv
<1> QED
  BY <1>1, RetrySpecInv, PTL

\* A row is marked as delivered only if every webhook of the rule took the alarm,
\* unless the rule was edited meanwhile.
THEOREM SuccessMeansDelivery == Spec => []SuccessIsDelivery
<1>1. RetryInv => SuccessIsDelivery
  BY DEF RetryInv
<1> QED
  BY <1>1, RetrySpecInv, PTL

-----------------------------------------------------------------------------
(***************************************************************************)
(* Several instances.  mark_webhook_success and the final mark write       *)
(* whatever the row holds by now, so a row that two loops read before      *)
(* either wrote it may still change from one terminal status to the other; *)
(* after that it may not.                                                  *)
(***************************************************************************)

LEMMA SettledNext ==
    ASSUME RetryInv, [Next]_vars, NEW a \in Alarm, Settled(a)
    PROVE  Settled(a)' /\ hook'[a] = hook[a]
<1> USE DEF ruleVars, rowVars, seenVars, execVars, loopVars
\* No loop gets hold of the row: it would have to find it pending.
<1>1. ASSUME NEW b \in Alarm, InsertAlarm(b) \/ ExecRecord(b)
      PROVE  Settled(a)' /\ hook'[a] = hook[a]
  <2>1. b # a
    BY <1>1 DEF InsertAlarm, ExecRecord, RetryInv, FreshRows, Settled
  <2>2. hook'[a] = hook[a] /\ UNCHANGED <<batch, cur>>
    BY <1>1, <2>1 DEF InsertAlarm, ExecRecord, RetryInv, TypeOK
  <2> QED BY <2>2 DEF Settled
<1>2. ASSUME NEW w \in Worker, Poll(w) PROVE Settled(a)' /\ hook'[a] = hook[a]
  <2>1. hook' = hook /\ cur' = cur BY <1>2 DEF Poll
  <2>2. \A v \in Worker : a \notin batch'[v]
    BY <1>2 DEF Poll, Pending, Settled, RetryInv, TypeOK
  <2> QED BY <2>1, <2>2 DEF Settled
<1>3. ASSUME NEW w \in Worker, NEW b \in Alarm, LoadActions(w, b) \/ LoadActionsError(w, b)
      PROVE  Settled(a)' /\ hook'[a] = hook[a]
  <2>1. hook' = hook /\ b \in batch[w]
    BY <1>3 DEF LoadActions, LoadActionsError, Take
  <2>2. \A v \in Worker : a \notin batch'[v] /\ cur'[v] # a
    BY <1>3, <2>1 DEF LoadActions, LoadActionsError, Take, Settled, RetryInv, TypeOK
  <2> QED BY <2>1, <2>2 DEF Settled
<1>4. ASSUME NEW w \in Worker, MarkSuccess(w) \/ MarkFinal(w)
      PROVE  Settled(a)' /\ hook'[a] = hook[a]
  <2>1. hook'[a] = hook[a] /\ batch' = batch
    BY <1>4 DEF MarkSuccess, MarkFinal, NextAlarm, Settled, RetryInv, TypeOK
  <2>2. \A v \in Worker : cur'[v] \in {cur[v], NoAlarm}
    BY <1>4 DEF MarkSuccess, MarkFinal, NextAlarm, RetryInv, TypeOK
  <2> QED BY <2>1, <2>2, RetryAssumption DEF Settled
<1>5. ASSUME NEW w \in Worker, Decrement(w) \/ UpdateError(w) \/ Restart(w)
      PROVE  Settled(a)' /\ hook'[a] = hook[a]
  <2>1. hook' = hook /\ \A v \in Worker : batch'[v] \subseteq batch[v]
    BY <1>5 DEF Decrement, UpdateError, Restart, NextAlarm, RetryInv, TypeOK
  <2>2. \A v \in Worker : cur'[v] \in {cur[v], NoAlarm}
    BY <1>5 DEF Decrement, UpdateError, Restart, NextAlarm, RetryInv, TypeOK
  <2> QED BY <2>1, <2>2, RetryAssumption DEF Settled
<1>6. ASSUME UNCHANGED <<hook, batch, cur>> PROVE Settled(a)' /\ hook'[a] = hook[a]
  BY <1>6 DEF Settled
<1>7. \/ \E b \in Alarm : InsertAlarm(b) \/ ExecRecord(b)
      \/ \E w \in Worker : \/ Poll(w)
                           \/ \E b \in Alarm : LoadActions(w, b) \/ LoadActionsError(w, b)
                           \/ MarkSuccess(w) \/ MarkFinal(w)
                           \/ Decrement(w) \/ UpdateError(w) \/ Restart(w)
      \/ UNCHANGED <<hook, batch, cur>>
  BY DEF Next, LoopStep, vars, ExecLost, FallDue, ExecSend, RetrySendOk, RetrySendFails,
         EditRule
<1> QED BY <1>1, <1>2, <1>3, <1>4, <1>5, <1>6, <1>7

\* For any number of rows, webhooks, retries and instances that retry the same rows at
\* once: what is recorded as delivered or as given up, and is in no loop's hands any
\* more, is never overwritten or retried.
THEOREM SettledForGood == Spec => SettledStays
<1>1. RetryInv /\ [Next]_vars =>
        [\A a \in Alarm : Settled(a) => Settled(a)' /\ hook'[a] = hook[a]]_vars
  BY SettledNext
<1> QED BY <1>1, RetrySpecInv, PTL DEF Spec, SettledStays

-----------------------------------------------------------------------------
(***************************************************************************)
(* Rows without retries.                                                   *)
(***************************************************************************)

\* A pending row without retries is in the hands of a loop that is about to give it up,
\* or was left behind by one that stopped, or whose update failed, at just that point.
ExhaustedHeld ==
    \A a \in Alarm : hook[a] = "pending" /\ left[a] = 0 =>
        a \in stranded \/ \E w \in Worker : wpc[w] = "final" /\ cur[w] = a

LEMMA ExhaustedNext ==
    ASSUME MaxRetries > 0, RetryInv, ExhaustedHeld, [Next]_vars
    PROVE  ExhaustedHeld'
<1> USE DEF ruleVars, rowVars, seenVars, execVars, loopVars
\* No row loses its retries, and no loop that is about to give one up lets go of it.
<1>0. ASSUME \A a \in Alarm : hook'[a] = "pending" /\ left'[a] = 0 =>
                              hook[a] = "pending" /\ left[a] = 0,
             stranded \subseteq stranded',
             \A w \in Worker, a \in Alarm : wpc[w] = "final" /\ cur[w] = a =>
                \/ wpc'[w] = "final" /\ cur'[w] = a
                \/ a \in stranded'
                \/ hook'[a] # "pending"
      PROVE  ExhaustedHeld'
  BY <1>0 DEF ExhaustedHeld
<1>1. ASSUME NEW b \in Alarm, InsertAlarm(b) \/ ExecRecord(b) PROVE ExhaustedHeld'
  <2>1. UNCHANGED <<stranded, wpc, cur>> BY <1>1 DEF InsertAlarm, ExecRecord
  <2>2. \A a \in Alarm \ {b} : hook'[a] = hook[a] /\ left'[a] = left[a]
    BY <1>1 DEF InsertAlarm, ExecRecord, RetryInv, TypeOK
  <2>3. hook'[b] = "pending" => left'[b] = MaxRetries
    BY <1>1 DEF InsertAlarm, ExecRecord, RetryInv, TypeOK
  <2> QED BY <1>0, <2>1, <2>2, <2>3
<1>2. ASSUME NEW w \in Worker, MarkSuccess(w) \/ MarkFinal(w) PROVE ExhaustedHeld'
  <2>1. cur[w] \in Alarm BY <1>2 DEF MarkSuccess, MarkFinal, RetryInv, FreshRows
  <2>2. \A a \in Alarm \ {cur[w]} : hook'[a] = hook[a] /\ left'[a] = left[a]
    BY <1>2 DEF MarkSuccess, MarkFinal, RetryInv, TypeOK
  <2>3. hook'[cur[w]] # "pending"
    BY <1>2, <2>1 DEF MarkSuccess, MarkFinal, RetryInv, TypeOK
  <2>4. stranded' = stranded /\ OthersStay(w)
    BY <1>2, RowLeft DEF MarkSuccess, MarkFinal
  <2> QED BY <1>0, <2>1, <2>2, <2>3, <2>4 DEF OthersStay
<1>3. ASSUME NEW w \in Worker, Decrement(w) PROVE ExhaustedHeld'
  <2>1. cur[w] \in Alarm /\ wpc[w] = "decrement" BY <1>3 DEF Decrement, RetryInv, FreshRows
  <2>2. \A a \in Alarm \ {cur[w]} : hook'[a] = hook[a] /\ left'[a] = left[a]
    BY <1>3 DEF Decrement, RetryInv, TypeOK
  <2>3. hook' = hook /\ stranded' = stranded BY <1>3 DEF Decrement
  <2>4. OthersStay(w) BY <1>3, RowLeft DEF Decrement, OthersStay, RetryInv, TypeOK
  <2>5. \/ left'[cur[w]] = left[cur[w]]
        \/ left'[cur[w]] # 0
        \/ wpc'[w] = "final" /\ cur'[w] = cur[w]
    BY <1>3, <2>1 DEF Decrement, RetryInv, TypeOK
  <2> QED BY <2>1, <2>2, <2>3, <2>4, <2>5 DEF ExhaustedHeld, OthersStay
<1>4. ASSUME NEW w \in Worker, UpdateError(w) \/ Restart(w) PROVE ExhaustedHeld'
  <2>1. UNCHANGED <<hook, left>> /\ OthersStay(w)
    BY <1>4, RowLeft DEF UpdateError, Restart, OthersStay, RetryInv, TypeOK
  <2>2. stranded \subseteq stranded' /\ (wpc[w] = "final" => cur[w] \in stranded')
    BY <1>4 DEF UpdateError, Restart, LetGo
  <2> QED BY <1>0, <2>1, <2>2 DEF OthersStay
<1>5. ASSUME NEW w \in Worker,
             \/ \E b \in Alarm : LoadActions(w, b) \/ LoadActionsError(w, b)
             \/ \E u \in Url : RetrySendOk(w, u) \/ RetrySendFails(w, u)
      PROVE  ExhaustedHeld'
  <2>1. UNCHANGED <<hook, left, stranded>> /\ wpc[w] # "final"
    BY <1>5 DEF LoadActions, LoadActionsError, Take, RetrySendOk, RetrySendFails
  <2>2. \A v \in Worker \ {w} : wpc'[v] = wpc[v] /\ cur'[v] = cur[v]
    BY <1>5 DEF LoadActions, LoadActionsError, Take, RetrySendOk, RetrySendFails, RetryInv,
                TypeOK
  <2> QED BY <1>0, <2>1, <2>2
<1>6. ASSUME UNCHANGED <<hook, left, stranded, wpc, cur>> PROVE ExhaustedHeld'
  BY <1>0, <1>6
<1>7. \/ \E b \in Alarm : InsertAlarm(b) \/ ExecRecord(b)
      \/ \E w \in Worker : \/ MarkSuccess(w) \/ MarkFinal(w) \/ Decrement(w)
                           \/ UpdateError(w) \/ Restart(w)
                           \/ \E b \in Alarm : LoadActions(w, b) \/ LoadActionsError(w, b)
                           \/ \E u \in Url : RetrySendOk(w, u) \/ RetrySendFails(w, u)
      \/ UNCHANGED <<hook, left, stranded, wpc, cur>>
  BY DEF Next, LoopStep, vars, ExecLost, FallDue, ExecSend, Poll, EditRule
<1> QED BY <1>1, <1>2, <1>3, <1>4, <1>5, <1>6, <1>7

\* With at least one retry configured, and for any number of rows, webhooks and
\* instances: a row is never left pending without retries, except by a loop that stops,
\* or whose update fails, between the decrement and mark_webhook_final_failure.
THEOREM ExhaustedAreGivenUp ==
    ASSUME MaxRetries > 0
    PROVE  Spec => []ExhaustedHeld
<1>1. Init => ExhaustedHeld BY DEF Init, ExhaustedHeld
<1>2. RetryInv /\ ExhaustedHeld /\ [Next]_vars => ExhaustedHeld' BY ExhaustedNext
<1> QED BY <1>1, <1>2, RetrySpecInv, PTL DEF Spec
=============================================================================
