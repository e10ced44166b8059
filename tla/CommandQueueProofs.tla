------------------------- MODULE CommandQueueProofs -------------------------
(***************************************************************************)
(* Proofs about CommandQueue, for any number of devices, tasks, rows and   *)
(* retries: type correctness, exclusive claims, bounded delivery, and the  *)
(* refinement of CommandLifecycle.                                         *)
(***************************************************************************)
EXTENDS CommandQueue, TLAPS

Taken == {"Sent", "Success", "Failed"}

\* Rows that did not leave the queue never reached a device.
QueuedUnsent == \A r \in Row : status[r] \notin Taken => copies[r] = 0

\* Only a publishing task has rows in hand, all of one table.
HandShape ==
    \A t \in Task :
        /\ pc[t] \notin {"publish", "mark_failed"} => hand[t] = {}
        /\ \A r, s \in hand[t] : r[1] = s[1]

\* The device got the row at hand at most once per attempt made so far.
CopiesByTries ==
    \A t \in Task : \A r \in hand[t] :
        copies[r] <= IF pc[t] = "publish" THEN tries[t] ELSE Retries + 1

\* The inductive invariant: ClaimExclusive alone does not say why a claimed row
\* has no copies yet, nor CopiesBounded how many attempts are still to come.
QueueInv ==
    /\ TypeOK
    /\ ClaimExclusive
    /\ QueuedUnsent
    /\ HandShape
    /\ CopiesByTries
    /\ CopiesBounded
    /\ BatchInOrder
    /\ SuccessHeard

\* The task components of TypeOK.
TaskTypeOK ==
    /\ pc \in [Task -> Pc]
    /\ trigger \in [Task -> Trigger]
    /\ dev \in [Task -> Device \cup {NoDevice}]
    /\ hand \in [Task -> SUBSET Row]
    /\ tries \in [Task -> 0..Retries]

\* What a step of task t leaves of the other tasks, and hands to t.
Moves(t, l, h) ==
    /\ TaskTypeOK'
    /\ pc'[t] = l /\ hand'[t] = h /\ tries'[t] = 0
    /\ \A u \in Task \ {t} : pc'[u] = pc[u] /\ hand'[u] = hand[u] /\ tries'[u] = tries[u]

\* The labels at which a task holds no rows.
Empty == {"idle", "gate", "claim_property", "claim_action"}

Releases(t) == \E l \in Empty : Moves(t, l, {})

-----------------------------------------------------------------------------
\* A row is its table and its number.
LEMMA RowFacts ==
    ASSUME NEW r \in Row, NEW s \in Row
    PROVE  /\ r[2] \in Nat /\ s[2] \in Nat
           /\ r[1] = "property" \/ r[1] = "action"
           /\ r[1] = s[1] /\ r[2] = s[2] => r = s
  BY QueueAssumption DEF Row

\* The two ways a task step ends, seen from all tasks.
LEMMA ReturnMoves ==
    ASSUME TypeOK, NEW t \in Task, Return(t)
    PROVE  Moves(t, "idle", {})
  BY QueueAssumption DEF TypeOK, TaskTypeOK, Moves, Return, Pc, Trigger

\* A task that goes on changes only its own locals.
LEMMA ContinueMoves ==
    ASSUME TypeOK, NEW t \in Task, NEW l \in Pc, NEW h \in SUBSET Row, Continue(t, l, h)
    PROVE  Moves(t, l, h)
  BY QueueAssumption DEF TypeOK, TaskTypeOK, Moves, Continue

\* A task that starts serving changes only its own locals.
LEMMA ServeMoves ==
    ASSUME QueueInv, NEW t \in Task, NEW tr \in Trigger, NEW d \in Device, Serve(t, tr, d)
    PROVE  /\ TaskTypeOK'
           /\ hand' = hand /\ tries' = tries
           /\ \A u \in Task : hand[u] # {} => pc'[u] = pc[u]
           /\ \A u \in Task : pc'[u] \notin {"publish", "mark_failed"} => hand[u] = {}
  BY DEF QueueInv, TypeOK, HandShape, TaskTypeOK, Serve, Pc, Trigger

\* Whatever the caller of the property drain does next, its hands are empty.
LEMMA AfterPropertyReleases ==
    ASSUME TypeOK, NEW t \in Task, AfterProperty(t) \/ AfterPropertyError(t)
    PROVE  Releases(t)
  <1>1. Return(t) \/ Continue(t, "claim_action", {})
    BY DEF AfterProperty, AfterPropertyError
  <1>. QED BY <1>1, ReturnMoves, ContinueMoves DEF Releases, Empty, Pc

\* A step that changes no row and no copy, and leaves the task empty-handed.
LEMMA ReleaseKeepsInv ==
    ASSUME QueueInv, NEW t \in Task, Releases(t),
           UNCHANGED <<status, owner, subscribed, copies>>
    PROVE  QueueInv'
  <1>1. PICK l \in Empty : Moves(t, l, {})
    BY DEF Releases
  <1>2. TypeOK'
    BY <1>1 DEF QueueInv, TypeOK, TaskTypeOK, Moves
  <1>3. \A u \in Task : hand'[u] \subseteq hand[u]
    BY <1>1 DEF Moves
  <1>4. ClaimExclusive' /\ BatchInOrder'
    BY <1>3 DEF QueueInv, ClaimExclusive, BatchInOrder
  <1>5. HandShape' /\ CopiesByTries'
    BY <1>1 DEF QueueInv, HandShape, CopiesByTries, Moves, Empty
  <1>6. QueuedUnsent' /\ CopiesBounded' /\ SuccessHeard'
    BY DEF QueueInv, QueuedUnsent, CopiesBounded, SuccessHeard
  <1>. QED BY <1>2, <1>4, <1>5, <1>6 DEF QueueInv

\* The drain is done with the row r it was at: r leaves every hand, and the
\* younger rows of the batch, still unsent, are next.
LEMMA DrainGoesOn ==
    ASSUME QueueInv, NEW t \in Task, NEW r \in Oldest(hand[t]), NextInDrain(t, r)
    PROVE  \/ Releases(t)
           \/ Moves(t, "publish", hand[t] \ {r})
  <1>1. TypeOK /\ hand[t] \in SUBSET Row
    BY DEF QueueInv, TypeOK
  <1>2. \/ Continue(t, "claim_action", {})
        \/ AfterProperty(t)
        \/ Continue(t, "publish", hand[t] \ {r})
    BY DEF NextInDrain
  <1>3. ASSUME Continue(t, "claim_action", {}) PROVE Releases(t)
    BY <1>1, <1>3, ContinueMoves DEF Releases, Empty, Pc
  <1>4. ASSUME Continue(t, "publish", hand[t] \ {r})
        PROVE  Moves(t, "publish", hand[t] \ {r})
    <2>1. hand[t] \ {r} \in SUBSET Row
      BY <1>1
    <2>. QED BY <1>1, <1>4, <2>1, ContinueMoves DEF Pc
  <1>. QED BY <1>1, <1>2, <1>3, <1>4, AfterPropertyReleases

\* A step that is done with the oldest row in hand preserves the invariant.
LEMMA RowDoneKeepsInv ==
    ASSUME QueueInv, NEW t \in Task, NEW r \in Oldest(hand[t]), NextInDrain(t, r),
           UNCHANGED <<owner, subscribed>>,
           status' \in [Row -> Status],
           \A s \in Row \ {r} : status'[s] = status[s],
           status'[r] \in Taken,
           status'[r] = "Success" => status[r] = "Success",
           copies' \in [Row -> Nat],
           \A s \in Row \ {r} : copies'[s] = copies[s],
           copies'[r] >= copies[r],
           copies'[r] <= Retries + 1
    PROVE  QueueInv'
  <1>1. r \in hand[t] /\ r \in Row /\ hand[t] \subseteq Row
    BY DEF QueueInv, TypeOK, Oldest
  <1>2. \/ Releases(t)
        \/ Moves(t, "publish", hand[t] \ {r})
    BY DrainGoesOn
  <1>3. TaskTypeOK'
    BY <1>2 DEF Releases, Moves
  <1>4. TypeOK'
    BY <1>3 DEF QueueInv, TypeOK, TaskTypeOK
  <1>5. \A u \in Task : hand'[u] \subseteq hand[u] \ {r}
    BY <1>1, <1>2 DEF QueueInv, ClaimExclusive, Releases, Moves
  <1>6. \A u \in Task : hand[u] \subseteq Row
    BY DEF QueueInv, TypeOK
  <1>7. ClaimExclusive' /\ BatchInOrder'
    BY <1>5, <1>6 DEF QueueInv, ClaimExclusive, BatchInOrder
  <1>8. HandShape'
    BY <1>2, <1>5 DEF QueueInv, HandShape, Releases, Moves, Empty
  <1>9. \A s \in hand[t] \ {r} : copies[s] = 0
    <2>1. TAKE s \in hand[t] \ {r}
    <2>2. r[1] = s[1] /\ r[2] <= s[2]
      BY <1>1 DEF QueueInv, HandShape, Oldest
    <2>3. r[2] < s[2]
      BY <1>1, <2>2, RowFacts
    <2>. QED BY <1>1, <2>3 DEF QueueInv, BatchInOrder
  <1>10. CopiesByTries'
    <2>1. SUFFICES ASSUME NEW u \in Task, NEW s \in hand'[u]
                   PROVE  copies'[s] <= IF pc'[u] = "publish" THEN tries'[u] ELSE Retries + 1
      BY DEF CopiesByTries
    <2>2. s \in hand[u] \ {r} /\ s \in Row
      BY <1>5, <1>6
    <2>3. CASE u = t
      BY <1>2, <1>9, <2>2, <2>3 DEF Releases, Moves
    <2>4. CASE u # t
      BY <1>2, <2>2, <2>4 DEF QueueInv, CopiesByTries, Releases, Moves
    <2>. QED BY <2>3, <2>4
  <1>11. QueuedUnsent' /\ CopiesBounded'
    BY <1>1 DEF QueueInv, QueuedUnsent, CopiesBounded
  <1>12. SuccessHeard'
    BY <1>1 DEF QueueInv, SuccessHeard, TypeOK
  <1>. QED BY <1>4, <1>7, <1>8, <1>10, <1>11, <1>12 DEF QueueInv

\* A claim moves queued rows of one table into an empty hand.
LEMMA ClaimKeepsInv ==
    ASSUME QueueInv, NEW t \in Task, NEW S \in SUBSET Row,
           \A r \in S : status[r] = "Pending",
           \A r, s \in S : r[1] = s[1],
           FlipToSent(S), Moves(t, "publish", S),
           UNCHANGED <<owner, subscribed, copies>>
    PROVE  QueueInv'
  <1>1. TypeOK'
    BY DEF QueueInv, TypeOK, TaskTypeOK, Moves, FlipToSent, Status
  <1>2. \A r \in S : copies[r] = 0 /\ status'[r] = "Sent"
    BY DEF QueueInv, QueuedUnsent, FlipToSent, Taken
  <1>3. \A r \in Row \ S : status'[r] = status[r]
    BY DEF FlipToSent
  <1>4. \A u \in Task : hand[u] \cap S = {}
    BY DEF QueueInv, ClaimExclusive
  <1>5. \A u \in Task : hand[u] \subseteq Row
    BY DEF QueueInv, TypeOK
  <1>6. ClaimExclusive'
    BY <1>2, <1>3, <1>4, <1>5 DEF QueueInv, ClaimExclusive, Moves
  <1>7. HandShape' /\ BatchInOrder'
    BY <1>2 DEF QueueInv, HandShape, BatchInOrder, Moves
  <1>8. CopiesByTries'
    BY <1>2 DEF QueueInv, CopiesByTries, Moves
  <1>9. QueuedUnsent' /\ CopiesBounded' /\ SuccessHeard'
    BY <1>2, <1>3 DEF QueueInv, QueuedUnsent, CopiesBounded, SuccessHeard, Taken
  <1>. QED BY <1>1, <1>6, <1>7, <1>8, <1>9 DEF QueueInv

-----------------------------------------------------------------------------
\* The invariant holds in the empty tables.
LEMMA InitInv == Init => QueueInv
  BY QueueAssumption
     DEF Init, QueueInv, TypeOK, ClaimExclusive, QueuedUnsent, HandShape, CopiesByTries,
         CopiesBounded, BatchInOrder, SuccessHeard, Status, Trigger, Pc, Taken

\* An INSERT (create_property_command, create_service_command) preserves it.
LEMMA CreateInv ==
    ASSUME QueueInv, NEW t \in Task, NEW d \in Device, NEW r \in Row,
           CreatePropertyCommand(t, d, r) \/ CreateServiceCommand(t, d, r)
    PROVE  QueueInv'
  <1>1. PICK tr \in Trigger : Serve(t, tr, d)
    BY DEF CreatePropertyCommand, CreateServiceCommand, Trigger
  <1>2. Insert(r, d) /\ NextRow(r) /\ UNCHANGED <<subscribed, copies>>
    BY DEF CreatePropertyCommand, CreateServiceCommand, Insert
  <1>3. /\ TaskTypeOK'
        /\ hand' = hand /\ tries' = tries
        /\ \A u \in Task : hand[u] # {} => pc'[u] = pc[u]
        /\ \A u \in Task : pc'[u] \notin {"publish", "mark_failed"} => hand[u] = {}
    BY <1>1, ServeMoves
  <1>4. TypeOK'
    BY <1>2, <1>3 DEF QueueInv, TypeOK, TaskTypeOK, Insert, Status
  <1>5. /\ status[r] = "None" /\ status'[r] = "Pending"
        /\ \A s \in Row \ {r} : status'[s] = status[s]
    BY <1>2 DEF QueueInv, TypeOK, Insert, NextRow
  <1>6. \A u \in Task : hand[u] \subseteq Row \ {r}
    BY <1>5 DEF QueueInv, TypeOK, ClaimExclusive
  <1>7. ClaimExclusive' /\ BatchInOrder'
    BY <1>2, <1>3, <1>5, <1>6 DEF QueueInv, ClaimExclusive, BatchInOrder
  <1>8. HandShape' /\ CopiesByTries'
    BY <1>2, <1>3 DEF QueueInv, HandShape, CopiesByTries
  <1>9. QueuedUnsent' /\ CopiesBounded' /\ SuccessHeard'
    BY <1>2, <1>5 DEF QueueInv, QueuedUnsent, CopiesBounded, SuccessHeard, Taken
  <1>. QED BY <1>4, <1>7, <1>8, <1>9 DEF QueueInv

\* The subscribe and connect webhooks preserve it.
LEMMA WebhookInv ==
    ASSUME QueueInv, NEW t \in Task, NEW d \in Device,
           ServiceSetSubscribe(t, d) \/ DeviceConnect(t, d)
    PROVE  QueueInv'
  <1>1. PICK tr \in Trigger : Serve(t, tr, d)
    BY DEF ServiceSetSubscribe, DeviceConnect, Trigger
  <1>2. UNCHANGED <<status, owner, subscribed, copies>>
    BY DEF ServiceSetSubscribe, DeviceConnect, dbVars
  <1>3. /\ TaskTypeOK'
        /\ hand' = hand /\ tries' = tries
        /\ \A u \in Task : hand[u] # {} => pc'[u] = pc[u]
        /\ \A u \in Task : pc'[u] \notin {"publish", "mark_failed"} => hand[u] = {}
    BY <1>1, ServeMoves
  <1>4. TypeOK'
    BY <1>2, <1>3 DEF QueueInv, TypeOK, TaskTypeOK
  <1>5. ClaimExclusive' /\ BatchInOrder' /\ QueuedUnsent' /\ CopiesBounded' /\ SuccessHeard'
    BY <1>2, <1>3
       DEF QueueInv, ClaimExclusive, BatchInOrder, QueuedUnsent, CopiesBounded, SuccessHeard
  <1>6. HandShape' /\ CopiesByTries'
    BY <1>2, <1>3 DEF QueueInv, HandShape, CopiesByTries
  <1>. QED BY <1>4, <1>5, <1>6 DEF QueueInv

\* The DELETE endpoints preserve it: they only touch rows nobody holds.
LEMMA DeleteInv ==
    ASSUME QueueInv, NEW S \in SUBSET Row, DeleteCommands(S)
    PROVE  QueueInv'
  <1>1. UNCHANGED <<owner, subscribed, copies, pc, trigger, dev, hand, tries>>
    BY DEF DeleteCommands, taskVars
  <1>2. TypeOK'
    BY <1>1 DEF QueueInv, TypeOK, DeleteCommands, Status
  <1>3. \A r \in Row : \/ status'[r] = status[r]
                       \/ status[r] = "Pending" /\ status'[r] = "Deleted"
    BY DEF DeleteCommands
  <1>4. \A u \in Task : hand[u] \subseteq Row
    BY DEF QueueInv, TypeOK
  <1>5. ClaimExclusive'
    BY <1>1, <1>3, <1>4 DEF QueueInv, ClaimExclusive
  <1>6. QueuedUnsent' /\ SuccessHeard'
    BY <1>1, <1>3 DEF QueueInv, QueuedUnsent, SuccessHeard, Taken
  <1>7. HandShape' /\ CopiesByTries' /\ CopiesBounded' /\ BatchInOrder'
    BY <1>1 DEF QueueInv, HandShape, CopiesByTries, CopiesBounded, BatchInOrder
  <1>. QED BY <1>2, <1>5, <1>6, <1>7 DEF QueueInv

\* A reply (service_set_reply) preserves it: the device got the row before.
LEMMA ReplyInv ==
    ASSUME QueueInv, NEW d, NEW r \in Row, NEW onTopic, NEW code2xx \in BOOLEAN,
           ServiceSetReply(d, r, onTopic, code2xx)
    PROVE  QueueInv'
  <1>1. UNCHANGED <<owner, subscribed, copies, pc, trigger, dev, hand, tries>>
    BY DEF ServiceSetReply, taskVars
  <1>2. status[r] = "Sent" /\ copies[r] > 0
    BY DEF ServiceSetReply, ReplyApplies
  <1>3. /\ status'[r] \in {"Success", "Failed"}
        /\ \A s \in Row \ {r} : status'[s] = status[s]
    BY DEF ServiceSetReply, QueueInv, TypeOK
  <1>4. TypeOK'
    BY <1>1 DEF QueueInv, TypeOK, ServiceSetReply, Status
  <1>5. \A u \in Task : hand[u] \subseteq Row
    BY DEF QueueInv, TypeOK
  <1>6. ClaimExclusive'
    BY <1>1, <1>3, <1>5 DEF QueueInv, ClaimExclusive
  <1>7. QueuedUnsent' /\ SuccessHeard'
    BY <1>1, <1>2, <1>3 DEF QueueInv, QueuedUnsent, SuccessHeard, Taken
  <1>8. HandShape' /\ CopiesByTries' /\ CopiesBounded' /\ BatchInOrder'
    BY <1>1 DEF QueueInv, HandShape, CopiesByTries, CopiesBounded, BatchInOrder
  <1>. QED BY <1>4, <1>6, <1>7, <1>8 DEF QueueInv

\* The steps after which the task holds nothing and no row has changed.
LEMMA GateAndErrorInv ==
    ASSUME QueueInv, NEW t \in Task,
           \/ GateOpen(t) \/ GateClosed(t) \/ ClaimPropertyError(t)
           \/ ClaimActionError(t) \/ Abandon(t)
    PROVE  QueueInv'
  <1>1. UNCHANGED <<status, owner, subscribed, copies>>
    BY DEF GateOpen, GateClosed, ClaimPropertyError, ClaimActionError, Abandon, dbVars
  <1>2. \/ Return(t)
        \/ Continue(t, "claim_action", {})
        \/ Continue(t, "claim_property", {})
        \/ AfterPropertyError(t)
    BY DEF GateOpen, GateClosed, ClaimPropertyError, ClaimActionError, Abandon
  <1>3. Releases(t)
    <2>1. TypeOK
      BY DEF QueueInv
    <2>2. ASSUME NEW l \in {"claim_action", "claim_property"}, Continue(t, l, {})
          PROVE  Releases(t)
      BY <2>1, <2>2, ContinueMoves DEF Releases, Empty, Pc
    <2>3. ASSUME Return(t) PROVE Releases(t)
      BY <2>1, <2>3, ReturnMoves DEF Releases, Empty
    <2>. QED BY <1>2, <2>1, <2>2, <2>3, AfterPropertyReleases
  <1>. QED BY <1>1, <1>3, ReleaseKeepsInv

\* update_pending_commands_to_sent preserves it.
LEMMA ClaimPropertyInv ==
    ASSUME QueueInv, NEW t \in Task, ClaimProperty(t)
    PROVE  QueueInv'
  <1> DEFINE batch == Queued("property", dev[t])
  <1>1. FlipToSent(batch) /\ UNCHANGED <<owner, subscribed, copies>>
    BY DEF ClaimProperty
  <1>2. /\ batch \in SUBSET Row
        /\ \A r \in batch : status[r] = "Pending"
        /\ \A r, s \in batch : r[1] = s[1]
    BY DEF Queued
  <1>3. TypeOK
    BY DEF QueueInv
  <1>4. CASE batch = {}
    <2>1. status' = status
      BY <1>1, <1>3, <1>4 DEF FlipToSent, TypeOK
    <2>2. Releases(t)
      BY <1>3, <1>4, AfterPropertyReleases DEF ClaimProperty
    <2>. QED BY <1>1, <2>1, <2>2, ReleaseKeepsInv
  <1>5. CASE batch # {}
    <2>1. Continue(t, "publish", batch)
      BY <1>5 DEF ClaimProperty
    <2>2. Moves(t, "publish", batch)
      BY <1>2, <1>3, <2>1, ContinueMoves DEF Pc
    <2>. QED BY <1>1, <1>2, <2>2, ClaimKeepsInv
  <1>. QED BY <1>4, <1>5

\* claim_next_pending_action preserves it.
LEMMA ClaimActionInv ==
    ASSUME QueueInv, NEW t \in Task, ClaimAction(t)
    PROVE  QueueInv'
  <1> DEFINE queue == Queued("action", dev[t])
  <1>1. UNCHANGED <<owner, subscribed, copies>>
    BY DEF ClaimAction
  <1>2. TypeOK
    BY DEF QueueInv
  <1>3. ASSUME Return(t), UNCHANGED status PROVE QueueInv'
    BY <1>1, <1>2, <1>3, ReturnMoves, ReleaseKeepsInv DEF Releases, Empty
  <1>4. ASSUME NEW r \in Oldest(queue), FlipToSent({r}), Continue(t, "publish", {r})
        PROVE  QueueInv'
    <2>1. {r} \in SUBSET Row /\ status[r] = "Pending"
      BY DEF Oldest, Queued
    <2>2. Moves(t, "publish", {r})
      BY <1>2, <1>4, <2>1, ContinueMoves DEF Pc
    <2>. QED BY <1>1, <1>4, <2>1, <2>2, ClaimKeepsInv
  <1>. QED BY <1>3, <1>4 DEF ClaimAction

\* What an attempt adds to the copies of the row at hand.
LEMMA HandToDeviceFacts ==
    ASSUME QueueInv, NEW t \in Task, NEW r \in Oldest(hand[t]), pc[t] = "publish",
           HandToDevice(r) \/ UNCHANGED copies
    PROVE  /\ r \in hand[t] /\ r \in Row
           /\ copies' \in [Row -> Nat]
           /\ \A s \in Row \ {r} : copies'[s] = copies[s]
           /\ copies[r] \in Nat /\ copies[r] <= tries[t]
           /\ copies'[r] >= copies[r] /\ copies'[r] <= copies[r] + 1
  <1>1. r \in hand[t] /\ r \in Row
    BY DEF Oldest, QueueInv, TypeOK
  <1>2. copies \in [Row -> Nat]
    BY DEF QueueInv, TypeOK
  <1>3. copies[r] <= tries[t]
    BY <1>1 DEF QueueInv, CopiesByTries
  <1>. QED BY <1>1, <1>2, <1>3 DEF HandToDevice

\* An accepted publish adds one copy, and the drain leaves the row.
LEMMA PublishOkInv ==
    ASSUME QueueInv, NEW t \in Task, PublishOk(t)
    PROVE  QueueInv'
  <1>1. PICK r \in Oldest(hand[t]) : HandToDevice(r) /\ NextInDrain(t, r)
    BY DEF PublishOk
  <1>2. pc[t] = "publish" /\ UNCHANGED <<status, owner, subscribed>>
    BY DEF PublishOk, dbVars
  <1>3. /\ r \in hand[t] /\ r \in Row
        /\ copies' \in [Row -> Nat]
        /\ \A s \in Row \ {r} : copies'[s] = copies[s]
        /\ copies[r] \in Nat /\ copies[r] <= tries[t]
        /\ copies'[r] >= copies[r] /\ copies'[r] <= copies[r] + 1
    BY <1>1, <1>2, HandToDeviceFacts
  <1>4. copies'[r] <= Retries + 1
    BY <1>3, QueueAssumption DEF QueueInv, TypeOK
  <1>5. status \in [Row -> Status] /\ status[r] \in Taken
    BY <1>3 DEF QueueInv, TypeOK, ClaimExclusive, Taken
  <1>. QED BY <1>1, <1>2, <1>3, <1>4, <1>5, RowDoneKeepsInv

\* Settling the row at hand as failed preserves it.
LEMMA MarkFailedInv ==
    ASSUME QueueInv, NEW t \in Task, MarkFailed(t) \/ MarkFailedError(t)
    PROVE  QueueInv'
  <1>1. UNCHANGED <<owner, subscribed, copies>>
    BY DEF MarkFailed, MarkFailedError, dbVars
  <1>2. ASSUME NEW r \in Oldest(hand[t]), NextInDrain(t, r),
               status' = status \/ status' = [status EXCEPT ![r] = IF @ = "Sent" THEN "Failed" ELSE @]
        PROVE  QueueInv'
    <2>1. r \in hand[t] /\ r \in Row /\ status[r] \in Taken
      BY DEF Oldest, QueueInv, TypeOK, ClaimExclusive, Taken
    <2>2. /\ status' \in [Row -> Status]
          /\ \A s \in Row \ {r} : status'[s] = status[s]
          /\ status'[r] \in Taken
          /\ status'[r] = "Success" => status[r] = "Success"
      BY <1>2, <2>1 DEF QueueInv, TypeOK, Status, Taken
    <2>3. /\ copies' \in [Row -> Nat]
          /\ \A s \in Row \ {r} : copies'[s] = copies[s]
          /\ copies'[r] >= copies[r] /\ copies'[r] <= Retries + 1
      BY <1>1, <2>1 DEF QueueInv, TypeOK, CopiesBounded
    <2>. QED BY <1>1, <1>2, <2>2, <2>3, RowDoneKeepsInv
  <1>3. ASSUME AfterPropertyError(t), status' = status
        PROVE  QueueInv'
    BY <1>1, <1>3, AfterPropertyReleases, ReleaseKeepsInv DEF QueueInv
  <1>. QED BY <1>2, <1>3 DEF MarkFailed, MarkFailedError, dbVars

\* A failed attempt adds at most one copy and uses up one attempt.
LEMMA PublishFailsInv ==
    ASSUME QueueInv, NEW t \in Task, PublishFails(t)
    PROVE  QueueInv'
  <1>1. PICK r \in Oldest(hand[t]) : HandToDevice(r) \/ UNCHANGED copies
    BY DEF PublishFails
  <1>2. pc[t] = "publish" /\ UNCHANGED <<status, owner, subscribed, trigger, dev, hand>>
    BY DEF PublishFails, dbVars
  <1>3. /\ r \in hand[t] /\ r \in Row
        /\ copies' \in [Row -> Nat]
        /\ \A s \in Row \ {r} : copies'[s] = copies[s]
        /\ copies[r] \in Nat /\ copies[r] <= tries[t]
        /\ copies'[r] >= copies[r] /\ copies'[r] <= copies[r] + 1
    BY <1>1, <1>2, HandToDeviceFacts
  <1>4. /\ pc' \in [Task -> Pc] /\ tries' \in [Task -> 0..Retries]
        /\ \A u \in Task \ {t} : pc'[u] = pc[u] /\ tries'[u] = tries[u]
        /\ \/ pc'[t] = "publish" /\ tries'[t] = tries[t] + 1
           \/ pc'[t] = "mark_failed"
    BY <1>2, QueueAssumption DEF PublishFails, QueueInv, TypeOK, Pc
  <1>5. TypeOK'
    BY <1>2, <1>3, <1>4 DEF QueueInv, TypeOK
  <1>6. tries[t] \in Nat /\ tries[t] <= Retries /\ copies'[r] <= Retries + 1
    BY <1>3, QueueAssumption DEF QueueInv, TypeOK
  <1>7. \A s \in hand[t] \ {r} : copies[s] = 0 /\ s \in Row
    <2>1. TAKE s \in hand[t] \ {r}
    <2>2. s \in Row /\ r[1] = s[1] /\ r[2] <= s[2]
      BY <1>3 DEF QueueInv, TypeOK, HandShape, Oldest
    <2>3. r[2] < s[2]
      BY <1>3, <2>2, RowFacts
    <2>. QED BY <1>3, <2>2, <2>3 DEF QueueInv, BatchInOrder
  <1>8. \A u \in Task \ {t} : r \notin hand[u] /\ hand[u] \subseteq Row
    BY <1>3 DEF QueueInv, TypeOK, ClaimExclusive
  <1>9. ClaimExclusive'
    BY <1>2 DEF QueueInv, ClaimExclusive
  <1>10. HandShape'
    BY <1>2, <1>4 DEF QueueInv, HandShape
  <1>11. CopiesByTries'
    <2>1. SUFFICES ASSUME NEW u \in Task, NEW s \in hand[u]
                   PROVE  copies'[s] <= IF pc'[u] = "publish" THEN tries'[u] ELSE Retries + 1
      BY <1>2 DEF CopiesByTries
    <2>2. CASE u # t
      BY <1>3, <1>4, <1>8, <2>2 DEF QueueInv, CopiesByTries
    <2>3. CASE u = t /\ s = r
      BY <1>3, <1>4, <1>6, <2>3
    <2>4. CASE u = t /\ s # r
      BY <1>3, <1>4, <1>6, <1>7, <2>4, QueueAssumption
    <2>. QED BY <2>2, <2>3, <2>4
  <1>12. QueuedUnsent' /\ CopiesBounded' /\ SuccessHeard'
    <2>1. status[r] \in Taken
      BY <1>3 DEF QueueInv, ClaimExclusive, Taken
    <2>. QED BY <1>2, <1>3, <1>6, <2>1 DEF QueueInv, QueuedUnsent, CopiesBounded, SuccessHeard, TypeOK
  <1>13. BatchInOrder'
    <2>1. SUFFICES ASSUME NEW u \in Task, NEW p \in hand[u], NEW s \in hand[u], p[2] < s[2]
                   PROVE  copies'[s] = 0
      BY <1>2 DEF BatchInOrder
    <2>2. s # r
      <3>1. ASSUME s = r PROVE FALSE
        <4>1. u = t
          BY <1>8, <3>1
        <4>2. r[2] <= p[2] /\ p \in Row
          BY <4>1, <1>3 DEF Oldest, QueueInv, TypeOK
        <4>. QED BY <2>1, <3>1, <4>2, <1>3, RowFacts
      <3>. QED BY <3>1
    <2>3. s \in Row /\ copies[s] = 0
      BY <2>1 DEF QueueInv, TypeOK, BatchInOrder
    <2>. QED BY <1>3, <2>2, <2>3
  <1>. QED BY <1>5, <1>9, <1>10, <1>11, <1>12, <1>13 DEF QueueInv

\* A stuttering step preserves it.
LEMMA StutterInv == QueueInv /\ UNCHANGED vars => QueueInv'
  BY DEF QueueInv, vars, TypeOK, ClaimExclusive, QueuedUnsent, HandShape, CopiesByTries,
         CopiesBounded, BatchInOrder, SuccessHeard

\* So does a session that comes or goes at the broker.
LEMMA SubscriptionInv ==
    ASSUME QueueInv, NEW d \in Device, ChangeSubscription(d)
    PROVE  QueueInv'
  <1>1. UNCHANGED <<status, owner, copies, pc, trigger, dev, hand, tries>>
    BY DEF ChangeSubscription, dbVars, taskVars
  <1>2. TypeOK'
    BY <1>1 DEF QueueInv, TypeOK, ChangeSubscription
  <1>. QED BY <1>1, <1>2
           DEF QueueInv, ClaimExclusive, QueuedUnsent, HandShape, CopiesByTries,
               CopiesBounded, BatchInOrder, SuccessHeard

\* Every step, and every stutter, preserves the invariant.
LEMMA NextInv == QueueInv /\ [Next]_vars => QueueInv'
  <1> SUFFICES ASSUME QueueInv, [Next]_vars PROVE QueueInv'
    OBVIOUS
  <1>1. ASSUME NEW t \in Task, TaskStep(t) \/ Abandon(t) PROVE QueueInv'
    BY <1>1, GateAndErrorInv, ClaimPropertyInv, ClaimActionInv, PublishOkInv,
       PublishFailsInv, MarkFailedInv DEF TaskStep
  <1>2. CASE UNCHANGED vars
    BY <1>2, StutterInv
  <1>. QED BY <1>1, <1>2, CreateInv, WebhookInv, DeleteInv, ReplyInv, SubscriptionInv DEF Next

\* The inductive invariant holds in every reachable state.
THEOREM SpecInv == Spec => []QueueInv
  BY InitInv, NextInv, PTL DEF Spec

\* Type correctness: in particular a task never counts more failed attempts of
\* one row than the configured retries.
THEOREM TypeCorrect == Spec => []TypeOK
  <1>1. QueueInv => TypeOK
    BY DEF QueueInv
  <1>. QED BY <1>1, SpecInv, PTL

\* However many webhooks and admin requests drain at once, a row is never in
\* the hands of two tasks (claim_next_pending_action, update_pending_commands_to_sent).
THEOREM ClaimsExclusive == Spec => []ClaimExclusive
  <1>1. QueueInv => ClaimExclusive
    BY DEF QueueInv
  <1>. QED BY <1>1, SpecInv, PTL

\* A cancelled command never reaches its device (delete_*_commands against
\* running drains).
THEOREM CancelsHold == Spec => []CancelHolds
  <1>1. QueueInv => CancelHolds
    BY DEF QueueInv, CancelHolds, QueuedUnsent, ClaimExclusive, Taken
  <1>. QED BY <1>1, SpecInv, PTL

\* At most Retries + 1 copies of a command reach the device (publish_command's
\* loop, and no second drain of the same row).
THEOREM DeliveryBounded == Spec => []CopiesBounded
  <1>1. QueueInv => CopiesBounded
    BY DEF QueueInv
  <1>. QED BY <1>1, SpecInv, PTL

\* A command is a success only if its device got it (service_set_reply).
THEOREM SuccessesHeard == Spec => []SuccessHeard
  <1>1. QueueInv => SuccessHeard
    BY DEF QueueInv
  <1>. QED BY <1>1, SpecInv, PTL

\* A drain works through its batch in submission order.
THEOREM BatchesInOrder == Spec => []BatchInOrder
  <1>1. QueueInv => BatchInOrder
    BY DEF QueueInv
  <1>. QED BY <1>1, SpecInv, PTL

-----------------------------------------------------------------------------
(***************************************************************************)
(* Refinement: every step of the queue is a step of CommandLifecycle or    *)
(* leaves the rows and their copies alone.                                 *)
(***************************************************************************)

\* Moving a set of queued rows on is a step of the life cycle.
LEMMA DequeueStep ==
    ASSUME TypeOK, NEW S \in SUBSET Row, NEW s \in {"Sent", "Deleted"},
           \A r \in S : status[r] = "Pending",
           status' = [r \in Row |-> IF r \in S THEN s ELSE status[r]],
           UNCHANGED copies
    PROVE  Lifecycle!Next
  BY DEF Lifecycle!Next, Lifecycle!Dequeue

\* An INSERT submits one command of the life cycle.
LEMMA EntryStep ==
    ASSUME QueueInv, NEW t \in Task, NEW d \in Device, NEW r \in Row,
           CreatePropertyCommand(t, d, r) \/ CreateServiceCommand(t, d, r)
    PROVE  Lifecycle!Next
  BY DEF CreatePropertyCommand, CreateServiceCommand, Insert, NextRow,
         Lifecycle!Next, Lifecycle!Submit

\* A DELETE dequeues the rows it finds queued.
LEMMA DeleteStep ==
    ASSUME QueueInv, NEW S \in SUBSET Row, DeleteCommands(S)
    PROVE  Lifecycle!Next
  <1> DEFINE P == {r \in S : status[r] = "Pending"}
  <1>1. P \in SUBSET Row /\ \A r \in P : status[r] = "Pending"
    OBVIOUS
  <1>2. status' = [r \in Row |-> IF r \in P THEN "Deleted" ELSE status[r]]
    BY DEF DeleteCommands
  <1>3. TypeOK /\ UNCHANGED copies
    BY DEF QueueInv, DeleteCommands
  <1> HIDE DEF P
  <1>. QED BY <1>1, <1>2, <1>3, DequeueStep

\* A claim dequeues the rows it flips to Sent.
LEMMA ClaimStep ==
    ASSUME QueueInv, NEW t \in Task, ClaimProperty(t) \/ ClaimAction(t)
    PROVE  Lifecycle!Next \/ UNCHANGED <<status, copies>>
  <1>1. TypeOK /\ UNCHANGED copies
    BY DEF QueueInv, ClaimProperty, ClaimAction
  <1>2. ASSUME NEW S \in SUBSET Row, \A r \in S : status[r] = "Pending", FlipToSent(S)
        PROVE  Lifecycle!Next
    BY <1>1, <1>2, DequeueStep DEF FlipToSent
  <1>3. ASSUME ClaimProperty(t) PROVE Lifecycle!Next
    BY <1>2, <1>3 DEF ClaimProperty, Queued
  <1>4. ASSUME NEW r \in Oldest(Queued("action", dev[t])), FlipToSent({r})
        PROVE  Lifecycle!Next
    <2>1. {r} \in SUBSET Row /\ status[r] = "Pending"
      BY DEF Oldest, Queued
    <2>. QED BY <1>2, <1>4, <2>1
  <1>. QED BY <1>1, <1>3, <1>4 DEF ClaimAction

\* An attempt is a receipt by the device, or changes nothing.
LEMMA PublishStep ==
    ASSUME QueueInv, NEW t \in Task, PublishOk(t) \/ PublishFails(t)
    PROVE  Lifecycle!Next \/ UNCHANGED <<status, copies>>
  <1>1. UNCHANGED status /\ pc[t] = "publish"
    BY DEF PublishOk, PublishFails, dbVars
  <1>2. PICK r \in Oldest(hand[t]) : HandToDevice(r) \/ UNCHANGED copies
    BY DEF PublishOk, PublishFails
  <1>3. r \in Row /\ r \in hand[t] /\ copies[r] \in Nat /\ copies[r] <= tries[t]
    BY <1>1, <1>2, HandToDeviceFacts
  <1>4. copies[r] < Retries + 1
    BY <1>3, QueueAssumption DEF QueueInv, TypeOK
  <1>5. status[r] \in {"Sent", "Success", "Failed"}
    BY <1>3 DEF QueueInv, ClaimExclusive
  <1>6. CASE copies' = [copies EXCEPT ![r] = @ + 1]
    BY <1>1, <1>3, <1>4, <1>5, <1>6 DEF Lifecycle!Next, Lifecycle!Receive, Lifecycle!Taken
  <1>. QED BY <1>1, <1>2, <1>6 DEF HandToDevice

\* Moving one Sent row to Success or Failed settles it.
LEMMA SettleStep ==
    ASSUME QueueInv, NEW r \in Row, NEW s \in {"Success", "Failed"},
           status[r] = "Sent", s = "Success" => copies[r] > 0,
           status' = [status EXCEPT ![r] = s], UNCHANGED copies
    PROVE  Lifecycle!Next
  BY DEF Lifecycle!Next, Lifecycle!Settle

\* A reply settles the row it names.
LEMMA ReplyStep ==
    ASSUME QueueInv, NEW d, NEW r \in Row, NEW onTopic, NEW code2xx \in BOOLEAN,
           ServiceSetReply(d, r, onTopic, code2xx)
    PROVE  Lifecycle!Next
  <1>1. status[r] = "Sent" /\ copies[r] > 0 /\ UNCHANGED copies
    BY DEF ServiceSetReply, ReplyApplies
  <1>. QED BY <1>1, SettleStep DEF ServiceSetReply

\* Marking a row as failed settles it, or changes nothing.
LEMMA MarkFailedStep ==
    ASSUME QueueInv, NEW t \in Task, MarkFailed(t)
    PROVE  Lifecycle!Next \/ UNCHANGED <<status, copies>>
  <1>1. PICK r \in Oldest(hand[t]) :
            status' = [status EXCEPT ![r] = IF @ = "Sent" THEN "Failed" ELSE @]
    BY DEF MarkFailed
  <1>2. r \in Row /\ UNCHANGED copies /\ status \in [Row -> Status]
    BY DEF Oldest, QueueInv, TypeOK, MarkFailed
  <1>3. CASE status[r] = "Sent"
    BY <1>1, <1>2, <1>3, SettleStep
  <1>4. CASE status[r] # "Sent"
    BY <1>1, <1>2, <1>4
  <1>. QED BY <1>3, <1>4

\* The command queue implements the life cycle of a single command, with at most
\* Retries + 1 copies: whatever the drains do at once, each command is
\* submitted, dequeued, received and settled as CommandLifecycle allows.
THEOREM ImplementsLifecycle == Spec => LifecycleSpec
  <1>1. Init => Lifecycle!Init
    BY DEF Init, Lifecycle!Init
  <1>2. QueueInv /\ [Next]_vars => [Lifecycle!Next]_(Lifecycle!vars)
    <2> SUFFICES ASSUME QueueInv, [Next]_vars
                 PROVE  Lifecycle!Next \/ UNCHANGED <<status, copies>>
      BY DEF Lifecycle!vars
    <2>1. ASSUME NEW t \in Task, TaskStep(t) \/ Abandon(t)
          PROVE  Lifecycle!Next \/ UNCHANGED <<status, copies>>
      <3>1. CASE \/ GateOpen(t) \/ GateClosed(t) \/ ClaimPropertyError(t)
                 \/ ClaimActionError(t) \/ MarkFailedError(t) \/ Abandon(t)
        BY <3>1 DEF GateOpen, GateClosed, ClaimPropertyError, ClaimActionError,
                    MarkFailedError, Abandon, dbVars
      <3>. QED BY <2>1, <3>1, ClaimStep, PublishStep, MarkFailedStep DEF TaskStep
    <2>2. ASSUME NEW t \in Task, NEW d \in Device,
                 ServiceSetSubscribe(t, d) \/ DeviceConnect(t, d)
          PROVE  UNCHANGED <<status, copies>>
      BY <2>2 DEF ServiceSetSubscribe, DeviceConnect, dbVars
    <2>3. ASSUME NEW d \in Device, ChangeSubscription(d)
          PROVE  UNCHANGED <<status, copies>>
      BY <2>3 DEF ChangeSubscription, dbVars
    <2>4. CASE UNCHANGED vars
      BY <2>4 DEF vars
    <2>. QED BY <2>1, <2>2, <2>3, <2>4, EntryStep, DeleteStep, ReplyStep DEF Next
  <1>. QED BY <1>1, <1>2, SpecInv, PTL DEF Spec, LifecycleSpec, Lifecycle!Spec
=============================================================================
