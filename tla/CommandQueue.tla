---------------------------- MODULE CommandQueue ----------------------------
(***************************************************************************)
(* The downlink command queue: the tables property_command and             *)
(* action_invocation, the admin handlers that fill and cancel them, the    *)
(* drains that claim the queued rows and publish them through the broker's *)
(* HTTP API, the webhook handlers that start a drain, and the device's     *)
(* replies.                                                                *)
(*                                                                         *)
(* Every HTTP request is served by a task of its own; its steps are the    *)
(* database statements and HTTP calls it awaits, and the steps of several  *)
(* tasks interleave.  A statement of the database is one atomic step.  A   *)
(* task may be dropped at any await (the peer closes the connection, the   *)
(* process stops), and whatever it held in memory is gone.                 *)
(***************************************************************************)
EXTENDS Naturals, FiniteSets

CONSTANTS Device,    \* (product_id, device_id) pairs
          NoDevice,  \* the device of no row and of no task
          Task,      \* slots for concurrently served requests
          MaxProperty, MaxAction,  \* bounds: rows ever inserted in each table
          Retries    \* property_command.publish.retries

ASSUME QueueAssumption == /\ MaxProperty \in Nat /\ MaxAction \in Nat
                          /\ Retries \in Nat
                          /\ NoDevice \notin Device

VARIABLES status,      \* status[r]: CommandStatus of the row, "None" before INSERT
          owner,       \* owner[r]: the device of an inserted row
          subscribed,  \* subscribed[d]: the broker's subscription table
          copies,      \* copies[r]: times the broker handed r to its device
          pc,          \* pc[t]: what the task awaits next
          trigger,     \* trigger[t]: the handler the task runs
          dev,         \* dev[t]: the device it serves
          hand,        \* hand[t]: rows claimed by the task, not yet dealt with
          tries        \* tries[t]: failed publish attempts of the current row

dbVars   == <<status, owner>>
taskVars == <<pc, trigger, dev, hand, tries>>
vars     == <<status, owner, subscribed, copies, pc, trigger, dev, hand, tries>>

Kind == {"property", "action"}   \* the two tables, and the two reply prefixes
Row  == ({"property"} \X (1..MaxProperty)) \cup ({"action"} \X (1..MaxAction))

Status  == {"None", "Pending", "Sent", "Success", "Failed", "Deleted"}
Trigger == {"none", "create_property", "create_service", "subscribe", "connect"}
Pc      == {"idle", "gate", "claim_property", "claim_action", "publish", "mark_failed"}

TypeOK ==
    /\ status \in [Row -> Status]
    /\ owner \in [Row -> Device \cup {NoDevice}]
    /\ subscribed \in [Device -> BOOLEAN]
    /\ copies \in [Row -> Nat]
    /\ pc \in [Task -> Pc]
    /\ trigger \in [Task -> Trigger]
    /\ dev \in [Task -> Device \cup {NoDevice}]
    /\ hand \in [Task -> SUBSET Row]
    /\ tries \in [Task -> 0..Retries]

Init ==
    /\ status = [r \in Row |-> "None"]
    /\ owner = [r \in Row |-> NoDevice]
    /\ subscribed = [d \in Device |-> FALSE]
    /\ copies = [r \in Row |-> 0]
    /\ pc = [t \in Task |-> "idle"]
    /\ trigger = [t \in Task |-> "none"]
    /\ dev = [t \in Task |-> NoDevice]
    /\ hand = [t \in Task |-> {}]
    /\ tries = [t \in Task |-> 0]

-----------------------------------------------------------------------------
(***************************************************************************)
(* Entry points.                                                           *)
(***************************************************************************)

\* A free task starts serving a request and awaits the subscription gate.
Serve(t, tr, d) ==
    /\ pc[t] = "idle"
    /\ pc' = [pc EXCEPT ![t] = "gate"]
    /\ trigger' = [trigger EXCEPT ![t] = tr]
    /\ dev' = [dev EXCEPT ![t] = d]
    /\ UNCHANGED <<hand, tries>>

\* BIGSERIAL: r is the next row of its table.
NextRow(r) == /\ status[r] = "None"
              /\ \A s \in Row : s[1] = r[1] /\ s[2] < r[2] => status[s] # "None"

\* INSERT with the column default status = Pending.
Insert(r, d) ==
    /\ NextRow(r)
    /\ status' = [status EXCEPT ![r] = "Pending"]
    /\ owner' = [owner EXCEPT ![r] = d]

\* create_property_command; set_property_desired takes the same path once its
\* delta is not empty (Shadow state is not part of this module).
CreatePropertyCommand(t, d, r) ==
    /\ r[1] = "property"
    /\ Insert(r, d)
    /\ Serve(t, "create_property", d)
    /\ UNCHANGED <<subscribed, copies>>

CreateServiceCommand(t, d, r) ==
    /\ r[1] = "action"
    /\ Insert(r, d)
    /\ Serve(t, "create_service", d)
    /\ UNCHANGED <<subscribed, copies>>

\* The client_subscribe webhook; requests it refuses change nothing.
ServiceSetSubscribe(t, d) ==
    /\ Serve(t, "subscribe", d)
    /\ UNCHANGED <<dbVars, subscribed, copies>>

\* The client_connected webhook.  The device status it records first and the
\* rule evaluation it spawns last touch none of this module's state.
DeviceConnect(t, d) ==
    /\ Serve(t, "connect", d)
    /\ UNCHANGED <<dbVars, subscribed, copies>>

\* delete_property_commands / delete_service_commands: one UPDATE over the
\* given rows of one table that only touches those still Pending.
DeleteCommandsInAnyStatus(S) ==  \* mutant: no status guard
    /\ \A r, s \in S : r[1] = s[1]
    /\ status' = [r \in Row |-> IF r \in S /\ status[r] # "None"
                                THEN "Deleted" ELSE status[r]]
    /\ UNCHANGED <<owner, subscribed, copies, taskVars>>

DeleteCommands(S) ==
    /\ \A r, s \in S : r[1] = s[1]
    /\ status' = [r \in Row |-> IF r \in S /\ status[r] = "Pending"
                                THEN "Deleted" ELSE status[r]]
    /\ UNCHANGED <<owner, subscribed, copies, taskVars>>

-----------------------------------------------------------------------------
(***************************************************************************)
(* The task's own steps.                                                   *)
(***************************************************************************)

\* The task is done; its locals are dropped.
Return(t) == /\ pc' = [pc EXCEPT ![t] = "idle"]
             /\ trigger' = [trigger EXCEPT ![t] = "none"]
             /\ dev' = [dev EXCEPT ![t] = NoDevice]
             /\ hand' = [hand EXCEPT ![t] = {}]
             /\ tries' = [tries EXCEPT ![t] = 0]

\* The task goes on with the claimed rows h at label l.
Continue(t, l, h) == /\ pc' = [pc EXCEPT ![t] = l]
                     /\ hand' = [hand EXCEPT ![t] = h]
                     /\ tries' = [tries EXCEPT ![t] = 0]
                     /\ UNCHANGED <<trigger, dev>>

\* is_subscribed_to_* found the subscription: the drain begins.
GateOpen(t) ==
    /\ pc[t] = "gate"
    /\ subscribed[dev[t]]
    /\ Continue(t, IF trigger[t] = "create_service" THEN "claim_action"
                                                    ELSE "claim_property", {})
    /\ UNCHANGED <<dbVars, subscribed, copies>>

\* Not subscribed, or the query itself failed: the rows stay Pending.
GateClosed(t) ==
    /\ pc[t] = "gate"
    /\ Return(t)
    /\ UNCHANGED <<dbVars, subscribed, copies>>

Queued(k, d) == {r \in Row : r[1] = k /\ owner[r] = d /\ status[r] = "Pending"}

AnyOf(S) == S  \* mutant: rows in the order RETURNING gives them

Oldest(S) == {r \in S : \A s \in S : r[2] <= s[2]}

\* Pending -> Sent for the rows of S, as one UPDATE.
FlipNothing(S) == UNCHANGED status  \* mutant: SELECT instead of UPDATE

FlipToSent(S) == status' = [r \in Row |-> IF r \in S THEN "Sent" ELSE status[r]]

\* send_property_command_to_device returned Ok / Err: what its caller does.
AfterPropertyOnly(t) == Return(t)  \* mutant: the webhooks forget the actions

AfterProperty(t) ==
    IF trigger[t] = "create_property" THEN Return(t)
    ELSE Continue(t, "claim_action", {})

AfterPropertyError(t) ==
    IF trigger[t] = "connect" THEN Continue(t, "claim_action", {}) ELSE Return(t)

\* update_pending_commands_to_sent: every queued row of the device at once.
ClaimProperty(t) ==
    /\ pc[t] = "claim_property"
    /\ LET batch == Queued("property", dev[t]) IN
         /\ FlipToSent(batch)
         /\ IF batch = {} THEN AfterProperty(t) ELSE Continue(t, "publish", batch)
    /\ UNCHANGED <<owner, subscribed, copies>>

ClaimPropertyError(t) ==
    /\ pc[t] = "claim_property"
    /\ AfterPropertyError(t)
    /\ UNCHANGED <<dbVars, subscribed, copies>>

\* claim_next_pending_action: the oldest queued row, or the end of the loop.
ClaimAction(t) ==
    /\ pc[t] = "claim_action"
    /\ LET queue == Queued("action", dev[t]) IN
         \/ /\ queue = {}
            /\ Return(t)
            /\ UNCHANGED status
         \/ \E r \in Oldest(queue) :
              /\ FlipToSent({r})
              /\ Continue(t, "publish", {r})
    /\ UNCHANGED <<owner, subscribed, copies>>

\* The claim failed; every caller of the action drain ends there.
ClaimActionError(t) ==
    /\ pc[t] = "claim_action"
    /\ Return(t)
    /\ UNCHANGED <<dbVars, subscribed, copies>>

\* The drain is done with row r: next row, next claim, or back to the caller.
NextInDrain(t, r) ==
    IF r[1] = "action" THEN Continue(t, "claim_action", {})
    ELSE IF hand[t] = {r} THEN AfterProperty(t)
    ELSE Continue(t, "publish", hand[t] \ {r})

\* The broker hands an accepted message to the device if it is subscribed now.
HandToDevice(r) ==
    copies' = IF subscribed[owner[r]] THEN [copies EXCEPT ![r] = @ + 1] ELSE copies

\* publish_command, one attempt answered with 2xx.  The row a drain is at is
\* the oldest in hand: batches are sorted by (created_time, id).
PublishOk(t) ==
    /\ pc[t] = "publish"
    /\ \E r \in Oldest(hand[t]) : HandToDevice(r) /\ NextInDrain(t, r)
    /\ UNCHANGED <<dbVars, subscribed>>

\* One attempt that fails for the caller; the broker may have accepted the
\* message all the same (the answer was lost).  The last attempt gives up.
PublishFailsOnceMore(t) ==  \* mutant: one attempt too many
    /\ pc[t] = "publish"
    /\ \E r \in Oldest(hand[t]) : HandToDevice(r) \/ UNCHANGED copies
    /\ IF tries[t] <= Retries
         THEN tries' = [tries EXCEPT ![t] = @ + 1] /\ UNCHANGED pc
         ELSE pc' = [pc EXCEPT ![t] = "mark_failed"] /\ UNCHANGED tries
    /\ UNCHANGED <<dbVars, subscribed, trigger, dev, hand>>

PublishFails(t) ==
    /\ pc[t] = "publish"
    /\ \E r \in Oldest(hand[t]) : HandToDevice(r) \/ UNCHANGED copies
    /\ IF tries[t] < Retries
         THEN tries' = [tries EXCEPT ![t] = @ + 1] /\ UNCHANGED pc
         ELSE pc' = [pc EXCEPT ![t] = "mark_failed"] /\ UNCHANGED tries
    /\ UNCHANGED <<dbVars, subscribed, trigger, dev, hand>>

\* update_sent_commands_to_failed / update_action_invocation_status: the row is
\* only touched if it is still Sent (the reply may have been faster).
MarkPendingAgain(t) ==  \* mutant: a failed send is queued again
    /\ pc[t] = "mark_failed"
    /\ \E r \in Oldest(hand[t]) :
         /\ status' = [status EXCEPT ![r] = IF @ = "Sent" THEN "Pending" ELSE @]
         /\ NextInDrain(t, r)
    /\ UNCHANGED <<owner, subscribed, copies>>

MarkFailed(t) ==
    /\ pc[t] = "mark_failed"
    /\ \E r \in Oldest(hand[t]) :
         /\ status' = [status EXCEPT ![r] = IF @ = "Sent" THEN "Failed" ELSE @]
         /\ NextInDrain(t, r)
    /\ UNCHANGED <<owner, subscribed, copies>>

\* That update fails: the property drain returns (`?`) and forgets the rest of
\* its batch, the action drain ignores the error and goes on.
MarkFailedError(t) ==
    /\ pc[t] = "mark_failed"
    /\ \E r \in Oldest(hand[t]) :
         IF r[1] = "property" THEN AfterPropertyError(t) ELSE NextInDrain(t, r)
    /\ UNCHANGED <<dbVars, subscribed, copies>>

\* The task is dropped at an await: client gone, shutdown or crash.
Abandon(t) ==
    /\ pc[t] # "idle"
    /\ Return(t)
    /\ UNCHANGED <<dbVars, subscribed, copies>>

-----------------------------------------------------------------------------
(***************************************************************************)
(* The device and the broker.                                              *)
(***************************************************************************)

\* The WHERE clause of the status update a reply causes: sender, previous
\* status and, for actions only, the service type named by the topic.
ReplyAppliesToAnyDevice(d, r, onTopic) ==  \* mutant: sender not compared
    /\ r[1] = "action" => onTopic
    /\ status[r] = "Sent"

ReplyAppliesInAnyStatus(d, r, onTopic) ==  \* mutant: no previous status
    /\ owner[r] = d
    /\ r[1] = "action" => onTopic

ReplyApplies(d, r, onTopic) ==
    /\ owner[r] = d
    /\ r[1] = "action" => onTopic
    /\ status[r] = "Sent"

\* service_set_reply: device d answers with the correlation id of row r, late
\* and as often as it likes.  It answers its own commands only after it got
\* them, and may quote an id that is not its own; NoDevice
\* stands for a client that owns none of the rows.
ServiceSetReply(d, r, onTopic, code2xx) ==
    /\ owner[r] = d => copies[r] > 0
    /\ ReplyApplies(d, r, onTopic)
    /\ status' = [status EXCEPT ![r] = IF code2xx THEN "Success" ELSE "Failed"]
    /\ UNCHANGED <<owner, subscribed, copies, taskVars>>

\* External: the device's session comes and goes at the broker.
ChangeSubscription(d) ==
    /\ subscribed' = [subscribed EXCEPT ![d] = ~@]
    /\ UNCHANGED <<dbVars, copies, taskVars>>

TaskStep(t) ==
    \/ GateOpen(t) \/ GateClosed(t)
    \/ ClaimProperty(t) \/ ClaimPropertyError(t)
    \/ ClaimAction(t) \/ ClaimActionError(t)
    \/ PublishOk(t) \/ PublishFails(t)
    \/ MarkFailed(t) \/ MarkFailedError(t)

Next ==
    \/ \E t \in Task, d \in Device :
         \/ ServiceSetSubscribe(t, d) \/ DeviceConnect(t, d)
         \/ \E r \in Row : CreatePropertyCommand(t, d, r) \/ CreateServiceCommand(t, d, r)
    \/ \E S \in SUBSET Row : DeleteCommands(S)
    \/ \E t \in Task : TaskStep(t) \/ Abandon(t)
    \/ \E d \in Device \cup {NoDevice}, r \in Row, onTopic, code2xx \in BOOLEAN :
         ServiceSetReply(d, r, onTopic, code2xx)
    \/ \E d \in Device : ChangeSubscription(d)

Spec == Init /\ [][Next]_vars

\* A task that is not dropped runs on.  The broker query and the claims do not
\* fail for ever, and the broker keeps reporting connections of each device.
Fairness ==
    /\ \A t \in Task : /\ WF_vars(TaskStep(t))
                       /\ SF_vars(GateOpen(t))
                       /\ SF_vars(ClaimProperty(t))
                       /\ SF_vars(ClaimAction(t))
    /\ \A d \in Device : SF_vars(\E t \in Task : DeviceConnect(t, d))

FairSpec == Spec /\ Fairness

-----------------------------------------------------------------------------
(***************************************************************************)
(* Properties.                                                             *)
(***************************************************************************)

\* Claims are exclusive: whatever drains run at once for one device (two
\* webhooks and an admin request, say), no row is in the hands of two tasks,
\* and a row in hand has left the queue for good.
ClaimExclusive ==
    \A t \in Task : \A r \in hand[t] :
        /\ status[r] \in {"Sent", "Success", "Failed"}
        /\ \A u \in Task \ {t} : r \notin hand[u]

\* A cancelled command never reaches the device: the DELETE endpoint either
\* finds the row still queued, and then no drain has it or will ever have it,
\* or leaves it alone.
CancelHolds ==
    \A r \in Row : status[r] = "Deleted" =>
        /\ copies[r] = 0
        /\ \A t \in Task : r \notin hand[t]

\* A device never sees more copies of one command than publish_command makes
\* attempts, whatever fails and whoever drains: no later drain sends it again.
CopiesBounded == \A r \in Row : copies[r] <= Retries + 1

\* A drain publishes its batch in submission order: no row in hand has reached
\* the device while an older row is still in the same hand.
BatchInOrder ==
    \A t \in Task : \A r, s \in hand[t] : r[2] < s[2] => copies[s] = 0

\* A command is reported as a success only if its own device really got it:
\* foreign, early, late and repeated replies never produce one.
SuccessHeard == \A r \in Row : status[r] = "Success" => copies[r] > 0

\* No row is left in the queue of a device that comes back for good: some
\* drain picks it up, although gates may be closed, claims may fail and tasks
\* may be dropped in between.
QueueDrains ==
    (\A d \in Device : <>[]subscribed[d]) =>
        \A r \in Row : status[r] = "Pending" ~> status[r] # "Pending"

\* Every drain ends: failed rows are not offered again to the loop that is
\* running, so it meets the end of the queue.
HandlersFinish == \A t \in Task : pc[t] # "idle" ~> pc[t] = "idle"

\* What the comment in create_property_command says of a failed send: "the
\* command is saved, the device receives it when it comes online next", so a
\* command that never reached its device cannot be a settled failure.
FailedSendStaysQueued == \A r \in Row : status[r] = "Failed" => copies[r] > 0

\* The queue with all its concurrent drains implements the life cycle of a
\* single command.
Lifecycle == INSTANCE CommandLifecycle WITH MaxCopies <- Retries + 1


LifecycleSpec == Lifecycle!Spec
=============================================================================
