-------------------------- MODULE CommandLifecycle --------------------------
(***************************************************************************)
(* What the command queue promises the administrator about one downlink    *)
(* command, whichever handler happens to carry it: a command is submitted  *)
(* once, may be cancelled only while it is still queued, reaches the       *)
(* device only after it left the queue and at most MaxCopies times, and is *)
(* settled once, as a success only when the device really got it.          *)
(* CommandQueue is shown to implement this specification.                  *)
(***************************************************************************)
EXTENDS Naturals

CONSTANTS Row,       \* the rows of both command tables
          MaxCopies  \* how many copies of one command the device may see

VARIABLES status,    \* status[r]: the row's CommandStatus, "None" before INSERT
          copies     \* copies[r]: how often the device received the command

vars == <<status, copies>>

Status == {"None", "Pending", "Sent", "Success", "Failed", "Deleted"}

\* A row that left the queue towards the device.
Taken == {"Sent", "Success", "Failed"}

Init == /\ status = [r \in Row |-> "None"]
        /\ copies = [r \in Row |-> 0]

Submit(r) == /\ status[r] = "None"
             /\ status' = [status EXCEPT ![r] = "Pending"]
             /\ UNCHANGED copies

\* Moving a batch of queued rows on, as one step: into the hands of a sender
\* ("Sent") or out of the queue for good ("Deleted").
Dequeue(S, s) == /\ \A r \in S : status[r] = "Pending"
                 /\ status' = [r \in Row |-> IF r \in S THEN s ELSE status[r]]
                 /\ UNCHANGED copies

Receive(r) == /\ status[r] \in Taken
              /\ copies[r] < MaxCopies
              /\ copies' = [copies EXCEPT ![r] = @ + 1]
              /\ UNCHANGED status

Settle(r, s) == /\ status[r] = "Sent"
                /\ s = "Success" => copies[r] > 0
                /\ status' = [status EXCEPT ![r] = s]
                /\ UNCHANGED copies

Next == \/ \E r \in Row : Submit(r) \/ Receive(r)
        \/ \E S \in SUBSET Row, s \in {"Sent", "Deleted"} : Dequeue(S, s)
        \/ \E r \in Row, s \in {"Success", "Failed"} : Settle(r, s)

Spec == Init /\ [][Next]_vars
=============================================================================
