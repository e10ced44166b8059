---------------------------- MODULE DeviceShadow ----------------------------
(***************************************************************************)
(* The shadow of one device: the desired document that administrators      *)
(* patch, the reported snapshot and history that the device's reports      *)
(* write, and the command that carries what has not converged.             *)
(*                                                                         *)
(* A document maps every key to a value or to Absent; a patch or a report  *)
(* maps some keys, and Absent in a patch is JSON null.  Transactions are   *)
(* READ COMMITTED: INSERT, UPDATE and SELECT ... FOR UPDATE hold a row     *)
(* until the transaction ends.  Delivery of the commands is CommandQueue's *)
(* subject: here a device may report anything, whatever it was sent.       *)
(***************************************************************************)
EXTENDS Naturals

CONSTANTS Key,        \* property names
          Value,      \* their values
          Absent,     \* no value: JSON null, or a key a document lacks
          Admin,      \* slots for Set-Desired requests
          None,       \* the holder of a free row
          MaxReport   \* bound: reports, and the clock that stamps them

ASSUME ShadowAssumption ==
    /\ Absent \notin Value /\ None \notin Admin
    /\ {"none", "ok", "failed"} \cap Admin = {}
    /\ MaxReport \in Nat

Document == [Key -> Value \cup {Absent}]
Empty == [k \in Key |-> Absent]
NoKeys == [k \in {} |-> Absent]     \* also: no row
SomeKeys(S) == UNION {[K -> S] : K \in SUBSET Key \ {{}}}
Patch == SomeKeys(Value \cup {Absent})
Reported == SomeKeys(Value)
Time == 1..MaxReport
NeverReported == <<Absent, 0>>      \* else {value, time}

VARIABLES desired,    \* property_desired.desired, NoKeys before the first request
          desiredRow, \* transaction that holds the row
          pc, patch, doc, \* a Set-Desired request: next step, patch, document or delta
          latest,     \* property_latest.properties
          history,    \* property_history: the row a report inserted, or NoKeys
          post,       \* reports in progress: the properties stamped with that time, or NoKeys
          overlaps,   \* overlaps[t]: reports in progress when the report of t was sent
          clock,      \* time of the last report
          expected,   \* per key, the last committed patch that names it
          offered,    \* keys whose desired value was enqueued or found reported
          answer      \* of the request that committed last, or its slot

desiredVars == <<desired, desiredRow, expected, offered, answer>>
adminVars == <<pc, patch, doc>>
reportVars == <<latest, history, post, overlaps, clock>>
vars == <<desired, desiredRow, expected, offered, answer, pc, patch, doc,
          latest, history, post, overlaps, clock>>

TypeOK ==
    /\ desired \in Document \cup {NoKeys}
    /\ desiredRow \in Admin \cup {None}
    /\ pc \in [Admin -> {"idle", "merge", "compare", "enqueue"}]
    /\ patch \in [Admin -> Patch \cup {NoKeys}] /\ doc \in [Admin -> Document]
    /\ clock \in 0..MaxReport
    /\ latest \in [Key -> (Value \X Time) \cup {NeverReported}]
    /\ history \in [Time -> Reported \cup {NoKeys}]
    /\ post \in [Time -> Reported \cup {NoKeys}]
    /\ overlaps \in [Time -> SUBSET Time]
    /\ expected \in Document /\ offered \in SUBSET Key
    /\ answer \in Admin \cup {"none", "ok", "failed"}

Init ==
    /\ desired = NoKeys /\ desiredRow = None
    /\ pc = [a \in Admin |-> "idle"]
    /\ patch = [a \in Admin |-> NoKeys] /\ doc = [a \in Admin |-> Empty]
    /\ latest = [k \in Key |-> NeverReported]
    /\ history = [t \in Time |-> NoKeys]
    /\ post = [t \in Time |-> NoKeys]
    /\ overlaps = [t \in Time |-> {}]
    /\ clock = 0
    /\ expected = Empty /\ offered = {} /\ answer = "none"

-----------------------------------------------------------------------------
(***************************************************************************)
(* The pure functions.                                                     *)
(***************************************************************************)

\* A value overwrites, null removes, and other keys keep what they have.
MergeDesired(current, p) ==
    [k \in Key |-> IF k \in DOMAIN p THEN p[k] ELSE current[k]]

\* What is desired and not reported with that value.
ComputeDelta(d, reported) ==
    [k \in Key |-> IF reported[k][1] = d[k] THEN Absent ELSE d[k]]

\* JSONB ||: the stamped properties of the report overwrite those of the row.
MergeReportedKeepsFirst(row, props, t) ==  \* mutant: the operands swapped
    [k \in Key |-> IF k \in DOMAIN props /\ row[k] = NeverReported
                     THEN <<props[k], t>> ELSE row[k]]

MergeReported(row, props, t) ==
    [k \in Key |-> IF k \in DOMAIN props THEN <<props[k], t>> ELSE row[k]]

-----------------------------------------------------------------------------
(***************************************************************************)
(* Set-Desired.                                                            *)
(***************************************************************************)

Finish(a, result) ==
    /\ pc' = [pc EXCEPT ![a] = "idle"]
    /\ patch' = [patch EXCEPT ![a] = NoKeys]
    /\ doc' = [doc EXCEPT ![a] = Empty]
    /\ answer' = IF answer = a THEN result ELSE answer

Merging(a, p) ==
    /\ pc[a] = "idle"
    /\ pc' = [pc EXCEPT ![a] = "merge"]
    /\ patch' = [patch EXCEPT ![a] = p]
    /\ doc' = [doc EXCEPT ![a] = IF desired = NoKeys THEN Empty ELSE desired]
    /\ UNCHANGED <<desired, expected, offered, answer, reportVars>>

\* INSERT ... ON CONFLICT DO NOTHING, then SELECT ... FOR UPDATE: the first
\* transaction holds the row it inserted, and all others wait for the holder.
LockDesiredNoBootstrap(a, p) ==  \* mutant: no INSERT, hence at first no row to lock
    /\ desired # NoKeys => desiredRow = None
    /\ desiredRow' = IF desired = NoKeys THEN desiredRow ELSE a
    /\ Merging(a, p)

LockDesired(a, p) ==
    /\ desiredRow = None
    /\ desiredRow' = a
    /\ Merging(a, p)

\* The whole document is written back, and compared is what the delta is taken of.
Committed(a, compared) ==
    /\ pc[a] = "merge"
    /\ desired' = MergeDesired(doc[a], patch[a])
    /\ desiredRow' = IF desiredRow = a THEN None ELSE desiredRow
    /\ doc' = [doc EXCEPT ![a] = compared]
    /\ pc' = [pc EXCEPT ![a] = "compare"]
    /\ patch' = [patch EXCEPT ![a] = NoKeys]
    /\ expected' = MergeDesired(expected, patch[a])
    /\ offered' = offered \ DOMAIN patch[a]
    /\ answer' = a
    /\ UNCHANGED reportVars

CommitDesiredReturnsPatch(a) ==  \* mutant: the patch is compared, not the document
    Committed(a, MergeDesired(Empty, patch[a]))

CommitDesired(a) == Committed(a, MergeDesired(doc[a], patch[a]))

\* The delta between the document of this transaction and the snapshot of now.
CompareReported(a) ==
    LET delta == ComputeDelta(doc[a], latest) IN
    /\ pc[a] = "compare"
    /\ offered' = offered \cup
         {k \in Key : latest[k][1] = doc[a][k] /\ doc[a][k] = desired[k]}
    /\ IF delta = Empty
         THEN Finish(a, "ok")
         ELSE /\ pc' = [pc EXCEPT ![a] = "enqueue"]
              /\ doc' = [doc EXCEPT ![a] = delta]
              /\ UNCHANGED <<patch, answer>>
    /\ UNCHANGED <<desired, desiredRow, expected, reportVars>>

\* insert_property_command, and the drain that follows it.
EnqueueDelta(a) ==
    /\ pc[a] = "enqueue"
    /\ offered' = offered \cup {k \in Key : doc[a][k] # Absent /\ doc[a][k] = desired[k]}
    /\ Finish(a, "ok")
    /\ UNCHANGED <<desired, desiredRow, expected, reportVars>>

\* A database error, or the request is dropped; before the commit nothing is left
\* of it, after the commit the desired document is.
SetDesiredFails(a) ==
    /\ pc[a] # "idle"
    /\ desiredRow' = IF desiredRow = a THEN None ELSE desiredRow
    /\ Finish(a, "failed")
    /\ UNCHANGED <<desired, expected, offered, reportVars>>

-----------------------------------------------------------------------------
(***************************************************************************)
(* Reports of the device.                                                  *)
(***************************************************************************)

\* property_post stamps the report before it goes to the database.
InProgress == {t \in Time : post[t] # NoKeys}

PropertyPost(props) ==
    /\ clock < MaxReport
    /\ clock' = clock + 1
    /\ post' = [post EXCEPT ![clock + 1] = props]
    /\ overlaps' = [overlaps EXCEPT ![clock + 1] = InProgress]
    /\ UNCHANGED <<desiredVars, adminVars, latest, history>>

\* upsert_property_latest: snapshot and history in one transaction.
CommitReport(t) ==
    /\ t \in InProgress
    /\ latest' = MergeReported(latest, post[t], t)
    /\ history' = [history EXCEPT ![t] = post[t]]
    /\ post' = [post EXCEPT ![t] = NoKeys]
    /\ UNCHANGED <<desiredVars, adminVars, overlaps, clock>>

\* The schema refuses the report, or the database fails.
ReportFails(t) ==
    /\ t \in InProgress
    /\ post' = [post EXCEPT ![t] = NoKeys]
    /\ UNCHANGED <<desiredVars, adminVars, latest, history, overlaps, clock>>

-----------------------------------------------------------------------------
Next ==
    \/ \E a \in Admin :
         \/ \E p \in Patch : LockDesired(a, p)
         \/ CommitDesired(a) \/ CompareReported(a) \/ EnqueueDelta(a) \/ SetDesiredFails(a)
    \/ \E props \in Reported : PropertyPost(props)
    \/ \E t \in Time : CommitReport(t) \/ ReportFails(t)

Spec == Init /\ [][Next]_vars

-----------------------------------------------------------------------------
(***************************************************************************)
(* Properties.                                                             *)
(***************************************************************************)

\* No patch is lost to another one, not even by the first two requests for a
\* device: every key is as the last committed patch that names it says.
NoPatchLost == desired # NoKeys => desired = expected

\* A Set-Desired that succeeds after all others settles the whole document: every
\* desired value was enqueued for the device or is what it had reported, also the
\* values of requests that failed between their commit and their command.
WholeDocumentOffered ==
    answer = "ok" => \A k \in Key : desired[k] # Absent => k \in offered

\* The snapshot shows what a row of the history reported, and shows an older
\* report than the history has for the key only if the two overlapped.
SnapshotFollowsHistory ==
    \A k \in Key :
        LET reports == {t \in Time : k \in DOMAIN history[t]}
            shown == latest[k] IN
        IF reports = {} THEN shown = NeverReported
        ELSE /\ shown[2] \in reports /\ history[shown[2]][k] = shown[1]
             /\ \A t \in reports : t > shown[2] => shown[2] \in overlaps[t]
=============================================================================
