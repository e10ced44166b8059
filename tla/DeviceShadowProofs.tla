-------------------------- MODULE DeviceShadowProofs --------------------------
(***************************************************************************)
(* Proofs about DeviceShadow, for any sets of keys, values and requests    *)
(* and any number of reports.                                              *)
(***************************************************************************)
EXTENDS DeviceShadow, TLAPS

(***************************************************************************)
(* The desired document.                                                   *)
(***************************************************************************)

\* What a request that locks the row reads.
Current == IF desired = NoKeys THEN Empty ELSE desired

RequestTypes ==
    /\ pc \in [Admin -> {"idle", "merge", "compare", "enqueue"}]
    /\ patch \in [Admin -> Patch \cup {NoKeys}]
    /\ doc \in [Admin -> Document]
    /\ desired \in Document \cup {NoKeys}

\* The holder of the row has read it, and nobody has written it since.
HolderIsCurrent ==
    \A a \in Admin : pc[a] = "merge" => desiredRow = a /\ doc[a] = Current

DesiredInv == RequestTypes /\ HolderIsCurrent /\ Current = expected

LEMMA MergeIsDocument ==
    ASSUME NEW d \in Document, NEW p \in Patch \cup {NoKeys}
    PROVE  MergeDesired(d, p) \in Document
BY DEF MergeDesired, Document, Patch, SomeKeys, NoKeys

LEMMA EmptyIsDocument == Empty \in Document
BY DEF Empty, Document

\* Only a document without keys looks like no row, and then it is the empty one.
LEMMA NoRowIsEmpty ==
    ASSUME NEW d \in Document
    PROVE  (IF d = NoKeys THEN Empty ELSE d) = d
<1>1. CASE d = NoKeys
  <2>1. DOMAIN d = Key BY DEF Document
  <2>2. DOMAIN NoKeys = {} BY DEF NoKeys
  <2>3. Key = {} BY <1>1, <2>1, <2>2
  <2>4. Empty = NoKeys BY <2>3 DEF Empty, NoKeys
  <2> QED BY <1>1, <2>4
<1> QED BY <1>1

LEMMA DesiredInit == Init => DesiredInv
<1> SUFFICES ASSUME Init PROVE DesiredInv OBVIOUS
<1> QED BY EmptyIsDocument
        DEF Init, DesiredInv, RequestTypes, HolderIsCurrent, Current

LEMMA DesiredStep == DesiredInv /\ [Next]_vars => DesiredInv'
<1> SUFFICES ASSUME DesiredInv, [Next]_vars PROVE DesiredInv'
  OBVIOUS
<1> USE DEF DesiredInv, RequestTypes
<1>1. ASSUME NEW a \in Admin, NEW p \in Patch, LockDesired(a, p) PROVE DesiredInv'
  <2> USE <1>1 DEF LockDesired, Merging
  <2>1. Current' = Current /\ expected' = expected BY DEF Current
  <2>2. Current \in Document BY EmptyIsDocument DEF Current
  <2>3. RequestTypes' BY <2>2 DEF Current
  <2>4. \A b \in Admin : pc[b] # "merge" BY ShadowAssumption DEF HolderIsCurrent
  <2>5. HolderIsCurrent' BY <2>1, <2>4 DEF HolderIsCurrent, Current
  <2> QED BY <2>1, <2>3, <2>5
<1>2. ASSUME NEW a \in Admin, CommitDesired(a) PROVE DesiredInv'
  <2> USE <1>2 DEF CommitDesired, Committed
  <2> DEFINE d == MergeDesired(doc[a], patch[a])
  <2>1. doc[a] = expected BY DEF HolderIsCurrent
  <2>2. d \in Document BY MergeIsDocument
  <2>3. desired' = d /\ expected' = d BY <2>1
  <2>4. Current' = expected' BY <2>2, <2>3, NoRowIsEmpty DEF Current
  <2>5. RequestTypes' BY <2>2, <2>3
  <2>6. \A b \in Admin : pc'[b] # "merge" BY DEF HolderIsCurrent
  <2> QED BY <2>4, <2>5, <2>6 DEF HolderIsCurrent
<1>3. ASSUME NEW a \in Admin, CompareReported(a) PROVE DesiredInv'
  <2> USE <1>3 DEF CompareReported
  <2>1. Current' = Current /\ expected' = expected BY DEF Current
  <2>2. doc[a] \in Document OBVIOUS
  <2>3. ComputeDelta(doc[a], latest) \in Document
    BY <2>2 DEF ComputeDelta, Document
  <2>4. RequestTypes' /\ HolderIsCurrent'
    <3>1. CASE ComputeDelta(doc[a], latest) = Empty
      BY <2>1, <3>1, EmptyIsDocument DEF Finish, HolderIsCurrent
    <3>2. CASE ComputeDelta(doc[a], latest) # Empty
      BY <2>1, <2>3, <3>2 DEF HolderIsCurrent
    <3> QED BY <3>1, <3>2
  <2> QED BY <2>1, <2>4
<1>4. ASSUME NEW a \in Admin, EnqueueDelta(a) PROVE DesiredInv'
  <2> USE <1>4 DEF EnqueueDelta, Finish
  <2>1. Current' = Current /\ expected' = expected BY DEF Current
  <2>2. RequestTypes' BY EmptyIsDocument
  <2>3. HolderIsCurrent' BY <2>1 DEF HolderIsCurrent
  <2> QED BY <2>1, <2>2, <2>3
<1>5. ASSUME NEW a \in Admin, SetDesiredFails(a) PROVE DesiredInv'
  <2> USE <1>5 DEF SetDesiredFails, Finish
  <2>1. Current' = Current /\ expected' = expected BY DEF Current
  <2>2. RequestTypes' BY EmptyIsDocument
  <2>3. HolderIsCurrent' BY <2>1 DEF HolderIsCurrent
  <2> QED BY <2>1, <2>2, <2>3
<1>6. CASE UNCHANGED <<desiredVars, adminVars>>
  BY <1>6 DEF desiredVars, adminVars, HolderIsCurrent, Current
<1>7. UNCHANGED <<desiredVars, adminVars>> \/ \E a \in Admin :
        \/ \E p \in Patch : LockDesired(a, p)
        \/ CommitDesired(a) \/ CompareReported(a) \/ EnqueueDelta(a) \/ SetDesiredFails(a)
  BY DEF Next, vars, desiredVars, adminVars, PropertyPost, CommitReport, ReportFails
<1> QED BY <1>1, <1>2, <1>3, <1>4, <1>5, <1>6, <1>7

\* However Set-Desired requests overlap, the desired document is what the
\* committed patches, applied one after the other, make of it.
THEOREM PatchesKept == Spec => []NoPatchLost
<1>1. DesiredInv => NoPatchLost BY DEF DesiredInv, Current, NoPatchLost
<1> QED BY <1>1, DesiredInit, DesiredStep, PTL DEF Spec

-----------------------------------------------------------------------------
(***************************************************************************)
(* The delta.                                                              *)
(***************************************************************************)

Answers == Admin \cup {"none", "ok", "failed"}

\* The request that committed last works on the document that is stored, and
\* what it has not yet offered is in the delta it is about to enqueue.
LastCommitter ==
    \A a \in Admin : answer = a =>
        \/ pc[a] = "compare" /\ doc[a] = desired
        \/ /\ pc[a] = "enqueue"
           /\ \A k \in Key : desired[k] # Absent => k \in offered \/ doc[a][k] = desired[k]

OfferInv == DesiredInv /\ answer \in Answers /\ LastCommitter /\ WholeDocumentOffered

LEMMA OfferInit == Init => OfferInv
BY DesiredInit, ShadowAssumption
   DEF Init, OfferInv, Answers, LastCommitter, WholeDocumentOffered

LEMMA OfferStep == OfferInv /\ [Next]_vars => OfferInv'
<1> SUFFICES ASSUME OfferInv, [Next]_vars PROVE OfferInv'
  OBVIOUS
<1>0. DesiredInv' BY DesiredStep DEF OfferInv
<1>t. RequestTypes /\ HolderIsCurrent /\ Current = expected BY DEF OfferInv, DesiredInv
<1> USE DEF OfferInv, Answers
<1>1. ASSUME NEW a \in Admin, NEW p \in Patch, LockDesired(a, p) PROVE OfferInv'
  <2> USE <1>1 DEF LockDesired, Merging
  <2>1. answer # a BY DEF LastCommitter
  <2>2. LastCommitter' BY <2>1, <1>t DEF LastCommitter, RequestTypes
  <2> QED BY <1>0, <2>2 DEF WholeDocumentOffered
<1>2. ASSUME NEW a \in Admin, CommitDesired(a) PROVE OfferInv'
  <2> USE <1>2 DEF CommitDesired, Committed
  <2>1. answer' = a /\ pc'[a] = "compare" /\ doc'[a] = desired'
    BY <1>t DEF RequestTypes
  <2>2. LastCommitter' BY <2>1 DEF LastCommitter
  <2>3. answer' # "ok" BY <2>1, ShadowAssumption
  <2> QED BY <1>0, <2>1, <2>2, <2>3 DEF WholeDocumentOffered
<1>3. ASSUME NEW a \in Admin, CompareReported(a) PROVE OfferInv'
  <2> DEFINE delta == ComputeDelta(doc[a], latest)
  <2> USE <1>3 DEF CompareReported
  <2>0. \A k \in Key : latest[k][1] = doc[a][k] /\ doc[a][k] = desired[k] => k \in offered'
    OBVIOUS
  <2>1. offered \subseteq offered' /\ desired' = desired OBVIOUS
  <2>2. ASSUME answer = a, NEW k \in Key, desired[k] # Absent
        PROVE  k \in offered' \/ (delta[k] = desired[k] /\ delta[k] # Absent)
    <3>1. doc[a] = desired BY <2>2 DEF LastCommitter
    <3>2. CASE latest[k][1] = doc[a][k] BY <2>0, <3>1, <3>2
    <3>3. CASE latest[k][1] # doc[a][k]
      <4>1. delta[k] = doc[a][k] BY <3>3 DEF ComputeDelta
      <4> QED BY <4>1, <3>1, <2>2
    <3> QED BY <3>2, <3>3
  <2>3. CASE delta = Empty
    <3>0. \A k \in Key : delta[k] = Absent BY <2>3 DEF Empty
    <3> USE <2>3 DEF Finish
    <3>1. answer = a => \A k \in Key : desired[k] # Absent => k \in offered'
      BY <2>2, <3>0
    <3>2. answer' = IF answer = a THEN "ok" ELSE answer OBVIOUS
    <3>3. WholeDocumentOffered'
      BY <2>1, <3>1, <3>2, ShadowAssumption DEF WholeDocumentOffered
    <3>4. LastCommitter'
      BY <2>1, <3>2, <1>t, ShadowAssumption DEF LastCommitter, RequestTypes
    <3> QED BY <1>0, <3>2, <3>3, <3>4
  <2>4. CASE delta # Empty
    <3> USE <2>4
    <3>1. pc'[a] = "enqueue" /\ doc'[a] = delta /\ answer' = answer
      BY <1>t DEF RequestTypes
    <3>2. \A b \in Admin \ {a} : pc'[b] = pc[b] /\ doc'[b] = doc[b]
      BY <1>t DEF RequestTypes
    <3>3. LastCommitter' BY <2>1, <2>2, <3>1, <3>2 DEF LastCommitter
    <3>4. WholeDocumentOffered' BY <2>1, <3>1 DEF WholeDocumentOffered
    <3> QED BY <1>0, <3>1, <3>3, <3>4
  <2> QED BY <2>3, <2>4
<1>4. ASSUME NEW a \in Admin, EnqueueDelta(a) PROVE OfferInv'
  <2> USE <1>4 DEF EnqueueDelta, Finish
  <2>1. offered \subseteq offered' /\ desired' = desired OBVIOUS
  <2>2. answer' = IF answer = a THEN "ok" ELSE answer OBVIOUS
  <2>3. answer = a => \A k \in Key : desired[k] # Absent => k \in offered'
    BY DEF LastCommitter
  <2>4. WholeDocumentOffered'
    BY <2>1, <2>2, <2>3, ShadowAssumption DEF WholeDocumentOffered
  <2>5. LastCommitter'
    BY <2>1, <2>2, <1>t, ShadowAssumption DEF LastCommitter, RequestTypes
  <2> QED BY <1>0, <2>2, <2>4, <2>5
<1>5. ASSUME NEW a \in Admin, SetDesiredFails(a) PROVE OfferInv'
  <2> USE <1>5 DEF SetDesiredFails, Finish
  <2>1. answer' = IF answer = a THEN "failed" ELSE answer OBVIOUS
  <2>2. WholeDocumentOffered' BY <2>1 DEF WholeDocumentOffered
  <2>3. LastCommitter' BY <2>1, <1>t, ShadowAssumption DEF LastCommitter, RequestTypes
  <2> QED BY <1>0, <2>1, <2>2, <2>3
<1>6. CASE UNCHANGED <<desiredVars, adminVars>>
  BY <1>0, <1>6 DEF desiredVars, adminVars, LastCommitter, WholeDocumentOffered
<1>7. UNCHANGED <<desiredVars, adminVars>> \/ \E a \in Admin :
        \/ \E p \in Patch : LockDesired(a, p)
        \/ CommitDesired(a) \/ CompareReported(a) \/ EnqueueDelta(a) \/ SetDesiredFails(a)
  BY DEF Next, vars, desiredVars, adminVars, PropertyPost, CommitReport, ReportFails
<1> QED BY <1>1, <1>2, <1>3, <1>4, <1>5, <1>6, <1>7

\* When the last Set-Desired succeeds, nothing that is desired is left without a
\* command or a matching report, whatever became of the requests before it.
THEOREM DocumentSettled == Spec => []WholeDocumentOffered
<1>1. OfferInv => WholeDocumentOffered BY DEF OfferInv
<1> QED BY <1>1, OfferInit, OfferStep, PTL DEF Spec

-----------------------------------------------------------------------------
(***************************************************************************)
(* Reports.                                                                *)
(***************************************************************************)

ReportTypes ==
    /\ clock \in 0..MaxReport
    /\ post \in [Time -> Reported \cup {NoKeys}]
    /\ history \in [Time -> Reported \cup {NoKeys}]
    /\ overlaps \in [Time -> SUBSET Time]
    /\ latest \in [Key -> (Value \X Time) \cup {NeverReported}]

\* A report has been stamped, and is in progress or stored but never both.
StampedOnce ==
    \A t \in Time : /\ t > clock => post[t] = NoKeys /\ history[t] = NoKeys
                    /\ post[t] # NoKeys => history[t] = NoKeys

\* What is still in progress overlaps with all that was sent after it.
StillOverlaps ==
    \A t, u \in Time : post[t] # NoKeys /\ t < u /\ u \leq clock => t \in overlaps[u]

\* SnapshotFollowsHistory, key by key and row by row.
Shows(k) ==
    /\ (\A t \in Time : k \notin DOMAIN history[t]) => latest[k] = NeverReported
    /\ \A t \in Time : k \in DOMAIN history[t] =>
         /\ latest[k][2] \in Time
         /\ k \in DOMAIN history[latest[k][2]]
         /\ history[latest[k][2]][k] = latest[k][1]
         /\ t > latest[k][2] => latest[k][2] \in overlaps[t]

ReportInv == ReportTypes /\ StampedOnce /\ StillOverlaps /\ \A k \in Key : Shows(k)

LEMMA NoKeysHasNone == \A k : k \notin DOMAIN NoKeys
BY DEF NoKeys

LEMMA ReportInit == Init => ReportInv
<1> SUFFICES ASSUME Init PROVE ReportInv OBVIOUS
<1>1. ReportTypes /\ StampedOnce /\ StillOverlaps
  BY ShadowAssumption DEF Init, ReportTypes, StampedOnce, StillOverlaps, Time
<1>2. \A k \in Key : Shows(k) BY NoKeysHasNone DEF Init, Shows
<1> QED BY <1>1, <1>2 DEF ReportInv

LEMMA ReportStep == ReportInv /\ [Next]_vars => ReportInv'
<1> SUFFICES ASSUME ReportInv, [Next]_vars PROVE ReportInv'
  OBVIOUS
<1> USE ShadowAssumption DEF ReportInv, ReportTypes, Time
<1>1. ASSUME NEW props \in Reported, PropertyPost(props) PROVE ReportInv'
  <2> USE <1>1 DEF PropertyPost
  <2>1. ReportTypes' BY DEF InProgress
  <2>2. StampedOnce' BY DEF StampedOnce
  <2>3. StillOverlaps'
    <3> SUFFICES ASSUME NEW t \in Time, NEW u \in Time, post'[t] # NoKeys, t < u, u \leq clock'
                 PROVE  t \in overlaps'[u]
      BY DEF StillOverlaps
    <3>1. t # clock + 1 /\ post'[t] = post[t] OBVIOUS
    <3>2. CASE u = clock + 1 BY <3>1, <3>2 DEF InProgress
    <3>3. CASE u # clock + 1 BY <3>1, <3>3 DEF StillOverlaps
    <3> QED BY <3>2, <3>3
  <2>4. \A k \in Key : Shows(k)'
    <3> SUFFICES ASSUME NEW k \in Key PROVE Shows(k)' OBVIOUS
    <3>1. Shows(k) OBVIOUS
    <3>2. history' = history /\ latest' = latest OBVIOUS
    <3>3. \A t \in Time : k \in DOMAIN history[t] => overlaps'[t] = overlaps[t]
      BY NoKeysHasNone DEF StampedOnce
    <3> QED BY <3>1, <3>2, <3>3 DEF Shows
  <2> QED BY <2>1, <2>2, <2>3, <2>4
<1>2. ASSUME NEW t \in Time, CommitReport(t) PROVE ReportInv'
  <2> USE <1>2 DEF CommitReport, InProgress
  <2>0. post[t] \in Reported /\ history[t] = NoKeys /\ t \leq clock BY DEF StampedOnce
  <2>1. \A k \in DOMAIN post[t] : k \in Key /\ post[t][k] \in Value
    BY <2>0 DEF Reported, SomeKeys
  <2>2. ReportTypes' BY <2>1 DEF MergeReported
  <2>3. StampedOnce' BY <2>0 DEF StampedOnce
  <2>4. StillOverlaps' BY DEF StillOverlaps
  <2>5. ASSUME NEW k \in Key PROVE Shows(k)'
    <3>0. Shows(k) OBVIOUS
    <3>1. history'[t] = post[t] /\ \A u \in Time \ {t} : history'[u] = history[u]
      OBVIOUS
    <3>2. CASE k \in DOMAIN post[t]
      <4>1. latest'[k] = <<post[t][k], t>> BY <3>2 DEF MergeReported
      <4>2. \A u \in Time : k \in DOMAIN history'[u] /\ u > t => t \in overlaps[u]
        BY <3>1, NoKeysHasNone DEF StampedOnce, StillOverlaps
      <4> QED BY <3>1, <3>2, <4>1, <4>2 DEF Shows
    <3>3. CASE k \notin DOMAIN post[t]
      <4>1. latest'[k] = latest[k] BY <3>3 DEF MergeReported
      <4>2. k \notin DOMAIN history[t] /\ k \notin DOMAIN history'[t]
        BY <2>0, <3>1, <3>3, NoKeysHasNone
      <4>3. \A u \in Time : k \in DOMAIN history'[u] => history'[u] = history[u]
        BY <3>1, <4>2
      <4>4. \A u \in Time : k \in DOMAIN history[u] => history'[u] = history[u]
        BY <3>1, <4>2
      <4> QED BY <3>0, <4>1, <4>3, <4>4 DEF Shows
    <3> QED BY <3>2, <3>3
  <2> QED BY <2>2, <2>3, <2>4, <2>5
<1>3. ASSUME NEW t \in Time, ReportFails(t) PROVE ReportInv'
  <2> USE <1>3 DEF ReportFails, InProgress
  <2>1. ReportTypes' OBVIOUS
  <2>2. StampedOnce' /\ StillOverlaps' BY DEF StampedOnce, StillOverlaps
  <2>3. \A k \in Key : Shows(k)' BY DEF Shows
  <2> QED BY <2>1, <2>2, <2>3
<1>4. CASE UNCHANGED reportVars
  BY <1>4 DEF reportVars, StampedOnce, StillOverlaps, Shows
<1>5. UNCHANGED reportVars \/ (\E props \in Reported : PropertyPost(props))
        \/ \E t \in Time : CommitReport(t) \/ ReportFails(t)
  BY DEF Next, vars, reportVars, LockDesired, Merging, CommitDesired, Committed,
         CompareReported, EnqueueDelta, SetDesiredFails
<1> QED BY <1>1, <1>2, <1>3, <1>4, <1>5

\* The snapshot and the history never disagree on what a device reported, for any
\* number of reports of which any number overlap.
THEOREM SnapshotIsHistory == Spec => []SnapshotFollowsHistory
<1>1. ASSUME ReportInv PROVE SnapshotFollowsHistory
  <2> SUFFICES ASSUME NEW k \in Key
               PROVE  LET reports == {t \in Time : k \in DOMAIN history[t]}
                          shown == latest[k] IN
                      IF reports = {} THEN shown = NeverReported
                      ELSE /\ shown[2] \in reports /\ history[shown[2]][k] = shown[1]
                           /\ \A t \in reports : t > shown[2] => shown[2] \in overlaps[t]
    BY DEF SnapshotFollowsHistory
  <2>1. Shows(k) BY <1>1 DEF ReportInv
  <2> QED BY <2>1 DEF Shows
<1> QED BY <1>1, ReportInit, ReportStep, PTL DEF Spec
=============================================================================
