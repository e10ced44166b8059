------------------------- MODULE SchemaTemplatesProofs -------------------------
(***************************************************************************)
(* Proofs about SchemaTemplates, for any number of templates, events and   *)
(* requests: what row locks and the partial unique index achieve together. *)
(***************************************************************************)
EXTENDS SchemaTemplates, FiniteSetTheorems, TLAPS

TableTypes ==
    /\ status \in [Template -> Status \cup {"absent", "deleted"}]
    /\ version \in [Template -> 0..MaxEdit]
    /\ row \in [Template -> Admin \cup {None}]

RequestTypes ==
    /\ pc \in [Admin -> AdminPc]
    /\ target \in [Admin -> Template \cup {None}]
    /\ to \in [Admin -> Status]
    /\ todo \in [Admin -> SUBSET Template] /\ demoted \in [Admin -> SUBSET Template]

\* A transaction holds the row it works on.
HoldsTarget ==
    \A a \in Admin : pc[a] \in {"demote", "promote", "commit", "commit_edit"} =>
        target[a] \in Template /\ row[target[a]] = a

\* Only an activation demotes, and only other templates of its event.
Activates(a) == pc[a] \in {"demote", "promote", "commit"} /\ to[a] = "Active"

HoldsDemoted ==
    \A a \in Admin :
        /\ pc[a] \in {"demote", "promote"} => to[a] = "Active"
        /\ todo[a] # {} => pc[a] = "demote" /\ todo[a] \subseteq Siblings(target[a])
        /\ \A y \in demoted[a] : Activates(a) /\ row[y] = a /\ y \in Siblings(target[a])

EditsInactive == \A a \in Admin : pc[a] = "commit_edit" => status[target[a]] # "Active"

\* What the unique index has let through: an activation about to commit demotes every
\* Active template of its event, and no other one is about to commit.
Promoted(a) == pc[a] = "commit" /\ to[a] = "Active"

IndexHolds ==
    /\ \A a \in Admin : Promoted(a) =>
         \A y \in Siblings(target[a]) : status[y] = "Active" => y \in demoted[a]
    /\ \A a, b \in Admin : a # b /\ Promoted(a) /\ Promoted(b) =>
         target[b] \notin Siblings(target[a])

UniqueActive ==
    \A x \in Template : \A y \in Siblings(x) : ~(status[x] = "Active" /\ status[y] = "Active")

TemplatesInv ==
    /\ TableTypes /\ RequestTypes
    /\ HoldsTarget /\ HoldsDemoted /\ EditsInactive /\ IndexHolds /\ UniqueActive

-----------------------------------------------------------------------------
LEMMA TemplatesInit == Init => TemplatesInv
<1> SUFFICES ASSUME Init PROVE TemplatesInv OBVIOUS
<1>1. TableTypes /\ RequestTypes
  BY TemplatesAssumption DEF Init, TableTypes, RequestTypes, AdminPc, Status
<1>2. HoldsTarget /\ HoldsDemoted /\ EditsInactive /\ IndexHolds /\ UniqueActive
  BY DEF Init, HoldsTarget, HoldsDemoted, EditsInactive, IndexHolds, UniqueActive,
         Promoted, Siblings
<1> QED BY <1>1, <1>2 DEF TemplatesInv

LEMMA SiblingsType ==
    /\ \A x : Siblings(x) \subseteq Template /\ x \notin Siblings(x)
    /\ \A x \in Template : \A y \in Siblings(x) : x \in Siblings(y)
BY DEF Siblings

LEMMA TemplatesStep == TemplatesInv /\ [Next]_vars => TemplatesInv'
<1> SUFFICES ASSUME TemplatesInv, [Next]_vars PROVE TemplatesInv'
  OBVIOUS
<1> USE TemplatesAssumption, SiblingsType
        DEF TemplatesInv, TableTypes, RequestTypes, AdminPc, Status
<1> DEFINE Locks == HoldsTarget /\ HoldsDemoted /\ EditsInactive
<1>1. ASSUME NEW x \in Template, CreateTemplate(x) PROVE TemplatesInv'
  <2> USE <1>1 DEF CreateTemplate, adminVars, cacheVars
  <2>1. TableTypes' /\ RequestTypes' OBVIOUS
  <2>2. Locks' BY DEF HoldsTarget, HoldsDemoted, Activates, EditsInactive
  <2>3. IndexHolds' BY DEF IndexHolds, Promoted
  <2>4. UniqueActive' BY DEF UniqueActive
  <2> QED BY <2>1, <2>2, <2>3, <2>4
<1>2. ASSUME NEW a \in Admin, NEW x \in Template, NEW s \in Status, UpdateStatus(a, x, s)
      PROVE  TemplatesInv'
  <2> USE <1>2 DEF UpdateStatus, tableVars, cacheVars, Go
  <2>1. TableTypes' /\ RequestTypes' OBVIOUS
  <2>2. Locks'
    <3>1. HoldsTarget' BY DEF HoldsTarget
    <3>2. HoldsDemoted' BY DEF HoldsDemoted, Activates
    <3>3. EditsInactive' BY DEF EditsInactive
    <3> QED BY <3>1, <3>2, <3>3
  <2>3. IndexHolds' BY DEF IndexHolds, Promoted
  <2>4. UniqueActive' BY DEF UniqueActive
  <2> QED BY <2>1, <2>2, <2>3, <2>4
<1>3. ASSUME NEW a \in Admin, NEW x \in Template, UpdateSchema(a, x) PROVE TemplatesInv'
  <2> USE <1>3 DEF UpdateSchema, tableVars, cacheVars, Go
  <2>1. TableTypes' /\ RequestTypes' OBVIOUS
  <2>2. Locks'
    <3>1. HoldsTarget' BY DEF HoldsTarget
    <3>2. HoldsDemoted' BY DEF HoldsDemoted, Activates
    <3>3. EditsInactive' BY DEF EditsInactive
    <3> QED BY <3>1, <3>2, <3>3
  <2>3. IndexHolds' BY DEF IndexHolds, Promoted
  <2>4. UniqueActive' BY DEF UniqueActive
  <2> QED BY <2>1, <2>2, <2>3, <2>4
<1>4. ASSUME NEW a \in Admin, NEW x \in Template, DeleteTemplate(a, x) PROVE TemplatesInv'
  <2> USE <1>4 DEF DeleteTemplate, cacheVars, Go
  <2>1. TableTypes' /\ RequestTypes' OBVIOUS
  <2>2. Locks'
    <3>1. HoldsTarget' BY DEF HoldsTarget
    <3>2. HoldsDemoted' BY DEF HoldsDemoted, Activates
    <3>3. EditsInactive' BY DEF EditsInactive, HoldsTarget
    <3> QED BY <3>1, <3>2, <3>3
  <2>3. IndexHolds' BY DEF IndexHolds, Promoted
  <2>4. UniqueActive' BY DEF UniqueActive
  <2> QED BY <2>1, <2>2, <2>3, <2>4
<1>5. ASSUME NEW a \in Admin, StartDemote(a) PROVE TemplatesInv'
  <2> USE <1>5 DEF StartDemote, tableVars, cacheVars, Go
  <2>0. target[a] \in Template BY DEF HoldsTarget
  <2>1. TableTypes' /\ RequestTypes' BY <2>0
  <2>2. Locks'
    <3>1. HoldsTarget' BY DEF HoldsTarget
    <3>2. HoldsDemoted' BY DEF HoldsDemoted, Activates
    <3>3. EditsInactive' BY DEF EditsInactive
    <3> QED BY <3>1, <3>2, <3>3
  <2>3. IndexHolds' BY DEF IndexHolds, Promoted
  <2>4. UniqueActive' BY DEF UniqueActive
  <2> QED BY <2>1, <2>2, <2>3, <2>4
<1>6. ASSUME NEW a \in Admin, NEW y \in Template, DemoteRow(a, y) PROVE TemplatesInv'
  <2> USE <1>6 DEF DemoteRow, tableVars, cacheVars, Go
  <2>1. TableTypes' /\ RequestTypes' OBVIOUS
  <2>2. Locks'
    <3>1. HoldsTarget' BY DEF HoldsTarget
    <3>2. HoldsDemoted' BY DEF HoldsDemoted, Activates
    <3>3. EditsInactive' BY DEF EditsInactive
    <3> QED BY <3>1, <3>2, <3>3
  <2>3. IndexHolds' BY DEF IndexHolds, Promoted
  <2>4. UniqueActive' BY DEF UniqueActive
  <2> QED BY <2>1, <2>2, <2>3, <2>4
<1>7. ASSUME NEW a \in Admin, Promote(a) PROVE TemplatesInv'
  <2> USE <1>7 DEF Promote, tableVars, cacheVars, Go
  <2>1. TableTypes' /\ RequestTypes' OBVIOUS
  <2>2. Locks'
    <3>1. HoldsTarget' BY DEF HoldsTarget
    <3>2. HoldsDemoted' BY DEF HoldsDemoted, Activates
    <3>3. EditsInactive' BY DEF EditsInactive
    <3> QED BY <3>1, <3>2, <3>3
  <2>3. IndexHolds'
    <3>1. \A b, c \in Admin : b # c /\ Promoted(b)' /\ Promoted(c)' => target[c] \notin Siblings(target[b])
      <4> SUFFICES ASSUME NEW b \in Admin, NEW c \in Admin, b # c, Promoted(b)', Promoted(c)'
                   PROVE  target[c] \notin Siblings(target[b])
        OBVIOUS
      <4>1. CASE b = a BY <4>1 DEF Promoted
      <4>2. CASE c = a
        <5>1. target[b] \in Template /\ target[c] \in Template BY <4>2 DEF HoldsTarget, Promoted
        <5>2. target[b] \notin Siblings(target[c]) BY <4>2 DEF Promoted
        <5> QED BY <5>1, <5>2
      <4>3. CASE a \notin {b, c} BY <4>3 DEF Promoted, IndexHolds
      <4> QED BY <4>1, <4>2, <4>3
    <3> QED BY <3>1 DEF IndexHolds, Promoted
  <2>4. UniqueActive' BY DEF UniqueActive
  <2> QED BY <2>1, <2>2, <2>3, <2>4
<1>8. ASSUME NEW a \in Admin, CommitStatus(a) PROVE TemplatesInv'
  <2> USE <1>8 DEF CommitStatus, Release, Committed, Forget, Go, cacheVars
  <2>0. target[a] \in Template /\ row[target[a]] = a BY DEF HoldsTarget
  <2>1. TableTypes' /\ RequestTypes' BY <2>0
  <2>2. \A x \in Template : status'[x] = "Active" =>
          \/ status[x] = "Active" /\ x \notin demoted[a]
          \/ x = target[a] /\ Promoted(a)
    BY DEF Promoted
  <2>3. \A b \in Admin \ {a} : /\ pc'[b] = pc[b] /\ to'[b] = to[b] /\ target'[b] = target[b]
                               /\ todo'[b] = todo[b] /\ demoted'[b] = demoted[b]
    OBVIOUS
  <2>4. pc'[a] = "invalidate" /\ todo'[a] = {} /\ demoted'[a] = {} OBVIOUS
  <2>5. \A x \in Template, b \in Admin \ {a} : row[x] = b => row'[x] = b OBVIOUS
  <2>6. Locks'
    <3>1. HoldsTarget' BY <2>3, <2>4, <2>5 DEF HoldsTarget
    <3>2. HoldsDemoted' BY <2>3, <2>4, <2>5 DEF HoldsDemoted, Activates
    <3>3. EditsInactive'
      <4> SUFFICES ASSUME NEW b \in Admin, pc'[b] = "commit_edit"
                   PROVE  status'[target'[b]] # "Active"
        BY DEF EditsInactive
      <4>1. b # a /\ pc[b] = "commit_edit" /\ target'[b] = target[b] BY <2>3, <2>4
      <4>2. target[b] \in Template /\ row[target[b]] = b BY <4>1 DEF HoldsTarget
      <4>3. target[b] # target[a] BY <4>1, <4>2, <2>0
      <4> QED BY <2>2, <4>1, <4>2, <4>3 DEF EditsInactive
    <3> QED BY <3>1, <3>2, <3>3
  <2>7. IndexHolds'
    <3>1. \A b \in Admin : Promoted(b)' => b # a /\ Promoted(b) BY <2>3, <2>4 DEF Promoted
    <3>2. ASSUME NEW b \in Admin, Promoted(b)', NEW y \in Siblings(target[b]), status'[y] = "Active"
          PROVE  y \in demoted[b]
      <4>1. b # a /\ Promoted(b) BY <3>1, <3>2
      <4>2. CASE status[y] = "Active" BY <4>1, <4>2, <3>2 DEF IndexHolds
      <4>3. CASE y = target[a] /\ Promoted(a) BY <4>1, <4>3, <3>2 DEF IndexHolds
      <4> QED BY <2>2, <3>2, <4>2, <4>3
    <3> QED BY <2>3, <3>1, <3>2 DEF IndexHolds
  <2>8. UniqueActive'
    <3> SUFFICES ASSUME NEW x \in Template, NEW y \in Siblings(x),
                        status'[x] = "Active", status'[y] = "Active"
                 PROVE  FALSE
      BY DEF UniqueActive, Siblings
    <3>1. x # y /\ y \in Template /\ x \in Siblings(y) OBVIOUS
    <3>2. CASE x = target[a] /\ Promoted(a) BY <2>2, <3>1, <3>2 DEF IndexHolds
    <3>3. CASE y = target[a] /\ Promoted(a) BY <2>2, <3>1, <3>3 DEF IndexHolds
    <3>4. CASE status[x] = "Active" /\ status[y] = "Active" BY <3>4 DEF UniqueActive
    <3> QED BY <2>2, <3>1, <3>2, <3>3, <3>4
  <2> QED BY <2>1, <2>6, <2>7, <2>8
<1>9. ASSUME NEW a \in Admin, CommitEdit(a) PROVE TemplatesInv'
  <2> USE <1>9 DEF CommitEdit, Release, Committed, Forget, Go, cacheVars
  <2>0. target[a] \in Template BY DEF HoldsTarget
  <2>1. TableTypes' /\ RequestTypes' BY <2>0
  <2>2. Locks'
    <3>1. HoldsTarget' BY DEF HoldsTarget
    <3>2. HoldsDemoted' BY DEF HoldsDemoted, Activates
    <3>3. EditsInactive' BY DEF EditsInactive
    <3> QED BY <3>1, <3>2, <3>3
  <2>3. IndexHolds' BY DEF IndexHolds, Promoted
  <2>4. UniqueActive' BY DEF UniqueActive
  <2> QED BY <2>1, <2>2, <2>3, <2>4
<1>10. ASSUME NEW a \in Admin, Refuse(a) PROVE TemplatesInv'
  <2> USE <1>10 DEF Refuse, Release, Answered, Forget, Go, cacheVars, tableVars
  <2>1. TableTypes' /\ RequestTypes' OBVIOUS
  <2>2. Locks'
    <3>1. HoldsTarget' BY DEF HoldsTarget
    <3>2. HoldsDemoted' BY DEF HoldsDemoted, Activates
    <3>3. EditsInactive' BY DEF EditsInactive
    <3> QED BY <3>1, <3>2, <3>3
  <2>3. IndexHolds' BY DEF IndexHolds, Promoted
  <2>4. UniqueActive' BY DEF UniqueActive
  <2> QED BY <2>1, <2>2, <2>3, <2>4
<1>11. ASSUME NEW a \in Admin, Invalidate(a) \/ InvalidateFails(a) PROVE TemplatesInv'
  <2> USE <1>11 DEF Invalidate, InvalidateFails, Answered, Go, tableVars
  <2>1. TableTypes' /\ RequestTypes' OBVIOUS
  <2>2. Locks'
    <3>1. HoldsTarget' BY DEF HoldsTarget
    <3>2. HoldsDemoted' BY DEF HoldsDemoted, Activates
    <3>3. EditsInactive' BY DEF EditsInactive
    <3> QED BY <3>1, <3>2, <3>3
  <2>3. IndexHolds' BY DEF IndexHolds, Promoted
  <2>4. UniqueActive' BY DEF UniqueActive
  <2> QED BY <2>1, <2>2, <2>3, <2>4
<1>12. CASE Restart
  <2> USE <1>12 DEF Restart, tableVars
  <2>1. TableTypes' /\ RequestTypes' OBVIOUS
  <2>2. Locks' BY DEF HoldsTarget, HoldsDemoted, Activates, EditsInactive
  <2>3. IndexHolds' BY DEF IndexHolds, Promoted
  <2>4. UniqueActive' BY DEF UniqueActive
  <2> QED BY <2>1, <2>2, <2>3, <2>4
<1>13. CASE UNCHANGED <<tableVars, row, adminVars>>
  BY <1>13 DEF tableVars, adminVars, HoldsTarget, HoldsDemoted, Activates, EditsInactive,
               IndexHolds, Promoted, UniqueActive
<1>14. ASSUME NEW r \in Report, NEW e \in Event,
              CacheMiss(r, e) \/ LoadSchema(r) \/ LoadSchemaError(r)
       PROVE  UNCHANGED <<tableVars, row, adminVars>>
  BY <1>14 DEF CacheMiss, LoadSchema, LoadSchemaError
<1>15. ASSUME NEW f \in fills, Fill(f) \/ FillFails(f) PROVE UNCHANGED <<tableVars, row, adminVars>>
  BY <1>15 DEF Fill, FillFails
<1>16. UNCHANGED vars => UNCHANGED <<tableVars, row, adminVars>>
  BY DEF vars, tableVars, adminVars
<1>17. ASSUME NEW r \in Report, LoadSchema(r) \/ LoadSchemaError(r)
       PROVE  UNCHANGED <<tableVars, row, adminVars>>
  BY <1>17 DEF LoadSchema, LoadSchemaError
<1> QED BY <1>1, <1>2, <1>3, <1>4, <1>5, <1>6, <1>7, <1>8, <1>9, <1>10, <1>11, <1>12,
           <1>13, <1>14, <1>15, <1>16, <1>17 DEF Next

LEMMA Templates == Spec => []TemplatesInv
BY TemplatesInit, TemplatesStep, PTL DEF Spec

-----------------------------------------------------------------------------
\* However many activations of an event overlap, one template at most is Active.
THEOREM ActiveIsUnique == Spec => []OneActive
<1>1. ASSUME TemplatesInv PROVE OneActive
  <2> SUFFICES ASSUME NEW e \in Event PROVE Cardinality(ActiveOf(e)) \leq 1
    BY DEF OneActive
  <2>1. CASE ActiveOf(e) = {} BY <2>1, FS_EmptySet
  <2>2. CASE ActiveOf(e) # {}
    <3>1. PICK x \in ActiveOf(e) : TRUE BY <2>2
    <3>2. \A y \in ActiveOf(e) : y = x
      BY <1>1, <3>1 DEF TemplatesInv, UniqueActive, ActiveOf, Siblings
    <3>3. ActiveOf(e) = {x} BY <3>1, <3>2
    <3>4. Cardinality({x}) = 1 BY FS_Singleton
    <3> QED BY <3>3, <3>4
  <2> QED BY <2>1, <2>2
<1> QED BY <1>1, Templates, PTL

\* No edit changes the schema of a template that is Active when the edit commits.
THEOREM ActiveIsFrozen == Spec => ActiveFrozen
<1>1. ASSUME TemplatesInv, [Next]_vars
      PROVE  [\A x \in Template : status[x] = "Active" => version'[x] = version[x]]_vars
  <2>1. ASSUME NEW a \in Admin, CommitEdit(a), NEW x \in Template, status[x] = "Active"
        PROVE  version'[x] = version[x]
    <3>1. x # target[a] BY <1>1, <2>1 DEF CommitEdit, TemplatesInv, EditsInactive
    <3> QED BY <1>1, <2>1, <3>1 DEF CommitEdit, TemplatesInv, TableTypes
  <2>2. (\E a \in Admin : CommitEdit(a)) \/ version' = version
    BY <1>1 DEF Next, vars, CreateTemplate, UpdateStatus, UpdateSchema, DeleteTemplate,
                StartDemote, DemoteRow, Promote, CommitStatus, Refuse, Invalidate,
                InvalidateFails, CacheMiss, LoadSchema, LoadSchemaError, Fill, FillFails,
                Restart, tableVars
  <2> QED BY <2>1, <2>2
<1> QED BY <1>1, Templates, PTL DEF Spec, ActiveFrozen

\* Switching an event to another template leaves no moment without a template.
THEOREM SwitchesAreAtomic == Spec => SwitchIsAtomic
<1>1. ASSUME TemplatesInv, [Next]_vars
      PROVE  [\A e \in Event, x \in Template :
                ActiveOf(e) = {x} /\ ActiveOf(e)' = {} =>
                  \/ status'[x] = "deleted"
                  \/ \E a \in Admin : CommitStatus(a) /\ target[a] = x /\ to[a] = "Inactive"]_vars
  <2> SUFFICES ASSUME NEW e \in Event, NEW x \in Template,
                      ActiveOf(e) = {x}, ActiveOf(e)' = {}
               PROVE  \/ status'[x] = "deleted"
                      \/ \E a \in Admin : CommitStatus(a) /\ target[a] = x /\ to[a] = "Inactive"
    OBVIOUS
  <2> USE <1>1 DEF TemplatesInv, TableTypes
  <2>1. status[x] = "Active" /\ EventOf[x] = e BY DEF ActiveOf
  <2>2. \A y \in Template : EventOf[y] = e => status'[y] # "Active" BY DEF ActiveOf
  <2>3. ASSUME NEW y \in Template, CreateTemplate(y) PROVE FALSE
    BY <2>1, <2>2, <2>3 DEF CreateTemplate
  <2>4. ASSUME NEW a \in Admin, NEW y \in Template, DeleteTemplate(a, y)
        PROVE  status'[x] = "deleted"
    BY <2>1, <2>2, <2>4 DEF DeleteTemplate
  <2>5. ASSUME NEW a \in Admin, CommitStatus(a)
        PROVE  target[a] = x /\ to[a] = "Inactive"
    <3> USE <2>5 DEF CommitStatus
    <3>1. target[a] \in Template BY DEF HoldsTarget
    <3>2. CASE target[a] = x BY <2>1, <2>2, <3>2 DEF RequestTypes, Status
    <3>3. CASE target[a] # x /\ x \in demoted[a]
      <4>1. to[a] = "Active" /\ x \in Siblings(target[a]) BY <3>3 DEF HoldsDemoted, Activates
      <4>2. EventOf[target[a]] = e BY <2>1, <4>1 DEF Siblings
      <4>3. status'[target[a]] = "Active" BY <3>1, <4>1
      <4> QED BY <2>2, <3>1, <4>2, <4>3
    <3>4. CASE target[a] # x /\ x \notin demoted[a] BY <2>1, <2>2, <3>4
    <3> QED BY <3>2, <3>3, <3>4
  <2>6. \/ \E y \in Template : CreateTemplate(y)
        \/ \E a \in Admin : CommitStatus(a) \/ \E y \in Template : DeleteTemplate(a, y)
        \/ status' = status
    BY DEF Next, vars, UpdateStatus, UpdateSchema, StartDemote, DemoteRow, Promote,
           CommitEdit, Refuse, Invalidate, InvalidateFails, CacheMiss, LoadSchema,
           LoadSchemaError, Fill, FillFails, Restart, tableVars
  <2> QED BY <2>1, <2>2, <2>3, <2>4, <2>5, <2>6
<1> QED BY <1>1, Templates, PTL DEF Spec, SwitchIsAtomic

-----------------------------------------------------------------------------
(***************************************************************************)
(* The cache.                                                              *)
(***************************************************************************)

\* The schema reports of event e should be judged by, as a set of one or none.
Current(e) == {<<x, version[x]>> : x \in ActiveOf(e)}

\* A request has committed and is about to remove the entry, or a removal missed.
Removing(e) == \E a \in Admin : pc[a] = "invalidate" /\ EventOf[target[a]] = e
Excused(e)  == raced[e] \/ Removing(e)

CacheTypes ==
    /\ cache \in [Event -> {NoSchema} \cup {{s} : s \in Schema}]
    /\ fills \in SUBSET (Event \X Schema)
    /\ rpc \in [Report -> Event \cup {"idle"}]
    /\ raced \in [Event -> BOOLEAN]

\* A schema that is on its way into the cache is as good as one that is there.
EntriesFollow ==
    \A e \in Event : \A s \in Schema :
        <<e, s>> \in fills \/ s \in cache[e] => Excused(e) \/ s \in Current(e)

RemovesOwn == \A a \in Admin : pc[a] = "invalidate" => target[a] \in Template

CacheInv == TemplatesInv /\ CacheTypes /\ RemovesOwn /\ EntriesFollow

\* What a step does that neither removes an entry nor restarts the backend.
KeepsExcuses ==
    /\ raced' = raced
    /\ \A a \in Admin : pc[a] = "invalidate" => pc'[a] = "invalidate" /\ target'[a] = target[a]

LEMMA ExcuseKept ==
    ASSUME KeepsExcuses, NEW e \in Event, Excused(e)
    PROVE  Excused(e)'
BY DEF KeepsExcuses, Excused, Removing

\* A step that commits nothing and writes no entry but what was pending.
LEMMA UncommittedEntries ==
    ASSUME CacheInv, TemplatesInv', RemovesOwn', KeepsExcuses, UNCHANGED <<tableVars, cache, rpc>>,
           fills' \subseteq fills
    PROVE  CacheInv'
<1>1. CacheTypes' BY DEF CacheInv, CacheTypes, KeepsExcuses
<1>2. \A e \in Event : Current(e)' = Current(e)
  BY DEF Current, ActiveOf, tableVars
<1>3. EntriesFollow' BY <1>2, ExcuseKept DEF CacheInv, EntriesFollow
<1> QED BY <1>1, <1>3 DEF CacheInv

\* A commit of a request changes the schema of the request's event only, and the
\* request is about to remove the entry of that event.
LEMMA CommittedEntries ==
    ASSUME CacheInv, TemplatesInv', RemovesOwn', KeepsExcuses, UNCHANGED cacheVars,
           NEW a \in Admin, pc'[a] = "invalidate",
           \A e \in Event : e # EventOf[target'[a]] => Current(e)' = Current(e)
    PROVE  CacheInv'
<1> USE DEF cacheVars
<1>1. CacheTypes' BY DEF CacheInv, CacheTypes
<1>2. ASSUME NEW e \in Event, NEW s \in Schema, <<e, s>> \in fills \/ s \in cache[e]
      PROVE  Excused(e)' \/ s \in Current(e)'
  <2>1. CASE e = EventOf[target'[a]] BY <2>1 DEF Excused, Removing
  <2>2. CASE e # EventOf[target'[a]]
    BY <1>2, <2>2, ExcuseKept DEF CacheInv, EntriesFollow
  <2> QED BY <2>1, <2>2
<1> QED BY <1>1, <1>2 DEF CacheInv, EntriesFollow

LEMMA RemovalStep == TemplatesInv /\ RemovesOwn /\ [Next]_vars => RemovesOwn'
<1> SUFFICES ASSUME TemplatesInv, RemovesOwn, [Next]_vars,
                    NEW a \in Admin, pc'[a] = "invalidate"
             PROVE  target'[a] \in Template
  BY DEF RemovesOwn
<1> USE DEF TemplatesInv, RequestTypes, RemovesOwn, Go
<1>1. ASSUME NEW b \in Admin, NEW x \in Template, NEW s \in Status,
             \/ UpdateStatus(b, x, s) \/ UpdateSchema(b, x) \/ DeleteTemplate(b, x)
             \/ DemoteRow(b, x)
      PROVE  target'[a] \in Template
  BY <1>1 DEF UpdateStatus, UpdateSchema, DeleteTemplate, DemoteRow
<1>2. ASSUME NEW b \in Admin,
             \/ StartDemote(b) \/ Promote(b) \/ CommitStatus(b) \/ CommitEdit(b)
             \/ Refuse(b) \/ Invalidate(b) \/ InvalidateFails(b)
      PROVE  target'[a] \in Template
  BY <1>2 DEF StartDemote, Promote, CommitStatus, CommitEdit, Committed, Refuse, Answered,
              Invalidate, InvalidateFails, HoldsTarget
<1>3. CASE Restart BY <1>3 DEF Restart
<1>4. CASE UNCHANGED adminVars BY <1>4 DEF adminVars
<1>5. \/ \E b \in Admin, x \in Template, s \in Status :
              UpdateStatus(b, x, s) \/ UpdateSchema(b, x) \/ DeleteTemplate(b, x)
                \/ DemoteRow(b, x)
      \/ \E b \in Admin : \/ StartDemote(b) \/ Promote(b) \/ CommitStatus(b) \/ CommitEdit(b)
                           \/ Refuse(b) \/ Invalidate(b) \/ InvalidateFails(b)
      \/ Restart \/ UNCHANGED adminVars
  BY DEF Next, Status, vars, adminVars, CreateTemplate, CacheMiss, LoadSchema,
         LoadSchemaError, Fill, FillFails
<1> QED BY <1>1, <1>2, <1>3, <1>4, <1>5

LEMMA CacheInit == Init => CacheInv
<1> SUFFICES ASSUME Init PROVE CacheInv OBVIOUS
<1>1. CacheTypes BY DEF Init, CacheTypes, NoSchema
<1>2. EntriesFollow BY DEF Init, EntriesFollow, NoSchema
<1>3. RemovesOwn BY DEF Init, RemovesOwn
<1> QED BY <1>1, <1>2, <1>3, TemplatesInit DEF CacheInv

LEMMA CacheStep == CacheInv /\ [Next]_vars => CacheInv'
<1> SUFFICES ASSUME CacheInv, [Next]_vars PROVE CacheInv' OBVIOUS
<1>0. TemplatesInv' /\ RemovesOwn' BY TemplatesStep, RemovalStep DEF CacheInv
<1> USE TemplatesAssumption
        DEF CacheInv, TemplatesInv, TableTypes, RequestTypes, AdminPc, Status
<1>1. ASSUME NEW x \in Template, CreateTemplate(x) PROVE CacheInv'
  <2> USE <1>1 DEF CreateTemplate, adminVars, cacheVars
  <2>1. KeepsExcuses BY DEF KeepsExcuses
  <2>2. \A e \in Event : Current(e)' = Current(e) BY DEF Current, ActiveOf
  <2>3. EntriesFollow' BY <2>1, <2>2, ExcuseKept DEF EntriesFollow
  <2> QED BY <1>0, <2>3 DEF CacheTypes
<1>2. ASSUME NEW a \in Admin,
             \/ \E x \in Template, s \in Status : UpdateStatus(a, x, s)
             \/ \E x \in Template : UpdateSchema(a, x) \/ DemoteRow(a, x)
             \/ StartDemote(a) \/ Promote(a) \/ Refuse(a)
      PROVE  CacheInv'
  <2>1. KeepsExcuses
    BY <1>2 DEF KeepsExcuses, UpdateStatus, UpdateSchema, DemoteRow, StartDemote, Promote,
                Refuse, Answered, Go, cacheVars
  <2>2. UNCHANGED <<tableVars, cacheVars>>
    BY <1>2 DEF UpdateStatus, UpdateSchema, DemoteRow, StartDemote, Promote, Refuse
  <2> QED BY <1>0, <2>1, <2>2, UncommittedEntries DEF cacheVars
<1>3. ASSUME NEW a \in Admin, NEW x \in Template, DeleteTemplate(a, x) PROVE CacheInv'
  <2> USE <1>3 DEF DeleteTemplate, Go
  <2>1. KeepsExcuses BY DEF KeepsExcuses, cacheVars
  <2>2. pc'[a] = "invalidate" /\ target'[a] = x OBVIOUS
  <2>3. \A e \in Event : e # EventOf[x] => Current(e)' = Current(e)
    BY DEF Current, ActiveOf
  <2> QED BY <1>0, <2>1, <2>2, <2>3, CommittedEntries
<1>4. ASSUME NEW a \in Admin, CommitStatus(a) PROVE CacheInv'
  <2> USE <1>4 DEF CommitStatus, Committed, Go
  <2>1. KeepsExcuses BY DEF KeepsExcuses, cacheVars
  <2>2. pc'[a] = "invalidate" /\ target'[a] = target[a] OBVIOUS
  <2>3. \A x \in Template : EventOf[x] # EventOf[target[a]] => status'[x] = status[x]
    BY DEF HoldsTarget, HoldsDemoted, Activates, Siblings
  <2>4. \A e \in Event : e # EventOf[target[a]] => Current(e)' = Current(e)
    <3> SUFFICES ASSUME NEW e \in Event, e # EventOf[target[a]]
                 PROVE  Current(e)' = Current(e)
      OBVIOUS
    <3>1. ActiveOf(e)' = ActiveOf(e) BY <2>3 DEF ActiveOf
    <3>2. version' = version OBVIOUS
    <3> QED BY <3>1, <3>2 DEF Current
  <2> QED BY <1>0, <2>1, <2>2, <2>4, CommittedEntries
<1>5. ASSUME NEW a \in Admin, CommitEdit(a) PROVE CacheInv'
  <2> USE <1>5 DEF CommitEdit, Committed, Go
  <2>1. KeepsExcuses BY DEF KeepsExcuses, cacheVars
  <2>2. pc'[a] = "invalidate" /\ target'[a] = target[a] OBVIOUS
  <2>3. \A x \in Template : EventOf[x] # EventOf[target[a]] => version'[x] = version[x]
    OBVIOUS
  <2>4. \A e \in Event : e # EventOf[target[a]] => Current(e)' = Current(e)
    BY <2>3 DEF Current, ActiveOf
  <2> QED BY <1>0, <2>1, <2>2, <2>4, CommittedEntries
<1>6. ASSUME NEW a \in Admin, Invalidate(a) \/ InvalidateFails(a) PROVE CacheInv'
  <2> DEFINE e == EventOf[target[a]]
  <2>0. target[a] \in Template /\ e \in Event /\ pc[a] = "invalidate"
    BY <1>6 DEF RemovesOwn, Invalidate, InvalidateFails
  <2>1. /\ UNCHANGED <<tableVars, fills, rpc>>
        /\ \A d \in Event \ {e} : cache'[d] = cache[d] /\ raced'[d] = raced[d]
    BY <1>6, <2>0 DEF Invalidate, InvalidateFails, CacheTypes
  <2>2. \/ raced'[e] = TRUE
        \/ cache'[e] = NoSchema /\ ~Pending(e)
    BY <1>6, <2>0 DEF Invalidate, InvalidateFails, CacheTypes, Pending
  <2>3. CacheTypes'
    BY <1>6, <2>0 DEF Invalidate, InvalidateFails, CacheTypes, Pending
  <2>4. \A d \in Event : Current(d)' = Current(d)
    BY <2>1 DEF Current, ActiveOf, tableVars
  <2>5. \A d \in Event \ {e} : Excused(d) => Excused(d)'
    <3>1. \A b \in Admin \ {a} : pc'[b] = pc[b] /\ target'[b] = target[b]
      BY <1>6 DEF Invalidate, InvalidateFails, Answered, Go
    <3> QED BY <2>0, <2>1, <3>1 DEF Excused, Removing
  <2>6. ASSUME NEW d \in Event, NEW s \in Schema, <<d, s>> \in fills \/ s \in cache'[d]
        PROVE  Excused(d)' \/ s \in Current(d)'
    <3>1. CASE d = e BY <2>2, <2>6, <3>1 DEF Excused, Pending, NoSchema
    <3>2. CASE d # e BY <2>1, <2>4, <2>5, <2>6, <3>2 DEF EntriesFollow
    <3> QED BY <3>1, <3>2
  <2> QED BY <1>0, <2>1, <2>3, <2>6 DEF EntriesFollow
<1>7. ASSUME NEW r \in Report,
             (\E e \in Event : CacheMiss(r, e)) \/ LoadSchemaError(r)
      PROVE  CacheInv'
  <2>1. UNCHANGED <<tableVars, row, adminVars, cache, fills, raced>>
    BY <1>7 DEF CacheMiss, LoadSchemaError
  <2>2. rpc' \in [Report -> Event \cup {"idle"}]
    BY <1>7 DEF CacheMiss, LoadSchemaError, CacheTypes
  <2>3. EntriesFollow'
    BY <2>1 DEF EntriesFollow, Current, ActiveOf, Excused, Removing, tableVars, adminVars
  <2> QED BY <1>0, <2>1, <2>2, <2>3 DEF CacheTypes
<1>8. ASSUME NEW r \in Report, LoadSchema(r) PROVE CacheInv'
  <2> DEFINE e == rpc[r]
  <2>0. e \in Event BY <1>8 DEF LoadSchema, CacheTypes
  <2>1. UNCHANGED <<tableVars, row, adminVars, cache, raced>> BY <1>8 DEF LoadSchema
  <2>2. fills' = fills \cup {<<e, s>> : s \in Current(e)}
    BY <1>8 DEF LoadSchema, Current
  <2>3. Current(e) \subseteq Schema BY DEF Current, ActiveOf, Schema
  <2>4. CacheTypes' BY <1>8, <2>0, <2>1, <2>2, <2>3 DEF LoadSchema, CacheTypes
  <2>5. \A d \in Event : Current(d)' = Current(d) /\ (Excused(d)' <=> Excused(d))
    BY <2>1 DEF Current, ActiveOf, Excused, Removing, tableVars, adminVars
  <2>6. EntriesFollow' BY <2>0, <2>1, <2>2, <2>5 DEF EntriesFollow
  <2> QED BY <1>0, <2>4, <2>6
<1>9. ASSUME NEW f \in fills, Fill(f) \/ FillFails(f) PROVE CacheInv'
  <2>0. f \in Event \X Schema /\ f = <<f[1], f[2]>> BY DEF CacheTypes
  <2>1. /\ UNCHANGED <<tableVars, row, adminVars, rpc, raced>>
        /\ fills' \subseteq fills
    BY <1>9 DEF Fill, FillFails
  <2>2. \A d \in Event : Current(d)' = Current(d) /\ (Excused(d)' <=> Excused(d))
    BY <2>1 DEF Current, ActiveOf, Excused, Removing, tableVars, adminVars
  <2>3. \A d \in Event : cache'[d] = cache[d] \/ (d = f[1] /\ cache'[d] = {f[2]})
    BY <1>9, <2>0 DEF Fill, FillFails, CacheTypes
  <2>4. CacheTypes' BY <1>9, <2>0, <2>1 DEF Fill, FillFails, CacheTypes
  <2>5. EntriesFollow' BY <2>0, <2>1, <2>2, <2>3 DEF EntriesFollow
  <2> QED BY <1>0, <2>4, <2>5
<1>10. CASE Restart
  <2>1. CacheTypes' BY <1>10 DEF Restart, CacheTypes, NoSchema
  <2>2. EntriesFollow' BY <1>10 DEF Restart, EntriesFollow, NoSchema
  <2> QED BY <1>0, <2>1, <2>2
<1>11. CASE UNCHANGED vars
  <2>1. KeepsExcuses /\ UNCHANGED <<tableVars, cache, rpc>> /\ fills' \subseteq fills
    BY <1>11 DEF vars, KeepsExcuses, tableVars
  <2> QED BY <1>0, <2>1, UncommittedEntries
<1> QED BY <1>1, <1>2, <1>3, <1>4, <1>5, <1>6, <1>7, <1>8, <1>9, <1>10, <1>11 DEF Next

\* However many requests, lookups and spawned writes overlap: an entry that is not the
\* schema of the Active template has a request about to remove it, or a removal that
\* failed or met a pending write.
THEOREM CacheIsCurrent == Spec => []CacheFollows
<1>1. ASSUME CacheInv PROVE CacheFollows
  <2> SUFFICES ASSUME NEW e \in Event, cache[e] # NoSchema, ~Excused(e)
               PROVE  cache[e] = Current(e)
    BY DEF CacheFollows, Current, Excused, Removing
  <2>1. PICK s \in Schema : cache[e] = {s} BY <1>1 DEF CacheInv, CacheTypes
  <2>2. s \in Current(e) BY <1>1, <2>1 DEF CacheInv, EntriesFollow
  <2>3. \A x, y \in ActiveOf(e) : x = y
    BY <1>1 DEF CacheInv, TemplatesInv, UniqueActive, ActiveOf, Siblings
  <2> QED BY <2>1, <2>2, <2>3 DEF Current
<1> QED BY <1>1, CacheInit, CacheStep, PTL DEF Spec
=============================================================================
