--------------------------- MODULE SchemaTemplates ---------------------------
(***************************************************************************)
(* Validation templates of one product and the schema cache in front of    *)
(* them: the admin handlers that create, edit, activate and delete a       *)
(* template, and the lookup a property or event report makes.              *)
(*                                                                         *)
(* A template belongs to an event ("property" is one).  The repository's   *)
(* transactions are READ COMMITTED; SELECT ... FOR UPDATE and UPDATE hold  *)
(* a row until the transaction ends.  The schema of a template is          *)
(* represented by the number of its edits; Draft and Inactive, which the   *)
(* code never tells apart, are one status.                                 *)
(***************************************************************************)
EXTENDS Naturals, FiniteSets

CONSTANTS Template,   \* templates that may be created
          Event,      \* event identifiers
          EventOf,    \* the event each template belongs to
          Admin,      \* slots for admin requests
          Report,     \* slots for reports of devices
          None,       \* the holder of a free row, the template of no request
          MaxEdit,    \* bound: no more edits once a schema has this many
          MaxFill     \* bound: spawned cache writes that are pending

ASSUME TemplatesAssumption ==
    /\ MaxEdit \in Nat /\ MaxFill \in Nat
    /\ None \notin Admin \cup Template
    /\ EventOf \in [Template -> Event]

Status == {"Inactive", "Active"}
Schema == Template \X (0..MaxEdit)
NoSchema == {}

VARIABLES status,    \* status[x]: of the row, "absent" before creation, "deleted" after
          version,   \* version[x]: edits of the schema
          row,       \* row[x]: transaction that holds the row
          pc, target, to,  \* an admin request: next step, template, requested status
          todo, demoted,   \* its UPDATE of the others: rows to visit, rows demoted
          cache,     \* cache[e]: NoSchema, or the singleton of a schema
          fills,     \* spawned cache.set calls: <<event, schema>>
          rpc,       \* a report: "idle", or the event it found no cache entry for
          raced      \* raced[e]: the last removal of the entry was not effective

tableVars == <<status, version>>
adminVars == <<pc, target, to, todo, demoted>>
cacheVars == <<cache, fills, rpc, raced>>
vars == <<status, version, row, pc, target, to, todo, demoted, cache, fills, rpc, raced>>

AdminPc == {"idle", "demote", "promote", "commit", "commit_edit", "invalidate"}

TypeOK ==
    /\ status \in [Template -> Status \cup {"absent", "deleted"}]
    /\ version \in [Template -> 0..MaxEdit]
    /\ row \in [Template -> Admin \cup {None}]
    /\ pc \in [Admin -> AdminPc]
    /\ target \in [Admin -> Template \cup {None}]
    /\ to \in [Admin -> Status]
    /\ todo \in [Admin -> SUBSET Template] /\ demoted \in [Admin -> SUBSET Template]
    /\ cache \in [Event -> {NoSchema} \cup {{s} : s \in Schema}]
    /\ fills \in SUBSET (Event \X Schema)
    /\ rpc \in [Report -> Event \cup {"idle"}]
    /\ raced \in [Event -> BOOLEAN]

Init ==
    /\ status = [x \in Template |-> "absent"]
    /\ version = [x \in Template |-> 0]
    /\ row = [x \in Template |-> None]
    /\ pc = [a \in Admin |-> "idle"]
    /\ target = [a \in Admin |-> None]
    /\ to = [a \in Admin |-> "Inactive"]
    /\ todo = [a \in Admin |-> {}] /\ demoted = [a \in Admin |-> {}]
    /\ cache = [e \in Event |-> NoSchema]
    /\ fills = {}
    /\ rpc = [r \in Report |-> "idle"]
    /\ raced = [e \in Event |-> FALSE]

Exists(x) == status[x] \in Status
SiblingsOfProduct(x) == Template \ {x}  \* mutant: the event is not compared
Siblings(x) == {y \in Template \ {x} : EventOf[y] = EventOf[x]}
ActiveOf(e) == {x \in Template : EventOf[x] = e /\ status[x] = "Active"}

Go(a, l) == pc' = [pc EXCEPT ![a] = l]

\* The transaction ends and its rows are free.
Release(a) == row' = [x \in Template |-> IF row[x] = a THEN None ELSE row[x]]

\* Statements and answers of a request end with it.
Forget(a) ==
    /\ todo' = [todo EXCEPT ![a] = {}]
    /\ demoted' = [demoted EXCEPT ![a] = {}]
    /\ to' = [to EXCEPT ![a] = "Inactive"]

Committed(a) ==
    /\ Go(a, "invalidate")
    /\ Forget(a)
    /\ UNCHANGED target

Answered(a) ==
    /\ Go(a, "idle")
    /\ target' = [target EXCEPT ![a] = None]

-----------------------------------------------------------------------------
(***************************************************************************)
(* Admin requests.                                                         *)
(***************************************************************************)

\* create_event_valid_template: not Active, so no cache entry can stand for it.
CreateTemplate(x) ==
    /\ status[x] = "absent"
    /\ status' = [status EXCEPT ![x] = "Inactive"]
    /\ UNCHANGED <<version, row, adminVars, cacheVars>>

\* The three handlers first read the template for its event, which never changes;
\* a request that waits for the row is not distinguished from one to come.

\* update_event_valid_template_status: SELECT ... FOR UPDATE.
UpdateStatus(a, x, s) ==
    /\ pc[a] = "idle"
    /\ row[x] = None /\ Exists(x)
    /\ row' = [row EXCEPT ![x] = a]
    /\ target' = [target EXCEPT ![a] = x]
    /\ to' = [to EXCEPT ![a] = s]
    /\ Go(a, IF s = "Active" THEN "demote" ELSE "commit")
    /\ UNCHANGED <<tableVars, todo, demoted, cacheVars>>

\* UPDATE ... SET status = Inactive WHERE status = Active AND event = ... AND id != ...
StartDemote(a) ==
    /\ pc[a] = "demote" /\ todo[a] = {} /\ demoted[a] = {}
    /\ LET others == {y \in Siblings(target[a]) : status[y] = "Active"} IN
         /\ todo' = [todo EXCEPT ![a] = others]
         /\ Go(a, IF others = {} THEN "promote" ELSE "demote")
    /\ UNCHANGED <<tableVars, row, target, to, demoted, cacheVars>>

\* A row is waited for, and then looked at again.
DemoteRow(a, y) ==
    /\ pc[a] = "demote" /\ y \in todo[a]
    /\ row[y] = None
    /\ todo' = [todo EXCEPT ![a] = @ \ {y}]
    /\ IF status[y] = "Active"
         THEN /\ row' = [row EXCEPT ![y] = a]
              /\ demoted' = [demoted EXCEPT ![a] = @ \cup {y}]
         ELSE UNCHANGED <<row, demoted>>
    /\ Go(a, IF todo[a] = {y} THEN "promote" ELSE "demote")
    /\ UNCHANGED <<tableVars, target, to, cacheVars>>

\* UPDATE ... SET status = Active: the partial unique index waits for another
\* transaction that made a template of the event Active, and refuses a second one.
PromoteUnindexed(a) ==  \* mutant: no unique index
    /\ pc[a] = "promote"
    /\ Go(a, "commit")
    /\ UNCHANGED <<tableVars, row, target, to, todo, demoted, cacheVars>>

Promote(a) ==
    /\ pc[a] = "promote"
    /\ \A b \in Admin \ {a} :
         ~(pc[b] = "commit" /\ to[b] = "Active" /\ target[b] \in Siblings(target[a]))
    /\ \A y \in Siblings(target[a]) : status[y] = "Active" => y \in demoted[a]
    /\ Go(a, "commit")
    /\ UNCHANGED <<tableVars, row, target, to, todo, demoted, cacheVars>>

CommitStatus(a) ==
    /\ pc[a] = "commit"
    /\ status' = [x \in Template |-> IF x = target[a] THEN to[a]
                                     ELSE IF x \in demoted[a] THEN "Inactive"
                                     ELSE status[x]]
    /\ Release(a)
    /\ Committed(a)
    /\ UNCHANGED <<version, cacheVars>>

\* update_event_valid_template: the schema of an Active template is refused.
UpdateSchemaUnlocked(a, x) ==  \* mutant: the row is read, not locked
    /\ pc[a] = "idle"
    /\ Exists(x) /\ status[x] # "Active"
    /\ target' = [target EXCEPT ![a] = x]
    /\ Go(a, "commit_edit")
    /\ UNCHANGED <<tableVars, row, to, todo, demoted, cacheVars>>

UpdateSchema(a, x) ==
    /\ pc[a] = "idle"
    /\ row[x] = None /\ Exists(x) /\ status[x] # "Active"
    /\ row' = [row EXCEPT ![x] = a]
    /\ target' = [target EXCEPT ![a] = x]
    /\ Go(a, "commit_edit")
    /\ UNCHANGED <<tableVars, to, todo, demoted, cacheVars>>

CommitEdit(a) ==
    /\ pc[a] = "commit_edit"
    /\ \A x \in Template : version[x] < MaxEdit
    /\ version' = [version EXCEPT ![target[a]] = @ + 1]
    /\ Release(a)
    /\ Committed(a)
    /\ UNCHANGED <<status, cacheVars>>

\* delete_event_valid_template: one statement, which may hit an Active template.
DeleteTemplate(a, x) ==
    /\ pc[a] = "idle"
    /\ row[x] = None /\ Exists(x)
    /\ status' = [status EXCEPT ![x] = "deleted"]
    /\ target' = [target EXCEPT ![a] = x]
    /\ Go(a, "invalidate")
    /\ UNCHANGED <<version, row, to, todo, demoted, cacheVars>>

\* 400, 404 or 500: the transaction is rolled back.
Refuse(a) ==
    /\ pc[a] \notin {"idle", "invalidate"}
    /\ Release(a)
    /\ Answered(a)
    /\ Forget(a)
    /\ UNCHANGED <<tableVars, cacheVars>>

\* cache._remove, after the commit.  A fill that was spawned before it may still
\* put the old schema back.
Pending(e) == \E s \in Schema : <<e, s>> \in fills

InvalidateProperty(a) ==  \* mutant: only the cache key of property templates is removed
    LET e == EventOf[target[a]] IN
    /\ pc[a] = "invalidate"
    /\ cache' = IF e = "property" THEN [cache EXCEPT ![e] = NoSchema] ELSE cache
    /\ raced' = [raced EXCEPT ![e] = Pending(e)]
    /\ Answered(a)
    /\ UNCHANGED <<tableVars, row, to, todo, demoted, fills, rpc>>

Invalidate(a) ==
    LET e == EventOf[target[a]] IN
    /\ pc[a] = "invalidate"
    /\ cache' = [cache EXCEPT ![e] = NoSchema]
    /\ raced' = [raced EXCEPT ![e] = Pending(e)]
    /\ Answered(a)
    /\ UNCHANGED <<tableVars, row, to, todo, demoted, fills, rpc>>

\* Redis fails, which is only logged, or the request is dropped after its commit.
InvalidateFails(a) ==
    /\ pc[a] = "invalidate"
    /\ raced' = [raced EXCEPT ![EventOf[target[a]]] = TRUE]
    /\ Answered(a)
    /\ UNCHANGED <<tableVars, row, to, todo, demoted, cache, fills, rpc>>

-----------------------------------------------------------------------------
(***************************************************************************)
(* Reports.  A hit changes nothing: the report is judged by the entry.     *)
(***************************************************************************)

CacheMiss(r, e) ==
    /\ rpc[r] = "idle"
    /\ cache[e] = NoSchema
    /\ rpc' = [rpc EXCEPT ![r] = e]
    /\ UNCHANGED <<tableVars, row, adminVars, cache, fills, raced>>

\* get_property_schema, get_event_valid_template: the Active one, and a task that
\* caches its schema; without one the report is accepted and nothing is cached.
LoadSchema(r) ==
    LET e == rpc[r] IN
    /\ e # "idle"
    /\ Cardinality(fills) < MaxFill
    /\ fills' = fills \cup {<<e, <<x, version[x]>>>> : x \in ActiveOf(e)}
    /\ rpc' = [rpc EXCEPT ![r] = "idle"]
    /\ UNCHANGED <<tableVars, row, adminVars, cache, raced>>

LoadSchemaError(r) ==
    /\ rpc[r] # "idle"
    /\ rpc' = [rpc EXCEPT ![r] = "idle"]
    /\ UNCHANGED <<tableVars, row, adminVars, cache, fills, raced>>

\* The spawned cache.set.
Fill(f) ==
    /\ f \in fills
    /\ fills' = fills \ {f}
    /\ cache' = [cache EXCEPT ![f[1]] = {f[2]}]
    /\ UNCHANGED <<tableVars, row, adminVars, rpc, raced>>

\* The cache cannot be written.
FillFails(f) ==
    /\ f \in fills
    /\ fills' = fills \ {f}
    /\ UNCHANGED <<tableVars, row, adminVars, cache, rpc, raced>>

\* The backend restarts with an empty in-memory cache; its requests and spawned
\* tasks are gone, and the database rolls back what was open.
Restart ==
    /\ row' = [x \in Template |-> None]
    /\ pc' = [a \in Admin |-> "idle"]
    /\ target' = [a \in Admin |-> None]
    /\ to' = [a \in Admin |-> "Inactive"]
    /\ todo' = [a \in Admin |-> {}] /\ demoted' = [a \in Admin |-> {}]
    /\ cache' = [e \in Event |-> NoSchema]
    /\ fills' = {}
    /\ rpc' = [r \in Report |-> "idle"]
    /\ raced' = [e \in Event |-> FALSE]
    /\ UNCHANGED tableVars

-----------------------------------------------------------------------------
Next ==
    \/ \E x \in Template : CreateTemplate(x)
    \/ \E a \in Admin :
         \/ \E x \in Template : \/ \E s \in Status : UpdateStatus(a, x, s)
                                \/ UpdateSchema(a, x) \/ DeleteTemplate(a, x)
         \/ StartDemote(a) \/ \E y \in Template : DemoteRow(a, y)
         \/ Promote(a) \/ CommitStatus(a) \/ CommitEdit(a)
         \/ Refuse(a) \/ Invalidate(a) \/ InvalidateFails(a)
    \/ \E r \in Report : (\E e \in Event : CacheMiss(r, e)) \/ LoadSchema(r) \/ LoadSchemaError(r)
    \/ \E f \in fills : Fill(f) \/ FillFails(f)
    \/ Restart

Spec == Init /\ [][Next]_vars

-----------------------------------------------------------------------------
(***************************************************************************)
(* Properties.                                                             *)
(***************************************************************************)

\* Two activations of the same event that overlap end with one Active template,
\* so the schema reports are judged by is unique.
OneActive == \A e \in Event : Cardinality(ActiveOf(e)) \leq 1

\* The schema of a template never changes while it is Active, although edits and
\* activations of one template overlap: an edit decided on a status it read.
ActiveFrozen ==
    [][\A x \in Template :
         status[x] = "Active" => version'[x] = version[x]]_vars

\* Once an event is validated it stays validated: activating a template, of this
\* event or of another one, never leaves a committed state in which the event has
\* none.  Only its own template's deactivation or deletion does.
SwitchIsAtomic ==
    [][\A e \in Event, x \in Template :
         ActiveOf(e) = {x} /\ ActiveOf(e)' = {} =>
             \/ status'[x] = "deleted"
             \/ \E a \in Admin : CommitStatus(a) /\ target[a] = x /\ to[a] = "Inactive"]_vars

\* The cache entry is the schema of the Active template, but for an admin request
\* that has committed and not yet removed the entry, and for a removal that failed
\* or that a spawned fill may have overtaken.
CacheFollows ==
    \A e \in Event :
        cache[e] # NoSchema /\ cache[e] # {<<x, version[x]>> : x \in ActiveOf(e)} =>
            \/ raced[e]
            \/ \E a \in Admin : pc[a] = "invalidate" /\ EventOf[target[a]] = e
=============================================================================
