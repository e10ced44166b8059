--------------------------- MODULE FactoryMetadata ---------------------------
(***************************************************************************)
(* Factory metadata: the production line's upserts of component and device *)
(* metadata with their change log, the full replacement of a device's      *)
(* component associations, and the merged view that administrators and     *)
(* devices read (FactoryMetadataRepo and its handlers).                    *)
(*                                                                         *)
(* Every write is a READ COMMITTED transaction; its statements interleave  *)
(* with those of others, and what it wrote is seen by others only after    *)
(* COMMIT.  CURRENT_TIMESTAMP is the time of BEGIN.  A snapshot of a       *)
(* metadata row (type, metadata, attachments, updated_at) is represented   *)
(* by its updated_at, and no two transactions begin at the same time.      *)
(***************************************************************************)
EXTENDS Naturals, Sequences, FiniteSets

CONSTANTS Sn,         \* serial numbers, of devices and of components alike
          Dev,        \* the device whose associations and view are modelled
          Component,  \* component serial numbers it may be associated with
          Writer,     \* slots for factory requests
          Reader,     \* slots for view requests
          NoWriter,   \* the holder of a free lock
          MaxTx       \* bound: transactions ever begun

ASSUME FactoryAssumption == MaxTx \in Nat /\ NoWriter \notin Writer /\ Dev \in Sn

Table == {"component", "device"}
Key   == Table \X Sn

VARIABLES row,      \* row[k]: updated_at of the committed row, 0 if there is none
          first,    \* first[k]: updated_at with which the row was created
          log,      \* log[s]: committed change log rows of the SN, by id
          assoc,    \* components Dev is associated with (committed)
          clock,    \* transactions begun so far
          snLock,   \* snLock[s]: holder of pg_advisory_xact_lock for the SN
          rowLock,  \* rowLock[c]: transaction that deleted or upserted the association
          pc, began, key, before,  \* an upsert: BEGIN time, row, before-snapshot
          list, todo,              \* a replacement: requested components, work left
          rpc, hadDevice           \* a view request; its device had metadata before

tableVars == <<row, first, log, assoc>>
lockVars  == <<snLock, rowLock>>
writeVars == <<pc, began, key, before, list, todo>>
readVars  == <<rpc, hadDevice>>
vars == <<row, first, log, assoc, clock, snLock, rowLock, pc, began, key, before,
          list, todo, rpc, hadDevice>>

UpsertPc  == {"lock", "read", "upsert", "log", "commit"}
ReplacePc == {"delete", "deleting", "inserting", "commit_list"}
ReadPc    == {"idle", "view", "exists", "content", "not_found", "full", "bare"}
Version   == 0..MaxTx
Entry     == [table : Table, before : 1..MaxTx, after : 1..MaxTx]  \* overwrites only

TypeOK ==
    /\ row \in [Key -> Version] /\ first \in [Key -> Version]
    /\ log \in [Sn -> Seq(Entry)]
    /\ assoc \in SUBSET Component
    /\ clock \in Version
    /\ snLock \in [Sn -> Writer \cup {NoWriter}]
    /\ rowLock \in [Component -> Writer \cup {NoWriter}]
    /\ pc \in [Writer -> {"idle"} \cup UpsertPc \cup ReplacePc]
    /\ began \in [Writer -> Version] /\ before \in [Writer -> Version]
    /\ key \in [Writer -> Key]
    /\ list \in [Writer -> SUBSET Component] /\ todo \in [Writer -> SUBSET Component]
    /\ rpc \in [Reader -> ReadPc]
    /\ hadDevice \in [Reader -> BOOLEAN]

Init ==
    /\ row = [k \in Key |-> 0] /\ first = row
    /\ log = [s \in Sn |-> <<>>]
    /\ assoc = {}
    /\ clock = 0
    /\ snLock = [s \in Sn |-> NoWriter]
    /\ rowLock = [c \in Component |-> NoWriter]
    /\ pc = [w \in Writer |-> "idle"]
    /\ began = [w \in Writer |-> 0] /\ before = [w \in Writer |-> 0]
    /\ key = [w \in Writer |-> <<"device", Dev>>]
    /\ list = [w \in Writer |-> {}] /\ todo = [w \in Writer |-> {}]
    /\ rpc = [r \in Reader |-> "idle"]
    /\ hadDevice = [r \in Reader |-> FALSE]

Go(w, l) == pc' = [pc EXCEPT ![w] = l]

\* BEGIN: the transaction's CURRENT_TIMESTAMP is fixed before it holds any lock.
Begin(w, l) ==
    /\ pc[w] = "idle"
    /\ clock < MaxTx
    /\ clock' = clock + 1
    /\ began' = [began EXCEPT ![w] = clock + 1]
    /\ Go(w, l)

-----------------------------------------------------------------------------
(***************************************************************************)
(* upsert_component and upsert_device_metadata.                            *)
(***************************************************************************)

\* The handlers refuse malformed identifiers and attachments before BEGIN.
BeginUpsert(w, k) ==
    /\ Begin(w, "lock")
    /\ key' = [key EXCEPT ![w] = k]
    /\ UNCHANGED <<tableVars, lockVars, before, list, todo, readVars>>

\* lock_metadata_sn: both tables share the lock of the SN.
LockPerTable(w) ==  \* mutant: no lock, the row is thought to be enough
    /\ pc[w] = "lock"
    /\ Go(w, "read")
    /\ UNCHANGED <<tableVars, clock, lockVars, began, key, before, list, todo, readVars>>

LockMetadataSn(w) ==
    /\ pc[w] = "lock"
    /\ snLock[key[w][2]] = NoWriter
    /\ snLock' = [snLock EXCEPT ![key[w][2]] = w]
    /\ Go(w, "read")
    /\ UNCHANGED <<tableVars, clock, rowLock, began, key, before, list, todo, readVars>>

\* The before-snapshot.
ReadBefore(w) ==
    /\ pc[w] = "read"
    /\ before' = [before EXCEPT ![w] = row[key[w]]]
    /\ Go(w, "upsert")
    /\ UNCHANGED <<tableVars, clock, lockVars, began, key, list, todo, readVars>>

\* INSERT ... ON CONFLICT DO UPDATE, not visible yet; only an overwrite is logged.
Upsert(w) ==
    /\ pc[w] = "upsert"
    /\ Go(w, IF before[w] = 0 THEN "commit" ELSE "log")
    /\ UNCHANGED <<tableVars, clock, lockVars, began, key, before, list, todo, readVars>>

\* append_change_log: its row becomes visible with the transaction.
AppendChangeLog(w) ==
    /\ pc[w] = "log"
    /\ Go(w, "commit")
    /\ UNCHANGED <<tableVars, clock, lockVars, began, key, before, list, todo, readVars>>

Release(w) ==
    /\ snLock' = [s \in Sn |-> IF snLock[s] = w THEN NoWriter ELSE snLock[s]]
    /\ rowLock' = [c \in Component |-> IF rowLock[c] = w THEN NoWriter ELSE rowLock[c]]

\* The transaction ends, its locks and the locals of the request with it; a
\* DELETE that waited for the rows in gone finds them deleted and skips them.
End(w, gone) ==
    /\ Go(w, "idle")
    /\ Release(w)
    /\ before' = [before EXCEPT ![w] = 0]
    /\ list' = [list EXCEPT ![w] = {}]
    /\ todo' = [v \in Writer |-> IF v = w THEN {}
                                ELSE IF pc[v] = "deleting" THEN todo[v] \ gone
                                ELSE todo[v]]
    /\ UNCHANGED <<clock, began, key, readVars>>

CommitUpsert(w) ==
    /\ pc[w] = "commit"
    /\ LET k == key[w] IN
         /\ row' = [row EXCEPT ![k] = began[w]]
         /\ IF before[w] = 0
              THEN first' = [first EXCEPT ![k] = began[w]] /\ UNCHANGED log
              ELSE /\ log' = [log EXCEPT ![k[2]] =
                                Append(@, [table |-> k[1], before |-> before[w],
                                           after |-> began[w]])]
                   /\ UNCHANGED first
    /\ End(w, {})
    /\ UNCHANGED assoc

-----------------------------------------------------------------------------
(***************************************************************************)
(* replace_associations of one device.                                     *)
(***************************************************************************)

BeginReplace(w, S) ==
    /\ Begin(w, "delete")
    /\ list' = [list EXCEPT ![w] = S]
    /\ UNCHANGED <<tableVars, lockVars, key, before, todo, readVars>>

\* DELETE ... NOT IN: the statement sees the rows committed when it starts.
StartDelete(w) ==
    /\ pc[w] = "delete"
    /\ todo' = [todo EXCEPT ![w] = assoc \ list[w]]
    /\ Go(w, "deleting")
    /\ UNCHANGED <<tableVars, clock, lockVars, began, key, before, list, readVars>>

\* Row by row, it waits for whoever holds the row.
DeleteRow(w, c) ==
    /\ pc[w] = "deleting"
    /\ c \in todo[w]
    /\ rowLock[c] = NoWriter
    /\ rowLock' = [rowLock EXCEPT ![c] = w]
    /\ todo' = [todo EXCEPT ![w] = @ \ {c}]
    /\ UNCHANGED <<tableVars, clock, snLock, pc, began, key, before, list, readVars>>

StartInsert(w) ==
    /\ pc[w] = "deleting"
    /\ todo[w] = {}
    /\ todo' = [todo EXCEPT ![w] = list[w]]
    /\ Go(w, IF list[w] = {} THEN "commit_list" ELSE "inserting")
    /\ UNCHANGED <<tableVars, clock, lockVars, began, key, before, list, readVars>>

\* One upsert per item; it waits for whoever holds the row.
InsertRow(w, c) ==
    /\ pc[w] = "inserting"
    /\ c \in todo[w]
    /\ rowLock[c] = NoWriter
    /\ rowLock' = [rowLock EXCEPT ![c] = w]
    /\ todo' = [todo EXCEPT ![w] = @ \ {c}]
    /\ Go(w, IF todo[w] = {c} THEN "commit_list" ELSE "inserting")
    /\ UNCHANGED <<tableVars, clock, snLock, began, key, before, list, readVars>>

\* What the transaction deleted: the rows it holds and did not insert.
Deleted(w) == {c \in Component : rowLock[c] = w} \ list[w]

CommitReplace(w) ==
    /\ pc[w] = "commit_list"
    /\ assoc' = (assoc \ Deleted(w)) \cup list[w]
    /\ End(w, Deleted(w))
    /\ UNCHANGED <<row, first, log>>

-----------------------------------------------------------------------------
\* A statement fails, the server breaks a deadlock, or the request is dropped:
\* ROLLBACK.  Advisory locks of the transaction go with it.
AbortKeepsSnLock(w) ==  \* mutant: pg_advisory_lock, which a session keeps
    /\ pc[w] # "idle"
    /\ Go(w, "idle")
    /\ rowLock' = [c \in Component |-> IF rowLock[c] = w THEN NoWriter ELSE rowLock[c]]
    /\ before' = [before EXCEPT ![w] = 0]
    /\ list' = [list EXCEPT ![w] = {}]
    /\ todo' = [todo EXCEPT ![w] = {}]
    /\ UNCHANGED <<tableVars, clock, snLock, began, key, readVars>>

Abort(w) ==
    /\ pc[w] # "idle"
    /\ End(w, {})
    /\ UNCHANGED tableVars

-----------------------------------------------------------------------------
(***************************************************************************)
(* get_factory_device_view_handler and factory_metadata_get_handler for    *)
(* Dev: three statements outside any transaction.                          *)
(***************************************************************************)

StartView(r) ==
    /\ rpc[r] = "idle"
    /\ rpc' = [rpc EXCEPT ![r] = "view"]
    /\ hadDevice' = [hadDevice EXCEPT ![r] = row[<<"device", Dev>>] # 0]
    /\ UNCHANGED <<tableVars, clock, lockVars, writeVars>>

View(r, l) == /\ rpc' = [rpc EXCEPT ![r] = l]
              /\ UNCHANGED <<tableVars, clock, lockVars, writeVars, hadDevice>>

\* get_device_view: the associations, left-joined with component metadata.
ReadAssociationsOnly(r) ==  \* mutant: no associations, not found
    rpc[r] = "view" /\ View(r, IF assoc = {} THEN "not_found" ELSE "content")

ReadAssociations(r) ==
    rpc[r] = "view" /\ View(r, IF assoc = {} THEN "exists" ELSE "content")

ReadExists(r) ==
    /\ rpc[r] = "exists"
    /\ View(r, IF row[<<"device", Dev>>] # 0 THEN "content" ELSE "not_found")

\* get_device_metadata: the answer carries the device row if there is one now.
ReadContent(r) ==
    /\ rpc[r] = "content"
    /\ View(r, IF row[<<"device", Dev>>] # 0 THEN "full" ELSE "bare")

\* 200, 404 (a reply without data, for the device) or an error.
EndView(r) ==
    /\ rpc[r] # "idle"
    /\ rpc' = [rpc EXCEPT ![r] = "idle"]
    /\ hadDevice' = [hadDevice EXCEPT ![r] = FALSE]
    /\ UNCHANGED <<tableVars, clock, lockVars, writeVars>>

-----------------------------------------------------------------------------
TxStep(w) ==
    \/ LockMetadataSn(w) \/ ReadBefore(w) \/ Upsert(w) \/ AppendChangeLog(w)
    \/ CommitUpsert(w)
    \/ StartDelete(w) \/ StartInsert(w) \/ CommitReplace(w)
    \/ \E c \in Component : DeleteRow(w, c) \/ InsertRow(w, c)

Next ==
    \/ \E w \in Writer :
         \/ \E k \in Key : BeginUpsert(w, k)
         \/ \E S \in SUBSET Component : BeginReplace(w, S)
         \/ TxStep(w) \/ Abort(w)
    \/ \E r \in Reader :
         \/ StartView(r) \/ ReadAssociations(r) \/ ReadExists(r) \/ ReadContent(r)
         \/ EndView(r)

Spec == Init /\ [][Next]_vars

\* Transactions that wait for each other's rows.
Deadlocked(D) ==
    /\ D # {}
    /\ \A w \in D : /\ pc[w] \in {"deleting", "inserting"}
                    /\ todo[w] # {}
                    /\ \A c \in todo[w] : rowLock[c] \in D \ {w}

\* The database goes on with every transaction that can go on, and its deadlock
\* detector ends one of those that cannot.
Fairness ==
    /\ \A w \in Writer : WF_vars(TxStep(w))
    /\ \A D \in SUBSET Writer : WF_vars(Deadlocked(D) /\ \E w \in D : Abort(w))

FairSpec == Spec /\ Fairness

-----------------------------------------------------------------------------
(***************************************************************************)
(* Properties.                                                             *)
(***************************************************************************)

\* The change log rows of one row of one table, by id.
LogOf(k) == {i \in 1..Len(log[k[2]]) : log[k[2]][i].table = k[1]}

\* No overwrite is missed, logged twice or logged with a stale snapshot: the
\* change log of a row, read by id, leads step by step from the version the row
\* was created with to the version it has now, although reports of one SN
\* overlap and component and device serial numbers may coincide.
LogReplays ==
    \A k \in Key :
        LET ids == LogOf(k)
            e   == log[k[2]]
        IN  /\ ids = {} => row[k] = first[k]
            /\ \A i \in ids :
                 /\ (\A j \in ids : i <= j) => e[i].before = first[k]
                 /\ (\A j \in ids : j <= i) => e[i].after = row[k]
                 /\ \A h \in ids : h < i /\ (\A j \in ids : j <= h \/ i <= j) =>
                       e[i].before = e[h].after

\* A device whose own metadata was stored before the request began is never
\* answered "not found" nor without them, whatever happens to its associations
\* between the three reads.
ViewComplete ==
    \A r \in Reader : hadDevice[r] => rpc[r] \notin {"not_found", "bare"}

\* Every factory request ends: neither the SN lock nor the row locks of two
\* replacements that meet in opposite order block one for ever.
WritesEnd == \A w \in Writer : pc[w] # "idle" ~> pc[w] = "idle"
=============================================================================
