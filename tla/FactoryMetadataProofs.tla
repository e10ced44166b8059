------------------------- MODULE FactoryMetadataProofs -------------------------
(***************************************************************************)
(* Proofs about FactoryMetadata, for any number of serial numbers,         *)
(* requests and transactions: the advisory lock makes the change log a     *)
(* faithful history of every row, and a view never misses a device.        *)
(***************************************************************************)
EXTENDS FactoryMetadata, TLAPS

TableTypes ==
    /\ row \in [Key -> Version] /\ first \in [Key -> Version]
    /\ log \in [Sn -> Seq(Entry)]
    /\ assoc \in SUBSET Component
    /\ clock \in Version

LockTypes ==
    /\ snLock \in [Sn -> Writer \cup {NoWriter}]
    /\ rowLock \in [Component -> Writer \cup {NoWriter}]

WriteTypes ==
    /\ pc \in [Writer -> {"idle"} \cup UpsertPc \cup ReplacePc]
    /\ began \in [Writer -> Version] /\ before \in [Writer -> Version]
    /\ key \in [Writer -> Key]
    /\ list \in [Writer -> SUBSET Component] /\ todo \in [Writer -> SUBSET Component]

ReadTypes ==
    /\ rpc \in [Reader -> ReadPc]
    /\ hadDevice \in [Reader -> BOOLEAN]

\* A transaction under way has a time, and one that is past lock_metadata_sn holds
\* the lock of its serial number.
Begun == \A w \in Writer : pc[w] # "idle" => began[w] # 0

HoldsSn ==
    \A w \in Writer : pc[w] \in {"read", "upsert", "log", "commit"} => snLock[key[w][2]] = w

\* So what it read is still what there is, and a row that has a log exists.
BeforeHolds ==
    \A w \in Writer : pc[w] \in {"upsert", "log", "commit"} => before[w] = row[key[w]]

LoggedExists == \A k \in Key : LogOf(k) # {} => row[k] # 0

\* Metadata are never deleted, so what was there when a view began still is.
ViewSees == \A r \in Reader : hadDevice[r] = TRUE =>
                row[<<"device", Dev>>] # 0 /\ rpc[r] \notin {"not_found", "bare"}

FactoryTypes == TableTypes /\ LockTypes /\ WriteTypes /\ ReadTypes

FactoryInv ==
    /\ FactoryTypes
    /\ Begun /\ HoldsSn /\ BeforeHolds
    /\ LoggedExists /\ LogReplays
    /\ ViewSees

LEMMA Keys == \A k \in Key : k[1] \in Table /\ k[2] \in Sn /\ k = <<k[1], k[2]>>
BY DEF Key

LEMMA DevKey == <<"device", Dev>> \in Key
BY FactoryAssumption DEF Key, Table

-----------------------------------------------------------------------------
LEMMA FactoryInit == Init => FactoryInv
<1> SUFFICES ASSUME Init PROVE FactoryInv OBVIOUS
<1> USE FactoryAssumption
<1>1. TableTypes BY DEF Init, TableTypes, Version
<1>2. LockTypes BY DEF Init, LockTypes
<1>3. WriteTypes BY DevKey DEF Init, WriteTypes, Version
<1>4. ReadTypes
  <2>1. hadDevice \in [Reader -> BOOLEAN] BY Zenon DEF Init
  <2> QED BY <2>1 DEF Init, ReadTypes, ReadPc
<1>5. Begun /\ HoldsSn /\ BeforeHolds BY DEF Init, Begun, HoldsSn, BeforeHolds
<1>6. \A k \in Key : LogOf(k) = {}
  <2> TAKE k \in Key
  <2>1. log[k[2]] = <<>> BY Keys DEF Init
  <2> QED BY <2>1 DEF LogOf
<1>7. LoggedExists /\ LogReplays BY <1>6 DEF LoggedExists, LogReplays, Init
<1>8. ViewSees BY DEF Init, ViewSees
<1> QED BY <1>1, <1>2, <1>3, <1>4, <1>5, <1>7, <1>8 DEF FactoryInv, FactoryTypes

\* Steps that commit nothing to the metadata tables keep the change log as it is.
LEMMA TablesKept ==
    ASSUME LoggedExists, LogReplays, UNCHANGED <<row, first, log>>
    PROVE  LoggedExists' /\ LogReplays'
<1>1. \A k \in Key : LogOf(k)' = LogOf(k) BY DEF LogOf
<1>2. LoggedExists' BY <1>1 DEF LoggedExists
<1>3. LogReplays' BY <1>1 DEF LogReplays
<1> QED BY <1>2, <1>3

LEMMA ViewsKept ==
    ASSUME ViewSees, UNCHANGED readVars, row'[<<"device", Dev>>] = 0 => row[<<"device", Dev>>] = 0
    PROVE  ViewSees'
BY DEF ViewSees, readVars

\* A statement of transaction w: the other transactions stay where they are.
Others(w) ==
    \A v \in Writer \ {w} : /\ pc'[v] = pc[v] /\ key'[v] = key[v]
                            /\ before'[v] = before[v] /\ began'[v] = began[v]

\* A step of w that neither commits metadata nor takes the lock of another.
LEMMA StatementInv ==
    ASSUME FactoryInv, FactoryTypes', NEW w \in Writer, Others(w),
           UNCHANGED <<row, first, log, readVars>>,
           \A v \in Writer \ {w}, s \in Sn : snLock[s] = v => snLock'[s] = v,
           pc'[w] # "idle" => began'[w] # 0,
           pc'[w] \in {"read", "upsert", "log", "commit"} => snLock'[key'[w][2]] = w,
           pc'[w] \in {"upsert", "log", "commit"} => before'[w] = row[key'[w]]
    PROVE  FactoryInv'
<1>1. Begun' BY DEF FactoryInv, Begun, Others
<1>2. HoldsSn'
  <2>1. \A v \in Writer : key[v][2] \in Sn
    BY Keys DEF FactoryInv, FactoryTypes, WriteTypes
  <2> QED BY <2>1 DEF FactoryInv, HoldsSn, Others
<1>3. BeforeHolds' BY DEF FactoryInv, BeforeHolds, Others
<1>4. LoggedExists' /\ LogReplays' BY TablesKept DEF FactoryInv
<1>5. ViewSees' BY ViewsKept DEF FactoryInv
<1> QED BY <1>1, <1>2, <1>3, <1>4, <1>5 DEF FactoryInv

\* COMMIT and ROLLBACK keep the types of everything they touch.
LEMMA EndTypes ==
    ASSUME FactoryTypes, NEW w \in Writer, NEW gone, End(w, gone)
    PROVE  LockTypes' /\ WriteTypes' /\ ReadTypes' /\ clock' = clock
<1> USE FactoryAssumption
<1>1. LockTypes' BY DEF FactoryTypes, LockTypes, End, Release
<1>2. WriteTypes' BY DEF FactoryTypes, WriteTypes, End, Go, Version
<1>3. ReadTypes' BY DEF FactoryTypes, ReadTypes, End, readVars
<1> QED BY <1>1, <1>2, <1>3 DEF End

LEMMA EndInv ==
    ASSUME FactoryInv, NEW w \in Writer, NEW gone, End(w, gone)
    PROVE  /\ Others(w) /\ pc'[w] = "idle"
           /\ \A v \in Writer \ {w}, s \in Sn : snLock[s] = v => snLock'[s] = v
<1>1. Others(w) /\ pc'[w] = "idle"
  BY DEF FactoryInv, FactoryTypes, WriteTypes, Others, End, Go
<1>2. \A v \in Writer \ {w}, s \in Sn : snLock[s] = v => snLock'[s] = v
  BY DEF FactoryInv, FactoryTypes, LockTypes, End, Release
<1> QED BY <1>1, <1>2

-----------------------------------------------------------------------------
\* The statements of the two writes, one step per action.
LEMMA BeginInv ==
    ASSUME FactoryInv, NEW w \in Writer,
           (\E k \in Key : BeginUpsert(w, k)) \/ (\E S \in SUBSET Component : BeginReplace(w, S))
    PROVE  FactoryInv'
<1> USE FactoryAssumption
<1>0. FactoryTypes BY DEF FactoryInv
<1>1. Begin(w, pc'[w]) /\ pc'[w] \in {"lock", "delete"}
  BY <1>0 DEF FactoryTypes, WriteTypes, BeginUpsert, BeginReplace, Begin, Go
<1>2. UNCHANGED <<tableVars, lockVars, before, todo, readVars>>
  BY DEF BeginUpsert, BeginReplace
<1>3. clock' \in Version /\ clock' # 0
  BY <1>0, <1>1 DEF FactoryTypes, TableTypes, Begin, Version
<1>4. /\ began' = [began EXCEPT ![w] = clock']
      /\ \E l \in {"lock", "delete"} : pc' = [pc EXCEPT ![w] = l]
  BY <1>1 DEF Begin, Go
<1>5. /\ key' \in [Writer -> Key] /\ \A v \in Writer \ {w} : key'[v] = key[v]
      /\ list' \in [Writer -> SUBSET Component]
  BY <1>0 DEF FactoryTypes, WriteTypes, BeginUpsert, BeginReplace
<1>6. FactoryTypes'
  <2>1. TableTypes' BY <1>0, <1>2, <1>3 DEF FactoryTypes, TableTypes, tableVars
  <2>2. LockTypes' BY <1>0, <1>2 DEF FactoryTypes, LockTypes, lockVars
  <2>3. WriteTypes'
    BY <1>0, <1>2, <1>3, <1>4, <1>5 DEF FactoryTypes, WriteTypes, UpsertPc, ReplacePc
  <2>4. ReadTypes' BY <1>0, <1>2 DEF FactoryTypes, ReadTypes, readVars
  <2> QED BY <2>1, <2>2, <2>3, <2>4 DEF FactoryTypes
<1>7. Others(w) BY <1>0, <1>2, <1>4, <1>5 DEF FactoryTypes, WriteTypes, Others
<1>8. began'[w] # 0 BY <1>0, <1>3, <1>4 DEF FactoryTypes, WriteTypes
<1> QED BY <1>1, <1>2, <1>6, <1>7, <1>8, StatementInv DEF tableVars, lockVars

LEMMA LockInv ==
    ASSUME FactoryInv, NEW w \in Writer, LockMetadataSn(w)
    PROVE  FactoryInv'
<1> USE FactoryAssumption
<1>0. FactoryTypes BY DEF FactoryInv
<1>1. key[w] \in Key /\ key[w][2] \in Sn BY <1>0, Keys DEF FactoryTypes, WriteTypes
<1>2. FactoryTypes'
  <2>1. TableTypes' BY <1>0 DEF FactoryTypes, TableTypes, LockMetadataSn, tableVars
  <2>2. LockTypes' BY <1>0, <1>1 DEF FactoryTypes, LockTypes, LockMetadataSn
  <2>3. WriteTypes' BY <1>0 DEF FactoryTypes, WriteTypes, LockMetadataSn, Go, UpsertPc
  <2>4. ReadTypes' BY <1>0 DEF FactoryTypes, ReadTypes, LockMetadataSn, readVars
  <2> QED BY <2>1, <2>2, <2>3, <2>4 DEF FactoryTypes
<1>3. Others(w) BY <1>0 DEF FactoryTypes, WriteTypes, Others, LockMetadataSn, Go
<1>4. \A v \in Writer \ {w}, s \in Sn : snLock[s] = v => snLock'[s] = v
  BY <1>0, <1>1 DEF FactoryTypes, LockTypes, LockMetadataSn
<1>5. pc'[w] = "read" /\ snLock'[key'[w][2]] = w
  BY <1>0, <1>1 DEF FactoryTypes, WriteTypes, LockTypes, LockMetadataSn, Go
<1>6. began'[w] # 0 BY DEF FactoryInv, Begun, LockMetadataSn
<1>7. UNCHANGED <<row, first, log, readVars>> BY DEF LockMetadataSn, tableVars
<1> QED BY <1>2, <1>3, <1>4, <1>5, <1>6, <1>7, StatementInv

\* ReadBefore, Upsert and append_change_log: under the lock of the serial number.
LEMMA UnderLockInv ==
    ASSUME FactoryInv, NEW w \in Writer, ReadBefore(w) \/ Upsert(w) \/ AppendChangeLog(w)
    PROVE  FactoryInv'
<1>0. FactoryTypes BY DEF FactoryInv
<1>1. /\ UNCHANGED <<tableVars, clock, lockVars, began, key, list, todo, readVars>>
      /\ pc[w] \in {"read", "upsert", "log"}
      /\ \E l \in {"upsert", "log", "commit"} : pc' = [pc EXCEPT ![w] = l]
  BY DEF ReadBefore, Upsert, AppendChangeLog, Go
<1>2. /\ before' \in [Writer -> Version] /\ before'[w] = row[key[w]]
      /\ \A v \in Writer \ {w} : before'[v] = before[v]
  <2>1. row[key[w]] \in Version BY <1>0 DEF FactoryTypes, WriteTypes, TableTypes
  <2> QED BY <1>0, <2>1 DEF FactoryInv, BeforeHolds, FactoryTypes, WriteTypes,
        ReadBefore, Upsert, AppendChangeLog
<1>3. FactoryTypes'
  <2>1. TableTypes' BY <1>0, <1>1 DEF FactoryTypes, TableTypes, tableVars
  <2>2. LockTypes' BY <1>0, <1>1 DEF FactoryTypes, LockTypes, lockVars
  <2>3. WriteTypes' BY <1>0, <1>1, <1>2 DEF FactoryTypes, WriteTypes, UpsertPc
  <2>4. ReadTypes' BY <1>0, <1>1 DEF FactoryTypes, ReadTypes, readVars
  <2> QED BY <2>1, <2>2, <2>3, <2>4 DEF FactoryTypes
<1>4. Others(w) BY <1>0, <1>1, <1>2 DEF FactoryTypes, WriteTypes, Others
<1>5. snLock'[key'[w][2]] = w BY <1>1 DEF FactoryInv, HoldsSn, lockVars
<1>6. began'[w] # 0 BY <1>1 DEF FactoryInv, Begun
<1>7. UNCHANGED <<row, first, log, readVars, snLock, key>> BY <1>1 DEF tableVars, lockVars
<1> QED BY <1>2, <1>3, <1>4, <1>5, <1>6, <1>7, StatementInv

\* The statements of a replacement touch associations, never metadata.
LEMMA ReplaceInv ==
    ASSUME FactoryInv, NEW w \in Writer,
           \/ StartDelete(w) \/ StartInsert(w)
           \/ \E c \in Component : DeleteRow(w, c) \/ InsertRow(w, c)
    PROVE  FactoryInv'
<1>0. FactoryTypes BY DEF FactoryInv
<1>1. /\ UNCHANGED <<tableVars, clock, snLock, began, key, before, list, readVars>>
      /\ pc[w] # "idle"
      /\ \E l \in ReplacePc : pc' = [pc EXCEPT ![w] = l]
  <2>1. CASE \E c \in Component : DeleteRow(w, c)
    <3>1. pc[w] = "deleting" /\ pc' = pc BY <2>1 DEF DeleteRow
    <3>2. pc' = [pc EXCEPT ![w] = "deleting"]
      BY <1>0, <3>1 DEF FactoryTypes, WriteTypes
    <3> QED BY <2>1, <3>1, <3>2 DEF DeleteRow, ReplacePc
  <2>2. CASE StartDelete(w) \/ StartInsert(w) \/ \E c \in Component : InsertRow(w, c)
    BY <2>2 DEF StartDelete, StartInsert, InsertRow, Go, ReplacePc, lockVars
  <2> QED BY <2>1, <2>2
<1>2. rowLock' \in [Component -> Writer \cup {NoWriter}]
  BY <1>0 DEF FactoryTypes, LockTypes, StartDelete, StartInsert, DeleteRow, InsertRow, lockVars
<1>3. todo' \in [Writer -> SUBSET Component]
  BY <1>0 DEF FactoryTypes, WriteTypes, TableTypes, StartDelete, StartInsert, DeleteRow,
     InsertRow
<1>4. FactoryTypes'
  <2>1. TableTypes' BY <1>0, <1>1 DEF FactoryTypes, TableTypes, tableVars
  <2>2. LockTypes' BY <1>0, <1>1, <1>2 DEF FactoryTypes, LockTypes
  <2>3. WriteTypes' BY <1>0, <1>1, <1>3 DEF FactoryTypes, WriteTypes, ReplacePc
  <2>4. ReadTypes' BY <1>0, <1>1 DEF FactoryTypes, ReadTypes, readVars
  <2> QED BY <2>1, <2>2, <2>3, <2>4 DEF FactoryTypes
<1>5. Others(w) BY <1>0, <1>1 DEF FactoryTypes, WriteTypes, Others
<1>6. began'[w] # 0 BY <1>1 DEF FactoryInv, Begun
<1>7. UNCHANGED <<row, first, log, readVars, snLock>> BY <1>1 DEF tableVars
<1>8. pc'[w] \in ReplacePc BY <1>0, <1>1 DEF FactoryTypes, WriteTypes
<1> QED BY <1>4, <1>5, <1>6, <1>7, <1>8, StatementInv DEF ReplacePc

\* The end of a replacement and a ROLLBACK of either write.
LEMMA EndOfReplaceInv ==
    ASSUME FactoryInv, NEW w \in Writer, CommitReplace(w) \/ Abort(w)
    PROVE  FactoryInv'
<1>0. FactoryTypes BY DEF FactoryInv
<1>1. PICK gone : End(w, gone) BY DEF CommitReplace, Abort
<1>2. /\ LockTypes' /\ WriteTypes' /\ ReadTypes' /\ clock' = clock
  BY <1>0, <1>1, EndTypes
<1>3. UNCHANGED <<row, first, log, readVars>>
  BY <1>1 DEF CommitReplace, Abort, tableVars, End
<1>4. assoc' \in SUBSET Component
  BY <1>0 DEF FactoryTypes, TableTypes, WriteTypes, CommitReplace, Abort, tableVars, Deleted
<1>5. FactoryTypes' BY <1>0, <1>2, <1>3, <1>4 DEF FactoryTypes, TableTypes
<1>6. /\ Others(w) /\ pc'[w] = "idle"
      /\ \A v \in Writer \ {w}, s \in Sn : snLock[s] = v => snLock'[s] = v
  BY <1>1, EndInv
<1> QED BY <1>3, <1>5, <1>6, StatementInv

-----------------------------------------------------------------------------
\* LogReplays for one row.
Replays(k) ==
    LET ids == LogOf(k)
        e   == log[k[2]]
    IN  /\ ids = {} => row[k] = first[k]
        /\ \A i \in ids :
             /\ (\A j \in ids : i <= j) => e[i].before = first[k]
             /\ (\A j \in ids : j <= i) => e[i].after = row[k]
             /\ \A h \in ids : h < i /\ (\A j \in ids : j <= h \/ i <= j) =>
                   e[i].before = e[h].after

LEMMA ReplaysAll == LogReplays <=> \A k \in Key : Replays(k)
BY DEF LogReplays, Replays

\* A row whose log entries stay what they are.
LEMMA ReplaysKept ==
    ASSUME NEW k \in Key, Replays(k), row'[k] = row[k], first'[k] = first[k],
           LogOf(k)' = LogOf(k), \A i \in LogOf(k) : log'[k[2]][i] = log[k[2]][i]
    PROVE  Replays(k)'
BY DEF Replays

\* The first version of a row: there is nothing to log.
LEMMA FirstReplays ==
    ASSUME NEW k \in Key, LogOf(k)' = {}, row'[k] = first'[k]
    PROVE  Replays(k)'
BY DEF Replays

\* An overwrite: its entry has the greatest id, and leads from the row's version.
LEMMA OverwriteReplays ==
    ASSUME NEW k \in Key, Replays(k), NEW n \in Nat, LogOf(k) \subseteq 1..n,
           LogOf(k)' = LogOf(k) \cup {n + 1}, first'[k] = first[k],
           \A i \in LogOf(k) : log'[k[2]][i] = log[k[2]][i],
           log'[k[2]][n + 1].before = row[k], log'[k[2]][n + 1].after = row'[k]
    PROVE  Replays(k)'
<1> DEFINE ids == LogOf(k)
           e == log[k[2]]
           f == log'[k[2]]
<1>1. \A i \in ids : i \in Nat /\ i < n + 1 /\ ~(n + 1 <= i) /\ f[i] = e[i] OBVIOUS
<1>2. ASSUME NEW i \in ids \cup {n + 1}, \A j \in ids \cup {n + 1} : i <= j
      PROVE  f[i].before = first[k]
  <2>1. CASE i \in ids BY <1>2, <2>1, <1>1 DEF Replays
  <2>2. CASE i = n + 1
    <3>1. ids = {} BY <1>2, <2>2, <1>1
    <3> QED BY <3>1, <2>2 DEF Replays
  <2> QED BY <2>1, <2>2
<1>3. ASSUME NEW i \in ids \cup {n + 1}, \A j \in ids \cup {n + 1} : j <= i
      PROVE  f[i].after = row'[k]
  BY <1>3, <1>1
<1>4. ASSUME NEW i \in ids \cup {n + 1}, NEW h \in ids \cup {n + 1}, h < i,
             \A j \in ids \cup {n + 1} : j <= h \/ i <= j
      PROVE  f[i].before = f[h].after
  <2>1. h \in ids BY <1>4, <1>1
  <2>2. CASE i \in ids
    <3>1. e[i].before = e[h].after BY <2>1, <2>2, <1>4 DEF Replays
    <3> QED BY <3>1, <2>1, <2>2, <1>1
  <2>3. CASE i = n + 1
    <3>1. \A j \in ids : j <= h BY <1>4, <2>3, <1>1
    <3>2. e[h].after = row[k] BY <2>1, <3>1 DEF Replays
    <3> QED BY <3>2, <2>1, <2>3, <1>1
  <2> QED BY <2>2, <2>3
<1>5. LogOf(k)' # {} BY <1>1
<1> QED BY <1>2, <1>3, <1>4, <1>5 DEF Replays

LEMMA CommitUpsertInv ==
    ASSUME FactoryInv, NEW w \in Writer, CommitUpsert(w)
    PROVE  FactoryInv'
<1> USE FactoryAssumption
<1>0. FactoryTypes BY DEF FactoryInv
<1>k. PICK k \in Key : k = key[w] BY <1>0 DEF FactoryTypes, WriteTypes
<1>1. /\ k \in Key /\ k[1] \in Table /\ k[2] \in Sn
      /\ began[w] \in Version /\ began[w] # 0 /\ before[w] \in Version
      /\ before[w] = row[k] /\ snLock[k[2]] = w
  BY <1>0, <1>k, Keys DEF FactoryInv, FactoryTypes, WriteTypes, Begun, BeforeHolds,
     HoldsSn, CommitUpsert
<1>2. /\ End(w, {}) /\ assoc' = assoc /\ row' = [row EXCEPT ![k] = began[w]]
      /\ before[w] = 0 => first' = [first EXCEPT ![k] = began[w]] /\ log' = log
  BY <1>k DEF CommitUpsert
<1>3. before[w] # 0 =>
        /\ first' = first
        /\ log' = [log EXCEPT ![k[2]] = Append(@, [table |-> k[1], before |-> before[w],
                                                    after |-> began[w]])]
  BY <1>k DEF CommitUpsert
<1>4. /\ Others(w) /\ pc'[w] = "idle"
      /\ \A v \in Writer \ {w}, s \in Sn : snLock[s] = v => snLock'[s] = v
  BY <1>2, EndInv
<1>5. \A j \in Key : /\ j[1] \in Table /\ j[2] \in Sn
                     /\ j # k => row'[j] = row[j] /\ first'[j] = first[j]
                     /\ log[j[2]] \in Seq(Entry)
  BY <1>0, <1>1, <1>2, <1>3, Keys DEF FactoryTypes, TableTypes
<1>6. row'[k] = began[w] BY <1>0, <1>1, <1>2 DEF FactoryTypes, TableTypes
<1>7. FactoryTypes'
  <2>1. LockTypes' /\ WriteTypes' /\ ReadTypes' /\ clock' = clock
    BY <1>0, <1>2, EndTypes
  <2>2. row' \in [Key -> Version] /\ first' \in [Key -> Version]
    BY <1>0, <1>1, <1>2, <1>3 DEF FactoryTypes, TableTypes
  <2>3. log' \in [Sn -> Seq(Entry)]
    <3>1. CASE before[w] = 0 BY <1>0, <1>2, <3>1 DEF FactoryTypes, TableTypes
    <3>2. CASE before[w] # 0
      <4>1. [table |-> k[1], before |-> before[w], after |-> began[w]] \in Entry
        BY <1>1, <3>2 DEF Entry, Version
      <4>2. Append(log[k[2]], [table |-> k[1], before |-> before[w], after |-> began[w]])
              \in Seq(Entry)
        BY <1>1, <1>5, <4>1
      <4> QED BY <1>0, <1>1, <1>3, <3>2, <4>2 DEF FactoryTypes, TableTypes
    <3> QED BY <3>1, <3>2
  <2> QED BY <1>0, <1>2, <2>1, <2>2, <2>3 DEF FactoryTypes, TableTypes
<1>8. Begun' BY <1>4 DEF FactoryInv, Begun, Others
<1>9. HoldsSn'
  <2>1. \A v \in Writer : key[v][2] \in Sn BY <1>0, Keys DEF FactoryTypes, WriteTypes
  <2> QED BY <1>4, <2>1 DEF FactoryInv, HoldsSn, Others
<1>10. BeforeHolds'
  <2> SUFFICES ASSUME NEW v \in Writer, pc'[v] \in {"upsert", "log", "commit"}
               PROVE  before'[v] = row'[key'[v]]
    BY DEF BeforeHolds
  <2>1. v # w BY <1>4
  <2>2. pc[v] \in {"upsert", "log", "commit"} /\ key'[v] = key[v] /\ before'[v] = before[v]
    BY <1>4, <2>1 DEF Others
  <2>3. before[v] = row[key[v]] /\ snLock[key[v][2]] = v
    BY <2>2 DEF FactoryInv, BeforeHolds, HoldsSn
  <2>4. key[v] # k /\ key[v] \in Key
    BY <1>0, <1>1, <2>1, <2>3 DEF FactoryTypes, WriteTypes
  <2> QED BY <1>5, <2>2, <2>3, <2>4
<1>11. ASSUME NEW j \in Key, j # k
       PROVE  LogOf(j)' = LogOf(j) /\ \A i \in LogOf(j) : log'[j[2]][i] = log[j[2]][i]
  <2>1. CASE before[w] = 0 BY <1>2, <2>1 DEF LogOf
  <2>2. CASE before[w] # 0 /\ j[2] # k[2]
    <3>1. log'[j[2]] = log[j[2]] BY <1>0, <1>3, <1>5, <2>2 DEF FactoryTypes, TableTypes
    <3> QED BY <3>1 DEF LogOf
  <2>3. CASE before[w] # 0 /\ j[2] = k[2]
    <3> DEFINE e == log[j[2]]
               x == [table |-> k[1], before |-> before[w], after |-> began[w]]
    <3>1. j[1] # k[1] BY <1>1, <1>11, <2>3, Keys
    <3>2. log'[j[2]] = Append(e, x)
      BY <1>0, <1>1, <1>3, <2>3 DEF FactoryTypes, TableTypes
    <3>3. e \in Seq(Entry) BY <1>5
    <3> HIDE DEF e
    <3>4. /\ Len(Append(e, x)) = Len(e) + 1 /\ Len(e) \in Nat
          /\ \A i \in 1..Len(e) : Append(e, x)[i] = e[i]
          /\ Append(e, x)[Len(e) + 1] = x
      BY <3>3
    <3>5. \A i : i \in LogOf(j)' <=> i \in LogOf(j)
      <4>1. \A i : i \in LogOf(j)' <=> i \in 1..Len(Append(e, x)) /\ Append(e, x)[i].table = j[1]
        BY <3>2 DEF LogOf
      <4>2. \A i : i \in LogOf(j) <=> i \in 1..Len(e) /\ e[i].table = j[1]
        BY DEF LogOf, e
      <4>3. x.table # j[1] BY <3>1
      <4> HIDE DEF x
      <4> QED BY <3>4, <4>1, <4>2, <4>3
    <3>6. \A i \in LogOf(j) : i \in 1..Len(e) BY DEF LogOf, e
    <3> HIDE DEF x
    <3>7. \A i \in LogOf(j) : log'[j[2]][i] = e[i] BY <3>2, <3>4, <3>6
    <3> QED BY <3>5, <3>7 DEF e
  <2> QED BY <2>1, <2>2, <2>3
<1>12. Replays(k)'
  <2>0. Replays(k) BY <1>1, ReplaysAll DEF FactoryInv
  <2>1. CASE before[w] = 0
    <3>1. LogOf(k) = {} BY <1>1, <2>1 DEF FactoryInv, LoggedExists
    <3>2. LogOf(k)' = LogOf(k) BY <1>2, <2>1 DEF LogOf
    <3>3. first'[k] = began[w] BY <1>0, <1>1, <1>2, <2>1 DEF FactoryTypes, TableTypes
    <3> QED BY <1>1, <1>6, <3>1, <3>2, <3>3, FirstReplays
  <2>2. CASE before[w] # 0
    <3> DEFINE e == log[k[2]]
               x == [table |-> k[1], before |-> before[w], after |-> began[w]]
    <3>1. log'[k[2]] = Append(e, x)
      BY <1>0, <1>1, <1>3, <2>2 DEF FactoryTypes, TableTypes
    <3>2. e \in Seq(Entry) BY <1>1, <1>5
    <3>3. x.table = k[1] /\ x.before = row[k] /\ x.after = row'[k] BY <1>1, <1>6
    <3>4. first'[k] = first[k] BY <1>3, <2>2
    <3>5. \A i : i \in LogOf(k) <=> i \in 1..Len(e) /\ e[i].table = k[1] BY DEF LogOf
    <3>6. \A i : i \in LogOf(k)' <=> i \in 1..Len(Append(e, x)) /\ Append(e, x)[i].table = k[1]
      <4>1. LogOf(k)' = {i \in 1..Len(log'[k[2]]) : log'[k[2]][i].table = k[1]}
        BY Zenon DEF LogOf
      <4> QED BY <3>1, <4>1
    <3> HIDE DEF e, x
    <3>7. /\ Len(Append(e, x)) = Len(e) + 1 /\ Len(e) \in Nat
          /\ \A i \in 1..Len(e) : Append(e, x)[i] = e[i]
          /\ Append(e, x)[Len(e) + 1] = x
      BY <3>2
    <3>8. \A i : i \in LogOf(k)' <=> i \in LogOf(k) \cup {Len(e) + 1}
      BY <3>3, <3>5, <3>6, <3>7
    <3>9. LogOf(k)' = LogOf(k) \cup {Len(e) + 1} BY <3>8
    <3>10. LogOf(k) \subseteq 1..Len(e) BY <3>5
    <3>11. \A i \in LogOf(k) : log'[k[2]][i] = log[k[2]][i] BY <3>1, <3>7, <3>10 DEF e
    <3>12. log'[k[2]][Len(e) + 1].before = row[k] /\ log'[k[2]][Len(e) + 1].after = row'[k]
      BY <3>1, <3>3, <3>7
    <3> QED BY <1>1, <2>0, <3>4, <3>7, <3>9, <3>10, <3>11, <3>12, OverwriteReplays
  <2> QED BY <2>1, <2>2
<1>13. LogReplays'
  <2>1. ASSUME NEW j \in Key PROVE Replays(j)'
    <3>1. Replays(j) BY ReplaysAll DEF FactoryInv
    <3> QED BY <1>5, <1>11, <1>12, <3>1, ReplaysKept
  <2> QED BY <2>1 DEF LogReplays, Replays
<1>14. LoggedExists'
  BY <1>1, <1>5, <1>6, <1>11 DEF FactoryInv, LoggedExists
<1>15. ViewSees'
  <2>1. UNCHANGED readVars BY <1>2 DEF End
  <2>2. row'[<<"device", Dev>>] = 0 => row[<<"device", Dev>>] = 0
    BY <1>1, <1>5, <1>6, DevKey
  <2> QED BY <2>1, <2>2, ViewsKept DEF FactoryInv
<1> QED BY <1>7, <1>8, <1>9, <1>10, <1>13, <1>14, <1>15 DEF FactoryInv

-----------------------------------------------------------------------------
\* A view changes nothing but itself.
LEMMA ReaderInv ==
    ASSUME FactoryInv, NEW r \in Reader,
           StartView(r) \/ ReadAssociations(r) \/ ReadExists(r) \/ ReadContent(r) \/ EndView(r)
    PROVE  FactoryInv'
<1>0. FactoryTypes BY DEF FactoryInv
<1>1. UNCHANGED <<tableVars, clock, lockVars, writeVars>>
  BY DEF StartView, ReadAssociations, ReadExists, ReadContent, EndView, View
<1>2. TableTypes' /\ LockTypes' /\ WriteTypes'
  BY <1>0, <1>1 DEF FactoryTypes, TableTypes, LockTypes, WriteTypes, tableVars, lockVars,
     writeVars
<1>3. rpc' \in [Reader -> ReadPc]
  BY <1>0 DEF FactoryTypes, ReadTypes, StartView, ReadAssociations, ReadExists, ReadContent,
     EndView, View, ReadPc
<1>4. hadDevice' \in [Reader -> BOOLEAN]
  BY <1>0, Zenon DEF FactoryTypes, ReadTypes, StartView, ReadAssociations, ReadExists,
     ReadContent, EndView, View
<1>5. Begun' /\ HoldsSn' /\ BeforeHolds'
  BY <1>1 DEF FactoryInv, Begun, HoldsSn, BeforeHolds, writeVars, lockVars, tableVars
<1>6. LoggedExists' /\ LogReplays'
  BY <1>1, TablesKept DEF FactoryInv, tableVars
<1>7. ViewSees'
  <2> SUFFICES ASSUME NEW q \in Reader, hadDevice'[q] = TRUE
               PROVE  row[<<"device", Dev>>] # 0 /\ rpc'[q] \notin {"not_found", "bare"}
    BY <1>1 DEF ViewSees, tableVars
  <2>1. CASE q # r
    <3>1. hadDevice'[q] = hadDevice[q] /\ rpc'[q] = rpc[q]
      BY <1>0, <2>1 DEF FactoryTypes, ReadTypes, StartView, ReadAssociations, ReadExists,
         ReadContent, EndView, View
    <3> QED BY <3>1 DEF FactoryInv, ViewSees
  <2>2. CASE q = r /\ StartView(r)
    <3>1. rpc'[r] = "view" BY <1>0, <2>2 DEF FactoryTypes, ReadTypes, StartView
    <3>2. hadDevice'[r] = (row[<<"device", Dev>>] # 0)
      BY <1>0, <2>2 DEF FactoryTypes, ReadTypes, StartView
    <3> QED BY <2>2, <3>1, <3>2
  <2>3. CASE q = r /\ EndView(r)
    BY <1>0, <2>3 DEF FactoryTypes, ReadTypes, EndView
  <2>4. CASE q = r /\ (ReadAssociations(r) \/ ReadExists(r) \/ ReadContent(r))
    <3>1. hadDevice[r] = TRUE BY <2>4 DEF ReadAssociations, ReadExists, ReadContent, View
    <3>2. row[<<"device", Dev>>] # 0 BY <3>1 DEF FactoryInv, ViewSees
    <3> QED BY <1>0, <2>4, <3>2 DEF FactoryTypes, ReadTypes, ReadAssociations, ReadExists,
          ReadContent, View
  <2> QED BY <2>1, <2>2, <2>3, <2>4
<1> QED BY <1>2, <1>3, <1>4, <1>5, <1>6, <1>7 DEF FactoryInv, FactoryTypes, ReadTypes

LEMMA FactoryNext == FactoryInv /\ [Next]_vars => FactoryInv'
<1> SUFFICES ASSUME FactoryInv, [Next]_vars PROVE FactoryInv' OBVIOUS
<1>1. CASE \E w \in Writer : \/ \E k \in Key : BeginUpsert(w, k)
                             \/ \E S \in SUBSET Component : BeginReplace(w, S)
  BY <1>1, BeginInv
<1>2. CASE \E w \in Writer : TxStep(w)
  <2> PICK w \in Writer : TxStep(w) BY <1>2
  <2>1. CASE LockMetadataSn(w) BY <2>1, LockInv
  <2>2. CASE ReadBefore(w) \/ Upsert(w) \/ AppendChangeLog(w) BY <2>2, UnderLockInv
  <2>3. CASE CommitUpsert(w) BY <2>3, CommitUpsertInv
  <2>4. CASE \/ StartDelete(w) \/ StartInsert(w)
             \/ \E c \in Component : DeleteRow(w, c) \/ InsertRow(w, c)
    BY <2>4, ReplaceInv
  <2>5. CASE CommitReplace(w) BY <2>5, EndOfReplaceInv
  <2> QED BY <2>1, <2>2, <2>3, <2>4, <2>5 DEF TxStep
<1>3. CASE \E w \in Writer : Abort(w) BY <1>3, EndOfReplaceInv
<1>4. CASE \E r \in Reader : \/ StartView(r) \/ ReadAssociations(r) \/ ReadExists(r)
                             \/ ReadContent(r) \/ EndView(r)
  BY <1>4, ReaderInv
<1>5. CASE UNCHANGED vars
  <2>1. UNCHANGED <<tableVars, clock, lockVars, writeVars, readVars>>
    BY <1>5 DEF vars, tableVars, lockVars, writeVars, readVars
  <2>2. FactoryTypes'
    BY <2>1 DEF FactoryInv, FactoryTypes, TableTypes, LockTypes, WriteTypes, ReadTypes,
       tableVars, lockVars, writeVars, readVars
  <2>3. Begun' /\ HoldsSn' /\ BeforeHolds'
    BY <2>1 DEF FactoryInv, Begun, HoldsSn, BeforeHolds, writeVars, lockVars, tableVars
  <2>4. LoggedExists' /\ LogReplays' /\ ViewSees'
    BY <2>1, TablesKept, ViewsKept DEF FactoryInv, tableVars
  <2> QED BY <2>2, <2>3, <2>4 DEF FactoryInv
<1> QED BY <1>1, <1>2, <1>3, <1>4, <1>5 DEF Next

-----------------------------------------------------------------------------
LEMMA FactoryHolds == Spec => []FactoryInv
BY FactoryInit, FactoryNext, PTL DEF Spec

\* Who holds a lock: the lock of a serial number is held by an upsert that has taken it
\* and has nothing left to wait for, and a row by a replacement.
SnHolder(w, s) == pc[w] \in {"read", "upsert", "log", "commit"} /\ key[w][2] = s
RowHolder(w)   == pc[w] \in {"deleting", "inserting", "commit_list"}

HoldersRun ==
    /\ \A s \in Sn, w \in Writer : snLock[s] = w => SnHolder(w, s)
    /\ \A c \in Component, w \in Writer : rowLock[c] = w => RowHolder(w)

\* A step of w that keeps the locks of the others.
LEMMA HoldersKept ==
    ASSUME FactoryTypes, HoldersRun, NEW w \in Writer,
           \A v \in Writer \ {w} : pc'[v] = pc[v] /\ key'[v] = key[v],
           \A s \in Sn : snLock'[s] # w => snLock'[s] \in {snLock[s], NoWriter},
           \A s \in Sn : snLock'[s] = w => SnHolder(w, s)',
           \A c \in Component : rowLock'[c] # w => rowLock'[c] \in {rowLock[c], NoWriter},
           \A c \in Component : rowLock'[c] = w => RowHolder(w)'
    PROVE  HoldersRun'
<1>1. ASSUME NEW s \in Sn, NEW v \in Writer, snLock'[s] = v PROVE SnHolder(v, s)'
  <2>1. CASE v = w BY <1>1, <2>1
  <2>2. CASE v # w
    <3>1. snLock[s] = v BY <1>1, <2>2, FactoryAssumption
    <3> QED BY <2>2, <3>1 DEF HoldersRun, SnHolder
  <2> QED BY <2>1, <2>2
<1>2. ASSUME NEW c \in Component, NEW v \in Writer, rowLock'[c] = v PROVE RowHolder(v)'
  <2>1. CASE v = w BY <1>2, <2>1
  <2>2. CASE v # w
    <3>1. rowLock[c] = v BY <1>2, <2>2, FactoryAssumption
    <3> QED BY <2>2, <3>1 DEF HoldersRun, RowHolder
  <2> QED BY <2>1, <2>2
<1> QED BY <1>1, <1>2 DEF HoldersRun

LEMMA HoldersNext == FactoryTypes /\ HoldersRun /\ [Next]_vars => HoldersRun'
<1> SUFFICES ASSUME FactoryTypes, HoldersRun, [Next]_vars PROVE HoldersRun' OBVIOUS
<1> USE FactoryAssumption
<1>1. ASSUME NEW w \in Writer,
             (\E k \in Key : BeginUpsert(w, k)) \/ (\E S \in SUBSET Component : BeginReplace(w, S))
      PROVE  HoldersRun'
  <2>1. pc[w] = "idle" /\ UNCHANGED lockVars
    BY <1>1 DEF BeginUpsert, BeginReplace, Begin
  <2>2. \A v \in Writer \ {w} : pc'[v] = pc[v] /\ key'[v] = key[v]
    BY <1>1 DEF FactoryTypes, WriteTypes, BeginUpsert, BeginReplace, Begin, Go
  <2>3. (\A s \in Sn : snLock[s] # w) /\ (\A c \in Component : rowLock[c] # w)
    BY <2>1 DEF HoldersRun, SnHolder, RowHolder
  <2> QED BY <2>1, <2>2, <2>3, HoldersKept DEF lockVars
<1>2. ASSUME NEW w \in Writer, LockMetadataSn(w) PROVE HoldersRun'
  <2>1. key[w][2] \in Sn BY Keys DEF FactoryTypes, WriteTypes
  <2>2. /\ \A v \in Writer \ {w} : pc'[v] = pc[v] /\ key'[v] = key[v]
        /\ pc[w] = "lock" /\ pc'[w] = "read" /\ key' = key
    BY <1>2 DEF FactoryTypes, WriteTypes, LockMetadataSn, Go
  <2>3. (\A s \in Sn : snLock[s] # w) /\ (\A c \in Component : rowLock[c] # w)
    BY <2>2 DEF HoldersRun, SnHolder, RowHolder
  <2>4. /\ rowLock' = rowLock
        /\ \A s \in Sn : snLock'[s] = IF s = key[w][2] THEN w ELSE snLock[s]
    BY <1>2 DEF FactoryTypes, LockTypes, LockMetadataSn
  <2>5. \A s \in Sn : snLock'[s] = w => SnHolder(w, s)'
    BY <2>2, <2>3, <2>4 DEF SnHolder
  <2> QED BY <2>2, <2>3, <2>4, <2>5, HoldersKept
<1>3. ASSUME NEW w \in Writer, ReadBefore(w) \/ Upsert(w) \/ AppendChangeLog(w)
      PROVE  HoldersRun'
  <2>1. /\ pc[w] \in {"read", "upsert", "log"} /\ UNCHANGED <<key, lockVars>>
        /\ \E l \in {"upsert", "log", "commit"} : pc' = [pc EXCEPT ![w] = l]
    BY <1>3 DEF ReadBefore, Upsert, AppendChangeLog, Go
  <2>2. /\ \A v \in Writer \ {w} : pc'[v] = pc[v]
        /\ pc'[w] \in {"upsert", "log", "commit"}
    BY <2>1 DEF FactoryTypes, WriteTypes
  <2>3. \A s \in Sn : snLock'[s] = w => SnHolder(w, s)'
    BY <2>1, <2>2 DEF HoldersRun, SnHolder, lockVars
  <2>4. \A c \in Component : rowLock[c] # w BY <2>1 DEF HoldersRun, RowHolder
  <2> QED BY <2>1, <2>2, <2>3, <2>4, HoldersKept DEF lockVars
<1>4. ASSUME NEW w \in Writer,
             \/ StartDelete(w) \/ StartInsert(w)
             \/ \E c \in Component : DeleteRow(w, c) \/ InsertRow(w, c)
      PROVE  HoldersRun'
  <2>1. /\ pc[w] \in {"delete", "deleting", "inserting"} /\ UNCHANGED <<key, snLock>>
        /\ pc'[w] \in {"deleting", "inserting", "commit_list"}
        /\ \A v \in Writer \ {w} : pc'[v] = pc[v]
    BY <1>4 DEF FactoryTypes, WriteTypes, StartDelete, StartInsert, DeleteRow, InsertRow, Go,
       lockVars
  <2>2. \A c \in Component : rowLock'[c] \in {rowLock[c], w}
    BY <1>4 DEF FactoryTypes, LockTypes, StartDelete, StartInsert, DeleteRow, InsertRow,
       lockVars
  <2>3. \A s \in Sn : snLock[s] # w BY <2>1 DEF HoldersRun, SnHolder
  <2>4. RowHolder(w)' BY <2>1 DEF RowHolder
  <2> QED BY <2>1, <2>2, <2>3, <2>4, HoldersKept
<1>5. ASSUME NEW w \in Writer, CommitUpsert(w) \/ CommitReplace(w) \/ Abort(w)
      PROVE  HoldersRun'
  <2>1. PICK gone : End(w, gone) BY <1>5 DEF CommitUpsert, CommitReplace, Abort
  <2>2. \A v \in Writer \ {w} : pc'[v] = pc[v] /\ key'[v] = key[v]
    BY <2>1 DEF FactoryTypes, WriteTypes, End, Go
  <2>3. /\ \A s \in Sn : snLock'[s] # w /\ snLock'[s] \in {snLock[s], NoWriter}
        /\ \A c \in Component : rowLock'[c] # w /\ rowLock'[c] \in {rowLock[c], NoWriter}
    BY <2>1 DEF End, Release
  <2> QED BY <2>2, <2>3, HoldersKept
<1>6. ASSUME NEW r \in Reader,
             StartView(r) \/ ReadAssociations(r) \/ ReadExists(r) \/ ReadContent(r) \/ EndView(r)
      PROVE  HoldersRun'
  <2>1. UNCHANGED <<lockVars, writeVars>>
    BY <1>6 DEF StartView, ReadAssociations, ReadExists, ReadContent, EndView, View
  <2> QED BY <2>1 DEF HoldersRun, SnHolder, RowHolder, lockVars, writeVars
<1>7. CASE UNCHANGED vars BY <1>7 DEF vars, HoldersRun, SnHolder, RowHolder
<1> QED BY <1>1, <1>2, <1>3, <1>4, <1>5, <1>6, <1>7 DEF Next, TxStep

\* A transaction that cannot go on for a lock: lock_metadata_sn or a row of a DELETE or
\* INSERT is held by another.
WaitsFor(w, h) ==
    \/ pc[w] = "lock" /\ snLock[key[w][2]] = h
    \/ pc[w] \in {"deleting", "inserting"} /\ \E c \in todo[w] : rowLock[c] = h

\* The advisory lock is in no deadlock: whoever an upsert waits for waits for nobody, and
\* a replacement only ever waits for replacements.  So the deadlocks that PostgreSQL has
\* to break are among replacements of one device, as Deadlocked says.
NoLockCycle ==
    \A w, h \in Writer : WaitsFor(w, h) =>
        /\ pc[w] = "lock" => \A g \in Writer : ~WaitsFor(h, g)
        /\ pc[w] # "lock" => RowHolder(h)

\* Every lock of FactoryMetadataRepo is waited for in one order, so a report of the
\* production line is never part of a deadlock.
THEOREM ReportsNeverDeadlock == Spec => []NoLockCycle
<1>1. Init => HoldersRun BY FactoryAssumption DEF Init, HoldersRun
<1>2. FactoryInv => FactoryTypes BY DEF FactoryInv
<1>3. FactoryTypes /\ HoldersRun => NoLockCycle
  <2> SUFFICES ASSUME FactoryTypes, HoldersRun, NEW w \in Writer, NEW h \in Writer,
                      WaitsFor(w, h)
               PROVE  /\ pc[w] = "lock" => \A g \in Writer : ~WaitsFor(h, g)
                      /\ pc[w] # "lock" => RowHolder(h)
    BY DEF NoLockCycle
  <2>1. CASE pc[w] = "lock"
    <3>1. key[w][2] \in Sn /\ snLock[key[w][2]] = h
      BY <2>1, Keys DEF FactoryTypes, WriteTypes, WaitsFor
    <3>2. pc[h] \in {"read", "upsert", "log", "commit"} BY <3>1 DEF HoldersRun, SnHolder
    <3> QED BY <2>1, <3>2 DEF WaitsFor
  <2>2. CASE pc[w] # "lock"
    <3>1. PICK c \in todo[w] : rowLock[c] = h BY <2>2 DEF WaitsFor
    <3>2. c \in Component BY DEF FactoryTypes, WriteTypes
    <3> QED BY <2>2, <3>1, <3>2 DEF HoldersRun
  <2> QED BY <2>1, <2>2
<1> QED BY <1>1, <1>2, <1>3, HoldersNext, FactoryHolds, PTL DEF Spec

\* TypeOK is an invariant: every table, lock, transaction and view of
\* FactoryMetadataRepo keeps its type.
THEOREM FactoryTypeCorrect == Spec => []TypeOK
<1>1. FactoryInv => TypeOK
  BY DEF FactoryInv, FactoryTypes, TableTypes, LockTypes, WriteTypes, ReadTypes, TypeOK
<1> QED BY <1>1, FactoryHolds, PTL

\* lock_metadata_sn makes the change log a history: for every row, its entries
\* lead by id from the version it was created with to the one it has now, each
\* from where the previous one ended, whatever the overlap of the reports.
THEOREM ChangeLogReplays == Spec => []LogReplays
<1>1. FactoryInv => LogReplays BY DEF FactoryInv
<1> QED BY <1>1, FactoryHolds, PTL

\* A device whose metadata were stored before get_factory_device_view_handler
\* began is never answered "not found" nor without them.
THEOREM ViewFindsDevice == Spec => []ViewComplete
<1>1. FactoryInv => ViewComplete BY DEF FactoryInv, ViewSees, ViewComplete, FactoryTypes,
        ReadTypes
<1> QED BY <1>1, FactoryHolds, PTL
=============================================================================
