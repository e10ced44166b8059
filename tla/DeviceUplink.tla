---------------------------- MODULE DeviceUplink ----------------------------
(***************************************************************************)
(* What the webhooks of one device leave behind: its connection status,    *)
(* which the broker's connect and disconnect calls write, and its firmware *)
(* version, which its version reports write and which decides the upgrade  *)
(* it is offered.  Administrators manage the firmware versions meanwhile.  *)
(*                                                                         *)
(* The broker's calls are independent HTTP requests: they may be lost and  *)
(* may be processed in another order than they were sent.  Every handler's *)
(* write is one transaction and is one step here.                          *)
(***************************************************************************)
EXTENDS Integers, FiniteSets

CONSTANTS Semver,    \* version strings in use, as <<major, minor, patch>>
          Range,     \* <<min_version, max_version>> in use, the latter perhaps None
          Row,       \* ids of ota_versions rows
          None,      \* no value: no max_version, no update, no row
          Debounce,  \* the ten minutes in which a changed version is not replaced
          MaxCall    \* bound: connections and disconnections

ASSUME UplinkAssumption ==
    /\ Semver \subseteq Nat \X Nat \X Nat
    /\ None \notin Semver \cup Nat
    /\ Range \subseteq Semver \X (Semver \cup {None})
    /\ Debounce \in Nat /\ MaxCall \in Nat

VARIABLES connected, \* the broker's view
          issued,    \* calls of the broker so far; the last one is the newest
          calls,     \* calls under way: <<number, kind>>
          status,    \* device_status.status
          applied,   \* number of the call that wrote last
          ota,       \* ota_versions: None, or the columns and the strings they came from
          firmware,  \* the version the device runs
          recorded,  \* device_versions.version
          age,       \* time since last_updated_at, at most Debounce + 1
          push       \* the version of the last upgrade message, as the device reads it

statusVars == <<connected, issued, calls, status, applied>>
otaVars == <<ota, firmware, recorded, age, push>>
uplinkVars == <<connected, issued, calls, status, applied, ota, firmware, recorded, age, push>>

-----------------------------------------------------------------------------
(***************************************************************************)
(* Versions.                                                               *)
(***************************************************************************)

\* parse_semver_to_int and parse_version_to_int refuse a component out of range.
InRangeInclusive(v) == v[1] \leq 100 /\ v[2] \leq 100 /\ v[3] \leq 1000  \* mutant
InRange(v) == v[1] \leq 99 /\ v[2] \leq 99 /\ v[3] \leq 999

Encode(v) == v[1] * 100000 + v[2] * 1000 + v[3]

\* format_semver_from_int.
Decode(n) == <<n \div 100000, (n % 100000) \div 1000, n % 1000>>

\* get_ota_update: the update with the highest version whose range has n.
Applies(r, n) ==
    /\ r # None
    /\ n \geq r.min
    /\ r.max = None \/ r.max > n
    /\ r.forDevice

GetOtaUpdate(n) ==
    LET rows == {i \in Row : Applies(ota[i], n)} IN
    IF rows = {} THEN None
    ELSE LET best == CHOOSE i \in rows : \A j \in rows : ota[i].version \geq ota[j].version
         IN Decode(ota[best].version)

-----------------------------------------------------------------------------
UplinkTypeOK ==
    /\ connected \in BOOLEAN
    /\ issued \in 0..MaxCall /\ applied \in 0..MaxCall
    /\ calls \in SUBSET ((1..MaxCall) \X {"connect", "disconnect"})
    /\ status \in {"none", "Online", "Offline"}
    /\ firmware \in Semver
    /\ recorded \in {Encode(v) : v \in Semver} \cup {None}
    /\ age \in 0..Debounce + 1

UplinkInit ==
    /\ connected = FALSE /\ issued = 0 /\ calls = {}
    /\ status = "none" /\ applied = 0
    /\ ota = [i \in Row |-> None]
    /\ firmware \in Semver
    /\ recorded = None /\ age = 0 /\ push = None

-----------------------------------------------------------------------------
(***************************************************************************)
(* Connections.                                                            *)
(***************************************************************************)

\* The broker tells the backend about a change of the connection.
BrokerCall(kind) ==
    /\ issued < MaxCall
    /\ connected = (kind = "disconnect")
    /\ connected' = ~connected
    /\ issued' = issued + 1
    /\ calls' = calls \cup {<<issued + 1, kind>>}
    /\ UNCHANGED <<status, applied, otaVars>>

Processed(c) ==
    /\ c \in calls
    /\ calls' = calls \ {c}
    /\ applied' = c[1]
    /\ UNCHANGED <<connected, issued, otaVars>>

\* upsert_device_status_connect.
DeviceConnectInserts(c) ==  \* mutant: ON CONFLICT DO NOTHING
    /\ c[2] = "connect"
    /\ status' = IF status = "none" THEN "Online" ELSE status
    /\ Processed(c)

DeviceConnect(c) ==
    /\ c[2] = "connect"
    /\ status' = "Online"
    /\ Processed(c)

\* update_device_status_disconnect: an UPDATE, which needs a row.
DeviceDisconnect(c) ==
    /\ c[2] = "disconnect"
    /\ status' = IF status = "none" THEN "none" ELSE "Offline"
    /\ Processed(c)

\* The call is lost, or the database fails.
CallFails(c) ==
    /\ c \in calls
    /\ calls' = calls \ {c}
    /\ UNCHANGED <<connected, issued, status, applied, otaVars>>

-----------------------------------------------------------------------------
(***************************************************************************)
(* Firmware versions.                                                      *)
(***************************************************************************)

Packed(v) == IF v = None THEN None ELSE Encode(v)
Valid(r) == InRange(r[1]) /\ (r[2] # None => InRange(r[2]))

\* create_ota_version: valid strings, and no row of the same version.
CreateOtaVersion(i, v, r, mine) ==
    /\ ota[i] = None
    /\ InRange(v) /\ Valid(r)
    /\ \A j \in Row : ota[j] # None => ota[j].version # Encode(v)
    /\ ota' = [ota EXCEPT ![i] = [version |-> Encode(v), min |-> Encode(r[1]),
                                  max |-> Packed(r[2]), forDevice |-> mine,
                                  of |-> <<v, r[1], r[2]>>]]
    /\ UNCHANGED <<statusVars, firmware, recorded, age, push>>

\* update_ota_version: the columns named by the request; a max_version stays set.
UpdateOtaVersion(i, r, mine) ==
    /\ ota[i] # None
    /\ Valid(r)
    /\ r[2] = None => ota[i].max = None
    /\ ota' = [ota EXCEPT ![i] = [@ EXCEPT !.min = Encode(r[1]), !.max = Packed(r[2]),
                                           !.forDevice = mine,
                                           !.of = <<ota[i].of[1], r[1], r[2]>>]]
    /\ UNCHANGED <<statusVars, firmware, recorded, age, push>>

\* delete_ota_version: the row is never selected again.
DeleteOtaVersion(i) ==
    /\ ota[i] # None
    /\ ota' = [ota EXCEPT ![i] = None]
    /\ UNCHANGED <<statusVars, firmware, recorded, age, push>>

\* upsert_device_version: the first report inserts, a later one replaces another
\* version unless that was recorded less than ten minutes ago.
Replaces(n) == recorded # None /\ recorded # n /\ age > Debounce

UpsertDeviceVersionTouches(n) ==  \* mutant: last_updated_at moves with every report
    /\ recorded' = IF recorded = None \/ Replaces(n) THEN n ELSE recorded
    /\ age' = 0

UpsertDeviceVersion(n) ==
    IF recorded = None \/ Replaces(n)
      THEN recorded' = n /\ age' = 0
      ELSE UNCHANGED <<recorded, age>>

\* ota_version_post: record, look for an update with the reported version, push it.
OtaVersionPost ==
    /\ connected
    /\ InRange(firmware)
    /\ UpsertDeviceVersion(Encode(firmware))
    /\ push' = GetOtaUpdate(Encode(firmware))
    /\ UNCHANGED <<statusVars, ota, firmware>>

\* A statement after the first, or the publish, fails: nothing is pushed.
OtaVersionPostFails ==
    /\ connected
    /\ InRange(firmware)
    /\ UpsertDeviceVersion(Encode(firmware))
    /\ push' = None
    /\ UNCHANGED <<statusVars, ota, firmware>>

\* The device installs a version, an offered one or another.
Install(v) ==
    /\ v # firmware
    /\ firmware' = v
    /\ push' = None
    /\ UNCHANGED <<statusVars, ota, recorded, age>>

Tick ==
    /\ age' = IF age \leq Debounce THEN age + 1 ELSE age
    /\ UNCHANGED <<statusVars, ota, firmware, recorded, push>>

-----------------------------------------------------------------------------
UplinkNext ==
    \/ \E kind \in {"connect", "disconnect"} : BrokerCall(kind)
    \/ \E c \in calls : DeviceConnect(c) \/ DeviceDisconnect(c) \/ CallFails(c)
    \/ \E i \in Row, r \in Range, mine \in BOOLEAN :
         \/ \E v \in Semver : CreateOtaVersion(i, v, r, mine)
         \/ UpdateOtaVersion(i, r, mine)
    \/ \E i \in Row : DeleteOtaVersion(i)
    \/ OtaVersionPost \/ OtaVersionPostFails
    \/ \E v \in Semver : Install(v)
    \/ Tick

UplinkSpec == UplinkInit /\ [][UplinkNext]_uplinkVars

\* Time passes, and a connected device reports its version again and again.
UplinkFairSpec == UplinkSpec /\ WF_uplinkVars(Tick) /\ WF_uplinkVars(OtaVersionPost)

-----------------------------------------------------------------------------
(***************************************************************************)
(* Properties.                                                             *)
(***************************************************************************)

\* However calls are lost or overtake each other, the status is the truth as soon
\* as the newest call was the last to write: a wrong status is the work of an older
\* call that was processed after a newer one, or of a newer one that was lost.
StatusFollowsNewest ==
    applied = issued => (status = "Online") = connected

\* x before y in the order of versions, component by component.
Precedes(x, y) ==
    \/ x[1] < y[1]
    \/ x[1] = y[1] /\ x[2] < y[2]
    \/ x[1] = y[1] /\ x[2] = y[2] /\ x[3] < y[3]

\* What the version strings themselves say of the rows for a device at v.
Candidates(v) ==
    {r \in {ota[i] : i \in Row} \ {None} :
        /\ r.forDevice
        /\ ~Precedes(v, r.of[2])
        /\ r.of[3] # None => Precedes(v, r.of[3])}

\* The rows among them that would bring the device forward.
Upgrades(v) == {r \in Candidates(v) : Precedes(v, r.of[1])}

\* The reported version is the one recorded less than ten minutes ago.
Repeat == recorded = Encode(firmware) /\ age \leq Debounce

\* Where the user story and the code agree on the answer to a report: nothing is
\* pushed if no row is meant for the device and its version; and a report that is
\* no repeat, of a device for which there is newer firmware, is answered with the
\* newest of it, under the version the administrator entered.  The packed integers
\* in between change neither the range nor the order.
NewestUpgradePushed ==
    [][OtaVersionPost =>
         /\ Candidates(firmware) = {} => push' = None
         /\ (~Repeat /\ Upgrades(firmware) # {}) =>
              \E r \in Upgrades(firmware) :
                 /\ push' = r.of[1]
                 /\ \A s \in Upgrades(firmware) : ~Precedes(r.of[1], s.of[1])]_uplinkVars

\* Reports within ten minutes are dropped, but a device that keeps its version and
\* its connection is recorded with that version in the end.
RecordedCatchesUp ==
    \A v \in {w \in Semver : InRange(w)} :
        <>[](firmware = v /\ connected) => <>[](recorded = Encode(v))
=============================================================================
