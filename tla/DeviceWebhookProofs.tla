-------------------------- MODULE DeviceWebhookProofs -------------------------
(***************************************************************************)
(* Proofs about the broker's webhooks for a device: who may connect        *)
(* (DeviceAccess), for any number of requests, connections and             *)
(* certificates; and what its connections and version reports leave behind *)
(* (DeviceUplink), for any versions, ranges and number of rows and calls.  *)
(***************************************************************************)
EXTENDS DeviceAccess, DeviceUplink, WellFoundedInduction, TLAPS

\* The product is open, a check found it open, or the device registered itself
\* after such a check: each has the administrator's consent behind it.
OptedIn ==
    /\ product = "open" => everOpen
    /\ \A c \in Conn : cpc[c] = "provision" => everOpen
    /\ AutoNeedsOptIn

Certificate == [status : CertStatus, expired : BOOLEAN]

AccessInv == TypeOK /\ OptedIn /\ AllowedIsRegistered /\ StoredUnderOwnNames

-----------------------------------------------------------------------------
\* What acl lets through has the user name in front, however many slashes precede it.
LEMMA AclNamesProduct ==
    ASSUME NEW t \in Topic, Acl(t)
    PROVE  t.path[1] = "product"
<1>1. t.slashes \in 0..2 BY DEF Topic
<1>2. CASE Pad(t) = 0 BY <1>2 DEF Acl, Segment
<1>3. CASE Pad(t) # 0 BY <1>1, <1>3 DEF Acl, Segment, Pad
<1> QED BY <1>2, <1>3

LEMMA AccessInit == Init => AccessInv
<1> SUFFICES ASSUME Init PROVE AccessInv
  OBVIOUS
<1>1. NoRequest \in [id : 0..MaxCert, target : CertStatus]
  BY AccessAssumption DEF NoRequest, CertStatus, Normal
<1>2. cert \in Seq(Certificate) /\ Len(cert) \leq MaxCert
  BY AccessAssumption DEF Init
<1>3. TypeOK BY <1>1, <1>2 DEF Init, TypeOK, Certificate
<1>4. OptedIn /\ AllowedIsRegistered /\ StoredUnderOwnNames
  BY DEF Init, OptedIn, AutoNeedsOptIn, AllowedIsRegistered, StoredUnderOwnNames
<1> QED BY <1>3, <1>4 DEF AccessInv

\* Overwriting one field of a certificate.
LEMMA CertificateFields ==
    ASSUME NEW r \in Certificate, NEW s \in CertStatus
    PROVE  /\ [r EXCEPT !.status = s] \in Certificate
           /\ [r EXCEPT !.expired = TRUE] \in Certificate
           /\ [r EXCEPT !.expired = TRUE].status = r.status
BY DEF Certificate

\* A change of status keeps the list of certificates, and all earlier decisions.
LEMMA StatusChange ==
    ASSUME TypeOK, NEW id \in 0..MaxCert, NEW target \in CertStatus
    PROVE  /\ WithStatus(id, target) \in Seq(Certificate)
           /\ Len(WithStatus(id, target)) = Len(cert)
           /\ \A i \in DOMAIN cert :
                cert[i].status # Normal => WithStatus(id, target)[i].status = cert[i].status
<1>1. cert \in Seq(Certificate) /\ DOMAIN cert = 1..Len(cert) BY DEF TypeOK, Certificate
<1>2. \A i \in DOMAIN cert : cert[i] \in Certificate BY <1>1
<1>3. WithStatus(id, target) \in [1..Len(cert) -> Certificate]
  BY <1>1, <1>2, CertificateFields DEF WithStatus
<1>4. \A i \in DOMAIN cert :
        cert[i].status # Normal => WithStatus(id, target)[i].status = cert[i].status
  BY <1>1 DEF WithStatus
<1>5. Len(cert) \in Nat BY <1>1
<1> QED BY <1>3, <1>4, <1>5

\* A certificate that expires keeps its status.
LEMMA Expiry ==
    ASSUME TypeOK, NEW i \in DOMAIN cert
    PROVE  LET new == [cert EXCEPT ![i].expired = TRUE] IN
           /\ new \in Seq(Certificate) /\ Len(new) = Len(cert)
           /\ \A j \in DOMAIN cert : new[j].status = cert[j].status
<1> DEFINE new == [cert EXCEPT ![i].expired = TRUE]
<1>1. cert \in Seq(Certificate) /\ DOMAIN cert = 1..Len(cert) BY DEF TypeOK, Certificate
<1>2. \A j \in DOMAIN cert : cert[j] \in Certificate BY <1>1
<1>3. Len(cert) \in Nat BY <1>1
<1>4. DOMAIN new = 1..Len(cert) /\ new[i] = [cert[i] EXCEPT !.expired = TRUE]
      /\ \A j \in DOMAIN cert \ {i} : new[j] = cert[j]
  BY <1>1
<1>5. \A j \in DOMAIN cert : new[j] \in Certificate /\ new[j].status = cert[j].status
  BY <1>2, <1>4, CertificateFields DEF CertStatus
<1>6. new \in [1..Len(cert) -> Certificate] BY <1>1, <1>4, <1>5
<1> QED BY <1>1, <1>3, <1>5, <1>6

LEMMA AccessStep == AccessInv /\ [Next]_vars => AccessInv'
<1> SUFFICES ASSUME AccessInv, [Next]_vars PROVE AccessInv'
  OBVIOUS
<1> USE AccessAssumption
        DEF AccessInv, TypeOK, OptedIn, AutoNeedsOptIn, AllowedIsRegistered, StoredUnderOwnNames,
            Certificate
<1>1. CASE CreateProduct BY <1>1 DEF CreateProduct
<1>2. ASSUME NEW auto \in BOOLEAN, UpdateProduct(auto) PROVE AccessInv'
  BY <1>2 DEF UpdateProduct
<1>3. ASSUME NEW a \in Admin, NEW force \in BOOLEAN, IssueCert(a, force) PROVE AccessInv'
  BY <1>3 DEF IssueCert
<1>4. ASSUME NEW a \in Admin, CreateCert(a) PROVE AccessInv'
  <2>1. cert' \in Seq(Certificate) /\ Len(cert') \leq MaxCert
    BY <1>4 DEF CreateCert, CertStatus
  <2> QED BY <1>4, <2>1 DEF CreateCert
<1>5. ASSUME NEW a \in Admin, RegisterManual(a) PROVE AccessInv'
  BY <1>5 DEF RegisterManual, Upsert, Source
<1>6. ASSUME NEW a \in Admin, NEW id \in 0..Len(cert), NEW target \in StatusCode,
             UpdateCertStatus(a, id, target)
      PROVE  AccessInv'
  <2>1. id \in 0..MaxCert /\ target \in CertStatus BY <1>6 DEF UpdateCertStatus
  <2>2. req' \in [Admin -> [id : 0..MaxCert, target : CertStatus]]
    BY <1>6, <2>1 DEF UpdateCertStatus
  <2> QED BY <1>6, <2>2 DEF UpdateCertStatus
<1>7. ASSUME NEW a \in Admin, SetCertStatus(a) PROVE AccessInv'
  <2>1. req[a].id \in 0..MaxCert /\ req[a].target \in CertStatus OBVIOUS
  <2>2. cert' \in Seq(Certificate) /\ Len(cert') = Len(cert)
    BY <1>7, <2>1, StatusChange DEF SetCertStatus
  <2>3. NoRequest \in [id : 0..MaxCert, target : CertStatus] BY DEF NoRequest, CertStatus
  <2> QED BY <1>7, <2>2, <2>3 DEF SetCertStatus
<1>8. ASSUME NEW a \in Admin, AdminFails(a) PROVE AccessInv'
  <2>1. NoRequest \in [id : 0..MaxCert, target : CertStatus] BY DEF NoRequest, CertStatus
  <2> QED BY <1>8, <2>1 DEF AdminFails
<1>9. ASSUME NEW i \in DOMAIN cert, Expire(i) PROVE AccessInv'
  <2>1. cert' \in Seq(Certificate) /\ Len(cert') = Len(cert) BY <1>9, Expiry DEF Expire
  <2> QED BY <1>9, <2>1 DEF Expire
<1>10. ASSUME NEW c \in Conn, NEW p \in Payload, CheckAdmission(c, p) PROVE AccessInv'
  BY <1>10 DEF CheckAdmission, Admission
<1>11. ASSUME NEW c \in Conn, CheckAdmissionError(c) PROVE AccessInv'
  BY <1>11 DEF CheckAdmissionError
<1>12. ASSUME NEW c \in Conn, AutoProvision(c) PROVE AccessInv'
  BY <1>12 DEF AutoProvision, Upsert, Source
<1>13. ASSUME NEW c \in Conn, AutoProvisionError(c) PROVE AccessInv'
  BY <1>13 DEF AutoProvisionError
<1>14. ASSUME NEW c \in Conn, Disconnect(c) PROVE AccessInv'
  BY <1>14 DEF Disconnect
<1>15. ASSUME NEW c \in Conn, NEW t \in Topic, Report(c, t) PROVE AccessInv'
  <2>1. stored' = stored \cup {<<"product", "device">>}
    BY <1>15, AclNamesProduct DEF Report
  <2>2. device # "none" BY <1>15 DEF Report
  <2>3. stored' \subseteq Name \X Name BY <2>1 DEF Name
  <2>4. StoredUnderOwnNames' BY <1>15, <2>1, <2>2 DEF Report
  <2> QED BY <1>15, <2>3, <2>4 DEF Report
<1>16. CASE UNCHANGED vars BY <1>16 DEF vars
<1> QED BY <1>1, <1>2, <1>3, <1>4, <1>5, <1>6, <1>7, <1>8, <1>9, <1>10, <1>11, <1>12,
           <1>13, <1>14, <1>15, <1>16 DEF Next

LEMMA Access == Spec => []AccessInv
BY AccessInit, AccessStep, PTL DEF Spec

-----------------------------------------------------------------------------
\* No device registers itself before an administrator opened its product.
THEOREM SelfRegistrationNeedsConsent == Spec => []AutoNeedsOptIn
<1>1. AccessInv => AutoNeedsOptIn BY DEF AccessInv, OptedIn
<1> QED BY <1>1, Access, PTL

\* Every session the broker was told to allow belongs to a registered device.
THEOREM SessionsAreRegistered == Spec => []AllowedIsRegistered
<1>1. AccessInv => AllowedIsRegistered BY DEF AccessInv
<1> QED BY <1>1, Access, PTL

\* No topic a device may publish to makes its report another product's or device's.
THEOREM ReportsStayHome == Spec => []StoredUnderOwnNames
<1>1. AccessInv => StoredUnderOwnNames BY DEF AccessInv
<1> QED BY <1>1, Access, PTL

\* The first decision about a certificate is the last one.
THEOREM FirstDecisionStands == Spec => DecisionStands
<1>1. ASSUME AccessInv, [Next]_vars
      PROVE  [/\ Len(cert') >= Len(cert)
              /\ \A i \in DOMAIN cert :
                   cert[i].status # Normal => cert'[i].status = cert[i].status]_vars
  <2> USE <1>1 DEF AccessInv, TypeOK
  <2>1. ASSUME NEW a \in Admin, CreateCert(a)
        PROVE  /\ Len(cert') >= Len(cert)
               /\ \A i \in DOMAIN cert : cert'[i] = cert[i]
    BY <2>1 DEF CreateCert
  <2>2. ASSUME NEW a \in Admin, SetCertStatus(a)
        PROVE  /\ Len(cert') >= Len(cert)
               /\ \A i \in DOMAIN cert :
                    cert[i].status # Normal => cert'[i].status = cert[i].status
    <3>1. req[a].id \in 0..MaxCert /\ req[a].target \in CertStatus OBVIOUS
    <3> QED BY <2>2, <3>1, StatusChange DEF SetCertStatus
  <2>3. ASSUME NEW i \in DOMAIN cert, Expire(i)
        PROVE  /\ Len(cert') >= Len(cert)
               /\ \A j \in DOMAIN cert : cert'[j].status = cert[j].status
    BY <2>3, Expiry DEF Expire
  <2>4. \/ \E a \in Admin : CreateCert(a) \/ SetCertStatus(a)
        \/ \E i \in DOMAIN cert : Expire(i)
        \/ cert' = cert
    BY DEF Next, vars, CreateProduct, UpdateProduct, IssueCert, RegisterManual,
           UpdateCertStatus, AdminFails, CheckAdmission, CheckAdmissionError,
           AutoProvision, AutoProvisionError, Disconnect, Report
  <2> QED BY <2>1, <2>2, <2>3, <2>4
<1> QED BY <1>1, Access, PTL DEF Spec, DecisionStands

-----------------------------------------------------------------------------
(***************************************************************************)
(* DeviceUplink, which shares no state with DeviceAccess.                  *)
(***************************************************************************)

Triple == Nat \X Nat \X Nat

\* On version strings that are accepted, the packed integer keeps the order ...
LEMMA EncodeKeepsOrder ==
    ASSUME NEW x \in Triple, NEW y \in Triple, InRange(x), InRange(y)
    PROVE  Precedes(x, y) <=> Encode(x) < Encode(y)
<1>1. PICK a \in Nat, b \in Nat, c \in Nat : x = <<a, b, c>> BY DEF Triple
<1>2. PICK d \in Nat, e \in Nat, f \in Nat : y = <<d, e, f>> BY DEF Triple
<1>3. b <= 99 /\ c <= 999 /\ e <= 99 /\ f <= 999 BY <1>1, <1>2 DEF InRange
<1>4. Precedes(x, y) <=>
        \/ a < d
        \/ a = d /\ b < e
        \/ a = d /\ b = e /\ c < f
  BY <1>1, <1>2 DEF Precedes
<1>5. /\ Encode(x) = a * 100000 + b * 1000 + c
      /\ Encode(y) = d * 100000 + e * 1000 + f
  BY <1>1, <1>2 DEF Encode
<1>6. CASE a < d BY <1>3, <1>4, <1>5, <1>6
<1>7. CASE a = d /\ b < e BY <1>3, <1>4, <1>5, <1>7
<1>8. CASE a = d /\ b = e BY <1>4, <1>5, <1>8
<1>9. CASE a = d /\ b > e BY <1>3, <1>4, <1>5, <1>9
<1>10. CASE a > d BY <1>3, <1>4, <1>5, <1>10
<1> QED BY <1>6, <1>7, <1>8, <1>9, <1>10

\* ... and format_semver_from_int gives the string back.
LEMMA DecodeEncode ==
    ASSUME NEW v \in Triple, InRange(v)
    PROVE  Decode(Encode(v)) = v
BY DEF Encode, Decode, InRange, Triple

MaxPacked == 99 * 100000 + 99 * 1000 + 999

LEMMA EncodeBounded ==
    ASSUME NEW v \in Triple
    PROVE  /\ Encode(v) \in Nat
           /\ InRange(v) => Encode(v) \in 0..MaxPacked
<1>1. PICK a \in Nat, b \in Nat, c \in Nat : v = <<a, b, c>> BY DEF Triple
<1>2. Encode(v) = a * 100000 + b * 1000 + c BY <1>1 DEF Encode
<1>3. InRange(v) => a <= 99 /\ b <= 99 /\ c <= 999 BY <1>1 DEF InRange
<1>4. Encode(v) \in Nat BY <1>2
<1>5. ASSUME InRange(v) PROVE Encode(v) <= MaxPacked
  <2>1. a <= 99 /\ b <= 99 /\ c <= 999 BY <1>3, <1>5
  <2>2. a * 100000 + b * 1000 + c <= 99 * 100000 + 99 * 1000 + 999 BY <2>1
  <2> QED BY <1>2, <2>2 DEF MaxPacked
<1>6. MaxPacked \in Nat BY DEF MaxPacked
<1> QED BY <1>4, <1>5, <1>6

\* A bounded set of numbers has a greatest one.
LEMMA Greatest ==
    ASSUME NEW T, T # {}, NEW b \in Nat, T \subseteq 0..b
    PROVE  \E x \in T : \A y \in T : y <= x
<1> DEFINE D == {d \in Nat : b - d \in T}
<1>1. D \subseteq Nat OBVIOUS
<1>2. \A x \in T : b - x \in Nat /\ b - (b - x) = x OBVIOUS
<1>3. \A x \in T : b - x \in D BY <1>2
<1>4. D # {} BY <1>3
<1> HIDE DEF D
<1>5. PICK d \in D : \A y \in D : ~ (<<y, d>> \in OpToRel(<, Nat))
  BY <1>1, <1>4, WFMin, NatLessThanWellFounded
<1>6. \A y \in D : ~ (y < d) BY <1>1, <1>5 DEF OpToRel
<1>7. b - d \in T /\ d \in Nat BY DEF D
<1>8. \A x \in T : x <= b - d BY <1>2, <1>3, <1>6, <1>7
<1> QED BY <1>7, <1>8

-----------------------------------------------------------------------------
\* The calls of the broker are numbered, and the newest one, while it is under
\* way, says what the broker thinks.
CallsNumbered ==
    /\ issued \in Nat /\ applied \in Nat /\ applied <= issued
    /\ connected \in BOOLEAN
    /\ \A c \in calls : /\ c[1] \in Nat /\ c[1] <= issued
                        /\ c[1] = issued => (c[2] = "connect" <=> connected = TRUE)

StatusTrue == applied = issued => (status = "Online" <=> connected = TRUE)

StatusInv == CallsNumbered /\ StatusTrue

LEMMA StatusInit == UplinkInit => StatusInv
<1> SUFFICES ASSUME UplinkInit PROVE StatusInv OBVIOUS
<1>1. connected = FALSE /\ connected \in BOOLEAN BY Zenon DEF UplinkInit
<1>2. CallsNumbered BY <1>1 DEF UplinkInit, CallsNumbered
<1>3. StatusTrue
  <2>1. status # "Online" BY DEF UplinkInit
  <2> QED BY <1>1, <2>1, Zenon DEF StatusTrue
<1> QED BY <1>2, <1>3 DEF StatusInv

LEMMA StatusStep == StatusInv /\ [UplinkNext]_uplinkVars => StatusInv'
<1> SUFFICES ASSUME StatusInv, [UplinkNext]_uplinkVars PROVE StatusInv' OBVIOUS
<1> USE DEF StatusInv, CallsNumbered, StatusTrue
<1>1. ASSUME NEW kind \in {"connect", "disconnect"}, BrokerCall(kind)
      PROVE  StatusInv'
  <2>1. /\ issued' = issued + 1 /\ applied' = applied
        /\ calls' = calls \cup {<<issued + 1, kind>>}
        /\ connected' \in BOOLEAN
    BY <1>1 DEF BrokerCall
  <2>2. kind = "connect" <=> connected' = TRUE BY <1>1 DEF BrokerCall
  <2>3. \A c \in calls' : /\ c[1] \in Nat /\ c[1] <= issued'
                          /\ c[1] = issued' => (c[2] = "connect" <=> connected' = TRUE)
    <3> TAKE c \in calls'
    <3>1. CASE c \in calls BY <2>1, <3>1
    <3>2. CASE c = <<issued + 1, kind>> BY <2>1, <2>2, <3>2
    <3> QED BY <2>1, <3>1, <3>2
  <2> QED BY <2>1, <2>3
<1>2. ASSUME NEW c \in calls, DeviceConnect(c) \/ DeviceDisconnect(c)
      PROVE  StatusInv'
  <2>1. /\ UNCHANGED <<connected, issued>> /\ calls' = calls \ {c} /\ applied' = c[1]
        /\ status' = "Online" <=> c[2] = "connect"
    BY <1>2 DEF DeviceConnect, DeviceDisconnect, Processed
  <2> QED BY <2>1
<1>3. ASSUME NEW c \in calls, CallFails(c) PROVE StatusInv'
  BY <1>3 DEF CallFails
<1>4. CASE UNCHANGED statusVars BY <1>4 DEF statusVars
<1>5. \/ \E kind \in {"connect", "disconnect"} : BrokerCall(kind)
      \/ \E c \in calls : \/ DeviceConnect(c) \/ DeviceDisconnect(c)
                          \/ CallFails(c)
      \/ UNCHANGED statusVars
  <2>1. ASSUME NEW i \in Row, NEW r \in Range, NEW mine \in BOOLEAN,
               \/ \E v \in Semver : CreateOtaVersion(i, v, r, mine)
               \/ UpdateOtaVersion(i, r, mine)
        PROVE  UNCHANGED statusVars
    BY <2>1 DEF CreateOtaVersion, UpdateOtaVersion
  <2>2. ASSUME NEW i \in Row, DeleteOtaVersion(i) PROVE UNCHANGED statusVars
    BY <2>2 DEF DeleteOtaVersion
  <2>3. ASSUME NEW v \in Semver, Install(v) PROVE UNCHANGED statusVars
    BY <2>3 DEF Install
  <2>4. OtaVersionPost \/ OtaVersionPostFails \/ Tick => UNCHANGED statusVars
    BY DEF OtaVersionPost, OtaVersionPostFails, Tick
  <2>5. UNCHANGED uplinkVars => UNCHANGED statusVars BY DEF uplinkVars, statusVars
  <2> QED BY <2>1, <2>2, <2>3, <2>4, <2>5 DEF UplinkNext
<1> QED BY <1>1, <1>2, <1>3, <1>4, <1>5

\* device_status is right as soon as the newest call of the broker was the last to
\* write, however connect and disconnect calls are lost or overtake each other.
THEOREM NewestCallDecides == UplinkSpec => []StatusFollowsNewest
<1>1. StatusInv => StatusFollowsNewest
  BY DEF StatusInv, CallsNumbered, StatusTrue, StatusFollowsNewest
<1> QED BY <1>1, StatusInit, StatusStep, PTL DEF UplinkSpec

-----------------------------------------------------------------------------
OtaRow == [version : Nat, min : Nat, max : Nat \cup {None}, forDevice : BOOLEAN,
           of : Semver \X Semver \X (Semver \cup {None})]

\* The integer columns of a row are the packed forms of accepted strings.
Faithful(r) ==
    /\ InRange(r.of[1]) /\ r.version = Encode(r.of[1])
    /\ InRange(r.of[2]) /\ r.min = Encode(r.of[2])
    /\ r.of[3] # None => InRange(r.of[3])
    /\ r.max = Packed(r.of[3])

OtaInv ==
    /\ ota \in [Row -> OtaRow \cup {None}]
    /\ \A i \in Row : ota[i] # None => Faithful(ota[i])
    /\ firmware \in Semver

LEMMA PackedTypes ==
    ASSUME NEW v \in Semver \cup {None}
    PROVE  /\ Packed(v) \in Nat \cup {None}
           /\ Packed(v) = None <=> v = None
           /\ v # None => Packed(v) = Encode(v)
<1>1. \A x \in Semver : Encode(x) \in Nat
  BY EncodeBounded, UplinkAssumption DEF Triple
<1> QED BY <1>1, UplinkAssumption DEF Packed

LEMMA OtaInit == UplinkInit => OtaInv
BY DEF UplinkInit, OtaInv

\* One row replaced by a faithful one, or emptied.
LEMMA RowReplaced ==
    ASSUME OtaInv, NEW i \in Row, NEW r \in OtaRow \cup {None}, r # None => Faithful(r),
           ota' = [ota EXCEPT ![i] = r], firmware' = firmware
    PROVE  OtaInv'
<1>1. ota' \in [Row -> OtaRow \cup {None}] BY DEF OtaInv
<1>2. \A j \in Row : ota'[j] = IF j = i THEN r ELSE ota[j] BY DEF OtaInv
<1>3. \A j \in Row : ota'[j] # None => Faithful(ota'[j]) BY <1>2 DEF OtaInv
<1>4. firmware' \in Semver BY DEF OtaInv
<1>5. \A j \in Row : ota'[j] # None => Faithful(ota[j])' BY <1>3 DEF Faithful,
        InRange, Encode, Packed
<1> QED BY <1>1, <1>4, <1>5 DEF OtaInv

LEMMA OtaStep ==
    ASSUME OtaInv, [UplinkNext]_uplinkVars
    PROVE  OtaInv'
<1>1. ASSUME NEW i \in Row, NEW v \in Semver, NEW r \in Range, NEW mine \in BOOLEAN,
             CreateOtaVersion(i, v, r, mine)
      PROVE  OtaInv'
  <2>1. r[1] \in Semver /\ r[2] \in Semver \cup {None} BY UplinkAssumption
  <2>2. Encode(v) \in Nat /\ Encode(r[1]) \in Nat
    BY <2>1, EncodeBounded, UplinkAssumption DEF Triple
  <2>3. Packed(r[2]) \in Nat \cup {None} BY <2>1, PackedTypes
  <2> DEFINE x == [version |-> Encode(v), min |-> Encode(r[1]),
                   max |-> Packed(r[2]), forDevice |-> mine,
                   of |-> <<v, r[1], r[2]>>]
  <2>4. x \in OtaRow BY <2>1, <2>2, <2>3 DEF OtaRow
  <2>5. Faithful(x) BY <1>1 DEF Faithful, CreateOtaVersion, Valid
  <2>6. ota' = [ota EXCEPT ![i] = x] /\ firmware' = firmware
    BY <1>1 DEF CreateOtaVersion
  <2> HIDE DEF x
  <2> QED BY <2>4, <2>5, <2>6, RowReplaced
<1>2. ASSUME NEW i \in Row, NEW r \in Range, NEW mine \in BOOLEAN,
             UpdateOtaVersion(i, r, mine)
      PROVE  OtaInv'
  <2>1. r[1] \in Semver /\ r[2] \in Semver \cup {None} BY UplinkAssumption
  <2>2. Encode(r[1]) \in Nat
    BY <2>1, EncodeBounded, UplinkAssumption DEF Triple
  <2>3. Packed(r[2]) \in Nat \cup {None} BY <2>1, PackedTypes
  <2>4. ota[i] \in OtaRow /\ Faithful(ota[i]) BY <1>2 DEF OtaInv, UpdateOtaVersion
  <2> DEFINE x == [ota[i] EXCEPT !.min = Encode(r[1]), !.max = Packed(r[2]),
                                 !.forDevice = mine, !.of = <<ota[i].of[1], r[1], r[2]>>]
  <2>5. ota[i].of[1] \in Semver BY <2>4 DEF OtaRow
  <2>6. /\ x.version = ota[i].version /\ x.min = Encode(r[1])
        /\ x.max = Packed(r[2]) /\ x.of = <<ota[i].of[1], r[1], r[2]>>
    BY <2>4 DEF OtaRow
  <2>7. x \in OtaRow BY <2>1, <2>2, <2>3, <2>4, <2>5 DEF OtaRow
  <2>8. ota' = [ota EXCEPT ![i] = x] /\ firmware' = firmware
    BY <1>2 DEF OtaInv, UpdateOtaVersion
  <2>9. Valid(r) BY <1>2 DEF UpdateOtaVersion
  <2> HIDE DEF x
  <2>10. Faithful(x) BY <2>4, <2>6, <2>9 DEF Faithful, Valid
  <2> QED BY <2>7, <2>8, <2>10, RowReplaced
<1>3. ASSUME NEW i \in Row, DeleteOtaVersion(i) PROVE OtaInv'
  BY <1>3, RowReplaced DEF DeleteOtaVersion
<1>4. ASSUME ota' = ota, firmware' \in Semver PROVE OtaInv'
  BY <1>4 DEF OtaInv, Faithful, InRange, Encode, Packed
<1>5. \/ \E i \in Row, r \in Range, mine \in BOOLEAN :
           \/ \E v \in Semver : CreateOtaVersion(i, v, r, mine)
           \/ UpdateOtaVersion(i, r, mine)
      \/ \E i \in Row : DeleteOtaVersion(i)
      \/ ota' = ota /\ firmware' \in Semver
  BY DEF OtaInv, UplinkNext, uplinkVars, otaVars, BrokerCall,
     DeviceConnect, DeviceDisconnect, CallFails, Processed,
     OtaVersionPost, OtaVersionPostFails, Install, Tick
<1> QED BY <1>1, <1>2, <1>3, <1>4, <1>5

\* The columns select a row exactly when its strings do.
LEMMA AppliesIsCandidate ==
    ASSUME OtaInv, InRange(firmware), NEW i \in Row
    PROVE  Applies(ota[i], Encode(firmware)) <=>
             ota[i] # None /\ ota[i] \in Candidates(firmware)
<1> DEFINE r == ota[i]
           n == Encode(firmware)
<1>1. CASE r = None BY <1>1 DEF Applies
<1>2. CASE r # None
  <2>1. r \in OtaRow /\ Faithful(r) BY <1>2 DEF OtaInv
  <2>2. /\ r.of[2] \in Semver /\ r.of[3] \in Semver \cup {None}
        /\ r.forDevice \in BOOLEAN /\ r.min \in Nat /\ r.max \in Nat \cup {None}
    BY <2>1 DEF OtaRow
  <2>3. firmware \in Triple /\ r.of[2] \in Triple /\ n \in Nat
        /\ (r.of[3] # None => r.of[3] \in Triple)
    BY <2>2, EncodeBounded, UplinkAssumption DEF OtaInv, Triple
  <2>4. n >= r.min <=> ~Precedes(firmware, r.of[2])
    BY <2>1, <2>2, <2>3, EncodeKeepsOrder DEF Faithful
  <2>5. (r.max = None \/ r.max > n) <=> (r.of[3] # None => Precedes(firmware, r.of[3]))
    <3>1. CASE r.of[3] = None
      BY <2>1, <2>2, <3>1, PackedTypes DEF Faithful
    <3>2. CASE r.of[3] # None
      <4>1. r.max # None /\ r.max = Encode(r.of[3])
        BY <2>1, <2>2, <3>2, PackedTypes DEF Faithful
      <4> QED BY <2>1, <2>2, <2>3, <3>2, <4>1, EncodeKeepsOrder DEF Faithful
    <3> QED BY <3>1, <3>2
  <2>6. r \in Candidates(firmware) <=>
          /\ r.forDevice
          /\ ~Precedes(firmware, r.of[2])
          /\ r.of[3] # None => Precedes(firmware, r.of[3])
    BY <1>2 DEF Candidates
  <2> HIDE DEF r, n
  <2>7. Applies(r, n) <=> /\ n >= r.min
                          /\ r.max = None \/ r.max > n
                          /\ r.forDevice
    BY <1>2 DEF Applies
  <2>8. Applies(r, n) <=> r # None /\ r \in Candidates(firmware)
    BY <1>2, <2>4, <2>5, <2>6, <2>7
  <2> QED BY <2>8 DEF r, n
<1> QED BY <1>1, <1>2

LEMMA PushStep ==
    ASSUME OtaInv, OtaVersionPost
    PROVE  IF Candidates(firmware) = {} THEN push' = None
           ELSE \E r \in Candidates(firmware) :
                  /\ push' = r.of[1]
                  /\ \A s \in Candidates(firmware) : ~Precedes(r.of[1], s.of[1])
<1> DEFINE n == Encode(firmware)
           rows == {i \in Row : Applies(ota[i], n)}
           Best(i) == \A j \in rows : ota[i].version >= ota[j].version
<1>1. InRange(firmware) /\ push' = GetOtaUpdate(n)
  BY DEF OtaVersionPost
<1>2. \A i \in Row : i \in rows <=> ota[i] # None /\ ota[i] \in Candidates(firmware)
  BY <1>1, AppliesIsCandidate
<1>3. \A s \in Candidates(firmware) : \E i \in rows : s = ota[i]
  <2> TAKE s \in Candidates(firmware)
  <2>1. PICK i \in Row : s = ota[i] /\ s # None BY DEF Candidates
  <2> QED BY <1>2, <2>1
<1>4. \A i \in rows : /\ ota[i].of[1] \in Triple /\ InRange(ota[i].of[1])
                      /\ ota[i].version = Encode(ota[i].of[1])
                      /\ ota[i].version \in 0..MaxPacked
  <2> TAKE i \in rows
  <2>1. ota[i] \in OtaRow /\ Faithful(ota[i]) BY <1>2 DEF OtaInv
  <2>2. ota[i].of[1] \in Triple BY <2>1, UplinkAssumption DEF OtaRow, Triple
  <2> QED BY <2>1, <2>2, EncodeBounded DEF Faithful
<1>5. push' = IF rows = {} THEN None ELSE Decode(ota[CHOOSE i \in rows : Best(i)].version)
  BY <1>1 DEF GetOtaUpdate
<1>6. CASE rows = {} BY <1>3, <1>5, <1>6
<1>7. CASE rows # {}
  <2> DEFINE T == {m \in 0..MaxPacked : \E i \in rows : m = ota[i].version}
             best == CHOOSE i \in rows : Best(i)
  <2>1. T # {} /\ T \subseteq 0..MaxPacked BY <1>4, <1>7
  <2>0. MaxPacked \in Nat BY DEF MaxPacked
  <2>2. PICK m \in T : \A y \in T : y <= m BY <2>0, <2>1, Greatest
  <2>3. PICK i \in rows : m = ota[i].version BY <2>2
  <2>4. \A j \in rows : ota[j].version \in T BY <1>4
  <2>5. Best(i) BY <1>4, <2>2, <2>3, <2>4
  <2>6. best \in rows /\ Best(best) BY <2>5, Zenon
  <2>7. push' = Decode(ota[best].version) BY <1>5, <1>7
  <2> HIDE DEF best, rows
  <2>8. push' = ota[best].of[1] BY <1>4, <2>6, <2>7, DecodeEncode
  <2>9. ota[best] \in Candidates(firmware) BY <1>2, <2>6 DEF rows
  <2>10. ASSUME NEW s \in Candidates(firmware)
         PROVE  ~Precedes(ota[best].of[1], s.of[1])
    <3>1. PICK j \in rows : s = ota[j] BY <1>3
    <3>2. ota[best].version >= ota[j].version BY <2>6
    <3> QED BY <1>4, <2>6, <3>1, <3>2, EncodeKeepsOrder
  <2> QED BY <2>8, <2>9, <2>10
<1> QED BY <1>6, <1>7

\* The newest candidate is an upgrade if there is one.
LEMMA NewestIsUpgrade ==
    ASSUME NEW v \in Triple, NEW r \in Triple, NEW u \in Triple,
           Precedes(v, u), ~Precedes(r, u)
    PROVE  Precedes(v, r)
BY DEF Triple, Precedes

LEMMA UpgradeStep ==
    ASSUME OtaInv, OtaVersionPost, Upgrades(firmware) # {}
    PROVE  \E r \in Upgrades(firmware) :
              /\ push' = r.of[1]
              /\ \A s \in Upgrades(firmware) : ~Precedes(r.of[1], s.of[1])
<1>1. PICK u \in Candidates(firmware) : Precedes(firmware, u.of[1]) BY DEF Upgrades
<1>2. PICK r \in Candidates(firmware) :
         /\ push' = r.of[1]
         /\ \A s \in Candidates(firmware) : ~Precedes(r.of[1], s.of[1])
  BY <1>1, PushStep
<1>3. \A s \in Candidates(firmware) : s.of[1] \in Triple
  <2> TAKE s \in Candidates(firmware)
  <2>1. s \in OtaRow BY DEF OtaInv, Candidates
  <2> QED BY <2>1, UplinkAssumption DEF OtaRow, Triple
<1>4. firmware \in Triple BY UplinkAssumption DEF OtaInv, Triple
<1>5. Precedes(firmware, r.of[1]) BY <1>1, <1>2, <1>3, <1>4, NewestIsUpgrade
<1> QED BY <1>2, <1>5 DEF Upgrades

\* A report that is no repeat is answered with the string the administrator entered,
\* of the newest firmware above the reported version that is meant for it, for any
\* number of rows: get_ota_update on packed integers selects what the strings
\* themselves select.
THEOREM NewestIsPushed == UplinkSpec => NewestUpgradePushed
<1>1. OtaInv /\ [UplinkNext]_uplinkVars => OtaInv' BY OtaStep
<1>2. OtaInv /\ [UplinkNext]_uplinkVars =>
        [OtaVersionPost =>
           /\ Candidates(firmware) = {} => push' = None
           /\ (~Repeat /\ Upgrades(firmware) # {}) =>
                \E r \in Upgrades(firmware) :
                   /\ push' = r.of[1]
                   /\ \A s \in Upgrades(firmware) :
                        ~Precedes(r.of[1], s.of[1])]_uplinkVars
  BY PushStep, UpgradeStep
<1> QED BY <1>1, <1>2, OtaInit, PTL DEF UplinkSpec, NewestUpgradePushed
===============================================================================
