---------------------------- MODULE DeviceAccess ----------------------------
(***************************************************************************)
(* Who may connect: the product's auto-provisioning switch, the table of   *)
(* registered devices, certificates and their status, and the admission    *)
(* check the broker calls when a device connects.  One product and one     *)
(* device of it are modelled.                                              *)
(*                                                                         *)
(* No handler here uses a transaction: every statement is a step of its    *)
(* own, and an error or a dropped request leaves what was done before it.  *)
(***************************************************************************)
EXTENDS Integers, Sequences

CONSTANTS Admin,      \* slots for certificate requests
          Conn,       \* slots for connection attempts
          Tolerance,  \* timestamp_tolerance_secs
          MaxCert     \* bound: certificates ever issued

ASSUME AccessAssumption == Tolerance \in Nat /\ MaxCert \in Nat

Normal  == 0
InValid == 1
Revoked == 2
CertStatus == {Normal, InValid, Revoked}
StatusCode == 0..3   \* what a request may carry
Source     == {"Manual", "Auto"}

\* Names in topics: the device's product (its username), the device (its client
\* id), and any other.
Name == {"product", "device", "other"}

VARIABLES product,   \* "absent", or auto_provisioning: "closed" or "open"
          everOpen,  \* history: auto_provisioning was on at some time
          device,    \* registration_source of the row, or "none"
          cert,      \* the device's certificates, by id
          pc, req,   \* a certificate request: its next statement, its arguments
          cpc,       \* a connection attempt, or the session it led to
          stored     \* <<product_id, device_id>> under which reports were stored

vars == <<product, everOpen, device, cert, pc, req, cpc, stored>>

NoRequest == [id |-> 0, target |-> Normal]

TypeOK ==
    /\ product \in {"absent", "closed", "open"}
    /\ everOpen \in BOOLEAN
    /\ device \in Source \cup {"none"}
    /\ cert \in Seq([status : CertStatus, expired : BOOLEAN])
    /\ Len(cert) \leq MaxCert
    /\ pc \in [Admin -> {"idle", "create", "register", "update"}]
    /\ req \in [Admin -> [id : 0..MaxCert, target : CertStatus]]
    /\ cpc \in [Conn -> {"idle", "provision", "allow", "deny"}]
    /\ stored \subseteq Name \X Name

Init ==
    /\ product = "absent"
    /\ everOpen = FALSE
    /\ device = "none"
    /\ cert = <<>>
    /\ pc = [a \in Admin |-> "idle"]
    /\ req = [a \in Admin |-> NoRequest]
    /\ cpc = [c \in Conn |-> "idle"]
    /\ stored = {}

-----------------------------------------------------------------------------
(***************************************************************************)
(* The product.                                                            *)
(***************************************************************************)

\* The column's default is FALSE; a second product of the model is a conflict.
CreateProduct ==
    /\ product = "absent"
    /\ product' = "closed"
    /\ UNCHANGED <<everOpen, device, cert, pc, req, cpc, stored>>

UpdateProduct(auto) ==
    /\ product # "absent"
    /\ product' = IF auto THEN "open" ELSE "closed"
    /\ everOpen' = (everOpen \/ auto)
    /\ UNCHANGED <<device, cert, pc, req, cpc, stored>>

-----------------------------------------------------------------------------
(***************************************************************************)
(* Certificates.                                                           *)
(***************************************************************************)

\* find_by_device_id: the row with the largest id.
Latest == cert[Len(cert)]

LatestValid == cert # <<>> /\ Latest.status = Normal /\ ~Latest.expired

\* issue_cert_handler looks at the latest certificate only, unless forced.
IssueCert(a, force) ==
    /\ pc[a] = "idle"
    /\ LatestValid => force
    /\ pc' = [pc EXCEPT ![a] = "create"]
    /\ UNCHANGED <<product, everOpen, device, cert, req, cpc, stored>>

CreateCert(a) ==
    /\ pc[a] = "create"
    /\ Len(cert) < MaxCert
    /\ cert' = Append(cert, [status |-> Normal, expired |-> FALSE])
    /\ pc' = [pc EXCEPT ![a] = "register"]
    /\ UNCHANGED <<product, everOpen, device, req, cpc, stored>>

\* DeviceRepo::upsert: ON CONFLICT DO NOTHING.
Upsert(source) ==
    device' = IF device = "none" THEN source ELSE device

RegisterManual(a) ==
    /\ pc[a] = "register"
    /\ Upsert("Manual")
    /\ pc' = [pc EXCEPT ![a] = "idle"]
    /\ UNCHANGED <<product, everOpen, cert, req, cpc, stored>>

\* The certificate the handler looks at: id 0 stands for the legacy mode, which
\* names the device only and looks at the latest.
Named(id) == IF id = 0 THEN Latest ELSE cert[id]

\* update_cert_status_handler: the target is a known status other than Normal.
UpdateCertStatus(a, id, target) ==
    /\ pc[a] = "idle"
    /\ target \in CertStatus \ {Normal}
    /\ cert # <<>> /\ Named(id).status = Normal
    /\ pc' = [pc EXCEPT ![a] = "update"]
    /\ req' = [req EXCEPT ![a] = [id |-> id, target |-> target]]
    /\ UNCHANGED <<product, everOpen, device, cert, cpc, stored>>

\* UPDATE ... WHERE id = ? (or the device's rows) AND status = 0.
WithStatusUnguarded(id, target) ==  \* mutant: trust the check made before
    [i \in DOMAIN cert |-> IF id \in {0, i} THEN [cert[i] EXCEPT !.status = target]
                                            ELSE cert[i]]

WithStatus(id, target) ==
    [i \in DOMAIN cert |-> IF id \in {0, i} /\ cert[i].status = Normal
                             THEN [cert[i] EXCEPT !.status = target]
                             ELSE cert[i]]

SetCertStatus(a) ==
    /\ pc[a] = "update"
    /\ cert' = WithStatus(req[a].id, req[a].target)
    /\ pc' = [pc EXCEPT ![a] = "idle"]
    /\ req' = [req EXCEPT ![a] = NoRequest]
    /\ UNCHANGED <<product, everOpen, device, cpc, stored>>

\* A statement fails, the CA files cannot be read, or the request is dropped.
AdminFails(a) ==
    /\ pc[a] # "idle"
    /\ pc' = [pc EXCEPT ![a] = "idle"]
    /\ req' = [req EXCEPT ![a] = NoRequest]
    /\ UNCHANGED <<product, everOpen, device, cert, cpc, stored>>

Expire(i) ==
    /\ ~cert[i].expired
    /\ cert' = [cert EXCEPT ![i].expired = TRUE]
    /\ UNCHANGED <<product, everOpen, device, pc, req, cpc, stored>>

-----------------------------------------------------------------------------
(***************************************************************************)
(* auth and check_device_admission.                                        *)
(***************************************************************************)

\* What auth can tell of a CONNECT: whether the password has three parts, a nonce
\* of six characters, a timestamp that is a number and an allowed length; its age
\* in seconds (negative for a device whose clock is ahead); whether the hash is the
\* HMAC of client id, nonce, timestamp and suffix; whether a product is named.
Payload == [wellFormed : BOOLEAN, age : (-Tolerance - 1)..(Tolerance + 1),
            signed : BOOLEAN, username : BOOLEAN]

Authentic(p) ==
    /\ p.wellFormed
    /\ -Tolerance \leq p.age /\ p.age \leq Tolerance
    /\ p.signed /\ p.username

\* admission_check is one query over both tables; a product that does not exist
\* has no auto_provisioning.
AdmissionDefault ==  \* mutant: a missing product counts as one that opted in
    IF device # "none" THEN "allow"
    ELSE IF product # "closed" THEN "provision"
    ELSE "deny"

Admission ==
    IF device # "none" THEN "allow"
    ELSE IF product = "open" THEN "provision"
    ELSE "deny"

CheckAdmission(c, p) ==
    /\ cpc[c] = "idle"
    /\ cpc' = [cpc EXCEPT ![c] = IF Authentic(p) THEN Admission ELSE "deny"]
    /\ UNCHANGED <<product, everOpen, device, cert, pc, req, stored>>

\* The query fails: deny.
CheckAdmissionError(c) ==
    /\ cpc[c] = "idle"
    /\ cpc' = [cpc EXCEPT ![c] = "deny"]
    /\ UNCHANGED <<product, everOpen, device, cert, pc, req, stored>>

AutoProvision(c) ==
    /\ cpc[c] = "provision"
    /\ Upsert("Auto")
    /\ cpc' = [cpc EXCEPT ![c] = "allow"]
    /\ UNCHANGED <<product, everOpen, cert, pc, req, stored>>

AutoProvisionErrorAllows(c) ==  \* mutant: the failure is only logged
    /\ cpc[c] = "provision"
    /\ cpc' = [cpc EXCEPT ![c] = "allow"]
    /\ UNCHANGED <<product, everOpen, device, cert, pc, req, stored>>

AutoProvisionError(c) ==
    /\ cpc[c] = "provision"
    /\ cpc' = [cpc EXCEPT ![c] = "deny"]
    /\ UNCHANGED <<product, everOpen, device, cert, pc, req, stored>>

\* The session ends, or the broker drops the refused connection.
Disconnect(c) ==
    /\ cpc[c] \in {"allow", "deny"}
    /\ cpc' = [cpc EXCEPT ![c] = "idle"]
    /\ UNCHANGED <<product, everOpen, device, cert, pc, req, stored>>

-----------------------------------------------------------------------------
(***************************************************************************)
(* Reports of a connected device: the broker asks acl about the topic, and *)
(* passes the report to the handler for it.                                *)
(***************************************************************************)

\* A topic: the slashes in front of it, and its segments.
TopicTail == {<<"thing", "event">>, <<"ota", "version">>, <<"thing", "log">>, <<"thing">>}
Topic     == [slashes : 0..2, path : {names \o tail : names \in Name \X Name, tail \in TopicTail}]

\* acl drops one slash; those that remain are empty segments.
Pad(t) == IF t.slashes > 1 THEN t.slashes - 1 ELSE 0

Segment(t, i) == IF i \leq Pad(t) THEN "" ELSE t.path[i - Pad(t)]

Allowed(t) ==
    /\ Pad(t) + Len(t.path) >= 4
    /\ <<Segment(t, 3), Segment(t, 4)>> \in
           {"thing"} \X {"event", "service", "file", "factory-metadata"}
           \cup {"ota"} \X {"upgrade", "version"}

AclOfDevice(t) ==  \* mutant: the product is not compared
    Allowed(t) /\ Segment(t, 2) = "device"

Acl(t) == Allowed(t) /\ Segment(t, 2) = "device" /\ Segment(t, 1) = "product"

\* extract_product_id_from_topic drops all slashes; the device is the client id.
Report(c, t) ==
    /\ cpc[c] = "allow"
    /\ Acl(t)
    /\ stored' = stored \cup {<<t.path[1], "device">>}
    /\ UNCHANGED <<product, everOpen, device, cert, pc, req, cpc>>

-----------------------------------------------------------------------------
Next ==
    \/ CreateProduct
    \/ \E auto \in BOOLEAN : UpdateProduct(auto)
    \/ \E a \in Admin :
         \/ \E force \in BOOLEAN : IssueCert(a, force)
         \/ CreateCert(a) \/ RegisterManual(a)
         \/ \E id \in 0..Len(cert), target \in StatusCode : UpdateCertStatus(a, id, target)
         \/ SetCertStatus(a) \/ AdminFails(a)
    \/ \E i \in DOMAIN cert : Expire(i)
    \/ \E c \in Conn :
         \/ \E p \in Payload : CheckAdmission(c, p)
         \/ CheckAdmissionError(c)
         \/ AutoProvision(c) \/ AutoProvisionError(c) \/ Disconnect(c)
         \/ \E t \in Topic : Report(c, t)

Spec == Init /\ [][Next]_vars

-----------------------------------------------------------------------------
(***************************************************************************)
(* Properties.                                                             *)
(***************************************************************************)

\* Two administrators decide about one certificate, or about all of a device's
\* at once, each on a status read earlier: the first decision stands, and no
\* certificate leaves InValid or Revoked again.
DecisionStands ==
    [][/\ Len(cert') >= Len(cert)
       /\ \A i \in DOMAIN cert :
            cert[i].status # Normal => cert'[i].status = cert[i].status]_vars

\* A device registers itself only where an administrator opted the product in:
\* not while the product does not exist, and not because a check failed.
AutoNeedsOptIn == device = "Auto" => everOpen

\* Whoever is told "allow" is a registered device, although registration is a
\* statement of its own, after the check, and may fail.
AllowedIsRegistered == \A c \in Conn : cpc[c] = "allow" => device # "none"

\* A report is stored under the names the device was admitted with, and only for
\* a registered device, although the handlers take the product from the topic and
\* read the topic differently from acl.
StoredUnderOwnNames ==
    stored # {} => stored = {<<"product", "device">>} /\ device # "none"
=============================================================================
