--------------------------- MODULE Devices_proofs ---------------------------
(***************************************************************************)
(* Theorems about Devices, for any types, devices, tokens and threads.     *)
(***************************************************************************)
EXTENDS Devices, TLAPS

-----------------------------------------------------------------------------
(***************************************************************************)
(* Types.                                                                  *)
(***************************************************************************)

\* The foreign key of the devices table.
TypesKept == \A d \in StoredDevices : devices[d].type \in StoredTypes

LEMMA RowsAreStored ==
    /\ \A r \in TypeRows : r \notin Lost
    /\ \A r \in DeviceRows : r \notin Lost
    /\ \A r \in TokenRows : r \notin Lost
<1>1. \A r \in TypeRows : r # NoRow /\ r # Gone
  BY DEF TypeRows, NoRow, Gone
<1>2. \A r \in DeviceRows : r # NoRow /\ r # Gone
  BY DEF DeviceRows, NoRow, Gone
<1>3. \A r \in TokenRows : r # NoRow /\ r # Gone
  BY DEF TokenRows, NoRow, Gone
<1> QED BY <1>1, <1>2, <1>3 DEF Lost

LEMMA RequestShapes ==
    ASSUME NEW r \in Requests \cup {NoRequest}
    PROVE  /\ r.op = "create_type" => r.type \in Types /\ r.row \in TypeRows
           /\ r.op = "update_type" => r.type \in Types /\ r.seen \in Paths /\ r.new \in Paths
           /\ r.op = "set_type_active" => r.type \in Types /\ r.active \in BOOLEAN
           /\ r.op = "delete_type" => r.type \in Types
           /\ r.op = "register" => r.device \in Devices /\ r.row \in DeviceRows
           /\ r.op = "update_device" =>
                r.device \in Devices /\ r.seen \in DeviceRows /\ r.new \in DeviceRows
           /\ r.op = "purge" => r.device \in Devices
           /\ r.op = "issue" => r.device \in Devices /\ r.token \in Tokens /\ r.old \subseteq Tokens
           /\ r.op = "revoke" => r.token \in Tokens
           /\ r.op = "create_policy" => r.target \in Types \cup Devices
  BY DEF Requests, NoRequest

LEMMA StoredRows ==
    ASSUME TypeOK
    PROVE  /\ \A y \in StoredTypes : y \in Types /\ types[y] \in TypeRows
           /\ \A d \in StoredDevices : d \in Devices /\ devices[d] \in DeviceRows
           /\ \A k \in StoredTokens : k \in Tokens /\ tokens[k] \in TokenRows
  BY DEF TypeOK, StoredTypes, StoredDevices, StoredTokens

LEMMA AskTyped ==
    ASSUME TypeOK, NEW a \in Admins, NEW r \in Requests, Ask(a, r)
    PROVE  request' \in [Admins -> Requests \cup {NoRequest}]
  BY DEF Ask, TypeOK

LEMMA FinishTyped ==
    ASSUME TypeOK, NEW a \in Admins, Finish(a)
    PROVE  request' \in [Admins -> Requests \cup {NoRequest}]
  BY DEF Finish, TypeOK

LEMMA AskedTyped ==
    ASSUME TypeOK, NEW a \in Admins,
           CreateType(a) \/ UpdateType(a) \/ SetTypeActive(a) \/ DeleteType(a) \/ Register(a)
             \/ SetStatus(a) \/ UpdateIdentity(a) \/ Purge(a) \/ IssueToken(a) \/ RotateToken(a)
             \/ RevokeToken(a) \/ CreatePolicy(a)
    PROVE  TypeOK'
<1>1. SUFFICES ASSUME Rest, \E r \in Requests : Ask(a, r) PROVE TypeOK'
  <2>1. CASE CreateType(a)
    <3>1. PICK y \in Types, path \in Paths :
              Ask(a, [op |-> "create_type", type |-> y, row |-> [path |-> path, active |-> TRUE]])
      BY <2>1 DEF CreateType
    <3>2. [op |-> "create_type", type |-> y, row |-> [path |-> path, active |-> TRUE]] \in Requests
      BY DEF Requests, TypeRows
    <3> QED BY <1>1, <2>1, <3>1, <3>2 DEF CreateType
  <2>2. CASE SetTypeActive(a)
    <3>1. PICK y \in StoredTypes :
              Ask(a, [op |-> "set_type_active", type |-> y, active |-> ~types[y].active])
      BY <2>2 DEF SetTypeActive
    <3>2. y \in Types /\ (~types[y].active) \in BOOLEAN
      BY StoredRows
    <3>3. [op |-> "set_type_active", type |-> y, active |-> ~types[y].active] \in Requests
      BY <3>2 DEF Requests
    <3> QED BY <1>1, <2>2, <3>1, <3>3 DEF SetTypeActive
  <2>3. CASE DeleteType(a)
    <3>1. PICK y \in StoredTypes : Ask(a, [op |-> "delete_type", type |-> y])
      BY <2>3 DEF DeleteType
    <3>2. [op |-> "delete_type", type |-> y] \in Requests
      BY StoredRows DEF Requests
    <3> QED BY <1>1, <2>3, <3>1, <3>2 DEF DeleteType
  <2>4. CASE Register(a)
    <3>1. PICK d \in Devices, y \in StoredTypes, serial \in Serials :
              Ask(a, [op |-> "register", device |-> d,
                      row |-> [type |-> y, serial |-> serial, status |-> "PROVISIONED"]])
      BY <2>4 DEF Register
    <3>2. [op |-> "register", device |-> d,
           row |-> [type |-> y, serial |-> serial, status |-> "PROVISIONED"]] \in Requests
      BY StoredRows DEF Requests, DeviceRows, Statuses
    <3> QED BY <1>1, <2>4, <3>1, <3>2 DEF Register
  <2>5. ASSUME NEW d \in StoredDevices, NEW new \in DeviceRows, AskUpdate(a, d, new)
        PROVE  \E r \in Requests : Ask(a, r)
    <3>1. [op |-> "update_device", device |-> d, seen |-> devices[d], new |-> new] \in Requests
      BY StoredRows DEF Requests
    <3> QED BY <2>5, <3>1 DEF AskUpdate
  <2>6. CASE SetStatus(a)
    <3>1. PICK d \in StoredDevices, status \in Statuses :
              AskUpdate(a, d, [devices[d] EXCEPT !.status = status])
      BY <2>6 DEF SetStatus
    <3>2. [devices[d] EXCEPT !.status = status] \in DeviceRows
      BY StoredRows DEF DeviceRows
    <3> QED BY <1>1, <2>5, <2>6, <3>1, <3>2 DEF SetStatus
  <2>7. CASE UpdateIdentity(a)
    <3>1. PICK d \in StoredDevices, y \in StoredTypes, serial \in Serials :
              AskUpdate(a, d, [devices[d] EXCEPT !.type = y, !.serial = serial])
      BY <2>7 DEF UpdateIdentity
    <3>2. [devices[d] EXCEPT !.type = y, !.serial = serial] \in DeviceRows
      BY StoredRows DEF DeviceRows
    <3> QED BY <1>1, <2>5, <2>7, <3>1, <3>2 DEF UpdateIdentity
  <2>8. CASE Purge(a)
    <3>1. PICK d \in StoredDevices : Ask(a, [op |-> "purge", device |-> d])
      BY <2>8 DEF Purge
    <3>2. [op |-> "purge", device |-> d] \in Requests
      BY StoredRows DEF Requests
    <3> QED BY <1>1, <2>8, <3>1, <3>2 DEF Purge
  <2>9. CASE IssueToken(a)
    <3>1. PICK d \in StoredDevices, k \in Tokens :
              Ask(a, [op |-> "issue", device |-> d, token |-> k, old |-> {}])
      BY <2>9 DEF IssueToken
    <3>2. [op |-> "issue", device |-> d, token |-> k, old |-> {}] \in Requests
      BY StoredRows DEF Requests
    <3> QED BY <1>1, <2>9, <3>1, <3>2 DEF IssueToken
  <2>10. CASE RotateToken(a)
    <3> DEFINE old(c) == IF tokens[c].active THEN {c} ELSE {}
    <3>1. PICK c \in StoredTokens, k \in Tokens :
              Ask(a, [op |-> "issue", device |-> tokens[c].device, token |-> k, old |-> old(c)])
      BY <2>10 DEF RotateToken
    <3>2. old(c) \subseteq Tokens /\ tokens[c].device \in Devices
      BY StoredRows DEF TokenRows
    <3> HIDE DEF old
    <3>3. [op |-> "issue", device |-> tokens[c].device, token |-> k, old |-> old(c)] \in Requests
      BY <3>2 DEF Requests
    <3> QED BY <1>1, <2>10, <3>1, <3>3 DEF RotateToken
  <2>11. CASE RevokeToken(a)
    <3>1. PICK k \in StoredTokens : Ask(a, [op |-> "revoke", token |-> k])
      BY <2>11 DEF RevokeToken
    <3>2. [op |-> "revoke", token |-> k] \in Requests
      BY StoredRows DEF Requests
    <3> QED BY <1>1, <2>11, <3>1, <3>2 DEF RevokeToken
  <2>12. CASE CreatePolicy(a)
    <3>1. PICK x \in PolicyTargets \cap (StoredTypes \cup StoredDevices) :
              Ask(a, [op |-> "create_policy", target |-> x])
      BY <2>12 DEF CreatePolicy
    <3>2. [op |-> "create_policy", target |-> x] \in Requests
      BY StoredRows DEF Requests
    <3> QED BY <1>1, <2>12, <3>1, <3>2 DEF CreatePolicy
  <2>13. CASE UpdateType(a)
    <3>1. PICK y \in StoredTypes, path \in Paths :
              Ask(a, [op |-> "update_type", type |-> y, seen |-> types[y].path, new |-> path])
      BY <2>13 DEF UpdateType
    <3>2. [op |-> "update_type", type |-> y, seen |-> types[y].path, new |-> path] \in Requests
      BY StoredRows DEF Requests, TypeRows
    <3> QED BY <1>1, <2>13, <3>1, <3>2 DEF UpdateType
  <2> QED
    BY <2>1, <2>2, <2>3, <2>4, <2>6, <2>7, <2>8, <2>9, <2>10, <2>11, <2>12, <2>13
<1>2. request' \in [Admins -> Requests \cup {NoRequest}]
  BY <1>1, AskTyped
<1> QED
  BY <1>1, <1>2 DEF Rest, TypeOK, history, others

LEMMA RenamedPathTyped ==
    ASSUME TypeOK, NEW r \in Requests, r.op = "update_type", r.type \in StoredTypes
    PROVE  RenamedPath(r) \in Paths
<1>1. types[r.type].path \in Paths
  BY StoredRows DEF TypeRows
<1>2. r.seen \in Paths /\ r.new \in Paths
  BY RequestShapes
<1> QED
  BY <1>1, <1>2 DEF RenamedPath, Column, Paths

LEMMA UpdatedRowTyped ==
    ASSUME TypeOK, NEW r \in Requests, r.op = "update_device", r.device \in StoredDevices
    PROVE  UpdatedRow(r) \in DeviceRows
<1>1. devices[r.device] \in DeviceRows
  BY StoredRows
<1>2. r.seen \in DeviceRows /\ r.new \in DeviceRows
  BY RequestShapes
<1> QED
  BY <1>1, <1>2 DEF UpdatedRow, Column, DeviceRows

LEMMA PendingRequest ==
    ASSUME TypeOK, NEW a \in Admins, request[a].op # "none"
    PROVE  request[a] \in Requests
  BY DEF TypeOK, NoRequest

LEMMA CommitTypeTyped ==
    ASSUME TypeOK, NEW a \in Admins, CommitType(a) PROVE TypeOK'
<1> DEFINE r == request[a]
<1>1. r \in Requests
  BY PendingRequest DEF CommitType, InsertType, RenameType, SwitchType, RemoveType, Pending
<1>2. types' \in [Types -> TypeRows \cup Lost]
  <2>1. CASE r.op = "create_type"
    <3>1. types' = [types EXCEPT ![r.type] = r.row]
      BY <2>1 DEF CommitType, InsertType, RenameType, SwitchType, RemoveType, Pending
    <3>2. r.row \in TypeRows
      BY <1>1, <2>1, RequestShapes
    <3> HIDE DEF r
    <3> QED BY <3>1, <3>2 DEF TypeOK
  <2>2. CASE r.op = "update_type"
    <3>1. r.type \in StoredTypes /\ types' = [types EXCEPT ![r.type].path = RenamedPath(r)]
      BY <2>2 DEF CommitType, InsertType, RenameType, SwitchType, RemoveType, Pending
    <3>2. RenamedPath(r) \in Paths
      BY <1>1, <2>2, <3>1, RenamedPathTyped
    <3>3. [types[r.type] EXCEPT !.path = RenamedPath(r)] \in TypeRows
      BY <3>1, <3>2, StoredRows DEF TypeRows
    <3> HIDE DEF r
    <3> QED BY <3>1, <3>3 DEF TypeOK
  <2>3. CASE r.op = "set_type_active"
    <3>1. r.type \in StoredTypes /\ types' = [types EXCEPT ![r.type].active = r.active]
      BY <2>3 DEF CommitType, InsertType, RenameType, SwitchType, RemoveType, Pending
    <3>2. r.active \in BOOLEAN
      BY <1>1, <2>3, RequestShapes
    <3>3. [types[r.type] EXCEPT !.active = r.active] \in TypeRows
      BY <3>1, <3>2, StoredRows DEF TypeRows
    <3> HIDE DEF r
    <3> QED BY <3>1, <3>3 DEF TypeOK
  <2>4. CASE r.op = "delete_type"
    <3>1. types' = [types EXCEPT ![r.type] = Gone]
      BY <2>4 DEF CommitType, InsertType, RenameType, SwitchType, RemoveType, Pending
    <3> HIDE DEF r
    <3> QED BY <3>1 DEF TypeOK, Lost
  <2> QED
    BY <2>1, <2>2, <2>3, <2>4 DEF CommitType, InsertType, RenameType, SwitchType, RemoveType, Pending
<1>3. request' \in [Admins -> Requests \cup {NoRequest}]
  BY FinishTyped DEF CommitType
<1> QED
  BY <1>2, <1>3 DEF CommitType, InsertType, RenameType, SwitchType, RemoveType, TypeOK, history, others

LEMMA CommitDeviceTyped ==
    ASSUME TypeOK, NEW a \in Admins, CommitRegister(a) \/ CommitUpdate(a) \/ CommitPurge(a)
    PROVE  TypeOK'
<1> DEFINE r == request[a]
<1>1. r \in Requests
  BY PendingRequest DEF CommitRegister, CommitUpdate, CommitPurge, Pending
<1>2. request' \in [Admins -> Requests \cup {NoRequest}]
  BY FinishTyped DEF CommitRegister, CommitUpdate, CommitPurge
<1>3. CASE CommitRegister(a)
  <2>1. r.row \in DeviceRows /\ devices' = [devices EXCEPT ![r.device] = r.row]
    BY <1>1, <1>3, RequestShapes DEF CommitRegister, Pending
  <2>2. devices' \in [Devices -> DeviceRows \cup Lost]
    <3> HIDE DEF r
    <3> QED BY <2>1 DEF TypeOK
  <2> QED
    BY <1>2, <1>3, <2>2 DEF CommitRegister, TypeOK, history, others
<1>4. CASE CommitUpdate(a)
  <2>1. r.op = "update_device" /\ r.device \in StoredDevices
    BY <1>4 DEF CommitUpdate, Pending
  <2>2. devices' = [devices EXCEPT ![r.device] = UpdatedRow(r)]
    BY <1>4 DEF CommitUpdate
  <2>3. UpdatedRow(r) \in DeviceRows
    BY <1>1, <2>1, UpdatedRowTyped
  <2>4. devices' \in [Devices -> DeviceRows \cup Lost]
    <3> HIDE DEF r
    <3> QED BY <2>1, <2>2, <2>3, StoredRows DEF TypeOK
  <2> QED
    BY <1>2, <1>4, <2>4 DEF CommitUpdate, TypeOK, history, others
<1>5. CASE CommitPurge(a)
  <2>1. /\ devices' = [devices EXCEPT ![r.device] = Gone]
        /\ tokens' = [k \in Tokens |->
             IF k \in StoredTokens /\ tokens[k].device = r.device THEN Gone ELSE tokens[k]]
    BY <1>5 DEF CommitPurge
  <2>2. devices' \in [Devices -> DeviceRows \cup Lost] /\ tokens' \in [Tokens -> TokenRows \cup Lost]
    <3> HIDE DEF r
    <3> QED BY <2>1 DEF TypeOK, Lost
  <2> QED
    BY <1>2, <1>5, <2>2 DEF CommitPurge, TypeOK, history, others
<1> QED
  BY <1>3, <1>4, <1>5

LEMMA CommitTokenTyped ==
    ASSUME TypeOK, TypesKept, NEW a \in Admins, CommitIssue(a) \/ CommitRevoke(a)
    PROVE  TypeOK'
<1> DEFINE r == request[a]
<1>1. r \in Requests
  BY PendingRequest DEF CommitIssue, CommitRevoke, Pending
<1>2. request' \in [Admins -> Requests \cup {NoRequest}]
  BY FinishTyped DEF CommitIssue, CommitRevoke
<1>3. \A k \in StoredTokens : [tokens[k] EXCEPT !.active = FALSE] \in TokenRows
  BY StoredRows DEF TokenRows
<1>4. CASE CommitIssue(a)
  <2> DEFINE new == [device |-> r.device, active |-> TRUE, serial |-> devices[r.device].serial,
                     url |-> types[devices[r.device].type].path]
  <2>1. r.op = "issue" /\ r.device \in StoredDevices /\ r.old \subseteq StoredTokens
    BY <1>4 DEF CommitIssue, Pending
  <2>2. devices[r.device] \in DeviceRows
    BY <2>1, StoredRows
  <2>3. types[devices[r.device].type].path \in Paths
    BY <2>1, StoredRows DEF TypesKept, TypeRows
  <2>4. new \in TokenRows
    BY <2>1, <2>2, <2>3, StoredRows DEF TokenRows, DeviceRows
  <2>5. tokens' = [k \in Tokens |-> IF k = r.token THEN new
                                    ELSE IF k \in r.old THEN [tokens[k] EXCEPT !.active = FALSE]
                                    ELSE tokens[k]]
    BY <1>4 DEF CommitIssue
  <2>6. tokens' \in [Tokens -> TokenRows \cup Lost]
    <3> HIDE DEF r, new
    <3> QED BY <1>3, <2>1, <2>4, <2>5 DEF TypeOK
  <2> QED
    BY <1>2, <1>4, <2>6 DEF CommitIssue, TypeOK, history, others
<1>5. CASE CommitRevoke(a)
  <2>1. r.token \in StoredTokens /\ tokens' = [tokens EXCEPT ![r.token].active = FALSE]
    BY <1>5 DEF CommitRevoke
  <2>2. tokens' \in [Tokens -> TokenRows \cup Lost]
    <3> HIDE DEF r
    <3> QED BY <1>3, <2>1 DEF TypeOK
  <2> QED
    BY <1>2, <1>5, <2>2 DEF CommitRevoke, TypeOK, history, others
<1> QED
  BY <1>4, <1>5

LEMMA CommitPolicyTyped ==
    ASSUME TypeOK, NEW a \in Admins, CommitPolicy(a) \/ Abandon(a) PROVE TypeOK'
<1>1. request' \in [Admins -> Requests \cup {NoRequest}]
  BY FinishTyped DEF CommitPolicy, Abandon
<1>2. CASE CommitPolicy(a)
  BY <1>1, <1>2, StoredRows DEF CommitPolicy, TypeOK, history, others
<1>3. CASE Abandon(a)
  BY <1>1, <1>3 DEF Abandon, Rest, TypeOK, history, others
<1> QED
  BY <1>2, <1>3

LEMMA UploadTyped ==
    ASSUME TypeOK, NEW u \in Uploaders, ReadType(u) \/ CommitUpload(u) \/ FailUpload(u)
    PROVE  TypeOK'
<1>1. CASE ReadType(u)
  <2>1. PICK y \in StoredTypes :
            upload' = [upload EXCEPT ![u] =
                [step |-> "stored", release |-> [type |-> y, path |-> types[y].path]]]
    BY <1>1 DEF ReadType
  <2>3. [step |-> "stored", release |-> [type |-> y, path |-> types[y].path]] \in Uploads
    BY StoredRows DEF Uploads, Releases, TypeRows
  <2>4. upload' \in [Uploaders -> Uploads \cup {NoUpload}]
    BY <2>1, <2>3 DEF TypeOK
  <2> QED
    BY <1>1, <2>4 DEF ReadType, TypeOK, history
<1>2. CASE CommitUpload(u)
  <2>1. upload[u].release \in Releases
    BY <1>2 DEF CommitUpload, TypeOK, Uploads
  <2> QED
    BY <1>2, <2>1 DEF CommitUpload, TypeOK, history
<1>3. CASE FailUpload(u)
  BY <1>3 DEF FailUpload, TypeOK, history
<1> QED
  BY <1>1, <1>2, <1>3

LEMMA PollTyped ==
    ASSUME TypeOK, NEW p \in Polls,
           FindDevice(p) \/ LockDevice(p) \/ CommitPoll(p) \/ SaveEvidence(p) \/ FailPoll(p)
    PROVE  TypeOK'
<1>1. \A q \in PollsMade : q.device \in Devices
  BY DEF PollsMade
<1>2. poll[p] # NoPoll => poll[p] \in PollsMade
  BY DEF TypeOK
<1>3. CASE FindDevice(p)
  <2>1. PICK d \in StoredDevices :
            poll' = [poll EXCEPT ![p] = [step |-> "known", device |-> d, status |-> devices[d].status]]
    BY <1>3 DEF FindDevice
  <2>2. [step |-> "known", device |-> d, status |-> devices[d].status] \in PollsMade
    BY StoredRows DEF PollsMade, DeviceRows
  <2>3. poll' \in [Polls -> PollsMade \cup {NoPoll}]
    BY <2>1, <2>2 DEF TypeOK
  <2> QED
    BY <1>3, <2>3 DEF FindDevice, OnlyPolls, TypeOK, history
<1>4. CASE LockDevice(p)
  <2>1. poll[p] \in PollsMade /\ poll[p].step = "known"
    BY <1>2, <1>4 DEF LockDevice, NoPoll
  <2>2. [poll[p] EXCEPT !.step = "locked"] \in PollsMade
    BY <2>1 DEF PollsMade
  <2>3. poll' = [poll EXCEPT ![p] = [poll[p] EXCEPT !.step = "locked"]]
    BY <1>4 DEF LockDevice
  <2>4. poll' \in [Polls -> PollsMade \cup {NoPoll}]
    BY <2>2, <2>3 DEF TypeOK
  <2> QED
    BY <1>4, <2>4 DEF LockDevice, OnlyPolls, TypeOK, history
<1>5. CASE CommitPoll(p)
  <2>1. poll[p].device \in Devices
    BY <1>1, <1>2, <1>5 DEF CommitPoll, NoPoll
  <2>2. [step |-> "over", device |-> poll[p].device] \in PollsMade
    BY <2>1 DEF PollsMade
  <2>3. poll' \in [Polls -> PollsMade \cup {NoPoll}]
    BY <1>5, <2>2 DEF CommitPoll, TypeOK
  <2>4. attempts' \subseteq Devices
    BY <1>5, <2>1 DEF CommitPoll, TypeOK
  <2> QED
    BY <1>5, <2>3, <2>4 DEF CommitPoll, OnlyPolls, TypeOK
<1>6. CASE SaveEvidence(p)
  BY <1>1, <1>2, <1>6, StoredRows DEF SaveEvidence, OnlyPolls, TypeOK
<1>7. CASE FailPoll(p)
  BY <1>7 DEF FailPoll, OnlyPolls, TypeOK, history
<1> QED
  BY <1>3, <1>4, <1>5, <1>6, <1>7

LEMMA InitTyped == Init => TypeOK /\ TypesKept
  BY DEF Init, TypeOK, TypesKept, StoredDevices, Lost

LEMMA NextTyped == TypeOK /\ TypesKept /\ [Next]_vars => TypeOK'
<1> SUFFICES ASSUME TypeOK, TypesKept, [Next]_vars PROVE TypeOK'
  OBVIOUS
<1>1. ASSUME NEW a \in Admins, Administer(a) PROVE TypeOK'
  BY <1>1, AskedTyped, CommitTypeTyped, CommitDeviceTyped, CommitTokenTyped,
     CommitPolicyTyped DEF Administer
<1>2. CASE UNCHANGED vars
  BY <1>2 DEF vars, TypeOK, history, others
<1> QED
  BY <1>1, <1>2, UploadTyped, PollTyped DEF Next

-----------------------------------------------------------------------------
(***************************************************************************)
(* What a commit does to the rows.                                         *)
(***************************************************************************)

LEMMA CommitTypeEffect ==
    ASSUME TypeOK, NEW a \in Admins, CommitType(a), NEW y, y = request[a].type
    PROVE  /\ y \in Types
           /\ \A z \in Types \ {y} : types'[z] = types[z]
           /\ StoredTypes' = IF request[a].op = "delete_type" THEN StoredTypes \ {y}
                             ELSE StoredTypes \cup {y}
           /\ types'[y] # NoRow
           /\ request[a].op = "delete_type" => ~TypeHasDependencies(y)
           /\ request[a].op \in {"set_type_active", "update_type"} => y \in StoredTypes
           /\ request[a].op = "set_type_active" => types'[y].path = types[y].path
<1> DEFINE r == request[a]
<1>1. r \in Requests
  BY PendingRequest DEF CommitType, InsertType, RenameType, SwitchType, RemoveType, Pending
<1>2. CASE r.op = "create_type"
  <2>1. types' = [types EXCEPT ![y] = r.row]
    BY <1>2 DEF CommitType, InsertType, RenameType, SwitchType, RemoveType, Pending
  <2>2. y \in Types /\ r.row \in TypeRows
    BY <1>1, <1>2, RequestShapes
  <2> QED
    <3> HIDE DEF r
    <3> QED BY <1>2, <2>1, <2>2, RowsAreStored DEF TypeOK, StoredTypes, Lost, r
<1>3. CASE r.op = "update_type"
  <2>1. y \in StoredTypes /\ types' = [types EXCEPT ![y].path = RenamedPath(r)]
    BY <1>3 DEF CommitType, InsertType, RenameType, SwitchType, RemoveType, Pending
  <2>2. RenamedPath(r) \in Paths
    BY <1>1, <1>3, <2>1, RenamedPathTyped
  <2>3. [types[y] EXCEPT !.path = RenamedPath(r)] \in TypeRows
    BY <2>1, <2>2, StoredRows DEF TypeRows
  <2> QED
    <3> HIDE DEF r
    <3> QED BY <1>3, <2>1, <2>3, RowsAreStored DEF TypeOK, StoredTypes, Lost, r
<1>4. CASE r.op = "set_type_active"
  <2>1. y \in StoredTypes /\ types' = [types EXCEPT ![y].active = r.active]
    BY <1>4 DEF CommitType, InsertType, RenameType, SwitchType, RemoveType, Pending
  <2>2. r.active \in BOOLEAN
    BY <1>1, <1>4, RequestShapes
  <2>3. [types[y] EXCEPT !.active = r.active] \in TypeRows
    BY <2>1, <2>2, StoredRows DEF TypeRows
  <2>4. [types[y] EXCEPT !.active = r.active].path = types[y].path
    BY <2>1, StoredRows DEF TypeRows
  <2> QED
    <3> HIDE DEF r
    <3> QED BY <1>4, <2>1, <2>3, <2>4, RowsAreStored DEF TypeOK, StoredTypes, Lost, r
<1>5. CASE r.op = "delete_type"
  <2>1. y \in StoredTypes /\ ~TypeHasDependencies(y) /\ types' = [types EXCEPT ![y] = Gone]
    BY <1>5 DEF CommitType, InsertType, RenameType, SwitchType, RemoveType, Pending
  <2>2. Gone # NoRow
    BY DEF Gone, NoRow
  <2> QED
    <3> HIDE DEF r
    <3> QED BY <1>5, <2>1, <2>2 DEF TypeOK, StoredTypes, Lost, r
<1> QED
  BY <1>2, <1>3, <1>4, <1>5 DEF CommitType, InsertType, RenameType, SwitchType, RemoveType, Pending

LEMMA CommitDeviceEffect ==
    ASSUME TypeOK, NEW a \in Admins, CommitRegister(a) \/ CommitUpdate(a) \/ CommitPurge(a),
           NEW d, d = request[a].device
    PROVE  /\ d \in Devices
           /\ \A e \in Devices \ {d} : devices'[e] = devices[e]
           /\ CommitRegister(a) => /\ StoredDevices' = StoredDevices \cup {d}
                                   /\ devices'[d] = request[a].row
                                   /\ request[a].row.type \in StoredTypes
           /\ CommitUpdate(a) => /\ d \in StoredDevices /\ StoredDevices' = StoredDevices
                                 /\ devices'[d] = UpdatedRow(request[a])
                                 /\ UpdatedRow(request[a]).type \in StoredTypes
           /\ CommitPurge(a) => d \in StoredDevices /\ StoredDevices' = StoredDevices \ {d}
<1> DEFINE r == request[a]
<1>1. r \in Requests
  BY PendingRequest DEF CommitRegister, CommitUpdate, CommitPurge, Pending
<1>2. d \in Devices
  BY <1>1, RequestShapes DEF CommitRegister, CommitUpdate, CommitPurge, Pending
<1>3. CASE CommitRegister(a)
  <2>1. /\ devices' = [devices EXCEPT ![d] = r.row] /\ r.row.type \in StoredTypes
        /\ r.row \in DeviceRows
    BY <1>1, <1>3, RequestShapes DEF CommitRegister, Pending
  <2>2. ~CommitUpdate(a) /\ ~CommitPurge(a)
    BY <1>3 DEF CommitRegister, CommitUpdate, CommitPurge, Pending
  <2> QED
    <3> HIDE DEF r
    <3> QED BY <1>2, <2>1, <2>2, RowsAreStored DEF TypeOK, StoredDevices, Lost, r
<1>4. CASE CommitUpdate(a)
  <2>1. r.op = "update_device" /\ d \in StoredDevices
    BY <1>4 DEF CommitUpdate, Pending
  <2>2. /\ devices' = [devices EXCEPT ![d] = UpdatedRow(r)]
        /\ UpdatedRow(r).type \in StoredTypes
    BY <1>4 DEF CommitUpdate
  <2>3. UpdatedRow(r) \in DeviceRows
    BY <1>1, <2>1, UpdatedRowTyped
  <2>4. ~CommitRegister(a) /\ ~CommitPurge(a)
    BY <1>4 DEF CommitRegister, CommitUpdate, CommitPurge, Pending
  <2> QED
    <3> HIDE DEF r
    <3> QED BY <1>2, <2>1, <2>2, <2>3, <2>4, RowsAreStored DEF TypeOK, StoredDevices, Lost, r
<1>5. CASE CommitPurge(a)
  <2>1. d \in StoredDevices /\ devices' = [devices EXCEPT ![d] = Gone]
    BY <1>5 DEF CommitPurge
  <2>2. ~CommitRegister(a) /\ ~CommitUpdate(a)
    BY <1>5 DEF CommitRegister, CommitUpdate, CommitPurge, Pending
  <2> QED
    <3> HIDE DEF r
    <3> QED BY <1>2, <2>1, <2>2 DEF TypeOK, StoredDevices, Lost
<1> QED
  BY <1>3, <1>4, <1>5

\* No step but these changes the types or the devices.
LEMMA OthersKeepRows ==
    ASSUME [Next]_vars
    PROVE  \/ types' = types /\ devices' = devices
           \/ \E a \in Admins : CommitType(a)
           \/ \E a \in Admins : CommitRegister(a) \/ CommitUpdate(a) \/ CommitPurge(a)
<1>1. ASSUME NEW a \in Admins, Administer(a)
      PROVE  \/ types' = types /\ devices' = devices
             \/ CommitType(a) \/ CommitRegister(a) \/ CommitUpdate(a) \/ CommitPurge(a)
  BY <1>1 DEF Administer, CreateType, UpdateType, SetTypeActive, DeleteType, Register, SetStatus,
     UpdateIdentity, Purge, IssueToken, RotateToken, RevokeToken, CreatePolicy, CommitIssue,
     CommitRevoke, CommitPolicy, Abandon, Rest
<1>2. ASSUME NEW u \in Uploaders, ReadType(u) \/ CommitUpload(u) \/ FailUpload(u)
      PROVE  types' = types /\ devices' = devices
  BY <1>2 DEF ReadType, CommitUpload, FailUpload
<1>3. ASSUME NEW p \in Polls,
             FindDevice(p) \/ LockDevice(p) \/ CommitPoll(p) \/ SaveEvidence(p) \/ FailPoll(p)
      PROVE  types' = types /\ devices' = devices
  BY <1>3 DEF FindDevice, LockDevice, CommitPoll, SaveEvidence, FailPoll, OnlyPolls
<1> QED
  BY <1>1, <1>2, <1>3 DEF Next, vars

LEMMA NextKeepsTypes == TypeOK /\ TypesKept /\ [Next]_vars => TypesKept'
<1> SUFFICES ASSUME TypeOK, TypesKept, [Next]_vars PROVE TypesKept'
  OBVIOUS
<1>1. CASE types' = types /\ devices' = devices
  BY <1>1 DEF TypesKept, StoredTypes, StoredDevices
<1>2. ASSUME NEW a \in Admins, CommitType(a) PROVE TypesKept'
  <2> DEFINE y == request[a].type
  <2>1. devices' = devices /\ StoredDevices' = StoredDevices
    BY <1>2 DEF CommitType, InsertType, RenameType, SwitchType, RemoveType, StoredDevices
  <2>2. /\ StoredTypes' = IF request[a].op = "delete_type" THEN StoredTypes \ {y}
                          ELSE StoredTypes \cup {y}
        /\ request[a].op = "delete_type" => ~TypeHasDependencies(y)
    BY <1>2, CommitTypeEffect
  <2> HIDE DEF y
  <2> QED BY <2>1, <2>2 DEF TypesKept, TypeHasDependencies
<1>3. ASSUME NEW a \in Admins, CommitRegister(a) \/ CommitUpdate(a) \/ CommitPurge(a)
      PROVE  TypesKept'
  <2>1. StoredTypes' = StoredTypes
    BY <1>3 DEF CommitRegister, CommitUpdate, CommitPurge, StoredTypes
  <2>2. PICK d : d = request[a].device
    OBVIOUS
  <2>3. \A e \in StoredDevices' : e \in Devices
    BY DEF StoredDevices
  <2> QED BY <1>3, <2>1, <2>2, <2>3, CommitDeviceEffect DEF TypesKept
<1> QED
  BY <1>1, <1>2, <1>3, OthersKeepRows

\* Every row and every request under way has its columns and its types, in every
\* reachable state.
THEOREM DevicesTypeCorrect == Spec => []TypeOK
<1>1. Init => TypeOK /\ TypesKept
  BY InitTyped
<1>2. TypeOK /\ TypesKept /\ [Next]_vars => (TypeOK /\ TypesKept)'
  BY NextTyped, NextKeepsTypes
<1> QED
  BY <1>1, <1>2, PTL DEF Spec

-----------------------------------------------------------------------------
(***************************************************************************)
(* What refers to a row, for any requests, uploads and polls at once.      *)
(***************************************************************************)

\* Offers are recorded under the row lock, which waits for nothing that is gone.
LockedStored == \A p \in Polls : poll[p].step = "locked" => poll[p].device \in StoredDevices

HistoryInv ==
    /\ attempts \cup evidence \subseteq StoredDevices
    /\ targets \subseteq StoredTypes \cup StoredDevices
    /\ \A r \in releases : r.type \in StoredTypes
    /\ LockedStored

Grows ==
    /\ releases \subseteq releases' /\ targets \subseteq targets'
    /\ attempts \subseteq attempts' /\ evidence \subseteq evidence'

AskedOrWritten(a) ==
    \/ CreateType(a) \/ UpdateType(a) \/ SetTypeActive(a) \/ DeleteType(a) \/ Register(a)
    \/ SetStatus(a) \/ UpdateIdentity(a) \/ Purge(a) \/ IssueToken(a) \/ RotateToken(a)
    \/ RevokeToken(a) \/ CreatePolicy(a) \/ CommitIssue(a) \/ CommitRevoke(a) \/ Abandon(a)

LEMMA HistoryHeld ==
    ASSUME HistoryInv, UNCHANGED <<types, devices, releases, targets, attempts, evidence, poll>>
    PROVE  HistoryInv' /\ Grows
  BY DEF HistoryInv, LockedStored, Grows, StoredTypes, StoredDevices

LEMMA RequestHistory ==
    ASSUME HistoryInv, NEW a \in Admins, AskedOrWritten(a)
    PROVE  HistoryInv' /\ Grows
<1>1. UNCHANGED <<types, devices, releases, targets, attempts, evidence, poll>>
  BY DEF AskedOrWritten, CreateType, UpdateType, SetTypeActive, DeleteType, Register, SetStatus,
     UpdateIdentity, Purge, IssueToken, RotateToken, RevokeToken, CreatePolicy, CommitIssue,
     CommitRevoke, Abandon, Rest, history, others
<1> QED
  BY <1>1, HistoryHeld

\* A type is deleted by its id once nothing has come to refer to it.
LEMMA TypeHistory ==
    ASSUME TypeOK, HistoryInv, NEW a \in Admins, CommitType(a)
    PROVE  HistoryInv' /\ Grows
<1> DEFINE y == request[a].type
<1>1. UNCHANGED <<devices, releases, targets, attempts, evidence, poll>>
  BY DEF CommitType, InsertType, RenameType, SwitchType, RemoveType, history, others
<1>2. StoredDevices' = StoredDevices
  BY <1>1 DEF StoredDevices
<1>3. /\ StoredTypes' = IF request[a].op = "delete_type" THEN StoredTypes \ {y}
                        ELSE StoredTypes \cup {y}
      /\ request[a].op = "delete_type" => ~TypeHasDependencies(y)
  BY CommitTypeEffect
<1> HIDE DEF y
<1>4. targets' \subseteq (StoredTypes \cup StoredDevices)' /\ \A r \in releases' : r.type \in StoredTypes'
  BY <1>1, <1>2, <1>3 DEF HistoryInv, TypeHasDependencies
<1> QED
  BY <1>1, <1>2, <1>4 DEF HistoryInv, LockedStored, Grows

\* A device is purged once nothing has come to refer to it and no poll holds it.
LEMMA DeviceHistory ==
    ASSUME TypeOK, HistoryInv, NEW a \in Admins,
           CommitRegister(a) \/ CommitUpdate(a) \/ CommitPurge(a)
    PROVE  HistoryInv' /\ Grows
<1> DEFINE d == request[a].device
<1>1. UNCHANGED <<types, releases, targets, attempts, evidence, poll>>
  BY DEF CommitRegister, CommitUpdate, CommitPurge, history, others
<1>2. StoredTypes' = StoredTypes
  BY <1>1 DEF StoredTypes
<1>3. CASE CommitRegister(a) \/ CommitUpdate(a)
  <2>1. StoredDevices \subseteq StoredDevices'
    BY <1>3, CommitDeviceEffect
  <2> QED
    BY <1>1, <1>2, <2>1 DEF HistoryInv, LockedStored, Grows
<1>4. CASE CommitPurge(a)
  <2>1. StoredDevices' = StoredDevices \ {d}
    BY <1>4, CommitDeviceEffect
  <2>2. ~Locked(d) /\ ~DeviceHasPurgeBlockers(d)
    BY <1>4 DEF CommitPurge
  <2> HIDE DEF d
  <2>3. LockedStored'
    BY <1>1, <2>1, <2>2 DEF HistoryInv, LockedStored, Locked
  <2> QED
    BY <1>1, <1>2, <2>1, <2>2, <2>3 DEF HistoryInv, DeviceHasPurgeBlockers, Grows
<1> QED
  BY <1>3, <1>4

LEMMA PolicyHistory ==
    ASSUME HistoryInv, NEW a \in Admins, CommitPolicy(a)
    PROVE  HistoryInv' /\ Grows
<1>1. /\ UNCHANGED <<types, devices, releases, attempts, evidence, poll>>
      /\ targets' = targets \cup {request[a].target}
      /\ request[a].target \in StoredTypes \cup StoredDevices
  BY DEF CommitPolicy, history, others
<1> QED
  BY <1>1 DEF HistoryInv, LockedStored, Grows, StoredTypes, StoredDevices

\* The type of an upload is looked for again by the foreign key.
LEMMA UploadHistory ==
    ASSUME HistoryInv, NEW u \in Uploaders, ReadType(u) \/ CommitUpload(u) \/ FailUpload(u)
    PROVE  HistoryInv' /\ Grows
<1>1. UNCHANGED <<types, devices, targets, attempts, evidence, poll>>
  BY DEF ReadType, CommitUpload, FailUpload, history
<1>2. \/ releases' = releases
      \/ /\ releases' = releases \cup {upload[u].release}
         /\ upload[u].release.type \in StoredTypes
  BY DEF ReadType, CommitUpload, FailUpload
<1> QED
  BY <1>1, <1>2 DEF HistoryInv, LockedStored, Grows, StoredTypes, StoredDevices

LEMMA PollHistory ==
    ASSUME TypeOK, HistoryInv, NEW p \in Polls,
           FindDevice(p) \/ LockDevice(p) \/ CommitPoll(p) \/ SaveEvidence(p) \/ FailPoll(p)
    PROVE  HistoryInv' /\ Grows
<1>1. UNCHANGED <<types, devices, releases, targets>>
  BY DEF FindDevice, LockDevice, CommitPoll, SaveEvidence, FailPoll, OnlyPolls
<1>2. StoredTypes' = StoredTypes /\ StoredDevices' = StoredDevices
  BY <1>1 DEF StoredTypes, StoredDevices
<1>3. \A q \in Polls \ {p} : poll'[q] = poll[q]
  BY DEF FindDevice, LockDevice, CommitPoll, SaveEvidence, FailPoll, TypeOK
<1>4. poll'[p].step = "locked" => poll'[p].device \in StoredDevices
  <2>1. CASE LockDevice(p)
    <3>1. poll[p] \in PollsMade /\ poll[p].step = "known" /\ poll[p].device \in StoredDevices
      BY <2>1 DEF LockDevice, TypeOK, NoPoll
    <3>2. poll'[p] = [poll[p] EXCEPT !.step = "locked"]
      BY <2>1 DEF LockDevice, TypeOK
    <3> QED BY <3>1, <3>2 DEF PollsMade
  <2>2. CASE FindDevice(p)
    <3>1. PICK d \in StoredDevices :
            poll' = [poll EXCEPT ![p] = [step |-> "known", device |-> d, status |-> devices[d].status]]
      BY <2>2 DEF FindDevice
    <3> QED BY <3>1 DEF TypeOK
  <2>3. CASE CommitPoll(p) \/ SaveEvidence(p) \/ FailPoll(p)
    BY <2>3 DEF CommitPoll, SaveEvidence, FailPoll, NoPoll, TypeOK
  <2> QED BY <2>1, <2>2, <2>3
<1>5. \/ attempts' = attempts
      \/ /\ attempts' = attempts \cup {poll[p].device}
         /\ poll[p].device \in StoredDevices
  BY DEF FindDevice, LockDevice, CommitPoll, SaveEvidence, FailPoll, history, HistoryInv, LockedStored
<1>6. \/ evidence' = evidence
      \/ /\ evidence' = evidence \cup {poll[p].device}
         /\ poll[p].device \in StoredDevices
  BY DEF FindDevice, LockDevice, CommitPoll, SaveEvidence, FailPoll, history
<1>7. LockedStored'
  BY <1>2, <1>3, <1>4 DEF HistoryInv, LockedStored
<1> QED
  BY <1>1, <1>2, <1>5, <1>6, <1>7 DEF HistoryInv, Grows

LEMMA NextHistory == TypeOK /\ HistoryInv /\ [Next]_vars => HistoryInv' /\ Grows
<1> SUFFICES ASSUME TypeOK, HistoryInv, [Next]_vars PROVE HistoryInv' /\ Grows
  OBVIOUS
<1>1. ASSUME NEW a \in Admins, Administer(a) PROVE HistoryInv' /\ Grows
  BY <1>1, RequestHistory, TypeHistory, DeviceHistory, PolicyHistory
  DEF Administer, AskedOrWritten
<1>2. CASE UNCHANGED vars
  BY <1>2, HistoryHeld DEF vars, history, others
<1> QED
  BY <1>1, <1>2, UploadHistory, PollHistory DEF Next

\* docs/RESOURCE-RULES.md: "cascading hard deletes are prohibited for retained
\* operational history".  However many requests, uploads, polls and late evidence
\* rows overlap a deletion of a type or a purge of a device, nothing that refers to
\* the deleted row is lost and nothing is left that refers to it.
THEOREM HistoryHolds == Spec => HistoryIsKept
<1> DEFINE Inv == TypeOK /\ TypesKept /\ HistoryInv
<1>1. Init => Inv
  <2> SUFFICES ASSUME Init PROVE HistoryInv
    BY InitTyped
  <2> QED
    BY DEF Init, HistoryInv, LockedStored, NoPoll
<1>2. Inv /\ [Next]_vars => Inv'
  BY NextTyped, NextKeepsTypes, NextHistory
<1>3. Inv /\ [Next]_vars =>
        [/\ releases \subseteq releases' /\ targets \subseteq targets'
         /\ attempts \subseteq attempts' /\ evidence \subseteq evidence'
         /\ (attempts \cup evidence)' \subseteq StoredDevices'
         /\ targets' \subseteq (StoredTypes \cup StoredDevices)'
         /\ \A r \in releases' : r.type \in StoredTypes'
         /\ \A d \in StoredDevices' : devices'[d].type \in StoredTypes']_vars
  BY NextTyped, NextKeepsTypes, NextHistory DEF HistoryInv, TypesKept, Grows
<1> QED
  BY <1>1, <1>2, <1>3, PTL DEF Spec, HistoryIsKept
=============================================================================
