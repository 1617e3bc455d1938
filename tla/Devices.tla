------------------------------ MODULE Devices ------------------------------
(***************************************************************************)
(* Device types, devices and their tokens.                                 *)
(*   app/services/devices.py        DeviceService                          *)
(*   app/services/device_tokens.py  DeviceTokenService                     *)
(*   app/api/v1/devices.py          the routes that call them and commit   *)
(*                                                                         *)
(* An admin request reads rows and checks them, then writes and commits.   *)
(* Between the two, other admin requests commit, uploads read the type     *)
(* they publish under, and devices poll with what they were provisioned    *)
(* with.  A request that a check or the database refuses changes nothing.  *)
(***************************************************************************)
EXTENDS Naturals, FiniteSets

CONSTANTS
    Types,          \* ids the device_types table may give out
    Devices,        \* ids the devices table may give out
    Tokens,         \* ids the device_tokens table may give out
    Serials,        \* serial numbers
    Codes,          \* codes of device types
    Platforms,      \* platforms of device types
    Admins,         \* threads that serve the device routes
    Uploaders,      \* threads that serve uploads
    Polls,          \* threads that serve device requests
    MaxReleases,    \* bound: committed releases
    PolicyTargets   \* bound: the types and devices that policies may refer to

ASSUME IdsAssumption == Types \cap Devices = {}

VARIABLES
    types,      \* types[y]: the committed row, or NoRow, or Gone
    devices,    \* devices[d]: likewise
    tokens,     \* tokens[k]: likewise, with what the device was provisioned with
    releases,   \* the release rows, with the path their keys and manifest hold
    targets,    \* the types and devices that a policy row refers to
    attempts,   \* the devices that an update attempt refers to
    evidence,   \* the devices that a communication row refers to
    request,    \* request[a]: what admin thread a is about to write
    upload,     \* upload[u]: the upload that thread u serves
    poll        \* poll[p]: the device request that thread p serves

vars == <<types, devices, tokens, releases, targets, attempts, evidence,
          request, upload, poll>>
history == <<attempts, evidence>>
others == <<upload, poll>>

Statuses == {"PROVISIONED", "ACTIVE", "DISABLED", "RETIRED"}

\* An id is given out once: the row of a deleted one stays Gone.
NoRow == [row |-> "none"]
Gone == [row |-> "deleted"]
Lost == {NoRow, Gone}

\* What the URLs and the object keys hold of a type.
Paths == [code: Codes, platform: Platforms]
TypeRows == [path: Paths, active: BOOLEAN]
\* The MAC is a second identity column, checked and constrained like the serial
\* number; the OTA switch and the known version are in OtaService.
DeviceRows == [type: Types, serial: Serials, status: Statuses]
\* The device is flashed with its token, its serial number and its manifest URL.
TokenRows == [device: Devices, active: BOOLEAN, serial: Serials, url: Paths]
Releases == [type: Types, path: Paths]

NoRequest == [op |-> "none"]
Requests ==
    [op: {"create_type"}, type: Types, row: TypeRows]
      \cup [op: {"update_type"}, type: Types, seen: Paths, new: Paths]
      \cup [op: {"set_type_active"}, type: Types, active: BOOLEAN]
      \cup [op: {"delete_type"}, type: Types]
      \cup [op: {"register"}, device: Devices, row: DeviceRows]
      \cup [op: {"update_device"}, device: Devices, seen: DeviceRows, new: DeviceRows]
      \cup [op: {"purge"}, device: Devices]
      \cup [op: {"issue"}, device: Devices, token: Tokens, old: SUBSET Tokens]
      \cup [op: {"revoke"}, token: Tokens]
      \cup [op: {"create_policy"}, target: Types \cup Devices]

NoUpload == [step |-> "idle"]
Uploads == [step: {"stored"}, release: Releases]

NoPoll == [step |-> "idle"]
PollsMade ==
    [step: {"known", "locked"}, device: Devices, status: Statuses]
      \cup [step: {"over"}, device: Devices]

Init ==
    /\ types = [y \in Types |-> NoRow]
    /\ devices = [d \in Devices |-> NoRow]
    /\ tokens = [k \in Tokens |-> NoRow]
    /\ releases = {} /\ targets = {} /\ attempts = {} /\ evidence = {}
    /\ request = [a \in Admins |-> NoRequest]
    /\ upload = [u \in Uploaders |-> NoUpload]
    /\ poll = [p \in Polls |-> NoPoll]

StoredTypes == {y \in Types : types[y] \notin Lost}
StoredDevices == {d \in Devices : devices[d] \notin Lost}
StoredTokens == {k \in Tokens : tokens[k] \notin Lost}

\* A poll has updated last_seen_at and not committed: it holds the row lock.
Locked(d) == \E p \in Polls : poll[p].step = "locked" /\ poll[p].device = d

Ask(a, r) == request[a] = NoRequest /\ request' = [request EXCEPT ![a] = r]
Finish(a) == request' = [request EXCEPT ![a] = NoRequest]
-----------------------------------------------------------------------------
(***************************************************************************)
(* The checks of DeviceService.  Each is a query of its own; they read one *)
(* after the other what this module lets them read at once.                *)
(***************************************************************************)

TypeHasDependencies(y) ==
    \/ \E d \in StoredDevices : devices[d].type = y
    \/ \E r \in releases : r.type = y
    \/ y \in targets

DeviceHasPurgeBlockers(d) == d \in evidence \cup attempts \cup targets

DeviceHasHistory(d) ==
    DeviceHasPurgeBlockers(d) \/ \E k \in StoredTokens : tokens[k].device = d

CodeTaken(y, path) == \E z \in StoredTypes \ {y} : types[z].path.code = path.code
SerialTaken(d, serial) == \E e \in StoredDevices \ {d} : devices[e].serial = serial

Transitions ==
    {<<"PROVISIONED", "ACTIVE">>, <<"PROVISIONED", "DISABLED">>, <<"PROVISIONED", "RETIRED">>,
     <<"ACTIVE", "DISABLED">>, <<"ACTIVE", "RETIRED">>,
     <<"DISABLED", "ACTIVE">>, <<"DISABLED", "RETIRED">>,
     <<"RETIRED", "DISABLED">>}
-----------------------------------------------------------------------------
(***************************************************************************)
(* Admin requests up to their write.                                       *)
(***************************************************************************)

Rest == UNCHANGED <<types, devices, tokens, releases, targets, history, others>>

\* Ids come from a sequence, so two requests never have the same one.
FreshType(y) == types[y] = NoRow /\ \A b \in Admins :
    request[b].op = "create_type" => request[b].type # y
FreshDevice(d) == devices[d] = NoRow /\ \A b \in Admins :
    request[b].op = "register" => request[b].device # d
FreshToken(k) == tokens[k] = NoRow /\ \A b \in Admins :
    request[b].op = "issue" => request[b].token # k

\* Mutant: the default of the active column is missing.
CreateTypeNoDefault(a) ==
    /\ \E y \in Types, path \in Paths :
          /\ FreshType(y)
          /\ ~CodeTaken(y, path)
          /\ Ask(a, [op |-> "create_type", type |-> y, row |-> [path |-> path]])
    /\ Rest

CreateType(a) ==
    /\ \E y \in Types, path \in Paths :
          /\ FreshType(y)
          /\ ~CodeTaken(y, path)
          /\ Ask(a, [op |-> "create_type", type |-> y, row |-> [path |-> path, active |-> TRUE]])
    /\ Rest

\* A rename is refused while something depends on the type; names and
\* descriptions, which may always change, are left out.
UpdateType(a) ==
    /\ \E y \in StoredTypes, path \in Paths :
          /\ path # types[y].path
          /\ ~TypeHasDependencies(y)
          /\ ~CodeTaken(y, path)
          /\ Ask(a, [op |-> "update_type", type |-> y, seen |-> types[y].path, new |-> path])
    /\ Rest

SetTypeActive(a) ==
    /\ \E y \in StoredTypes :
          Ask(a, [op |-> "set_type_active", type |-> y, active |-> ~types[y].active])
    /\ Rest

DeleteType(a) ==
    /\ \E y \in StoredTypes :
          /\ ~TypeHasDependencies(y)
          /\ Ask(a, [op |-> "delete_type", type |-> y])
    /\ Rest

Register(a) ==
    /\ \E d \in Devices, y \in StoredTypes, serial \in Serials :
          /\ FreshDevice(d)
          /\ types[y].active
          /\ ~SerialTaken(d, serial)
          /\ Ask(a, [op |-> "register", device |-> d,
                     row |-> [type |-> y, serial |-> serial, status |-> "PROVISIONED"]])
    /\ Rest

AskUpdate(a, d, new) ==
    Ask(a, [op |-> "update_device", device |-> d, seen |-> devices[d], new |-> new])

SetStatus(a) ==
    /\ \E d \in StoredDevices, status \in Statuses :
          /\ <<devices[d].status, status>> \in Transitions
          /\ AskUpdate(a, d, [devices[d] EXCEPT !.status = status])
    /\ Rest

UpdateIdentity(a) ==
    /\ \E d \in StoredDevices, y \in StoredTypes, serial \in Serials :
          /\ devices[d].status = "PROVISIONED"
          /\ ~DeviceHasHistory(d)
          /\ types[y].active \/ y = devices[d].type
          /\ ~SerialTaken(d, serial)
          /\ y # devices[d].type \/ serial # devices[d].serial
          /\ AskUpdate(a, d, [devices[d] EXCEPT !.type = y, !.serial = serial])
    /\ Rest

Purge(a) ==
    /\ \E d \in StoredDevices :
          /\ devices[d].status = "PROVISIONED"
          /\ ~DeviceHasPurgeBlockers(d)
          /\ Ask(a, [op |-> "purge", device |-> d])
    /\ Rest

\* issue: other tokens of the device stay as they are.
IssueToken(a) ==
    /\ \E d \in StoredDevices, k \in Tokens :
          /\ FreshToken(k)
          /\ Ask(a, [op |-> "issue", device |-> d, token |-> k, old |-> {}])
    /\ Rest

\* rotate: a new token in any case, the old one revoked if it was not yet.
RotateToken(a) ==
    /\ \E c \in StoredTokens, k \in Tokens :
          /\ FreshToken(k)
          /\ Ask(a, [op |-> "issue", device |-> tokens[c].device, token |-> k,
                     old |-> IF tokens[c].active THEN {c} ELSE {}])
    /\ Rest

RevokeToken(a) ==
    /\ \E k \in StoredTokens : Ask(a, [op |-> "revoke", token |-> k])
    /\ Rest

CreatePolicy(a) ==
    /\ \E x \in PolicyTargets \cap (StoredTypes \cup StoredDevices) :
          Ask(a, [op |-> "create_policy", target |-> x])
    /\ Rest
-----------------------------------------------------------------------------
(***************************************************************************)
(* The writes.  Unique and foreign keys hold of what would be stored, and  *)
(* an UPDATE finds its row, or the request fails (Abandon).  An UPDATE or  *)
(* DELETE of a device waits for the row lock of a poll.                    *)
(***************************************************************************)

Pending(a, op) == request[a].op = op

\* An UPDATE writes the columns whose value differs from the one read.
Column(stored, seen, new) == IF new # seen THEN new ELSE stored

RenamedPath(r) ==
    LET path == types[r.type].path IN
    [code |-> Column(path.code, r.seen.code, r.new.code),
     platform |-> Column(path.platform, r.seen.platform, r.new.platform)]

UpdatedRow(r) ==
    LET row == devices[r.device] IN
    [type |-> Column(row.type, r.seen.type, r.new.type),
     serial |-> Column(row.serial, r.seen.serial, r.new.serial),
     status |-> Column(row.status, r.seen.status, r.new.status)]

InsertType(a) ==
    /\ Pending(a, "create_type")
    /\ ~CodeTaken(request[a].type, request[a].row.path)
    /\ types' = [types EXCEPT ![request[a].type] = request[a].row]

RenameType(a) ==
    /\ Pending(a, "update_type")
    /\ request[a].type \in StoredTypes
    /\ ~CodeTaken(request[a].type, RenamedPath(request[a]))
    /\ types' = [types EXCEPT ![request[a].type].path = RenamedPath(request[a])]

SwitchType(a) ==
    /\ Pending(a, "set_type_active")
    /\ request[a].type \in StoredTypes
    /\ types' = [types EXCEPT ![request[a].type].active = request[a].active]

RemoveType(a) ==
    /\ Pending(a, "delete_type")
    /\ request[a].type \in StoredTypes
    /\ ~TypeHasDependencies(request[a].type)
    /\ types' = [types EXCEPT ![request[a].type] = Gone]

CommitType(a) ==
    /\ InsertType(a) \/ RenameType(a) \/ SwitchType(a) \/ RemoveType(a)
    /\ Finish(a)
    /\ UNCHANGED <<devices, tokens, releases, targets, history, others>>

CommitRegister(a) ==
    /\ Pending(a, "register")
    /\ LET r == request[a] IN
       /\ r.row.type \in StoredTypes
       /\ ~SerialTaken(r.device, r.row.serial)
       /\ devices' = [devices EXCEPT ![r.device] = r.row]
    /\ Finish(a)
    /\ UNCHANGED <<types, tokens, releases, targets, history, others>>

CommitUpdate(a) ==
    /\ Pending(a, "update_device")
    /\ request[a].device \in StoredDevices
    /\ LET r == request[a]
           row == UpdatedRow(r) IN
       /\ ~Locked(r.device)
       /\ row.type \in StoredTypes
       /\ ~SerialTaken(r.device, row.serial)
       /\ devices' = [devices EXCEPT ![r.device] = row]
    /\ Finish(a)
    /\ UNCHANGED <<types, tokens, releases, targets, history, others>>

\* Mutant: offers are owned by the device, as its tokens are, and go with it.
CommitPurgeCascading(a) ==
    /\ Pending(a, "purge")
    /\ request[a].device \in StoredDevices
    /\ LET d == request[a].device IN
       /\ ~Locked(d)
       /\ d \notin evidence \cup targets
       /\ devices' = [devices EXCEPT ![d] = Gone]
       /\ tokens' = [k \in Tokens |->
                       IF k \in StoredTokens /\ tokens[k].device = d THEN Gone ELSE tokens[k]]
       /\ attempts' = attempts \ {d}
    /\ Finish(a)
    /\ UNCHANGED <<types, releases, targets, evidence, others>>

\* What refers to the device keeps it, except for its tokens, which go with it.
CommitPurge(a) ==
    /\ Pending(a, "purge")
    /\ request[a].device \in StoredDevices
    /\ LET d == request[a].device IN
       /\ ~Locked(d)
       /\ ~DeviceHasPurgeBlockers(d)
       /\ devices' = [devices EXCEPT ![d] = Gone]
       /\ tokens' = [k \in Tokens |->
                       IF k \in StoredTokens /\ tokens[k].device = d THEN Gone ELSE tokens[k]]
    /\ Finish(a)
    /\ UNCHANGED <<types, releases, targets, history, others>>

\* The response shows the token once; the device is flashed with it, with its
\* serial number and with the manifest URL of its type.
CommitIssue(a) ==
    /\ Pending(a, "issue")
    /\ request[a].device \in StoredDevices
    /\ LET r == request[a]
           d == devices[r.device] IN
       /\ r.old \subseteq StoredTokens
       /\ tokens' = [k \in Tokens |->
                       IF k = r.token
                       THEN [device |-> r.device, active |-> TRUE, serial |-> d.serial,
                             url |-> types[d.type].path]
                       ELSE IF k \in r.old THEN [tokens[k] EXCEPT !.active = FALSE]
                       ELSE tokens[k]]
    /\ Finish(a)
    /\ UNCHANGED <<types, devices, releases, targets, history, others>>

CommitRevoke(a) ==
    /\ Pending(a, "revoke")
    /\ request[a].token \in StoredTokens
    /\ tokens' = [tokens EXCEPT ![request[a].token].active = FALSE]
    /\ Finish(a)
    /\ UNCHANGED <<types, devices, releases, targets, history, others>>

CommitPolicy(a) ==
    /\ Pending(a, "create_policy")
    /\ request[a].target \in StoredTypes \cup StoredDevices
    /\ targets' = targets \cup {request[a].target}
    /\ Finish(a)
    /\ UNCHANGED <<types, devices, tokens, releases, history, others>>

\* Refused by the database, or lost: rolled back.
Abandon(a) ==
    /\ request[a] # NoRequest
    /\ Finish(a)
    /\ Rest
-----------------------------------------------------------------------------
(***************************************************************************)
(* Uploads, of which only the path matters here, and device requests.      *)
(***************************************************************************)

\* Code and platform are read once, for the keys, the URL and the manifest.
ReadType(u) ==
    /\ upload[u] = NoUpload
    /\ Cardinality(releases) < MaxReleases
    /\ \E y \in StoredTypes :
          /\ types[y].active
          /\ upload' = [upload EXCEPT ![u] =
                [step |-> "stored", release |-> [type |-> y, path |-> types[y].path]]]
    /\ UNCHANGED <<types, devices, tokens, releases, targets, history, request, poll>>

CommitUpload(u) ==
    /\ upload[u] # NoUpload
    /\ upload[u].release.type \in StoredTypes
    /\ releases' = releases \cup {upload[u].release}
    /\ upload' = [upload EXCEPT ![u] = NoUpload]
    /\ UNCHANGED <<types, devices, tokens, targets, history, request, poll>>

FailUpload(u) ==
    /\ upload[u] # NoUpload
    /\ upload' = [upload EXCEPT ![u] = NoUpload]
    /\ UNCHANGED <<types, devices, tokens, releases, targets, history, request, poll>>

OnlyPolls == UNCHANGED <<types, devices, tokens, releases, targets, request, upload>>

\* authenticate: the device is found by its serial number and its token by its
\* hash.  A token that is not stored any more finds nobody.
FindDevice(p) ==
    /\ poll[p] = NoPoll
    /\ \E k \in StoredTokens, d \in StoredDevices :
          /\ devices[d].serial = tokens[k].serial
          /\ devices[d].status \notin {"DISABLED", "RETIRED"}
          /\ tokens[k].active
          /\ tokens[k].device = d
          /\ poll' = [poll EXCEPT ![p] =
                [step |-> "known", device |-> d, status |-> devices[d].status]]
    /\ OnlyPolls
    /\ UNCHANGED history

LockDevice(p) ==
    /\ poll[p].step = "known"
    /\ poll[p].device \in StoredDevices
    /\ ~Locked(poll[p].device)
    /\ poll' = [poll EXCEPT ![p].step = "locked"]
    /\ OnlyPolls
    /\ UNCHANGED history

\* An attempt is recorded for an active device that asks at its type's path, if
\* the decision (OtaService) says so.
CommitPoll(p) ==
    /\ poll[p].step = "locked"
    /\ \/ attempts' = attempts
       \/ /\ poll[p].status = "ACTIVE"
          /\ attempts' = attempts \cup {poll[p].device}
    /\ poll' = [poll EXCEPT ![p] = [step |-> "over", device |-> poll[p].device]]
    /\ OnlyPolls
    /\ UNCHANGED evidence

\* The communication row gets its device in a transaction of its own, which
\* fails if the device is gone.
SaveEvidence(p) ==
    /\ poll[p].step = "over"
    /\ poll[p].device \in StoredDevices
    /\ evidence' = evidence \cup {poll[p].device}
    /\ poll' = [poll EXCEPT ![p] = NoPoll]
    /\ OnlyPolls
    /\ UNCHANGED attempts

\* Not authenticated, refused by the database, or lost.
FailPoll(p) ==
    /\ poll[p] # NoPoll
    /\ poll' = [poll EXCEPT ![p] = NoPoll]
    /\ OnlyPolls
    /\ UNCHANGED history

Administer(a) ==
    \/ CreateType(a) \/ UpdateType(a) \/ SetTypeActive(a) \/ DeleteType(a)
    \/ Register(a) \/ SetStatus(a) \/ UpdateIdentity(a) \/ Purge(a)
    \/ IssueToken(a) \/ RotateToken(a) \/ RevokeToken(a) \/ CreatePolicy(a)
    \/ CommitType(a) \/ CommitRegister(a) \/ CommitUpdate(a) \/ CommitPurge(a)
    \/ CommitIssue(a) \/ CommitRevoke(a) \/ CommitPolicy(a) \/ Abandon(a)

Next ==
    \/ \E a \in Admins : Administer(a)
    \/ \E u \in Uploaders : ReadType(u) \/ CommitUpload(u) \/ FailUpload(u)
    \/ \E p \in Polls :
          \/ FindDevice(p) \/ LockDevice(p) \/ CommitPoll(p)
          \/ SaveEvidence(p) \/ FailPoll(p)

Spec == Init /\ [][Next]_vars
-----------------------------------------------------------------------------
(***************************************************************************)
(* Properties.                                                             *)
(***************************************************************************)

TypeOK ==
    /\ types \in [Types -> TypeRows \cup Lost]
    /\ devices \in [Devices -> DeviceRows \cup Lost]
    /\ tokens \in [Tokens -> TokenRows \cup Lost]
    /\ releases \subseteq Releases
    /\ targets \subseteq Types \cup Devices
    /\ attempts \subseteq Devices /\ evidence \subseteq Devices
    /\ request \in [Admins -> Requests \cup {NoRequest}]
    /\ upload \in [Uploaders -> Uploads \cup {NoUpload}]
    /\ poll \in [Polls -> PollsMade \cup {NoPoll}]

\* docs/RESOURCE-RULES.md: a type is deleted "only when no device, release, or
\* policy references it" and "cascading hard deletes are prohibited for retained
\* operational history".  Also what comes to refer to a type or a device between
\* the check of its deletion and the deletion, from uploads, polls and their
\* late evidence as from admin requests, stays and keeps what it refers to.
HistoryIsKept ==
    [][/\ releases \subseteq releases' /\ targets \subseteq targets'
       /\ attempts \subseteq attempts' /\ evidence \subseteq evidence'
       /\ (attempts \cup evidence)' \subseteq StoredDevices'
       /\ targets' \subseteq (StoredTypes \cup StoredDevices)'
       /\ \A r \in releases' : r.type \in StoredTypes'
       /\ \A d \in StoredDevices' : devices'[d].type \in StoredTypes']_vars

(***************************************************************************)
(* What the documentation says as well and overlapping requests break: a   *)
(* check sees committed rows alone, and the keys of the database do not    *)
(* cover what it found missing.  Each has a configuration of its own.      *)
(***************************************************************************)

\* docs/02-domain-model.md: a change of code or platform "would invalidate
\* provisioned device URLs".  A device in the field goes on being who its token
\* says and goes on asking at the URL of its type.
ProvisioningStands ==
    \A k \in StoredTokens :
        LET d == devices[tokens[k].device] IN
        d.serial = tokens[k].serial /\ types[d.type].path = tokens[k].url

\* A purge "is allowed only while the device is provisioned": what it deletes is
\* not in service.
PurgesProvisioned ==
    [][\A d \in StoredDevices :
          devices'[d] = Gone => devices[d].status = "PROVISIONED"]_vars

\* docs/02-domain-model.md: code and platform are fixed by then because of
\* "signed manifests already in the field, and stored object keys".  The keys of
\* a release are those that its type's devices ask for.
ReleasesInPlace == \A r \in releases : types[r.type].path = r.path
=============================================================================
