----------------------------- MODULE OtaService -----------------------------
(***************************************************************************)
(* What one device and the administrators do to each other.                *)
(*   app/services/ota.py          manifest and firmware requests           *)
(*   app/services/device_auth.py  authenticate                             *)
(*   app/services/devices.py      the requests that edit the device        *)
(*   app/api/v1/ota.py            the stream of a firmware response        *)
(*                                                                         *)
(* A poll reads the device, then updates its last_seen_at: the UPDATE      *)
(* waits for the row lock and the poll keeps that lock until it commits.   *)
(* It never reads the device again.  Policies, releases and offers are     *)
(* read under the lock, by one statement each; storage is read under it    *)
(* too.  The releases and the policies change as they like: FirmwareReleases *)
(* and Policies say how.                                                   *)
(***************************************************************************)
EXTENDS UpdateDecision, Sequences

CONSTANTS
    Versions,       \* versions of the releases of the device's type
    MaxVersion,     \* the length of a version is limited, and so its number
    PolicySet,      \* policies that reach the device, as they are in effect
    Polls,          \* threads that serve device requests
    Editors,        \* threads that serve administrators' edits of the device
    EditKinds,      \* what they edit: "status", "ota", "known"
    Faults,         \* what may fail: "storage", "commit_refused", "restart"
    Enrolled,       \* what the row of the device may be at the start
    Nobody          \* the holder of a free row lock

Statuses == {"PROVISIONED", "ACTIVE", "DISABLED", "RETIRED"}
Sources == {"ADMIN_ASSERTED", "DEVICE_REPORTED", "NULL"}
MaybeVersion == Versions \cup {None}

\* Time stamps and what was last downloaded are left out.
Rows == [status: Statuses, otaEnabled: BOOLEAN, known: MaybeVersion, source: Sources]

\* A policy is in effect, or not in the set inEffect: its window is left out.
PoliciesInEffect ==
    [scope: Scopes, type: PolicyTypes, target: Nat \cup {None}, min: Nat \cup {None},
     max: Nat \cup {None}, priority: 0..MaxPriority, active: {TRUE}, starts: {None},
     ends: {None}]

ASSUME VersionsAssumption == MaxVersion \in Nat /\ Versions \subseteq 0..MaxVersion
ASSUME PolicySetAssumption == PolicySet \subseteq PoliciesInEffect
ASSUME NobodyAssumption == Nobody \notin Polls
ASSUME EnrolledAssumption ==
    Enrolled \subseteq {r \in Rows : r.known = None <=> r.source = "NULL"}

VARIABLES
    device,     \* the committed row of the device
    lock,       \* the poll whose transaction has updated the row, or Nobody
    catalog,    \* what each release is to a device
    inEffect,   \* the policies in effect that reach the device
    offers,     \* offers[v]: from_version of each UPDATE_OFFERED row for v
    served,     \* versions for which there is a DOWNLOAD_SERVED row
    poll,       \* poll[t]: the device request that thread t serves
    edit,       \* edit[e]: the edit of the device that thread e serves
    history     \* versions allowed by policy, and deliverable, at some time since
                \* the row lock was last taken

vars == <<device, lock, catalog, inEffect, offers, served, poll, edit, history>>
world == <<catalog, inEffect, history>>

\* Drafts, archived releases and versions nobody uploaded are "withheld".
Published == {v \in Versions : catalog[v] = "PUBLISHED"}
Deliverable == {v \in Versions : catalog[v] \in {"PUBLISHED", "DEPRECATED"}}
Resolution == ResolvePolicies(inEffect, 0)
AllowedBy(policies) ==
    LET resolution == ResolvePolicies(policies, 0) IN
    {v \in Versions : AllowsDelivery(resolution, v)}
Allowed == AllowedBy(inEffect)

\* The columns an UPDATE sets: those whose value differs from the one read.
Columns == {"status", "otaEnabled", "known", "source"}

\* Mutant: the whole row is written back.
DirtyAll(row, new) == [c \in Columns |-> new[c]]

Dirty(row, new) == [c \in {c \in Columns : new[c] # row[c]} |-> new[c]]
Update(stored, writes) ==
    [c \in Columns |-> IF c \in DOMAIN writes THEN writes[c] ELSE stored[c]]
Updates == {Dirty(row, new) : row \in Rows, new \in Rows}

NoWrites == [c \in {} |-> None]

\* A poll that is not yet admitted has the row as read.  Later it has the known
\* version as in its session, what it will write to the row, the version that
\* may be offered or sent, and what the commit is to give.
NoPoll == [step |-> "idle"]
Arrivals == [step: {"lock", "admit"}, row: Rows]
Requests ==
    [step: {"policy", "releases", "read", "offer", "resolve", "deliver", "open",
            "commit", "stream", "record"},
     known: MaybeVersion, writes: Updates, version: MaybeVersion,
     policy: PolicySet \cup {NoPolicy}, gives: {"nothing", "offer", "bytes"}]
Admitted(step, known, writes) ==
    [step |-> step, known |-> known, writes |-> writes, version |-> None,
     policy |-> NoPolicy, gives |-> "nothing"]

NoEdit == [step |-> "idle"]
Edits == [step: {"write"}, writes: Updates]

Init ==
    /\ device \in Enrolled
    /\ lock = Nobody
    /\ catalog \in [Versions -> {"withheld", "PUBLISHED", "DEPRECATED"}]
    /\ inEffect \in SUBSET PolicySet
    /\ offers = [v \in Versions |-> <<>>]
    /\ served = {}
    /\ poll = [t \in Polls |-> NoPoll]
    /\ edit = [e \in Editors |-> NoEdit]
    /\ history = [allowed |-> Allowed, deliverable |-> Deliverable]
-----------------------------------------------------------------------------
(***************************************************************************)
(* Device requests: authentication, common to both kinds.  What a request  *)
(* asks for is chosen where the code first looks at it.                    *)
(***************************************************************************)

Advance(t, step) == poll' = [poll EXCEPT ![t].step = step]
\* Nothing is offered or served; what the session changed is committed.
Decline(t) == poll' = [poll EXCEPT ![t].step = "commit", ![t].version = None]
Give(t, what) == poll' = [poll EXCEPT ![t].step = "commit", ![t].gives = what]
Locked == UNCHANGED <<device, lock, offers, served, edit, world>>

\* The device and its token are read; a request refused here leaves no trace.
FindDevice(t) ==
    /\ poll[t] = NoPoll
    /\ device.status \notin {"DISABLED", "RETIRED"}
    /\ poll' = [poll EXCEPT ![t] = [step |-> "lock", row |-> device]]
    /\ Locked

\* Mutant: last_seen_at is left to the commit, authentication does not flush.
LockNothing(t) ==
    /\ poll[t].step = "lock"
    /\ Advance(t, "admit")
    /\ Locked

LockDevice(t) ==
    /\ poll[t].step = "lock"
    /\ lock = Nobody
    /\ lock' = t
    /\ Advance(t, "admit")
    /\ history' = [allowed |-> Allowed, deliverable |-> Deliverable]
    /\ UNCHANGED <<device, catalog, inEffect, offers, served, edit>>

RateLimited(t) ==
    /\ poll[t].step = "admit"
    /\ poll' = [poll EXCEPT ![t] = Admitted("commit", None, NoWrites)]
    /\ Locked

-----------------------------------------------------------------------------
(***************************************************************************)
(* manifest.                                                               *)
(***************************************************************************)

\* Mutant: a report that does not parse is stored as well.
ReportedVerbatim(row, v) ==
    [row EXCEPT !.known = IF v = None THEN MaxVersion + 1 ELSE v,
                !.source = "DEVICE_REPORTED"]

\* A version that does not parse, here None, is not kept.
Reported(row, v) ==
    IF v = None THEN row
    ELSE [row EXCEPT !.known = v, !.source = "DEVICE_REPORTED"]

\* A reported version is kept also when nothing can be offered.
AdmitManifest(t) ==
    /\ poll[t].step = "admit"
    /\ \E v \in MaybeVersion, ownPath \in BOOLEAN :
          LET new == Reported(poll[t].row, v)
              eligible == CheckEligibility(new, ownPath) = "ELIGIBLE" IN
          poll' = [poll EXCEPT ![t] =
              Admitted(IF eligible THEN "policy" ELSE "commit", new.known,
                       Dirty(poll[t].row, new))]
    /\ Locked

GovernManifest(t) ==
    /\ poll[t].step = "policy"
    /\ \/ /\ PolicyGate(Resolution) = "GOVERNED"
          /\ poll' = [poll EXCEPT ![t].step = "releases", ![t].policy = Resolution.policy]
       \/ /\ PolicyGate(Resolution) # "GOVERNED"
          /\ Decline(t)
    /\ Locked

SelectRelease(t) ==
    /\ poll[t].step = "releases"
    /\ LET decision == ChooseRelease(Published, poll[t].policy, poll[t].known) IN
       poll' = [poll EXCEPT
          ![t].policy = NoPolicy,
          ![t].version = IF decision.available THEN decision.release ELSE None,
          ![t].step = IF decision.available THEN "read" ELSE "commit"]
    /\ Locked

\* The bytes of the manifest, or 503.
ReadManifest(t) ==
    /\ poll[t].step = "read"
    /\ Advance(t, "offer") \/ ("storage" \in Faults /\ Decline(t))
    /\ Locked

\* The query of _record_offer; the INSERT is sent with the commit.
RecordOffer(t) ==
    /\ poll[t].step = "offer"
    /\ IF offers[poll[t].version] = <<>> THEN Give(t, "offer") ELSE Decline(t)
    /\ Locked
-----------------------------------------------------------------------------
(***************************************************************************)
(* firmware.                                                               *)
(***************************************************************************)

AdmitFirmware(t) ==
    /\ poll[t].step = "admit"
    /\ \E ownPath \in BOOLEAN :
          LET eligible == CheckEligibility(poll[t].row, ownPath) = "ELIGIBLE" IN
          poll' = [poll EXCEPT ![t] =
              Admitted(IF eligible THEN "resolve" ELSE "commit", None, NoWrites)]
    /\ Locked

\* Mutant: a draft or archived release resolves as well.
ResolveAny(t) ==
    /\ poll[t].step = "resolve"
    /\ \/ \E v \in Versions :
             poll' = [poll EXCEPT ![t].step = "deliver", ![t].version = v]
       \/ Decline(t)
    /\ Locked

\* A request names a version and a file; without a release of both, not found.
ResolveRelease(t) ==
    /\ poll[t].step = "resolve"
    /\ \/ \E v \in Deliverable :
             poll' = [poll EXCEPT ![t].step = "deliver", ![t].version = v]
       \/ Decline(t)
    /\ Locked

CheckDelivery(t) ==
    /\ poll[t].step = "deliver"
    /\ IF AllowsDelivery(Resolution, poll[t].version)
       THEN Advance(t, "open") ELSE Decline(t)
    /\ Locked

\* 503 when the object cannot be opened or has another size.
OpenStream(t) ==
    /\ poll[t].step = "open"
    /\ Give(t, "bytes") \/ ("storage" \in Faults /\ Decline(t))
    /\ Locked
-----------------------------------------------------------------------------
(***************************************************************************)
(* The end of a request.                                                   *)
(***************************************************************************)

EndPoll(t) == poll' = [poll EXCEPT ![t] = NoPoll]

\* Mutant: the transaction of a request that offers nothing is left open.
CommitOffersOnly(t) ==
    LET r == poll[t] IN
    /\ r.step = "commit"
    /\ device' = Update(device, r.writes)
    /\ offers' = IF r.gives = "offer"
                 THEN [offers EXCEPT ![r.version] = Append(@, r.known)]
                 ELSE offers
    /\ IF r.gives = "bytes" THEN Advance(t, "stream") ELSE EndPoll(t)
    /\ lock' = IF r.gives = "nothing" THEN lock ELSE Nobody
    /\ UNCHANGED <<served, edit, world>>

\* Mutant: the offer takes the version that the row holds by then.
CommitPollStoredVersion(t) ==
    LET r == poll[t] IN
    /\ r.step = "commit"
    /\ device' = Update(device, r.writes)
    /\ offers' = IF r.gives = "offer"
                 THEN [offers EXCEPT ![r.version] = Append(@, device.known)]
                 ELSE offers
    /\ IF r.gives = "bytes" THEN Advance(t, "stream") ELSE EndPoll(t)
    /\ lock' = Nobody
    /\ UNCHANGED <<served, edit, world>>

CommitPoll(t) ==
    LET r == poll[t] IN
    /\ r.step = "commit"
    /\ device' = Update(device, r.writes)
    /\ offers' = IF r.gives = "offer"
                 THEN [offers EXCEPT ![r.version] = Append(@, r.known)]
                 ELSE offers
    /\ IF r.gives = "bytes" THEN Advance(t, "stream") ELSE EndPoll(t)
    /\ lock' = Nobody
    /\ UNCHANGED <<served, edit, world>>

RefuseCommit(t) ==
    /\ "commit_refused" \in Faults
    /\ poll[t].step = "commit"
    /\ lock' = Nobody
    /\ EndPoll(t)
    /\ UNCHANGED <<device, offers, served, edit, world>>

\* All bytes were handed over, or the stream broke off.
EndStream(t) ==
    /\ poll[t].step = "stream"
    /\ Advance(t, "record") \/ EndPoll(t)
    /\ Locked

\* The completion callback, a short transaction of its own; its failure is
\* only logged.
RecordDownload(t) ==
    /\ poll[t].step = "record"
    /\ \/ lock = Nobody /\ served' = served \cup {poll[t].version}
       \/ "commit_refused" \in Faults /\ UNCHANGED served
    /\ EndPoll(t)
    /\ UNCHANGED <<device, lock, offers, edit, world>>

\* Transactions are rolled back, requests are lost.
Restart ==
    /\ "restart" \in Faults
    /\ poll' = [t \in Polls |-> NoPoll]
    /\ edit' = [e \in Editors |-> NoEdit]
    /\ lock' = Nobody
    /\ UNCHANGED <<device, offers, served, world>>
-----------------------------------------------------------------------------
(***************************************************************************)
(* Administrators.  An edit reads the row and later updates it, waiting    *)
(* for the row lock if a poll holds it.  Edits that are refused or fail    *)
(* change nothing and are left out.                                        *)
(***************************************************************************)

Transitions ==
    [PROVISIONED |-> {"ACTIVE", "DISABLED", "RETIRED"},
     ACTIVE      |-> {"DISABLED", "RETIRED"},
     DISABLED    |-> {"ACTIVE", "RETIRED"},
     RETIRED     |-> {"DISABLED"}]

BeginEdit(e, kind, new) ==
    /\ edit[e] = NoEdit
    /\ kind \in EditKinds
    /\ edit' = [edit EXCEPT ![e] = [step |-> "write", writes |-> Dirty(device, new)]]
    /\ UNCHANGED <<device, lock, offers, served, poll, world>>

SetStatus(e) ==
    \E s \in Transitions[device.status] \cup {device.status} :
        BeginEdit(e, "status",
            [device EXCEPT !.status = s, !.otaEnabled = IF s = "RETIRED" THEN FALSE ELSE @])

SetOtaEnabled(e) ==
    \E b \in BOOLEAN : BeginEdit(e, "ota", [device EXCEPT !.otaEnabled = b])

SetKnownVersion(e) ==
    \E v \in MaybeVersion :
        BeginEdit(e, "known",
            [device EXCEPT !.known = v,
                           !.source = IF v = None THEN "NULL" ELSE "ADMIN_ASSERTED"])

CommitEdit(e) ==
    /\ edit[e].step = "write"
    /\ lock = Nobody
    /\ device' = Update(device, edit[e].writes)
    /\ edit' = [edit EXCEPT ![e] = NoEdit]
    /\ UNCHANGED <<lock, offers, served, poll, world>>

ChangeRelease ==
    /\ \E v \in Versions, s \in {"withheld", "PUBLISHED", "DEPRECATED"} :
          catalog' = [catalog EXCEPT ![v] = s]
    /\ history' = [history EXCEPT !.deliverable = @ \cup Deliverable']
    /\ UNCHANGED <<device, lock, inEffect, offers, served, poll, edit>>

\* Policies come into effect and go out of it, one by an edit or several as an
\* instant comes at which their windows begin or end.
ChangePolicies ==
    /\ \E policies \in SUBSET PolicySet :
          /\ inEffect' = policies
          /\ history' = [history EXCEPT !.allowed = @ \cup AllowedBy(policies)]
    /\ UNCHANGED <<device, lock, catalog, offers, served, poll, edit>>
-----------------------------------------------------------------------------
Serve(t) ==
    \/ RateLimited(t)
    \/ AdmitManifest(t) \/ GovernManifest(t) \/ SelectRelease(t) \/ ReadManifest(t)
    \/ RecordOffer(t)
    \/ AdmitFirmware(t) \/ ResolveRelease(t) \/ CheckDelivery(t) \/ OpenStream(t)
    \/ CommitPoll(t) \/ RefuseCommit(t)

Next ==
    \/ \E t \in Polls :
          FindDevice(t) \/ LockDevice(t) \/ Serve(t) \/ EndStream(t) \/ RecordDownload(t)
    \/ Restart
    \/ \E e \in Editors :
          SetStatus(e) \/ SetOtaEnabled(e) \/ SetKnownVersion(e) \/ CommitEdit(e)
    \/ ChangeRelease \/ ChangePolicies

Spec == Init /\ [][Next]_vars

\* A request that holds the lock goes on, as each call it makes returns or
\* raises; PostgreSQL hands the lock on to those who wait for it.
FairSpec ==
    /\ Spec
    /\ \A t \in Polls : WF_vars(Serve(t)) /\ SF_vars(LockDevice(t)) /\ SF_vars(RecordDownload(t))
    /\ \A e \in Editors : SF_vars(CommitEdit(e))
-----------------------------------------------------------------------------
(***************************************************************************)
(* Properties.                                                             *)
(***************************************************************************)

TypeOK ==
    /\ device \in Rows
    /\ lock \in Polls \cup {Nobody}
    /\ catalog \in [Versions -> {"withheld", "PUBLISHED", "DEPRECATED"}]
    /\ inEffect \subseteq PolicySet
    /\ offers \in [Versions -> Seq(MaybeVersion)]
    /\ served \subseteq Versions
    /\ poll \in [Polls -> Arrivals \cup Requests \cup {NoPoll}]
    /\ edit \in [Editors -> Edits \cup {NoEdit}]
    /\ history \in [allowed: SUBSET Versions, deliverable: SUBSET Versions]

\* _record_offer: "one offer per device and target version", however many
\* requests of the device overlap.  There is no unique constraint: only the row
\* lock stands between the query and the insert.
OneOffer == \A v \in Versions : Len(offers[v]) <= 1

\* docs/07, Downgrade: no offer is recorded of a version that is not newer than
\* the one the device was thought to run, whoever said so and whenever.
OffersNewer ==
    \A v \in Versions : \A i \in DOMAIN offers[v] : offers[v][i] < v

\* docs/07: "a policy that excludes a version withholds its bytes, not only its
\* offer", and only published releases are offered, only published or deprecated
\* ones served.  A request reads policies and releases at different times, and
\* commits later; but no offer is recorded and no download granted of a version
\* that was excluded or withheld all the time the request was served.
Entitled(v) == v \in history.allowed /\ v \in history.deliverable

OnlyEntitled ==
    [][\A v \in Versions :
          \/ offers'[v] # offers[v]
          \/ \E t \in Polls : /\ poll[t].step # "stream" /\ poll'[t].step = "stream"
                              /\ poll'[t].version = v
          => Entitled(v)]_vars

\* "Agree by construction": in every state, what a poll would offer is exactly
\* the newest published version that the firmware endpoint would deliver to the
\* device, if it is newer than the known one; and a device is told NO_UPDATE,
\* which it takes for being up to date, exactly if such versions exist and none
\* is newer.
OfferIsNewestDeliverable ==
    LET decision == DecideForDevice(device, TRUE, inEffect, 0, Published)
        installable == {v \in Published \cap Allowed :
                          device.status = "ACTIVE" /\ device.otaEnabled}
        newest == {v \in installable : \A w \in installable : w <= v} IN
    /\ decision.available =>
          decision.release \in newest /\ device.known < decision.release
    /\ ~decision.available => \A v \in installable : v <= device.known
    /\ decision.reason = "NO_UPDATE" <=> installable # {} /\ ~decision.available

\* No edit that retires the device overlaps one that switches its updates on.  A
\* retirement that finds them off does not write that column.
Retires(e) ==
    edit[e].step = "write" /\ "status" \in DOMAIN edit[e].writes /\ edit[e].writes.status = "RETIRED"
SwitchesOn(e) ==
    edit[e].step = "write" /\ "otaEnabled" \in DOMAIN edit[e].writes /\ edit[e].writes.otaEnabled
SwitchesApart == \A d, e \in Editors : ~(Retires(d) /\ SwitchesOn(e))

\* set_status: "a retained device returns disabled, then requires explicit
\* activation and OTA enablement".  Whoever retires a device switches its
\* updates off, and only an edit that asks for it switches them on, so no poll
\* that read the device before brings it back.
RetiredStaysOff ==
    [][/\ device.status # "RETIRED" /\ device'.status = "RETIRED" => ~device'.otaEnabled
       /\ ~device.otaEnabled /\ device'.otaEnabled =>
             \E e \in Editors : SwitchesOn(e) /\ edit'[e] = NoEdit]_vars

\* Every request of a device is answered and every edit is carried out: nobody
\* waits for the row lock for ever.  What a client does with a stream is its own.
RequestsAnswered ==
    /\ \A t \in Polls : poll[t].step \notin {"idle", "stream"} ~>
                        poll[t].step \in {"idle", "stream"}
    /\ \A e \in Editors : edit[e].step = "write" ~> edit[e] = NoEdit
-----------------------------------------------------------------------------
(***************************************************************************)
(* What a comment says as well and overlapping requests break: an UPDATE   *)
(* writes only the columns that its request changed.                       *)
(***************************************************************************)

\* db/models.py, Device: the known version "is always accompanied by its
\* provenance", by device requests and administrators that have read the row at
\* other times.
ProvenanceKept == device.known = None <=> device.source = "NULL"
=============================================================================
