# OTA-Service in TLA+

This directory models the OTA firmware service of this repository (`src/app`: FastAPI,
SQLAlchemy on PostgreSQL, objects in MinIO) and states what must hold of it. TLC checks the
models on small instances; TLAPS proves the central results for every value of the constants.

- [How to run](#how-to-run)
- [The system](#the-system)
- [Firmware releases](#firmware-releases)
- [Update policies](#update-policies)
- [Device polls](#device-polls)
- [Devices, types and tokens](#devices-types-and-tokens)
- [Delivery and its evidence](#delivery-and-its-evidence)
- [Admin accounts](#admin-accounts)
- [Rate limiter](#rate-limiter)
- [Runs](#runs)
- [Proofs](#proofs)
- [What the models found](#what-the-models-found)
- [Plan](#plan)
- [Not modelled](#not-modelled)

## How to run

    tlc -workers 2 -config FirmwareConcurrent.cfg MCFirmwareReleases.tla
    tlapm FirmwareReleases_proofs.tla

`PROJECT.json` lists the runs with their configurations, the source lines behind each
definition (`map`), and for every checked property a mutated definition under which TLC must
find it violated. Mutated definitions stand before the definition they replace, marked
"Mutant"; no specification uses them.

## The system

One server process (one uvicorn worker in `compose.production.yaml`) serves administrators and
devices. Its routes are synchronous functions, so FastAPI runs them in a pool of threads and
any number of requests overlap. Each request has its own SQLAlchemy session; PostgreSQL runs
at READ COMMITTED, no table has a version column, and hardly any query takes a lock. A
request reads rows, checks them, writes with `flush` and commits at its end. What another
request commits in between is seen by its later queries but not by the rows it already holds,
and an `UPDATE` writes the columns that the request changed, by primary key. Objects in MinIO
are outside any transaction. Nothing but PostgreSQL and MinIO survives a restart.

| Component | State | Operations | What is hard | What makes it correct |
|---|---|---|---|---|
| Firmware releases (`services/firmware.py`, `api/v1/firmware.py`) | release, artifact and manifest rows; two objects per version | upload, draft, publish, deprecate, archive, restore, edit metadata | two stores, no common transaction; clean-up after failure; overlapping uploads and transitions; restarts | what is published can be served, as signed; nobody's objects are replaced; the life cycle is kept |
| Update policies (`services/policies.py`, `domain/policy.py`) | policy rows | create, edit, switch on and off, archive, restore, resolve | conflict check by query; partial updates that merge; half-open windows | never two governing policies; stored policies are valid; the narrowest governs |
| Update decision (`services/update_decision.py`) | none; reads devices, policies, releases | check eligibility, decide, allow delivery | several reads at different times | only an eligible, newest, allowed version is offered; delivery needs what an offer needs |
| Device OTA protocol (`services/ota.py`, `services/device_auth.py`) | device rows, update attempts | manifest request, firmware request | a device read before the row lock it waits for; offers recorded by check-then-insert | one offer per version; no bytes without entitlement |
| Delivery and evidence (`api/v1/ota.py`, `services/communications.py`, `main.py`) | streams, communication rows | stream, completion callback, record outcome | abort, failure and completion in any order, several transactions per request, each of which may fail | a download counts as served once, and only when every byte was emitted; results are final; gaps are counted; connections are given back |
| Devices, types, tokens (`services/devices.py`, `services/device_tokens.py`) | device, type and token rows | register, identity and status changes, OTA switch, purge, tokens, type edits | checks that race with each other, with uploads and with polls | what is left behind by a device or refers to a type is kept; retired devices stay off; a flashed device keeps its identity and URL |
| Admin accounts and sessions (`services/admin_users.py`, `services/admin_auth.py`) | account rows; signed tokens outside | log in, change password, role and activity, resolve a token | counters incremented in the program; counts checked before writes | a super administrator remains; revoked sessions stay revoked |
| Rate limiter (`services/rate_limit.py`) | windows per key, in memory | allow | clock read outside the lock; sweep | at most the limit per window in the long run; only busy keys are refused |
| Monitoring buffer (`core/monitoring.py`) | bounded deques, in memory | append, read | bounded history under threads | newest records kept, in order |
| Audit, dashboard, health, CLI, migrations | audit rows; otherwise none | insert; read | nothing concurrent of their own | - |

Devices and administrators meet in the database only: administrators write releases, policies,
devices; a poll reads them through the decision service; the streaming response reads MinIO.

Much of the code is right for requests that do not overlap, and nothing stops requests from
overlapping. Where that is all there is to a property, because its one hazard is the overlap and
the code does not withstand it, the property is not checked as if it held: it stands at the end
of its module with the document that promises it, and a configuration (a run, for the last super
administrator) ends in the counterexample. Where a property has more than that to it, the module
states which steps must keep apart, as a condition on states: `UploadsApart` for `PublishedServable`,
`RowsApart` and `TargetsApart` for policies, `RowsApart` for sessions, `SwitchesApart` for
`RetiredStaysOff`. The theorem has the condition as a hypothesis, `Spec /\ []Condition => ...`, for
any number of threads; the run has it as a `CONSTRAINT`; and again a configuration without it ends
in a counterexample. Everything else holds however requests overlap.
[What the models found](#what-the-models-found) lists both.

`PROJECT.json` lists under `hazards` the places where this can go wrong in ways a test would
hardly reach, each with the properties that cover it or with the reason why none does.

## Firmware releases

`FirmwareReleases` models the releases of one device type. `ReleaseShelf` is the abstract
specification it implements, `MCFirmwareReleases` names what TLC needs (symmetry), and
`FirmwareReleases_proofs` holds the proofs.

| Variable | In the code |
|---|---|
| `release[v]` | the committed row of version `v` joined with its artifact and manifest rows |
| `store[v][n]` | the object under `firmware/{code}/{platform}/v{v}/{n}` in MinIO |
| `upload[u]` | the `POST /releases` request that thread `u` serves: its step, form fields and `written` keys |
| `change[e]` | the life cycle or metadata request that thread `e` serves |
| `verifier` | whether this deployment has a `ManifestVerifier` |

An upload goes through `CreateRelease` (all checks), `InsertRelease` (the flushed `INSERT`),
`PutArtifact`, `PutManifest`, `AssertStoredIntegrity`, `CommitUpload`; after a failure
`RollbackUpload`, then `DiscardObject` per recorded key. The order in which keys are recorded
is the code's: the artifact key before its put, the manifest key after it. The uncommitted row
holds the unique key `(device_type_id, version)`, so another insert of the version waits; this
is the only thing that keeps two uploads from writing the same objects at the same time. A life
cycle request reads the row and checks it (`BeginChange`), re-reads the artifact if it
publishes (`AssertArtifactIntact`), and writes later (`CommitChange`).

Versions have disjoint object keys and separate unique keys, so one version shows every
interaction between uploads; two are used where both stores are in question. Contents are model
values. A manifest is what it claims (version, file, content) and whether its signature is
good: the URL, MD5 and size checks of `_cross_check` come to agreement on these. `Filenames`
may contain `"manifest.json"`, which the code allows for an artifact, and then both objects
have the same key.

`Faults` chooses what may go wrong: `"storage"` (a put, get or remove fails; a failed put may
have stored the object), `"commit_refused"`, `"commit_unknown"` (the commit succeeds and its
answer is lost), `"restart"` (every request is lost, open transactions are rolled back, the
verifier setting may differ afterwards).

One condition keeps requests apart. `UploadsApart`: while a failed upload removes its objects,
its transaction being over, nobody inserts the version again. `PublishedServable` needs it; all
other requests, life cycle requests on one release among them, overlap as they like. A put ends
before its upload goes on: one that MinIO carries out after the clean-up is not modelled.

Fairness (`FairSpec`, used by one run): a request that has started is carried on, because each
call it makes returns or raises (weak fairness on its steps); and an insert that becomes
possible again and again happens, because PostgreSQL wakes the waiter of a unique key when the
transaction it waits for ends (strong fairness on `InsertRelease`). Nothing is assumed of
administrators or of faults.

`ReleaseShelf` says what devices can rely on: a version is pinned once to an artifact and a
manifest, and each of the two is from then on handed out as pinned or not at all. The
refinement maps `pinned` to the committed row and `shelf` to what the device endpoints read.

## Update policies

`PolicyRules` holds the pure part (`domain/policy.py`): valid definitions, windows, ranking.
`Policies` has the table and the requests, `MCPolicies` the definitions and edits of the
instances, `Policies_proofs` the proofs.

| Variable | In the code |
|---|---|
| `policies[i]` | the committed row with id `i` |
| `request[a]` | the request of administrator thread `a`: `loaded` with the row as read, `write` with the row as computed, or `insert` |

`LoadPolicy` reads the row and checks its archived flag; `UpdatePolicy`, `ActivatePolicy` and
the others query for conflicts and compute the new row; `CommitWrite` stores the columns that
differ from what was read (`Merge`) if the check constraint on the fields of a type holds of
the result; `CommitInsert` stores a new row. Between these steps other requests commit.
`flush` and `commit` are one step: from the flush on the row is locked, and a second `UPDATE`
of it is applied to the committed row.

Two conditions keep requests apart. `RowsApart`: no request commits to a policy that another one
has loaded and still works on. `TargetsApart`: no two requests are past the conflict check with
active policies of one target.

Versions and instants are naturals, since the code compares versions as number triples and
instants as timestamps; an absent column is `None`. Names and descriptions are left out. A
policy whose device or type does not exist is refused by the code, so `Definitions` only names
existing ones. Editing a priority to null fails in the database and is left out.

## Device polls

`UpdateDecision` holds the pure part of the decision (`services/update_decision.py`) on top of
`PolicyRules`: eligibility, narrowing, the choice of a release, delivery. `OtaService` has one
device, the polls that arrive for it and the administrators' edits of its row; `MCOtaService`
names the policies and devices of the instances, and `OtaService_proofs` holds the proofs.

| Variable | In the code |
|---|---|
| `device` | the committed row of the device: status, OTA switch, known version and its source |
| `lock` | the poll whose transaction has updated the row (`last_seen_at`), or `Nobody` |
| `catalog[v]` | what release `v` of the device's type is to a device: published, deprecated, or withheld (a draft, archived, or missing) |
| `inEffect` | the policies that reach the device and govern now |
| `offers[v]` | the `from_version` of each `UPDATE_OFFERED` row for version `v` |
| `served` | the versions with a `DOWNLOAD_SERVED` row |
| `poll[t]` | the device request of thread `t`: the row as read, then the known version as its session has it, the columns it will write, the version chosen and what the commit gives |
| `edit[e]` | the edit of thread `e`, with the columns that its `UPDATE` will set |
| `history` | which versions have been allowed by policy, and which deliverable, at some time since the row lock was last taken (for the property `OnlyEntitled` alone) |

A poll authenticates in two steps. `FindDevice` reads the device with its token; `LockDevice` is
the flushed `UPDATE` of `last_seen_at`, which waits for the row lock. The row is not read again,
so everything after the lock works on what was read before it. A manifest request goes on with
`AdmitManifest` (the reported version is kept, then eligibility), `GovernManifest`,
`SelectRelease`, `ReadManifest` and `RecordOffer`; a firmware request with `AdmitFirmware`,
`ResolveRelease`, `CheckDelivery` and `OpenStream`. Both end in `CommitPoll` or `RefuseCommit`,
which free the lock; a request that is refused on the way commits too. Then `EndStream` and
`RecordDownload`, a transaction of its own, follow a granted download. The sessions do not flush
before queries (`autoflush=False`), so all that a poll changes is sent with its commit.
`Dirty` and `Update` are SQLAlchemy's `UPDATE`: the columns whose values differ from those
read, applied to the row as committed.

Releases and policies change arbitrarily here (`ChangeRelease`, `ChangePolicies`): the other
modules say how they change, and what is shown here holds however they do. A policy of this
module is in effect while it is in `inEffect`, whether by its switch or by its window; several
may come and go in one step, as an instant passes at which their windows begin or end. A
version is a number up to `MaxVersion`, since its text is at most 15 characters. Edits that are
refused or fail change nothing and are left out, as are time stamps and the record of the last
download. That the device's row is deleted, and its tokens, are in `Devices` below. Since the
row is not read again, a poll that read the device before it was switched off may still be
given an offer or a download after that; no property says otherwise.

One condition keeps edits apart. `SwitchesApart`: no edit that retires the device overlaps one that
switches its updates on.

Fairness (`FairSpec`, used by one run): a request that holds the lock is carried on, because each
call it makes returns or raises (weak fairness on `Serve`); and PostgreSQL hands the lock of a
row to those that wait for it (strong fairness on `LockDevice`, `RecordDownload`, `CommitEdit`).
Nothing is assumed of new requests or of how fast a client reads its stream.

## Devices, types and tokens

`Devices` models the device types, devices and tokens (`services/devices.py`,
`services/device_tokens.py`, `api/v1/devices.py`), with as much of uploads, policies and polls
as refers to them; `MCDevices` names the symmetry, `Devices_proofs` holds the proofs.

| Variable | In the code |
|---|---|
| `types[y]`, `devices[d]`, `tokens[k]` | the committed row with this id; an id is given out once, and afterwards `Gone` |
| `releases` | the release rows with the path, code and platform, that their keys and manifest hold |
| `targets`, `attempts`, `evidence` | the types and devices that a policy, an update attempt, a communication row refers to |
| `request[a]` | what the admin request of thread `a` has checked and is about to write |
| `upload[u]` | the upload that thread `u` serves, with the path it read |
| `poll[p]` | the device request of thread `p`: authenticated, holding the row lock, or over and about to save its evidence |

Every admin request is two steps: its checks (`CreateType`, `UpdateType`, `Register`,
`UpdateIdentity`, `Purge`, ...), then the write and commit (`CommitType`, `CommitUpdate`, ...), at
which unique and foreign keys hold of the result and an `UPDATE` or `DELETE` finds its row, or
the request fails (`Abandon`). An `UPDATE` writes the columns that differ from what was read, and
waits, as a `DELETE` does, for the row lock of a poll. A token goes with its device; whatever
else refers to it keeps it. A token row also has what the device is flashed with when the token
is shown to the administrator: the serial number and the manifest URL of its type.

A device polls with a token it was flashed with: `FindDevice` looks it up by the flashed serial
number and needs a stored, active token of that device. `CommitPoll` may record an attempt for
an active device; whether the decision makes an offer is in `OtaService`. `SaveEvidence` comes
later, in a transaction of its own, and fails if the device was purged meanwhile. `ReadType` is
the start of an upload, after which code and platform of the type are fixed.

No condition keeps requests apart. `HistoryIsKept` is what holds whatever overlaps: a release, a
policy, an update attempt or a communication row that comes to refer to a type or a device after
the checks of its deletion is neither deleted with it nor left without it. The foreign keys do
this where the check came too early; the device's tokens alone are deleted with it, on purpose. What
the documents promise beyond that stands at the end of the module and is broken by requests that
overlap: `ProvisioningStands`, `PurgesProvisioned`, `ReleasesInPlace`.

The checks of one request are queries of their own that this module lets it make at once. The
row lock that a release's insert takes on its type only removes interleavings and is left out.
No property has a token count: issuing a token leaves the others of the device as they are, so
a device may have several active ones.

## Delivery and its evidence

`Delivery` follows exchanges of devices from the middleware to the last byte, with the evidence
that is kept of them; `DeliveryLedger` is the abstract specification it implements;
`MCDelivery` has the statuses of the instance, `Delivery_proofs` the proofs.

| Variable | In the code |
|---|---|
| `exchange[e]` | the request: where it is, whether its `CommunicationRecorder` has an id (`known`) and was told of a response (`responded`), the status of the answer, and `sent` and `completed` of `_observed_stream` |
| `row[e]` | the committed `device_communications` row: outcome, status code, bytes sent |
| `wire[e]` | what has been emitted for the device: status line and chunks |
| `object[e]` | the `MinioObjectStream` of the response: none, open or closed |
| `attempts[e]` | the `DOWNLOAD_SERVED` rows written for it |
| `capture` | `_capture_received` and `_capture_failures` of the `MonitoringBuffer` |

`Receive` is the recorder's constructor, `Answer`, `OpenStream`, `Prepare` and `GiveUp` are the
two handlers, `Refuse` stands for routing, validation and dependencies, and `Observe` for what
the middleware does after `call_next`. The generator of a streamed response is `Chunk` (up to
its yield), `Hand` (`RequestLoggingMiddleware` has taken the chunk and the generator is resumed),
`Break`, `Exhaust`, `RecordDownload` and `SaveTransfer`. `wire` is what the generator has emitted,
which is what `docs/15-implementation-decisions.md` counts: the middleware (`main.py`, line 37)
passes chunks on in a task of its own, so the socket may be one chunk behind. The device may leave before the first chunk is asked for
(`LeaveEarly`), where Python runs no `finally` clause of a generator that has not started, or
at a yield (`ClientGone`), with the chunk taken or not.

Each save of evidence is a transaction that succeeds, fails, or commits without the recorder
learning of it. The id is set by the flush, so a receipt whose commit failed leaves an id
without a row; a receipt that failed before the flush silences all later saves. What is
answered is a free choice here, as `OtaService` decides it; reasons, versions, bodies, durations
and the time stamps of the capture status are left out.

Fairness (`FairSpec`): a request that has arrived is served. No lock is waited for in this
module; calls to the database and the object store return or raise (the pool and `urllib3` have
timeouts), and a device that stops reading is disconnected by the proxy (`send_timeout` of
nginx). Nothing is assumed of devices, restarts, or the success of any call.

`DeliveryLedger` has only the history and the wire: a record moves from received over streaming
to one result, which nothing replaces; an answer has a status that fits what is recorded; no
firmware is emitted once there is a result; `download_served` is recorded when every byte has
been emitted. The refinement maps `record` to the outcomes of the rows.

## Admin accounts

`AdminAccounts` models the accounts and what makes a session token good or bad;
`MCAdminAccounts` names the symmetry and `AdminAccounts_proofs` holds the proofs.

| Variable | In the code |
|---|---|
| `account[i]` | the committed row of the normalized address `i` |
| `request[m]` | the request of thread `m` that may change an account: `guarded` with the actor's row, `loaded` with the row it is about, `write` or `insert` |
| `login[l]` | the log-in of thread `l`, with the row it read and the row it will write |
| `tokens` | the tokens issued and not expired, wherever a browser keeps them |

`Guard` is the dependency of every route; `LoadAdmin` is the `get` of the service, which
returns the actor's row as the guard loaded it when the request is about the actor; `SetActive`,
`SetRole` and `ChangeOwnPassword` decide, the first two after counting the other super
administrators; `CommitWrite` stores the changed columns. A log-in reads the row, checks the
password and signs the token in one step (`Authenticate`), and commits later (`CommitLogin`).
The password given is the right one, since other log-ins change nothing. A hash is the password
it was made from and whether its parameters are older than those of the running build: the
hasher has the defaults of its library (`core/security.py`, line 35), so a new build may make
all hashes outdated (`Restart`). Passwords all pass the strength check, `last_login_at` decides
nothing, and log-out only deletes the browser's cookies, so a token it held remains good until
it expires. (`docs/adr/0004-httponly-cookie-session-and-csrf.md` mentions a manual log-out among
the things that raise `session_version`; the code has no such thing.) The bootstrap command is
one step: the deployment runs it before there are accounts, and so before there are requests.

One condition keeps requests apart. `RowsApart`: no request commits to an account whose row
another one works from: the account it changes once that is loaded, the actor's before. Log-ins
overlap with everything. Two super administrators who demote each other share no row in this
sense, so `SuperAdminRemains` is violated under `RowsApart` too, which the run `super_admin_race`
shows.

## Rate limiter

`RateLimiter` models `services/rate_limit.py`, one limiter for all routes; `MCRateLimiter` has
the limits of the instance, `RateLimiter_proofs` the proofs.

| Variable | In the code |
|---|---|
| `clock` | `time.monotonic()` |
| `windows[k]` | the entry of the map for key `k`: when it expires, and its count |
| `call[t]` | the call of `allow` in thread `t`: its key and its reading of the clock |
| `answered`, `granted`, `overtaken` | what has happened, for the properties alone |

`allow` is two steps, since the clock is read before the lock is taken: `ReadClock`, and `Allow`
for all that happens under the lock, the sweep included. Any time and any other calls may come
between, so readings may be used out of order. A window that a stale reading opens begins, and
ends, in the past; the window before it has ended by then, so windows of one key do not overlap.
A sweep breaks this: made with a newer reading, it removes an expired window under a call that
waits with a reading inside it, and this call opens a window that overlaps the removed one.
`overtaken` says that this has happened; without it `LongRunRate` is violated. The sweep runs
above 10,000 entries.

## Runs

| Run | Instance | Shows |
|---|---|---|
| `firmware_concurrent` | 1 version, 2 file names (one of them `manifest.json`), 2 contents, 2 uploaders, 2 editors, all faults; about 300,000 states | `TypeOK`, `SingleWriter`, `IntactOrAbsent`, `PublishVerified`, and that the service implements `ReleaseShelf` |
| `firmware_apart` | 2 versions, 1 file name, 1 content, 2 uploaders, 2 editors, all faults but the lost commit answer, under `UploadsApart`; about 339,000 states | `PublishedServable` |
| `firmware_cleanup` | 1 version, 3 file names, 2 contents, 2 uploaders, refused commits, with fairness; about 22,000 states | `NoOrphans`, and `UploadsEnd` as liveness |
| `policies_apart` | 2 rows, 2 administrators, 2 devices of 2 types, 6 definitions, 5 edits, 5 instants, under `RowsApart` and `TargetsApart`; about 415,000 states | `NeverAmbiguous`, `DefinitionsStand`, `GovernedByNarrowest` |
| `ota_polls` | 1 version, 2 polls, 1 editor of the OTA switch, refused commits and restarts, with fairness; about 40,000 states | `OneOffer`, and `RequestsAnswered` as liveness |
| `ota_decision` | 2 versions, 1 poll, 3 policies of all types (two of which conflict), no editor, storage faults; about 603,000 states | `OffersNewer`, `OnlyEntitled`, `OfferIsNewestDeliverable` |
| `ota_edits` | 1 version, 1 poll, 2 editors of everything, refused commits and restarts, under `SwitchesApart`; about 1,405,000 states | `TypeOK`, `OffersNewer`, `RetiredStaysOff` |
| `admin_sessions` | 2 accounts, 2 roles, 2 passwords, 2 threads for changes, 1 for log-ins, versions up to 2, under `RowsApart`; about 174,000 states | `TypeOK`, `TokenRoleAgrees`, `ChangeRevokes`, `RevokedStaysRevoked` |
| `super_admin_race` | the same instance; a counterexample of 15 steps | that the code violates `SuperAdminRemains` |
| `devices` | 1 type, 2 codes, 1 device, 2 serial numbers, 2 tokens, 2 administrators, 1 upload, 1 poll, two of these at work at a time; about 1,340,000 states | `TypeOK`, `HistoryIsKept` |
| `delivery` | 2 exchanges, files of 2 chunks, 4 statuses, 1 restart, with fairness; about 380,000 states | `TypeOK`, `EvidenceAgrees`, `GapsAreCounted`, `StreamsReleased`, `EvidenceEnds` as liveness, and that it implements `DeliveryLedger` |
| `rate_limiter` | 2 keys of different limits and windows, 2 threads, a map that is swept from its second entry on, instants up to 4, 3 calls per key and process | `LongRunRate`, `RefusedOnlyWhenBusy` |

Why the bounds are enough to be interesting: every hazard of the upload is between one upload
and another of the same version, or between one upload and one life cycle request; two
uploaders, two editors and two contents make all of them happen, in every order; in
`firmware_apart`, where both objects of a release are or are not in place, one content is enough.
A race of
policies is between two requests on one row or on two rows of one target. In `policies_apart`
the windows touch at an instant, share one, and are open at either end, the edits move a
window, change the priority, empty a range and take a pin's target away, and the instants cover
each boundary and both sides of it.

Polls of one device meet in its row and in its offers for one version, so `ota_polls` has two
polls and one version. A poll and an edit meet in the row; in `ota_edits` two editors and a poll
that has read the row before may overlap in every order, with assertions between the read and
the commit of an offer. Which version is offered needs two of them, and no second poll, since only
one at a time holds the lock and releases and policies change as they like around it. `ota_decision` starts from every known version and from every reason not to be
eligible, and `OfferIsNewestDeliverable` is checked in each state, so for every combination of
device, releases and policies.

For accounts, two are needed for one to be the last super administrator, and versions up to 2
are what two changes of one account need; `MaxVersion` stops changes that would go beyond. In
`devices`, a deletion is of one type or one device, and what comes to refer to it comes from one
other request, upload or poll: one of each is enough, two codes and serial numbers are what a
rename and an identity edit need, two tokens what a rotation needs, and `TwoAtWork` leaves each
pair of an admin request, another one, an upload and a poll to overlap in every order. A poll that
is over and has its evidence still to save counts as at work. Ids run out, so the behaviours end.

Exchanges of `delivery` meet in the capture counters only; two chunks give a transfer a
beginning, a middle and an end. A limit of one and a limit of two, and a window as long as one
instant and one of two, make readings go stale within a window and over its end, and one key's
call sweeps the other's window.

A `CONSTRAINT` on requests apart is the hypothesis of the theorem that states the property, so
the run checks what the theorem says; with it dropped, a property that needs it is violated. In
`Policies`, `RequestsApart` is both conditions, of which `DefinitionsStand` needs the first only.
`TypeOK` of `Policies` and of `RateLimiter` is
proved and has no run. Threads are interchangeable in the specifications and their symmetry is
used in invariants and action properties only, never with liveness.

The deadlock check is off where behaviours end: in `firmware_cleanup`, which has no editors, so
once the version exists no request can begin; in `devices`, where ids run out; in `delivery`,
where all exchanges end. In the other instances a request can always begin.

## Proofs

All theorems are for any constants that satisfy the named assumptions: `FaultsAssumption`
(faults are among those listed) for releases; for policies, that definitions, edits, priorities
and instants are of their types (`DefinitionsAssumption`, `EditsAssumption`,
`NumbersAssumption`), and that devices have types and `None` is neither
(`TypeOfAssumption`, `NoneAssumption`); for accounts, that `SUPER_ADMIN` is a role, that
`MaxVersion` is positive and that `NoAccount` is no row (`RolesAssumption`,
`VersionsAssumption`, `NoAccountAssumption`); for polls, that versions are numbers up to
`MaxVersion`, that policies are of their type, that `Nobody` is no poll, and that a device starts
with a source exactly if it has a known version (`VersionsAssumption`, `PolicySetAssumption`,
`NobodyAssumption`, `EnrolledAssumption`); for devices, that no type and device share an id here
(`IdsAssumption`); for delivery, that a file has a chunk and that the statuses are those of the
code (`SizeAssumption`, `StatusesAssumption`, `RestartsAssumption`; only the run needs
`ExchangesAssumption`, that there are finitely many exchanges); for the limiter, that limits and
windows are positive (`LimitsAssumption`, `BoundsAssumption`).

`FirmwareReleases_proofs`:

- `TypeCorrect`, `OneWriter`, `NeverAnotherUploadsObjects`. The inductive invariant is
  `FirmwareInv`: types, `ChangeOfRow` (a life cycle request works on an existing row),
  `SingleWriter`, `IntactOrAbsent` and `UploadIntactOrAbsent`. `IntactOrAbsent` speaks of
  committed rows only, so it says nothing at the moment of the commit;
  `UploadIntactOrAbsent` carries it there: what an upload has put is, at each of its steps,
  still its own or has been removed by somebody's clean-up, and after the read-back its
  artifact is not called `manifest.json`. `SingleWriter` is what excludes a second writer.
- `ShelfImplemented`: from that invariant each step is one of three kinds: it pins a version
  and leaves the shelf alone, it changes what is shown of one pinned version, or neither.
- `PublicationIsVerified`: a publication that has passed its checks remembers that the row was
  verified if a verifier is configured; a restart, which alone changes the setting, ends it.
- `UploadsApartAreServable`, of `Spec /\ []UploadsApart`, where no commit answer is lost: an
  upload in its commit step has both objects in place, and only an upload without a committed row
  discards (`ServableInv`). Both hypotheses are needed: without the first, `FirmwareDiscardRace.cfg`
  ends in a counterexample; when the answer of a commit is lost, one upload alone discards the
  objects of its committed release.
- `UploadsLeaveNoOrphans`, under the assumption that the store, the answers of commits and the
  process do not fail (`NothingLost`; refused commits may occur), for any overlapping uploads.
  `OrphanInv`: every object is `Owned`, referred to by its row or listed by an upload that will
  discard it. A commit hands its list to the row, of which it is the only holder (`SingleWriter`).

`PolicyRules_proofs`, which the next two use:

- `OverlapIsSharedInstant`: `windows_overlap` holds exactly when both windows cover a common
  instant. From it `NoConflictWithoutOverlap`: policies that keep apart resolve without conflict.
- `ResolutionByRank`: the search of the code, scope by scope, decides by the ranking of
  `docs/07`: a policy governs if it alone ranks above all others in effect, several of that rank
  are a conflict, and a device is ungoverned only if none is in effect. That a highest priority
  exists uses that priorities are bounded (0 to 1000 in `api/v1/schemas.py`).
- `OverlapIsAmbiguity`: two active policies of one scope, target and priority pass the check
  before a write exactly if there is no instant at which the resolution could not decide.
- `ResolutionFacts`: what a resolution without conflict gives.

`Policies_proofs`:

- `PoliciesTypeCorrect`.
- `NarrowestGoverns`: from the types alone, so for every table that races may have produced.
- `DefinitionsStandApart`, of `Spec /\ []RowsApart`. The inductive invariant `RowsInv` adds to the
  types that stored policies are valid and that what a request has read is still stored and what
  it is about to store is valid (`Current`). Without a race on its row the merged row is the
  computed one (`MergeUnraced`).
- `NeverAmbiguousApart`, of `Spec /\ []RowsApart /\ []TargetsApart`. `ApartInv` adds that active
  policies of one target and priority keep apart (`Apart`), and that the conflict check which a
  request passed still holds when it writes (`Checked`). Requests on other rows and other targets,
  of which there are any number, commit in between. That the check suffices for every device and
  every instant is `OverlapIsSharedInstant`.

`OtaService_proofs`:

- `OtaTypeCorrect`, `OneOfferPerVersion`, `NoDowngradeOffered`, for any polls, editors and faults.
  The inductive invariant is `OtaInv`. `LockHeld` says that a poll past authentication, up to its
  commit, is the holder of the lock, so there is one at most: that is what makes the check for an
  earlier offer good until the insert. `Established` says, per step, what the poll has found out:
  the chosen version is newer than the known one its session has, it has been allowed and
  deliverable since the poll took the lock, and no offer of it exists. `HistoryCovers` relates
  `history` to the present.
- `EntitledOnly`, from the same invariant: only a commit records an offer (`CommitOffers`) or
  grants a download (`CommitGrants`), and what it gives is `Established`. The policy and the
  release may have been read at different times, and both may be gone at the commit; the theorem
  says that each was there while the request was served.
- `OfferAgreesWithDelivery`: `OfferIsNewestDeliverable`, from the types and `ResolutionFacts`,
  for any releases and policies. The docstring of `allows_delivery` claims this "by construction".
- `RetirementHolds`: `RetiredStaysOff`, of `Spec /\ []SwitchesApart`. `PollsReport` says that polls
  write nothing but the known version and its source, `RetirementOff` that a pending edit that
  retires the device leaves it off. Without the hypothesis (`OtaRetirementRace.cfg`) a retirement
  that read the device while it was off does not write the switch, and another request that has
  read it before switches it on first.

`AdminAccounts_proofs`:

- `AccountsTypeCorrect`, for any threads; it needs `PendingStored`, that the row a request is
  about is never deleted, since a merge is only a row if it starts from one.
- `TokenRoleAgreesApart`, `ChangeRevokesApart`, `RevokedStaysRevokedApart`, of
  `Spec /\ []RowsApart`, with any number of threads for changes and for log-ins. The inductive
  invariant `SessionsInv` says that what a request saw of rights and sessions still holds
  (`Sound`), that a pending write raises the version if it must (`Bumped`), and that every token,
  also one that a log-in is about to hand out, is at most at its account's version, and if level
  with it was issued to an active account of the same role (`Level`). Steps that touch nothing but
  hashes are treated together (`Quiet`).

`Devices_proofs`, for any numbers of ids, administrators, uploads and polls:

- `DevicesTypeCorrect`. It needs `TypesKept`, the foreign key of the devices table, because a token
  is issued with the path of its device's type.
- `HistoryHolds`: `HistoryIsKept`, without a hypothesis on requests. `HistoryInv` says that what
  refers to a type or a device refers to a stored row, and `LockedStored` that a poll which holds the
  row lock holds it of a stored device, since a deletion waits for the lock; so the attempt that it
  records finds its device. `Grows` reduces the actions that only add.

`Delivery_proofs`, for any exchanges, file sizes and numbers of restarts. The inductive
invariant `DeliveryInv` says of each exchange by its step what row, wire, stream and recorder
have to do with each other: `Unanswered`, `Answered`, `Streaming`, and `Released` at any time.
`Frame` reduces a step of one exchange to that exchange.

- `DeliveryTypeCorrect`, `EvidenceHolds`, `StreamsAreReleased`, from the invariant.
- `DeliveryImplementsLedger`: under the invariant, a save is the transition the ledger allows in
  that place or none, a chunk is emitted before a result is recorded, and every other step leaves
  record and wire alone. So a save that fails, or commits without being acknowledged, is a
  missing record or the record itself, but never a wrong one.
- `GapsHold`, from `GapsInv`: an exchange is among `Missing` from the moment at which no save of
  a result can still be expected of it (it has no row; or its answer is given without a result
  and no stream is to come; or it is over), and `Missing` is never larger than the count of
  failures. A step of one exchange adds at most that exchange, and only while it raises the count
  (`Accounted`). The proof needs the finite set of exchanges of `ExchangesAssumption`.

`RateLimiter_proofs`, for any keys, limits, windows and threads:

- `LimiterTypeCorrect`.
- `RateHolds`: `Paced` gives a number `n` of windows that are over, or behind, so that grants are
  at most `n` limits and what the open window has counted, and `n` windows fit into the time
  before it (`Within`). Where a key has no window, the time of `n` windows must have passed for
  the waiting calls also (`Behind`): a sweep under a waiting call is what breaks this.
- `RefusalsAreEarned`: `Recent` says that as many last calls as the window has counted were
  answered within its length before it expires.

Only model-checked: the liveness properties `UploadsEnd`, `RequestsAnswered` and `EvidenceEnds`,
which are beyond this prover, as is `ENABLED`.

## What the models found

The run `super_admin_race` and the configurations kept beside the runs end with a counterexample:

    tlc -workers 2 -config AdminSuperAdminRace.cfg MCAdminAccounts.tla
    tlc -workers 2 -config AdminRevocationRace.cfg MCAdminAccounts.tla
    tlc -workers 2 -config AdminPasswordRace.cfg MCAdminAccounts.tla
    tlc -workers 2 -config FirmwareDiscardRace.cfg MCFirmwareReleases.tla
    tlc -workers 2 -config FirmwareLifecycleRace.cfg MCFirmwareReleases.tla
    tlc -workers 2 -config PoliciesConflictRace.cfg MCPolicies.tla
    tlc -workers 2 -config DevicesRenameRace.cfg MCDevices.tla
    tlc -workers 2 -config DevicesPurgeRace.cfg MCDevices.tla
    tlc -workers 2 -config DevicesUploadRace.cfg MCDevices.tla
    tlc -workers 2 -config OtaRetirementRace.cfg MCOtaService.tla
    tlc -workers 2 -config OtaProvenanceRace.cfg MCOtaService.tla

- `AdminSuperAdminRace.cfg`: two requests that demote or deactivate one of the last two super
  administrators both count the other one (`services/admin_users.py`, line 221) and both succeed,
  against `docs/18-operations.md`, line 388, "The last active `SUPER_ADMIN` cannot be deactivated
  or demoted". Only the database can then make another.
- `FirmwareDiscardRace.cfg`: a failed upload removes its objects after its rollback has freed the
  version; by then they may be another upload's, committed and published. The published
  release is left without objects (`services/firmware.py`, lines 219 to 226), against line 525,
  "a published release must be servable". It does not serve wrong bytes: `IntactOrAbsent` still
  holds.
- `PoliciesConflictRace.cfg`: two policies of one scope and priority can be stored with
  overlapping windows (`services/policies.py`, line 344), against line 10, "a policy can never be
  created or edited into an ambiguous configuration". The resolution then reports a conflict and
  the device gets no offer.
- `AdminRevocationRace.cfg`: `session_version` is incremented in the program
  (`services/admin_users.py`, line 109), so two changes that overlap may raise it once, and a
  session issued between them survives the second, against `docs/08-security.md`, line 97,
  "Revocation is immediate". With three changes the version can even go down, and an ended
  session is good again (`RevokedStaysRevoked` fails in the same instance).
- `AdminPasswordRace.cfg`: the first log-ins after an upgrade of the hasher store hashes anew
  (`services/admin_users.py`, line 195). One that overlaps a password change puts the old password
  back, although the change was answered with success.
- `FirmwareLifecycleRace.cfg`: a life cycle request writes by primary key what it found allowed when
  it read the row (`services/firmware.py`, lines 357 and 379). A metadata edit that overlaps an
  archiving changes an archived release, a publication that re-reads its artifact while the release
  is archived publishes it, against "The sole release lifecycle is" in `docs/02-domain-model.md`,
  line 190.
- `DevicesRenameRace.cfg`: a rename that has passed its dependency check may commit after a device of
  the type was registered and flashed, an identity edit after a token was issued
  (`ProvisioningStands`); `DevicesPurgeRace.cfg`: a purge after the device was activated
  (`PurgesProvisioned`); `DevicesUploadRace.cfg`: a rename may overlap an upload, whose release is then
  under a path that its devices never ask for (`ReleasesInPlace`). `docs/RESOURCE-RULES.md`, line 39,
  has the endpoints repeat the checks "to prevent stale-state races": they are repeated, but by
  queries that do not wait for what is under way.
- `OtaRetirementRace.cfg`: a device that was retired while an overlapping request switched its
  updates on is retired with updates on, and not off when it returns.
- `OtaProvenanceRace.cfg`: known version and source are two columns, each written only if it
  changes for the request (`services/ota.py`, line 133). A request that takes the version away
  and one that reports or asserts it may each win one of the columns, against `db/models.py`,
  "always accompanied by its provenance".

Other behaviour met while modelling:

- A version that the device reported may be marked as asserted, or the reverse, where a report and
  an assertion overlap: `ProvenanceKept` only says that there is a source exactly if there is a
  version.
- An activation that overlaps an archiving leaves a policy archived and active, which the resolution
  leaves out; one that overlaps a restore leaves it active, against the docstring of `restore`
  (`services/policies.py`, line 161).
- The rotation of one token by two requests leaves two active ones; nothing ends the others when
  a token is issued.
- A device that leaves before its download has begun leaves the row "streaming" and the
  connection to the object store open (`left` in `StreamsReleased` and `EvidenceEnds`): a
  generator that has not started runs no `finally` clause.
- After a failed receipt no save of that exchange is tried, so a later recovery of the database
  is not used; a receipt whose commit was not acknowledged is counted as a failure although its
  row exists. `GapsAreCounted` therefore bounds the gaps and does not count them exactly.
- A sweep of the limiter by one key, while a call of another waits for the lock with an older
  reading, lets that key have a second window too early (`overtaken`).

## Plan

What may still be added: `OfferLog`, an abstract specification for `OtaService` to implement (one
entry per version, made while the version may be delivered, and served versions only among
those; the invariants of `OtaService` say as much, so the refinement would add the order).

## Not modelled

Parsing and composing strings (manifests, paths, headers, e-mail addresses), hashing and
signatures, which enter as "agrees" and "is good"; listing and dashboard queries; the table from
roles to permissions, of which `AdminAccounts` has the one entry it needs; the audit log, which
is only inserted into; migrations, command line tools and deployment scripts, which run without
the server or restart it. Of the monitoring buffer only the capture counters are modelled: its
lists of events and requests are read by nobody who decides anything. What MinIO carries out after
the call has failed or the process has stopped, such as a put that lands after its clean-up, is not
modelled: a failed put has or has not stored its object when the upload goes on.
