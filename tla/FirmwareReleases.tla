-------------------------- MODULE FirmwareReleases --------------------------
(***************************************************************************)
(* The firmware release of one device type: the row in PostgreSQL, the two *)
(* objects in MinIO, the upload requests that write both, and the          *)
(* lifecycle requests that move a release between its states.              *)
(*   app/services/firmware.py   FirmwareService                            *)
(*   app/api/v1/firmware.py     the routes that call it and commit         *)
(*                                                                         *)
(* The database runs at READ COMMITTED and a request reads first and       *)
(* writes later, so two requests interleave between those steps.  The      *)
(* object store is not part of the transaction.                            *)
(*                                                                         *)
(* Requests that a precondition refuses change nothing: they are           *)
(* stuttering steps, and only requests that pass are started here.         *)
(*                                                                         *)
(* A definition marked "Mutant" is the one after it with a slip put in; no *)
(* specification uses it.                                                  *)
(***************************************************************************)
EXTENDS Sequences

CONSTANTS
    Versions,       \* versions of the device type that may be uploaded
    Filenames,      \* artifact filenames, ManifestName among them if wished
    ManifestName,   \* "manifest.json"
    Binaries,       \* the distinct contents an artifact may have
    Notes,          \* values of the descriptive fields of a release
    Uploaders,      \* threads that serve POST /releases
    Editors,        \* threads that serve the lifecycle and metadata routes
    Faults          \* the faults that may occur, a subset of AllFaults

AllFaults == {"storage", "commit_refused", "commit_unknown", "restart"}

ASSUME FaultsAssumption == Faults \subseteq AllFaults

VARIABLES
    release,    \* release[v]: the committed row of version v, or NoRow
    store,      \* store[v][n]: the object at firmware/{code}/{platform}/v{v}/{n}
    upload,     \* upload[u]: the request uploader u is serving
    change,     \* change[e]: the request editor e is serving
    verifier    \* is a ManifestVerifier configured in this deployment?

vars == <<release, store, upload, change, verifier>>

(***************************************************************************)
(* Data.                                                                   *)
(***************************************************************************)

Statuses == {"VALIDATED", "DRAFT", "PUBLISHED", "DEPRECATED", "ARCHIVED"}
Deliverable == {"PUBLISHED", "DEPRECATED"}

\* An object key has two parts here: the version of its prefix and its name.
Names == Filenames \cup {ManifestName}

\* What a signed manifest claims: `signed` says whether its signature is good.
Manifests == [kind: {"manifest"}, version: Versions, file: Filenames,
              binary: Binaries, signed: BOOLEAN]

ArtifactObject(b) == [kind |-> "artifact", binary |-> b]
Absent == [kind |-> "absent"]
Objects == {ArtifactObject(b) : b \in Binaries} \cup Manifests \cup {Absent}

\* firmware_releases joined with its artifact and manifest rows.
NoRow == [status |-> "none"]
Rows == [status: Statuses, file: Filenames, binary: Binaries,
         manifest: Manifests, verified: BOOLEAN, notes: Notes]

NoUpload == [step |-> "idle"]
UploadSteps == {"insert", "put_artifact", "put_manifest", "verify", "commit",
                "rollback", "discard"}
Uploads == [step: UploadSteps, version: Versions, file: Filenames,
            binary: Binaries, manifest: Manifests, notes: Notes,
            written: Seq(Names)]

Operations == {"mark_draft", "publish_release", "deprecate_release",
               "archive_release", "restore_release", "update_metadata"}
NoChange == [step |-> "idle"]
Changes == [step: {"reread", "write"}, op: Operations, version: Versions,
            notes: Notes]

Init ==
    /\ release = [v \in Versions |-> NoRow]
    /\ store = [v \in Versions |-> [n \in Names |-> Absent]]
    /\ upload = [u \in Uploaders |-> NoUpload]
    /\ change = [e \in Editors |-> NoChange]
    /\ verifier \in BOOLEAN

(***************************************************************************)
(* Upload.                                                                 *)
(***************************************************************************)

\* The transaction of u has inserted the row of version v and not ended: the
\* unique index on (device_type_id, version) makes other inserts of v wait.
Inserted(u) == upload[u].step \in {"put_artifact", "put_manifest", "verify",
                                   "commit", "rollback"}
HoldsRow(u, v) == Inserted(u) /\ upload[u].version = v

CrossCheck(m, v, f, b) == m.version = v /\ m.file = f /\ m.binary = b

AdvanceWith(u, step, written) ==
    upload' = [upload EXCEPT ![u] = [@ EXCEPT !.step = step, !.written = written]]
Advance(u, step) == AdvanceWith(u, step, upload[u].written)
EndUpload(u) == upload' = [upload EXCEPT ![u] = NoUpload]

NewUpload(v, f, b, m, n) ==
    [step |-> "insert", version |-> v, file |-> f, binary |-> b,
     manifest |-> m, notes |-> n, written |-> <<>>]

\* The checks made before anything is written: the version is free as far as
\* committed rows tell, the manifest agrees with the upload, and its
\* signature is good if this deployment verifies signatures.
CreateRelease(u) ==
    /\ upload[u] = NoUpload
    /\ \E v \in Versions, f \in Filenames, b \in Binaries, m \in Manifests,
          n \in Notes :
          /\ release[v] = NoRow
          /\ CrossCheck(m, v, f, b)
          /\ verifier => m.signed
          /\ upload' = [upload EXCEPT ![u] = NewUpload(v, f, b, m, n)]
    /\ UNCHANGED <<release, store, change, verifier>>

\* Mutant: the row is inserted at the end, with no lock during the puts.
InsertUnlocked(u) ==
    /\ upload[u].step = "insert"
    /\ \/ release[upload[u].version] = NoRow /\ Advance(u, "put_artifact")
       \/ release[upload[u].version] # NoRow /\ EndUpload(u)
    /\ UNCHANGED <<release, store, change, verifier>>

\* Mutant: (device_type_id, version) has no unique index.
InsertNotUnique(u) ==
    /\ upload[u].step = "insert"
    /\ Advance(u, "put_artifact")
    /\ UNCHANGED <<release, store, change, verifier>>

\* The INSERT waits while another transaction holds the unique key, then
\* succeeds, or fails if a row was committed meanwhile; the failure is raised
\* outside the try block, so nothing is discarded.
InsertRelease(u) ==
    /\ upload[u].step = "insert"
    /\ \A other \in Uploaders : ~HoldsRow(other, upload[u].version)
    /\ \/ /\ release[upload[u].version] = NoRow
          /\ Advance(u, "put_artifact")
       \/ /\ release[upload[u].version] # NoRow
          /\ EndUpload(u)
    /\ UNCHANGED <<release, store, change, verifier>>

Put(v, n, object) == store' = [store EXCEPT ![v][n] = object]

\* The key is recorded before the object is written.
PutArtifact(u) ==
    LET r == upload[u] IN
    /\ r.step = "put_artifact"
    /\ \/ /\ Put(r.version, r.file, ArtifactObject(r.binary))
          /\ AdvanceWith(u, "put_manifest", <<r.file>>)
       \/ /\ "storage" \in Faults     \* reported as failed, stored or not
          /\ \/ Put(r.version, r.file, ArtifactObject(r.binary))
             \/ UNCHANGED store
          /\ AdvanceWith(u, "rollback", <<r.file>>)
    /\ UNCHANGED <<release, change, verifier>>

\* Mutant: the key of the manifest is never recorded.
PutManifestUnrecorded(u) ==
    /\ upload[u].step = "put_manifest"
    /\ Put(upload[u].version, ManifestName, upload[u].manifest)
    /\ Advance(u, "verify")
    /\ UNCHANGED <<release, change, verifier>>

\* Mutant: a failed put of the manifest is logged and passed over.
PutManifestLenient(u) ==
    /\ upload[u].step = "put_manifest"
    /\ \/ Put(upload[u].version, ManifestName, upload[u].manifest)
       \/ "storage" \in Faults /\ UNCHANGED store
    /\ AdvanceWith(u, "verify", Append(upload[u].written, ManifestName))
    /\ UNCHANGED <<release, change, verifier>>

\* The key is recorded after the object is written.
PutManifest(u) ==
    LET r == upload[u] IN
    /\ r.step = "put_manifest"
    /\ \/ /\ Put(r.version, ManifestName, r.manifest)
          /\ AdvanceWith(u, "verify", Append(r.written, ManifestName))
       \/ /\ "storage" \in Faults
          /\ \/ Put(r.version, ManifestName, r.manifest)
             \/ UNCHANGED store
          /\ Advance(u, "rollback")
    /\ UNCHANGED <<release, change, verifier>>

\* Mutant: nothing is read back.
NoReadBack(u) ==
    /\ upload[u].step = "verify"
    /\ Advance(u, "commit")
    /\ UNCHANGED <<release, store, change, verifier>>

\* Mutant: after a mismatch the objects are written again.
RetryStoredIntegrity(u) ==
    LET r == upload[u]
        intact == store[r.version][r.file] = ArtifactObject(r.binary) IN
    /\ r.step = "verify"
    /\ \/ intact /\ Advance(u, "commit")
       \/ ~intact /\ AdvanceWith(u, "put_artifact", <<>>)
    /\ UNCHANGED <<release, store, change, verifier>>

\* Only the artifact is read back.
AssertStoredIntegrity(u) ==
    LET r == upload[u]
        intact == store[r.version][r.file] = ArtifactObject(r.binary) IN
    /\ r.step = "verify"
    /\ \/ intact /\ Advance(u, "commit")
       \/ (~intact \/ "storage" \in Faults) /\ Advance(u, "rollback")
    /\ UNCHANGED <<release, store, change, verifier>>

\* Mutant: the initial status of the row is never replaced.
RowLeftUploaded(r) ==
    [status |-> "UPLOADED", file |-> r.file, binary |-> r.binary,
     manifest |-> r.manifest, verified |-> verifier, notes |-> r.notes]

UploadedRow(r) ==
    [status |-> "VALIDATED", file |-> r.file, binary |-> r.binary,
     manifest |-> r.manifest, verified |-> verifier, notes |-> r.notes]

\* The commit succeeds; or it is refused; or it succeeds and the answer is
\* lost, which the handler cannot tell from a refusal.
CommitUpload(u) ==
    LET r == upload[u]
        applied == release' = [release EXCEPT ![r.version] = UploadedRow(r)] IN
    /\ r.step = "commit"
    /\ \/ applied /\ EndUpload(u)
       \/ /\ "commit_refused" \in Faults
          /\ Advance(u, "rollback") /\ UNCHANGED release
       \/ /\ "commit_unknown" \in Faults
          /\ applied /\ Advance(u, "discard")
    /\ UNCHANGED <<store, change, verifier>>

\* session.rollback(): from here on the unique key is free again.
RollbackUpload(u) ==
    /\ upload[u].step = "rollback"
    /\ Advance(u, "discard")
    /\ UNCHANGED <<release, store, change, verifier>>

\* One key at a time, the artifact first; a failed removal is logged and
\* skipped.
DiscardObject(u) ==
    LET r == upload[u] IN
    /\ r.step = "discard" /\ r.written # <<>>
    /\ \/ Put(r.version, Head(r.written), Absent)
       \/ "storage" \in Faults /\ UNCHANGED store
    /\ AdvanceWith(u, "discard", Tail(r.written))
    /\ UNCHANGED <<release, change, verifier>>

FinishDiscard(u) ==
    /\ upload[u].step = "discard" /\ upload[u].written = <<>>
    /\ EndUpload(u)
    /\ UNCHANGED <<release, store, change, verifier>>

(***************************************************************************)
(* Lifecycle.  A request reads the row and checks its status; the UPDATE   *)
(* it commits later sets the new status whatever the row holds by then.    *)
(***************************************************************************)

Source == [mark_draft        |-> {"VALIDATED"},
           publish_release   |-> {"VALIDATED", "DRAFT"},
           deprecate_release |-> {"PUBLISHED"},
           archive_release   |-> {"VALIDATED", "DRAFT", "PUBLISHED", "DEPRECATED"},
           restore_release   |-> {"ARCHIVED"},
           update_metadata   |-> {"VALIDATED", "DRAFT"}]

Target == [mark_draft        |-> "DRAFT",
           publish_release   |-> "PUBLISHED",
           deprecate_release |-> "DEPRECATED",
           archive_release   |-> "ARCHIVED",
           restore_release   |-> "DRAFT"]

\* Mutant: publication does not look at the signature.
AllowedUnverified(op, row) == row.status \in Source[op]

Allowed(op, row) ==
    /\ row.status \in Source[op]
    /\ (op = "publish_release" /\ verifier) => row.verified

BeginChange(e) ==
    /\ change[e] = NoChange
    /\ \E v \in Versions, op \in Operations, n \in Notes :
          /\ release[v] # NoRow
          /\ Allowed(op, release[v])
          /\ op # "update_metadata" => n = release[v].notes
          /\ change' = [change EXCEPT ![e] =
                [step |-> IF op = "publish_release" THEN "reread" ELSE "write",
                 op |-> op, version |-> v, notes |-> n]]
    /\ UNCHANGED <<release, store, upload, verifier>>

\* Publication re-reads the artifact object, not the manifest object.  A
\* failed or wrong read ends the request.
AssertArtifactIntact(e) ==
    LET row == release[change[e].version]
        intact == store[change[e].version][row.file] = ArtifactObject(row.binary) IN
    /\ change[e].step = "reread"
    /\ \/ intact /\ change' = [change EXCEPT ![e].step = "write"]
       \/ (~intact \/ "storage" \in Faults)
          /\ change' = [change EXCEPT ![e] = NoChange]
    /\ UNCHANGED <<release, store, upload, verifier>>

\* Only the changed columns are written.
CommitChange(e) ==
    LET c == change[e] IN
    /\ c.step = "write"
    /\ \/ release' = IF c.op = "update_metadata"
                     THEN [release EXCEPT ![c.version].notes = c.notes]
                     ELSE [release EXCEPT ![c.version].status = Target[c.op]]
       \/ "commit_refused" \in Faults /\ UNCHANGED release
    /\ change' = [change EXCEPT ![e] = NoChange]
    /\ UNCHANGED <<store, upload, verifier>>

\* The process dies, open transactions are rolled back, and it starts again,
\* perhaps with another verifier setting.  Nothing is discarded.
Restart ==
    /\ "restart" \in Faults
    /\ upload' = [u \in Uploaders |-> NoUpload]
    /\ change' = [e \in Editors |-> NoChange]
    /\ verifier' \in BOOLEAN
    /\ UNCHANGED <<release, store>>

UploadStep(u) ==
    \/ InsertRelease(u) \/ PutArtifact(u) \/ PutManifest(u)
    \/ AssertStoredIntegrity(u) \/ CommitUpload(u)
    \/ RollbackUpload(u) \/ DiscardObject(u) \/ FinishDiscard(u)

ChangeStep(e) == AssertArtifactIntact(e) \/ CommitChange(e)

Next ==
    \/ \E u \in Uploaders : CreateRelease(u) \/ UploadStep(u)
    \/ \E e \in Editors : BeginChange(e) \/ ChangeStep(e)
    \/ Restart

Spec == Init /\ [][Next]_vars

\* A request that was started is carried on: every call it makes returns or
\* raises.  PostgreSQL wakes the waiter of a unique key when the transaction
\* it waits for ends, so an insert that is enabled again and again happens.
Fairness ==
    /\ \A u \in Uploaders : WF_vars(UploadStep(u)) /\ SF_vars(InsertRelease(u))
    /\ \A e \in Editors : WF_vars(ChangeStep(e))

FairSpec == Spec /\ Fairness
-----------------------------------------------------------------------------
(***************************************************************************)
(* Properties.                                                             *)
(***************************************************************************)

TypeOK ==
    /\ release \in [Versions -> Rows \cup {NoRow}]
    /\ store \in [Versions -> [Names -> Objects]]
    /\ upload \in [Uploaders -> Uploads \cup {NoUpload}]
    /\ change \in [Editors -> Changes \cup {NoChange}]
    /\ verifier \in BOOLEAN

\* A lifecycle request works on a committed row, and no row is ever deleted.
ChangeOfRow ==
    \A e \in Editors : change[e] # NoChange => release[change[e].version] # NoRow

\* Objects under a version are written by one upload at a time, and by none
\* once the version has a committed row: the insert of the row, flushed
\* before the first put, serves as the lock that the object store lacks.
SingleWriter ==
    \A u \in Uploaders, v \in Versions : HoldsRow(u, v) =>
        /\ release[v] = NoRow
        /\ \A other \in Uploaders : HoldsRow(other, v) => other = u

\* Whatever uploads overlap, fail, are answered wrongly or die half way, the
\* objects of a committed release are the ones it was validated with, or
\* they are missing; they are never those of another upload.
IntactOrAbsent ==
    \A v \in Versions : release[v] # NoRow =>
        /\ store[v][release[v].file] \in {ArtifactObject(release[v].binary), Absent}
        /\ store[v][ManifestName] \in {release[v].manifest, Absent}

\* What an upload has put so far is still there or has been removed by another
\* request's clean-up; what it has read back and is about to commit has an
\* artifact under another key than the manifest.  This carries IntactOrAbsent
\* through the steps before the commit.
UploadIntactOrAbsent ==
    \A u \in Uploaders : upload[u] # NoUpload =>
        LET r == upload[u]
            artifact == store[r.version][r.file]
            manifest == store[r.version][ManifestName] IN
        /\ r.step = "put_manifest" => artifact \in {ArtifactObject(r.binary), Absent}
        /\ r.step \in {"verify", "commit"} =>
              /\ manifest \in {r.manifest, Absent}
              /\ r.file # ManifestName => artifact \in {ArtifactObject(r.binary), Absent}
        /\ r.step = "commit" => r.file # ManifestName

\* What the routes leave to their callers.  An upload that removes its objects
\* has given up the unique key: nobody inserts the version again meanwhile.
UploadsApart ==
    \A u, other \in Uploaders :
        upload[u].step = "discard" => ~HoldsRow(other, upload[u].version)

\* The comment at _assert_artifact_intact: "a published release must be
\* servable".  Both objects that the device endpoints read are there.
PublishedServable ==
    \A v \in Versions : release[v].status = "PUBLISHED" =>
        /\ store[v][release[v].file] = ArtifactObject(release[v].binary)
        /\ store[v][ManifestName] = release[v].manifest

\* When no upload is running, the store holds no object that a committed row
\* does not refer to: failed uploads have cleaned up after themselves and
\* nobody else's objects are in the way.
NoOrphans ==
    (\A u \in Uploaders : upload[u] = NoUpload) =>
        \A v \in Versions, n \in Names : store[v][n] # Absent =>
            /\ release[v] # NoRow
            /\ n \in {release[v].file, ManifestName}

\* Where a verifier is configured, no release becomes published unless its
\* signature was verified at upload, across restarts that change the setting.
PublishVerified ==
    [][\A v \in Versions :
          (release'[v].status = "PUBLISHED" /\ release[v].status # "PUBLISHED")
             => (verifier => release[v].verified)]_vars

\* Every upload request ends, also the one whose insert waits for another
\* upload of the same version.
UploadsEnd == \A u \in Uploaders : upload[u] # NoUpload ~> upload[u] = NoUpload

(***************************************************************************)
(* What the device endpoints hand out for a version: the bytes found under *)
(* the keys of a deliverable row.  ReleaseShelf promises that they never   *)
(* change from one content to another.                                     *)
(***************************************************************************)

Nothing == Absent

Pinned == [v \in Versions |->
             IF release[v] = NoRow THEN Nothing
             ELSE [artifact |-> ArtifactObject(release[v].binary),
                   manifest |-> release[v].manifest]]

Served == [v \in Versions |->
             IF release[v].status \notin Deliverable
             THEN [artifact |-> Nothing, manifest |-> Nothing]
             ELSE [artifact |-> store[v][release[v].file],
                   manifest |-> store[v][ManifestName]]]

Shelf == INSTANCE ReleaseShelf WITH
            Contents <- Objects, pinned <- Pinned, shelf <- Served

ImplementsShelf == Shelf!Spec
-----------------------------------------------------------------------------
(***************************************************************************)
(* What the documentation says as well and overlapping requests break: a   *)
(* lifecycle request writes by primary key what it found allowed before it *)
(* re-read the artifact.  FirmwareLifecycleRace.cfg shows it.              *)
(***************************************************************************)

\* docs/02-domain-model.md: "The sole release lifecycle is" this one, and metadata
\* can be edited before the release is published only ("release_metadata_locked").
LifecycleOrder ==
    [][\A v \in Versions : release[v] # NoRow =>
          /\ release'[v].status # release[v].status =>
                <<release[v].status, release'[v].status>> \in
                   {<<"VALIDATED", "DRAFT">>, <<"VALIDATED", "PUBLISHED">>,
                    <<"DRAFT", "PUBLISHED">>, <<"PUBLISHED", "DEPRECATED">>,
                    <<"VALIDATED", "ARCHIVED">>, <<"DRAFT", "ARCHIVED">>,
                    <<"PUBLISHED", "ARCHIVED">>, <<"DEPRECATED", "ARCHIVED">>,
                    <<"ARCHIVED", "DRAFT">>}
          /\ release'[v].notes # release[v].notes =>
                release[v].status \in {"VALIDATED", "DRAFT"}]_vars
=============================================================================
