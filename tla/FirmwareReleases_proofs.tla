---------------------- MODULE FirmwareReleases_proofs ----------------------
(***************************************************************************)
(* Proofs about FirmwareReleases, for any set of versions, filenames,      *)
(* contents, threads and faults.                                           *)
(***************************************************************************)
EXTENDS FirmwareReleases, Integers, TLAPS

\* A request that is being served is a record of Uploads.
LEMMA UploadServed ==
    ASSUME TypeOK, NEW u \in Uploaders, upload[u].step # "idle"
    PROVE  upload[u] \in Uploads
BY DEF TypeOK, NoUpload

\* A step of a request that is being served keeps the type of upload.
LEMMA AdvanceType ==
    ASSUME TypeOK, NEW u \in Uploaders, upload[u] \in Uploads,
           NEW s \in UploadSteps, NEW w \in Seq(Names), AdvanceWith(u, s, w)
    PROVE  upload' \in [Uploaders -> Uploads \cup {NoUpload}]
<1> DEFINE r == [upload[u] EXCEPT !.step = s, !.written = w]
<1>1. r \in Uploads
  BY DEF Uploads
<1>2. upload' = [upload EXCEPT ![u] = r]
  BY DEF AdvanceWith
<1> HIDE DEF r
<1>3. QED
  BY <1>1, <1>2 DEF TypeOK

\* Put replaces one object and keeps the type.
LEMMA PutType ==
    ASSUME TypeOK, NEW v \in Versions, NEW n \in Names, NEW o \in Objects, Put(v, n, o)
    PROVE  store' \in [Versions -> [Names -> Objects]]
<1>1. [store[v] EXCEPT ![n] = o] \in [Names -> Objects]
  BY DEF TypeOK
<1>2. store' = [store EXCEPT ![v] = [store[v] EXCEPT ![n] = o]]
  BY DEF Put
<1>3. QED
  BY <1>1, <1>2 DEF TypeOK

\* Every step keeps the types; a lifecycle request must be about a row for it.
LEMMA TypeStep ==
    ASSUME TypeOK, ChangeOfRow, [Next]_vars
    PROVE  TypeOK'
<1> USE DEF TypeOK
<1>1. ASSUME NEW u \in Uploaders, CreateRelease(u) PROVE TypeOK'
  <2>1. PICK v \in Versions, f \in Filenames, b \in Binaries, m \in Manifests, n \in Notes :
           upload' = [upload EXCEPT ![u] = NewUpload(v, f, b, m, n)]
    BY <1>1 DEF CreateRelease
  <2>2. NewUpload(v, f, b, m, n) \in Uploads
    BY DEF NewUpload, Uploads, UploadSteps
  <2>3. QED
    BY <1>1, <2>1, <2>2 DEF CreateRelease
<1>2. ASSUME NEW u \in Uploaders, InsertRelease(u) PROVE TypeOK'
  <2>1. upload[u] \in Uploads /\ upload[u].written \in Seq(Names)
    BY <1>2, UploadServed DEF InsertRelease, Uploads
  <2>2. CASE Advance(u, "put_artifact")
    BY <1>2, <2>1, <2>2, AdvanceType DEF InsertRelease, Advance, UploadSteps
  <2>3. CASE EndUpload(u)
    BY <1>2, <2>3 DEF InsertRelease, EndUpload
  <2>4. QED
    BY <1>2, <2>2, <2>3 DEF InsertRelease
<1>3. ASSUME NEW u \in Uploaders, PutArtifact(u) PROVE TypeOK'
  <2>1. upload[u] \in Uploads
    BY <1>3, UploadServed DEF PutArtifact
  <2>2. /\ upload[u].version \in Versions
        /\ upload[u].file \in Names /\ <<upload[u].file>> \in Seq(Names)
        /\ ArtifactObject(upload[u].binary) \in Objects
    BY <2>1 DEF Uploads, Names, Objects
  <2>3. upload' \in [Uploaders -> Uploads \cup {NoUpload}]
    BY <1>3, <2>1, <2>2, AdvanceType DEF PutArtifact, UploadSteps
  <2>4. store' \in [Versions -> [Names -> Objects]]
    BY <1>3, <2>2, PutType DEF PutArtifact
  <2>5. QED
    BY <1>3, <2>3, <2>4 DEF PutArtifact
<1>4. ASSUME NEW u \in Uploaders, PutManifest(u) PROVE TypeOK'
  <2>1. upload[u] \in Uploads
    BY <1>4, UploadServed DEF PutManifest
  <2>2. /\ upload[u].version \in Versions /\ ManifestName \in Names
        /\ upload[u].written \in Seq(Names)
        /\ Append(upload[u].written, ManifestName) \in Seq(Names)
        /\ upload[u].manifest \in Objects
    BY <2>1 DEF Uploads, Names, Objects
  <2>3. upload' \in [Uploaders -> Uploads \cup {NoUpload}]
    BY <1>4, <2>1, <2>2, AdvanceType DEF PutManifest, Advance, UploadSteps
  <2>4. store' \in [Versions -> [Names -> Objects]]
    BY <1>4, <2>2, PutType DEF PutManifest
  <2>5. QED
    BY <1>4, <2>3, <2>4 DEF PutManifest
<1>5. ASSUME NEW u \in Uploaders, AssertStoredIntegrity(u) PROVE TypeOK'
  <2>1. upload[u] \in Uploads /\ upload[u].written \in Seq(Names)
    BY <1>5, UploadServed DEF AssertStoredIntegrity, Uploads
  <2>2. upload' \in [Uploaders -> Uploads \cup {NoUpload}]
    BY <1>5, <2>1, AdvanceType DEF AssertStoredIntegrity, Advance, UploadSteps
  <2>3. QED
    BY <1>5, <2>2 DEF AssertStoredIntegrity
<1>6. ASSUME NEW u \in Uploaders, CommitUpload(u) PROVE TypeOK'
  <2>1. upload[u] \in Uploads /\ upload[u].written \in Seq(Names)
    BY <1>6, UploadServed DEF CommitUpload, Uploads
  <2>2. upload' \in [Uploaders -> Uploads \cup {NoUpload}]
    <3>1. CASE EndUpload(u)
      BY <3>1 DEF EndUpload
    <3>2. CASE Advance(u, "rollback") \/ Advance(u, "discard")
      BY <2>1, <3>2, AdvanceType DEF Advance, UploadSteps
    <3>3. QED
      BY <1>6, <3>1, <3>2 DEF CommitUpload
  <2>3. UploadedRow(upload[u]) \in Rows /\ upload[u].version \in Versions
    BY <2>1 DEF UploadedRow, Uploads, Rows, Statuses
  <2>4. QED
    BY <1>6, <2>2, <2>3 DEF CommitUpload
<1>7. ASSUME NEW u \in Uploaders, RollbackUpload(u) PROVE TypeOK'
  <2>1. upload[u] \in Uploads /\ upload[u].written \in Seq(Names)
    BY <1>7, UploadServed DEF RollbackUpload, Uploads
  <2>2. upload' \in [Uploaders -> Uploads \cup {NoUpload}]
    BY <1>7, <2>1, AdvanceType DEF RollbackUpload, Advance, UploadSteps
  <2>3. QED
    BY <1>7, <2>2 DEF RollbackUpload
<1>8. ASSUME NEW u \in Uploaders, DiscardObject(u) PROVE TypeOK'
  <2>1. upload[u] \in Uploads
    BY <1>8, UploadServed DEF DiscardObject
  <2>2. upload[u].written \in Seq(Names) /\ upload[u].written # <<>>
    BY <1>8, <2>1 DEF DiscardObject, Uploads
  <2>3. Head(upload[u].written) \in Names /\ Tail(upload[u].written) \in Seq(Names)
    BY <2>2
  <2>4. upload' \in [Uploaders -> Uploads \cup {NoUpload}]
    BY <1>8, <2>1, <2>3, AdvanceType DEF DiscardObject, UploadSteps
  <2>5. store' \in [Versions -> [Names -> Objects]]
    BY <1>8, <2>1, <2>3, PutType DEF DiscardObject, Objects, Uploads
  <2>6. QED
    BY <1>8, <2>4, <2>5 DEF DiscardObject
<1>9. ASSUME NEW u \in Uploaders, FinishDiscard(u) PROVE TypeOK'
  BY <1>9 DEF FinishDiscard, EndUpload
<1>10. ASSUME NEW e \in Editors, BeginChange(e) PROVE TypeOK'
  BY <1>10 DEF BeginChange, Changes
<1>11. ASSUME NEW e \in Editors, AssertArtifactIntact(e) PROVE TypeOK'
  <2>1. change[e] \in Changes
    BY <1>11 DEF AssertArtifactIntact, NoChange
  <2>2. [change[e] EXCEPT !.step = "write"] \in Changes
    BY <2>1 DEF Changes
  <2>3. QED
    BY <1>11, <2>2 DEF AssertArtifactIntact
<1>12. ASSUME NEW e \in Editors, CommitChange(e) PROVE TypeOK'
  <2> DEFINE c == change[e]
  <2>1. c \in Changes /\ release[c.version] \in Rows
    BY <1>12 DEF CommitChange, NoChange, ChangeOfRow, Changes
  <2>2. CASE release' = [release EXCEPT ![c.version].notes = c.notes]
    <3>1. [release[c.version] EXCEPT !.notes = c.notes] \in Rows
      BY <2>1 DEF Changes, Rows
    <3>2. QED
      BY <1>12, <2>2, <3>1 DEF CommitChange
  <2>3. CASE /\ c.op # "update_metadata"
             /\ release' = [release EXCEPT ![c.version].status = Target[c.op]]
    <3>1. Target[c.op] \in Statuses
      BY <2>1, <2>3 DEF Changes, Operations, Target, Statuses
    <3>2. [release[c.version] EXCEPT !.status = Target[c.op]] \in Rows
      BY <2>1, <3>1 DEF Rows
    <3>3. QED
      BY <1>12, <2>3, <3>2 DEF CommitChange
  <2>4. CASE UNCHANGED release
    BY <1>12, <2>4 DEF CommitChange
  <2>5. QED
    BY <1>12, <2>2, <2>3, <2>4 DEF CommitChange
<1>13. CASE Restart
  BY <1>13 DEF Restart
<1>14. CASE UNCHANGED vars
  BY <1>14 DEF vars
<1>15. QED
  BY <1>1, <1>2, <1>3, <1>4, <1>5, <1>6, <1>7, <1>8, <1>9, <1>10, <1>11,
     <1>12, <1>13, <1>14 DEF Next, UploadStep, ChangeStep

\* A request that is served keeps what it was started with.
LEMMA AdvanceFacts ==
    ASSUME TypeOK, NEW u \in Uploaders, upload[u] \in Uploads,
           NEW s \in UploadSteps, NEW w, AdvanceWith(u, s, w)
    PROVE  /\ upload'[u].step = s /\ upload'[u] # NoUpload
           /\ upload'[u].version = upload[u].version
           /\ upload'[u].file = upload[u].file
           /\ upload'[u].binary = upload[u].binary
           /\ upload'[u].manifest = upload[u].manifest
           /\ \A o \in Uploaders \ {u} : upload'[o] = upload[o]
<1>1. upload'[u] = [upload[u] EXCEPT !.step = s, !.written = w]
  BY DEF TypeOK, AdvanceWith
<1>2. \A o \in Uploaders \ {u} : upload'[o] = upload[o]
  BY DEF TypeOK, AdvanceWith
<1>3. QED
  BY <1>1, <1>2 DEF Uploads, UploadSteps, NoUpload

\* Put changes one object and no other.
LEMMA PutFacts ==
    ASSUME TypeOK, NEW v \in Versions, NEW n \in Names, NEW o, Put(v, n, o)
    PROVE  /\ store'[v][n] = o
           /\ \A v2 \in Versions, n2 \in Names :
                 (v2 # v \/ n2 # n) => store'[v2][n2] = store[v2][n2]
BY DEF TypeOK, Put

\* A lifecycle request changes neither the content of a row nor whether there
\* is one.
LEMMA ChangeFacts ==
    ASSUME TypeOK, ChangeOfRow, NEW e \in Editors, CommitChange(e), NEW v \in Versions
    PROVE  /\ release'[v] = NoRow <=> release[v] = NoRow
           /\ release[v] # NoRow =>
                /\ release'[v].file = release[v].file
                /\ release'[v].binary = release[v].binary
                /\ release'[v].manifest = release[v].manifest
                /\ release'[v].verified = release[v].verified
<1> DEFINE c == change[e]
<1>1. c.version \in Versions /\ release[c.version] \in Rows
  BY DEF CommitChange, NoChange, ChangeOfRow, Changes, TypeOK
<1>2. CASE release' = [release EXCEPT ![c.version].notes = c.notes]
  <2>1. release'[v] = IF v = c.version THEN [release[v] EXCEPT !.notes = c.notes] ELSE release[v]
    BY <1>2 DEF TypeOK
  <2>2. QED
    BY <1>1, <2>1 DEF Rows, NoRow, Statuses
<1>3. CASE /\ c.op # "update_metadata"
           /\ release' = [release EXCEPT ![c.version].status = Target[c.op]]
  <2>1. release'[v] = IF v = c.version THEN [release[v] EXCEPT !.status = Target[c.op]]
                      ELSE release[v]
    BY <1>3 DEF TypeOK
  <2>2. Target[c.op] \in Statuses
    BY <1>3 DEF CommitChange, TypeOK, Changes, NoChange, Operations, Target, Statuses
  <2>3. QED
    BY <1>1, <2>1, <2>2 DEF Rows, NoRow, Statuses
<1>4. CASE UNCHANGED release
  BY <1>4
<1>5. QED
  BY <1>2, <1>3, <1>4 DEF CommitChange

-----------------------------------------------------------------------------
(***************************************************************************)
(* The inductive invariant.  IntactOrAbsent is not inductive by itself: a  *)
(* commit makes a row out of what the upload has put, so the claim must    *)
(* already hold of the upload, and it holds there because no other upload  *)
(* writes under the version meanwhile.                                     *)
(***************************************************************************)
FirmwareInv ==
    /\ TypeOK
    /\ ChangeOfRow
    /\ SingleWriter
    /\ UploadIntactOrAbsent
    /\ IntactOrAbsent

LEMMA ChangeOfRowStep ==
    ASSUME TypeOK, ChangeOfRow, [Next]_vars
    PROVE  ChangeOfRow'
<1> USE DEF ChangeOfRow
<1>1. ASSUME NEW u \in Uploaders, CreateRelease(u) \/ UploadStep(u) PROVE ChangeOfRow'
  <2>1. change' = change
    BY <1>1 DEF CreateRelease, UploadStep, InsertRelease, PutArtifact, PutManifest,
       AssertStoredIntegrity, CommitUpload, RollbackUpload, DiscardObject, FinishDiscard
  <2>2. ASSUME NEW v \in Versions, release[v] # NoRow PROVE release'[v] # NoRow
    <3>1. CASE UNCHANGED release
      BY <2>2, <3>1
    <3>2. CASE release' = [release EXCEPT ![upload[u].version] = UploadedRow(upload[u])]
      <4>1. UploadedRow(upload[u]) # NoRow
        BY DEF UploadedRow, NoRow
      <4>2. QED
        BY <2>2, <3>2, <4>1 DEF TypeOK
    <3>3. QED
      BY <1>1, <3>1, <3>2 DEF CreateRelease, UploadStep, InsertRelease, PutArtifact, PutManifest,
         AssertStoredIntegrity, CommitUpload, RollbackUpload, DiscardObject, FinishDiscard
  <2>3. QED
    BY <2>1, <2>2 DEF TypeOK, Changes
<1>2. ASSUME NEW e \in Editors, BeginChange(e) PROVE ChangeOfRow'
  <2>1. PICK v \in Versions, op \in Operations, n \in Notes :
           /\ release[v] # NoRow
           /\ change' = [change EXCEPT ![e] =
                 [step |-> IF op = "publish_release" THEN "reread" ELSE "write",
                  op |-> op, version |-> v, notes |-> n]]
    BY <1>2 DEF BeginChange
  <2>2. QED
    BY <1>2, <2>1 DEF BeginChange, TypeOK
<1>3. ASSUME NEW e \in Editors, AssertArtifactIntact(e) PROVE ChangeOfRow'
  <2>1. change[e] \in Changes
    BY <1>3 DEF AssertArtifactIntact, NoChange, TypeOK
  <2>2. change'[e] = NoChange \/ change'[e].version = change[e].version
    BY <1>3, <2>1 DEF AssertArtifactIntact, TypeOK, Changes
  <2>3. \A d \in Editors \ {e} : change'[d] = change[d]
    BY <1>3 DEF AssertArtifactIntact, TypeOK
  <2>4. change[e] # NoChange /\ UNCHANGED release
    BY <1>3 DEF AssertArtifactIntact, NoChange
  <2>5. QED
    BY <2>2, <2>3, <2>4
<1>4. ASSUME NEW e \in Editors, CommitChange(e) PROVE ChangeOfRow'
  <2>1. \A v \in Versions : release'[v] = NoRow <=> release[v] = NoRow
    BY <1>4, ChangeFacts
  <2>2. \A d \in Editors : change'[d] = IF d = e THEN NoChange ELSE change[d]
    BY <1>4 DEF CommitChange, TypeOK
  <2>3. \A d \in Editors : change[d] # NoChange => change[d].version \in Versions
    BY DEF TypeOK, Changes
  <2>4. QED
    BY <2>1, <2>2, <2>3
<1>5. CASE Restart
  BY <1>5 DEF Restart
<1>6. CASE UNCHANGED vars
  BY <1>6 DEF vars
<1>7. QED
  BY <1>1, <1>2, <1>3, <1>4, <1>5, <1>6 DEF Next, ChangeStep

LEMMA SingleWriterStep ==
    ASSUME TypeOK, ChangeOfRow, SingleWriter, [Next]_vars
    PROVE  SingleWriter'
\* A step of u that takes no row and commits none.
<1>1. ASSUME NEW u \in Uploaders, UNCHANGED release,
             \A o \in Uploaders \ {u} : upload'[o] = upload[o],
             \A v \in Versions : HoldsRow(u, v)' => HoldsRow(u, v)
      PROVE  SingleWriter'
  BY <1>1 DEF SingleWriter, HoldsRow, Inserted
<1>2. ASSUME NEW u \in Uploaders, CreateRelease(u) PROVE SingleWriter'
  <2>1. PICK v \in Versions, f \in Filenames, b \in Binaries, m \in Manifests, n \in Notes :
           upload' = [upload EXCEPT ![u] = NewUpload(v, f, b, m, n)]
    BY <1>2 DEF CreateRelease
  <2>2. upload'[u].step = "insert" /\ \A o \in Uploaders \ {u} : upload'[o] = upload[o]
    BY <2>1 DEF NewUpload, TypeOK
  <2>3. QED
    BY <1>1, <1>2, <2>2 DEF CreateRelease, HoldsRow, Inserted
<1>3. ASSUME NEW u \in Uploaders, EndUpload(u), UNCHANGED release PROVE SingleWriter'
  <2>1. upload'[u].step = "idle" /\ \A o \in Uploaders \ {u} : upload'[o] = upload[o]
    BY <1>3 DEF EndUpload, NoUpload, TypeOK
  <2>2. QED
    BY <1>1, <1>3, <2>1 DEF HoldsRow, Inserted
<1>4. ASSUME NEW u \in Uploaders, Inserted(u) \/ upload[u].step = "discard",
             NEW s \in UploadSteps, s # "insert", NEW w, AdvanceWith(u, s, w),
             Inserted(u) \/ s = "discard", UNCHANGED release
      PROVE  SingleWriter'
  <2>1. upload[u] \in Uploads
    BY <1>4, UploadServed DEF Inserted
  <2>2. QED
    BY <1>1, <1>4, <2>1, AdvanceFacts DEF HoldsRow, Inserted
<1>5. ASSUME NEW u \in Uploaders, InsertRelease(u) PROVE SingleWriter'
  <2>1. CASE Advance(u, "put_artifact")
    <3>1. upload[u] \in Uploads
      BY <1>5, UploadServed DEF InsertRelease
    <3>2. /\ upload'[u].version = upload[u].version
          /\ \A o \in Uploaders \ {u} : upload'[o] = upload[o]
      BY <2>1, <3>1, AdvanceFacts DEF Advance, UploadSteps
    <3>3. /\ release[upload[u].version] = NoRow
          /\ \A o \in Uploaders : ~HoldsRow(o, upload[u].version)
      <4>1. upload'[u].step = "put_artifact"
        BY <2>1, <3>1, AdvanceFacts DEF Advance, UploadSteps
      <4>2. ~EndUpload(u)
        BY <4>1 DEF EndUpload, NoUpload, TypeOK
      <4>3. QED
        BY <1>5, <4>2 DEF InsertRelease
    <3>4. QED
      BY <1>5, <3>2, <3>3 DEF InsertRelease, SingleWriter, HoldsRow, Inserted
  <2>2. CASE EndUpload(u)
    BY <1>3, <1>5, <2>2 DEF InsertRelease
  <2>3. QED
    BY <1>5, <2>1, <2>2 DEF InsertRelease
<1>6. ASSUME NEW u \in Uploaders,
             PutArtifact(u) \/ PutManifest(u) \/ AssertStoredIntegrity(u)
               \/ RollbackUpload(u) \/ DiscardObject(u)
      PROVE  SingleWriter'
  <2>1. Inserted(u) \/ upload[u].step = "discard"
    BY <1>6 DEF PutArtifact, PutManifest, AssertStoredIntegrity, RollbackUpload,
       DiscardObject, Inserted
  <2>2. PICK s \in UploadSteps \ {"insert"} :
           (Inserted(u) \/ s = "discard") /\ \E w : AdvanceWith(u, s, w)
    BY <1>6 DEF PutArtifact, PutManifest, AssertStoredIntegrity, RollbackUpload,
       DiscardObject, Inserted, Advance, UploadSteps
  <2>3. UNCHANGED release
    BY <1>6 DEF PutArtifact, PutManifest, AssertStoredIntegrity, RollbackUpload, DiscardObject
  <2>4. QED
    BY <1>4, <2>1, <2>2, <2>3
<1>7. ASSUME NEW u \in Uploaders, CommitUpload(u) PROVE SingleWriter'
  <2>1. CASE UNCHANGED release /\ Advance(u, "rollback")
    BY <1>4, <1>7, <2>1 DEF CommitUpload, Inserted, Advance, UploadSteps
  <2>2. CASE /\ release' = [release EXCEPT ![upload[u].version] = UploadedRow(upload[u])]
             /\ EndUpload(u) \/ Advance(u, "discard")
    <3>1. upload[u] \in Uploads /\ HoldsRow(u, upload[u].version)
      BY <1>7, UploadServed DEF CommitUpload, HoldsRow, Inserted
    <3>2. upload'[u].step \in {"idle", "discard"}
      BY <2>2, <3>1, AdvanceFacts DEF EndUpload, NoUpload, Advance, UploadSteps, TypeOK
    <3>3. \A o \in Uploaders \ {u} : upload'[o] = upload[o]
      BY <2>2, <3>1, AdvanceFacts DEF EndUpload, Advance, UploadSteps, TypeOK
    <3>4. \A o \in Uploaders, v \in Versions :
             HoldsRow(o, v)' => o # u /\ HoldsRow(o, v) /\ v # upload[u].version
      BY <3>1, <3>2, <3>3 DEF SingleWriter, HoldsRow, Inserted, Uploads
    <3>5. QED
      BY <2>2, <3>4 DEF SingleWriter, TypeOK
  <2>3. QED
    BY <1>7, <2>1, <2>2 DEF CommitUpload
<1>8. ASSUME NEW u \in Uploaders, FinishDiscard(u) PROVE SingleWriter'
  BY <1>3, <1>8 DEF FinishDiscard
<1>9. ASSUME UNCHANGED upload,
             \A v \in Versions : release'[v] = NoRow <=> release[v] = NoRow
      PROVE  SingleWriter'
  BY <1>9 DEF SingleWriter, HoldsRow, Inserted
<1>10. ASSUME NEW e \in Editors, BeginChange(e) \/ ChangeStep(e) PROVE SingleWriter'
  BY <1>9, <1>10, ChangeFacts DEF BeginChange, ChangeStep, AssertArtifactIntact, CommitChange
<1>11. CASE Restart
  BY <1>11 DEF Restart, SingleWriter, HoldsRow, Inserted, NoUpload
<1>12. CASE UNCHANGED vars
  BY <1>9, <1>12 DEF vars
<1>13. QED
  BY <1>2, <1>5, <1>6, <1>7, <1>8, <1>10, <1>11, <1>12 DEF Next, UploadStep

\* UploadIntactOrAbsent of one request and one state of the store.
Kept(r, st) ==
    /\ r.step = "put_manifest" => st[r.version][r.file] \in {ArtifactObject(r.binary), Absent}
    /\ r.step \in {"verify", "commit"} =>
          /\ st[r.version][ManifestName] \in {r.manifest, Absent}
          /\ r.file # ManifestName =>
                st[r.version][r.file] \in {ArtifactObject(r.binary), Absent}
    /\ r.step = "commit" => r.file # ManifestName

LEMMA KeptIsIntact ==
    /\ UploadIntactOrAbsent <=>
          \A u \in Uploaders : upload[u] # NoUpload => Kept(upload[u], store)
    /\ UploadIntactOrAbsent' <=>
          \A u \in Uploaders : upload'[u] # NoUpload => Kept(upload'[u], store')
BY DEF UploadIntactOrAbsent, Kept

\* The store after a step holds, under version v, what it held or less.
OnlyLess(v) == \A n \in Names : store'[v][n] \in {store[v][n], Absent}

LEMMA KeptByLess ==
    ASSUME NEW r \in Uploads, Kept(r, store), OnlyLess(r.version)
    PROVE  Kept(r, store')
BY DEF Kept, OnlyLess, Uploads, Names

\* A put by the holder of version v leaves the other requests as they were.
LEMMA KeptByPut ==
    ASSUME TypeOK, SingleWriter, UploadIntactOrAbsent, NEW u \in Uploaders,
           upload[u] \in Uploads, HoldsRow(u, upload[u].version), NEW n \in Names, NEW o,
           Put(upload[u].version, n, o) \/ UNCHANGED store,
           NEW other \in Uploaders \ {u}, upload[other] # NoUpload
    PROVE  Kept(upload[other], store')
<1>1. upload[other] \in Uploads /\ Kept(upload[other], store)
  BY KeptIsIntact DEF TypeOK
<1>2. CASE upload[other].step \notin {"put_manifest", "verify", "commit"}
  BY <1>2 DEF Kept
<1>3. CASE upload[other].step \in {"put_manifest", "verify", "commit"}
  <2>1. upload[other].version # upload[u].version
    BY <1>1, <1>3 DEF SingleWriter, HoldsRow, Inserted, Uploads
  <2>2. OnlyLess(upload[other].version)
    BY <1>1, <2>1, PutFacts DEF OnlyLess, Uploads
  <2>3. QED
    BY <1>1, <2>2, KeptByLess
<1>4. QED
  BY <1>2, <1>3

LEMMA UploadIntactOrAbsentStep ==
    ASSUME TypeOK, SingleWriter, UploadIntactOrAbsent, [Next]_vars
    PROVE  UploadIntactOrAbsent'
<1>1. \A u \in Uploaders : upload[u] # NoUpload =>
         upload[u] \in Uploads /\ Kept(upload[u], store)
  BY KeptIsIntact DEF TypeOK
\* A step of u that puts nothing and leaves u with nothing to keep.
<1>2. ASSUME NEW u \in Uploaders,
             \A o \in Uploaders \ {u} : upload'[o] = upload[o],
             \A v \in Versions : OnlyLess(v),
             upload'[u] # NoUpload => Kept(upload'[u], store')
      PROVE  UploadIntactOrAbsent'
  <2>1. \A o \in Uploaders \ {u} : upload'[o] # NoUpload => Kept(upload'[o], store')
    BY <1>1, <1>2, KeptByLess DEF Uploads
  <2>2. QED
    BY <1>2, <2>1, KeptIsIntact
<1>3. ASSUME UNCHANGED store PROVE \A v \in Versions : OnlyLess(v)
  BY <1>3 DEF OnlyLess
<1>4. ASSUME NEW u \in Uploaders, EndUpload(u), UNCHANGED store PROVE UploadIntactOrAbsent'
  BY <1>2, <1>3, <1>4 DEF EndUpload, TypeOK
<1>5. ASSUME NEW u \in Uploaders, upload[u] \in Uploads,
             NEW s \in {"put_artifact", "rollback", "discard"}, NEW w, AdvanceWith(u, s, w),
             \A v \in Versions : OnlyLess(v)
      PROVE  UploadIntactOrAbsent'
  <2>1. Kept(upload'[u], store')
    BY <1>5, AdvanceFacts DEF Kept, UploadSteps
  <2>2. QED
    BY <1>2, <1>5, <2>1, AdvanceFacts DEF UploadSteps
<1>6. ASSUME NEW u \in Uploaders, CreateRelease(u) PROVE UploadIntactOrAbsent'
  <2>1. PICK v \in Versions, f \in Filenames, b \in Binaries, m \in Manifests, n \in Notes :
           upload' = [upload EXCEPT ![u] = NewUpload(v, f, b, m, n)]
    BY <1>6 DEF CreateRelease
  <2>2. upload'[u].step = "insert" /\ \A o \in Uploaders \ {u} : upload'[o] = upload[o]
    BY <2>1 DEF NewUpload, TypeOK
  <2>3. Kept(upload'[u], store')
    BY <2>2 DEF Kept
  <2>4. QED
    BY <1>2, <1>3, <1>6, <2>2, <2>3 DEF CreateRelease
<1>7. ASSUME NEW u \in Uploaders, InsertRelease(u) PROVE UploadIntactOrAbsent'
  <2>1. upload[u] \in Uploads
    BY <1>7, UploadServed DEF InsertRelease
  <2>2. QED
    BY <1>3, <1>4, <1>5, <1>7, <2>1 DEF InsertRelease, Advance
<1>8. ASSUME NEW u \in Uploaders, PutArtifact(u) PROVE UploadIntactOrAbsent'
  <2> DEFINE r == upload[u]
             object == ArtifactObject(r.binary)
  <2>1. r \in Uploads /\ HoldsRow(u, r.version) /\ r.file \in Names
    BY <1>8, UploadServed DEF PutArtifact, HoldsRow, Inserted, Uploads, Names
  <2>2. Put(r.version, r.file, object) \/ UNCHANGED store
    BY <1>8 DEF PutArtifact
  <2>3. \A o \in Uploaders \ {u} : upload[o] # NoUpload => Kept(upload[o], store')
    BY <2>1, <2>2, KeptByPut
  <2>4. CASE Put(r.version, r.file, object) /\ AdvanceWith(u, "put_manifest", <<r.file>>)
    <3>1. store'[r.version][r.file] = object
      BY <2>1, <2>4, PutFacts DEF Uploads
    <3>2. Kept(upload'[u], store')
      BY <2>1, <2>4, <3>1, AdvanceFacts DEF Kept, UploadSteps
    <3>3. QED
      BY <2>1, <2>3, <2>4, <3>2, AdvanceFacts, KeptIsIntact DEF UploadSteps
  <2>5. CASE AdvanceWith(u, "rollback", <<r.file>>)
    <3>1. Kept(upload'[u], store')
      BY <2>1, <2>5, AdvanceFacts DEF Kept, UploadSteps
    <3>2. QED
      BY <2>1, <2>3, <2>5, <3>1, AdvanceFacts, KeptIsIntact DEF UploadSteps
  <2>6. QED
    BY <1>8, <2>4, <2>5 DEF PutArtifact
<1>9. ASSUME NEW u \in Uploaders, PutManifest(u) PROVE UploadIntactOrAbsent'
  <2> DEFINE r == upload[u]
  <2>1. /\ r \in Uploads /\ HoldsRow(u, r.version)
        /\ r.version \in Versions /\ r.file \in Names /\ ManifestName \in Names
    BY <1>9, UploadServed DEF PutManifest, HoldsRow, Inserted, Uploads, Names
  <2>2. Put(r.version, ManifestName, r.manifest) \/ UNCHANGED store
    BY <1>9 DEF PutManifest
  <2>3. \A o \in Uploaders \ {u} : upload[o] # NoUpload => Kept(upload[o], store')
    BY <2>1, <2>2, KeptByPut
  <2>4. CASE /\ Put(r.version, ManifestName, r.manifest)
             /\ AdvanceWith(u, "verify", Append(r.written, ManifestName))
    <3>1. /\ store'[r.version][ManifestName] = r.manifest
          /\ r.file # ManifestName => store'[r.version][r.file] = store[r.version][r.file]
      BY <2>1, <2>4, PutFacts
    <3>2. r.step = "put_manifest" /\ r # NoUpload
      BY <1>9 DEF PutManifest, NoUpload
    <3>3. r.file # ManifestName =>
             store[r.version][r.file] \in {ArtifactObject(r.binary), Absent}
      BY <1>1, <3>2 DEF Kept
    <3>4. Kept(upload'[u], store')
      BY <2>1, <2>4, <3>1, <3>3, AdvanceFacts DEF Kept, UploadSteps
    <3>5. QED
      BY <2>1, <2>3, <2>4, <3>4, AdvanceFacts, KeptIsIntact DEF UploadSteps
  <2>5. CASE Advance(u, "rollback")
    <3>1. Kept(upload'[u], store')
      BY <2>1, <2>5, AdvanceFacts DEF Advance, Kept, UploadSteps
    <3>2. QED
      BY <2>1, <2>3, <2>5, <3>1, AdvanceFacts, KeptIsIntact DEF Advance, UploadSteps
  <2>6. QED
    BY <1>9, <2>4, <2>5 DEF PutManifest
\* The step that rules out an artifact named like the manifest: under one key
\* the manifest was written last, and it is not the artifact.
<1>10. ASSUME NEW u \in Uploaders, AssertStoredIntegrity(u) PROVE UploadIntactOrAbsent'
  <2> DEFINE r == upload[u]
  <2>1. r \in Uploads /\ r # NoUpload /\ r.step = "verify"
    BY <1>10, UploadServed DEF AssertStoredIntegrity, NoUpload
  <2>2. CASE store[r.version][r.file] = ArtifactObject(r.binary) /\ Advance(u, "commit")
    <3>1. store[r.version][ManifestName] \in {r.manifest, Absent}
      BY <1>1, <2>1 DEF Kept
    <3>2. r.manifest # ArtifactObject(r.binary) /\ Absent # ArtifactObject(r.binary)
      BY <2>1 DEF Uploads, Manifests, ArtifactObject, Absent
    <3>3. r.file # ManifestName
      BY <2>2, <3>1, <3>2
    <3>4. Kept(upload'[u], store')
      BY <1>1, <1>10, <2>1, <2>2, <3>3, AdvanceFacts
      DEF AssertStoredIntegrity, Advance, Kept, UploadSteps
    <3>5. QED
      BY <1>2, <1>3, <1>10, <2>1, <2>2, <3>4, AdvanceFacts
      DEF AssertStoredIntegrity, Advance, UploadSteps
  <2>3. CASE Advance(u, "rollback")
    BY <1>3, <1>5, <1>10, <2>1, <2>3 DEF AssertStoredIntegrity, Advance
  <2>4. QED
    BY <1>10, <2>2, <2>3 DEF AssertStoredIntegrity
<1>11. ASSUME NEW u \in Uploaders, CommitUpload(u) \/ RollbackUpload(u) \/ FinishDiscard(u)
       PROVE  UploadIntactOrAbsent'
  <2>1. upload[u] \in Uploads /\ UNCHANGED store
    BY <1>11, UploadServed DEF CommitUpload, RollbackUpload, FinishDiscard
  <2>2. EndUpload(u) \/ Advance(u, "rollback") \/ Advance(u, "discard")
    BY <1>11 DEF CommitUpload, RollbackUpload, FinishDiscard
  <2>3. QED
    BY <1>3, <1>4, <1>5, <2>1, <2>2 DEF Advance
<1>12. ASSUME NEW u \in Uploaders, DiscardObject(u) PROVE UploadIntactOrAbsent'
  <2>1. upload[u] \in Uploads
    BY <1>12, UploadServed DEF DiscardObject
  <2>2. upload[u].version \in Versions /\ Head(upload[u].written) \in Names
    BY <1>12, <2>1 DEF DiscardObject, Uploads
  <2>3. ASSUME NEW v \in Versions PROVE OnlyLess(v)
    BY <1>12, <2>2, PutFacts DEF DiscardObject, OnlyLess
  <2>4. QED
    BY <1>5, <1>12, <2>1, <2>3 DEF DiscardObject
<1>13. ASSUME UNCHANGED <<upload, store>> PROVE UploadIntactOrAbsent'
  BY <1>13, KeptIsIntact
<1>14. CASE Restart
  BY <1>14, KeptIsIntact DEF Restart
<1>15. QED
  BY <1>6, <1>7, <1>8, <1>9, <1>10, <1>11, <1>12, <1>13, <1>14
  DEF Next, UploadStep, ChangeStep, BeginChange, AssertArtifactIntact, CommitChange, vars

\* What one step does to the content of the rows and to the objects: nothing;
\* or it only removes objects; or a holder puts one; or a holder commits.
LEMMA StepKinds ==
    ASSUME TypeOK, ChangeOfRow, [Next]_vars
    PROVE  \/ /\ \A v \in Versions :
                    /\ release'[v] = NoRow <=> release[v] = NoRow
                    /\ release[v] # NoRow =>
                         /\ release'[v].file = release[v].file
                         /\ release'[v].binary = release[v].binary
                         /\ release'[v].manifest = release[v].manifest
              /\ UNCHANGED store
           \/ /\ UNCHANGED release
              /\ \A v \in Versions : OnlyLess(v)
           \/ \E u \in Uploaders, n \in Names, o \in Objects :
                 /\ upload[u] \in Uploads /\ HoldsRow(u, upload[u].version)
                 /\ UNCHANGED release
                 /\ Put(upload[u].version, n, o)
           \/ \E u \in Uploaders :
                 /\ upload[u] \in Uploads /\ upload[u].step = "commit"
                 /\ release' = [release EXCEPT ![upload[u].version] = UploadedRow(upload[u])]
                 /\ UNCHANGED store
<1>2. ASSUME NEW u \in Uploaders, PutArtifact(u), ~UNCHANGED store
      PROVE  \E n \in Names, o \in Objects :
                 /\ upload[u] \in Uploads /\ HoldsRow(u, upload[u].version)
                 /\ UNCHANGED release
                 /\ Put(upload[u].version, n, o)
  <2>1. upload[u] \in Uploads
    BY <1>2, UploadServed DEF PutArtifact
  <2>2. /\ upload[u].file \in Names /\ ArtifactObject(upload[u].binary) \in Objects
        /\ HoldsRow(u, upload[u].version)
    BY <1>2, <2>1 DEF PutArtifact, Uploads, Names, Objects, HoldsRow, Inserted
  <2>3. QED
    BY <1>2, <2>1, <2>2 DEF PutArtifact
<1>3. ASSUME NEW u \in Uploaders, PutManifest(u), ~UNCHANGED store
      PROVE  \E n \in Names, o \in Objects :
                 /\ upload[u] \in Uploads /\ HoldsRow(u, upload[u].version)
                 /\ UNCHANGED release
                 /\ Put(upload[u].version, n, o)
  <2>1. upload[u] \in Uploads
    BY <1>3, UploadServed DEF PutManifest
  <2>2. /\ ManifestName \in Names /\ upload[u].manifest \in Objects
        /\ HoldsRow(u, upload[u].version)
    BY <1>3, <2>1 DEF PutManifest, Uploads, Names, Objects, HoldsRow, Inserted
  <2>3. QED
    BY <1>3, <2>1, <2>2 DEF PutManifest
<1>4. ASSUME NEW u \in Uploaders, DiscardObject(u)
      PROVE  UNCHANGED release /\ \A v \in Versions : OnlyLess(v)
  <2>1. upload[u] \in Uploads
    BY <1>4, UploadServed DEF DiscardObject
  <2>2. upload[u].version \in Versions /\ Head(upload[u].written) \in Names
    BY <1>4, <2>1 DEF DiscardObject, Uploads
  <2>3. QED
    BY <1>4, <2>2, PutFacts DEF DiscardObject, OnlyLess
<1>5. ASSUME NEW u \in Uploaders, CommitUpload(u), ~UNCHANGED release
      PROVE  /\ upload[u] \in Uploads /\ upload[u].step = "commit"
             /\ release' = [release EXCEPT ![upload[u].version] = UploadedRow(upload[u])]
             /\ UNCHANGED store
  BY <1>5, UploadServed DEF CommitUpload
<1>6. ASSUME NEW e \in Editors, CommitChange(e)
      PROVE  /\ \A v \in Versions :
                    /\ release'[v] = NoRow <=> release[v] = NoRow
                    /\ release[v] # NoRow =>
                         /\ release'[v].file = release[v].file
                         /\ release'[v].binary = release[v].binary
                         /\ release'[v].manifest = release[v].manifest
             /\ UNCHANGED store
  BY <1>6, ChangeFacts DEF CommitChange
<1>7. CASE UNCHANGED <<release, store>>
  BY <1>7
<1>8. CASE \E u \in Uploaders :
             \/ (PutArtifact(u) \/ PutManifest(u)) /\ ~UNCHANGED store
             \/ DiscardObject(u)
             \/ CommitUpload(u) /\ ~UNCHANGED release
  BY <1>2, <1>3, <1>4, <1>5, <1>8
<1>9. CASE \E e \in Editors : CommitChange(e)
  BY <1>6, <1>9
<1>10. \/ UNCHANGED <<release, store>>
       \/ \E u \in Uploaders :
             \/ (PutArtifact(u) \/ PutManifest(u)) /\ ~UNCHANGED store
             \/ DiscardObject(u)
             \/ CommitUpload(u) /\ ~UNCHANGED release
       \/ \E e \in Editors : CommitChange(e)
  BY DEF Next, UploadStep, ChangeStep, CreateRelease, InsertRelease, PutArtifact, PutManifest,
     AssertStoredIntegrity, CommitUpload, RollbackUpload, FinishDiscard, BeginChange,
     AssertArtifactIntact, Restart, vars
<1>11. QED
  BY <1>7, <1>8, <1>9, <1>10

LEMMA IntactOrAbsentStep ==
    ASSUME FirmwareInv, [Next]_vars
    PROVE  IntactOrAbsent'
<1> SUFFICES ASSUME NEW v \in Versions, release'[v] # NoRow
             PROVE  /\ store'[v][release'[v].file] \in {ArtifactObject(release'[v].binary), Absent}
                    /\ store'[v][ManifestName] \in {release'[v].manifest, Absent}
  BY DEF IntactOrAbsent
<1> USE DEF FirmwareInv
<1>1. release[v] # NoRow => release[v].file \in Names /\ ManifestName \in Names
  BY DEF TypeOK, Rows, Names
<1>2. CASE /\ release[v] # NoRow
           /\ release'[v].file = release[v].file
           /\ release'[v].binary = release[v].binary
           /\ release'[v].manifest = release[v].manifest
           /\ OnlyLess(v)
  BY <1>1, <1>2 DEF IntactOrAbsent, OnlyLess
<1>3. ASSUME NEW u \in Uploaders, NEW n \in Names, NEW o \in Objects,
             upload[u] \in Uploads, HoldsRow(u, upload[u].version), UNCHANGED release,
             Put(upload[u].version, n, o)
      PROVE  OnlyLess(v) /\ release[v] # NoRow
  <2>1. release[v] # NoRow /\ v # upload[u].version
    BY <1>3 DEF SingleWriter, Uploads
  <2>2. QED
    BY <1>3, <2>1, PutFacts DEF OnlyLess, Uploads
<1>4. ASSUME NEW u \in Uploaders, upload[u] \in Uploads, upload[u].step = "commit",
             release' = [release EXCEPT ![upload[u].version] = UploadedRow(upload[u])],
             UNCHANGED store, v = upload[u].version
      PROVE  /\ store'[v][release'[v].file] \in {ArtifactObject(release'[v].binary), Absent}
             /\ store'[v][ManifestName] \in {release'[v].manifest, Absent}
  <2>1. Kept(upload[u], store)
    BY <1>4, KeptIsIntact DEF NoUpload
  <2>2. release'[v] = UploadedRow(upload[u])
    BY <1>4 DEF TypeOK
  <2>3. QED
    BY <1>4, <2>1, <2>2 DEF Kept, UploadedRow
<1>5. ASSUME UNCHANGED store PROVE OnlyLess(v)
  BY <1>5 DEF OnlyLess
<1>6. ASSUME NEW u \in Uploaders,
             release' = [release EXCEPT ![upload[u].version] = UploadedRow(upload[u])],
             UNCHANGED store, v # upload[u].version
      PROVE  OnlyLess(v) /\ release'[v] = release[v]
  BY <1>5, <1>6 DEF TypeOK
<1>7. QED
  BY <1>2, <1>3, <1>4, <1>5, <1>6, StepKinds

LEMMA FirmwareInvariant == Spec => []FirmwareInv
<1>1. Init => FirmwareInv
  <2> SUFFICES ASSUME Init PROVE FirmwareInv
    OBVIOUS
  <2>1. TypeOK
    BY DEF Init, TypeOK, Names, Objects
  <2>2. ChangeOfRow /\ SingleWriter /\ UploadIntactOrAbsent /\ IntactOrAbsent
    BY DEF Init, ChangeOfRow, SingleWriter, HoldsRow, Inserted, NoUpload,
       UploadIntactOrAbsent, IntactOrAbsent
  <2>3. QED
    BY <2>1, <2>2 DEF FirmwareInv
<1>2. FirmwareInv /\ [Next]_vars => FirmwareInv'
  BY TypeStep, ChangeOfRowStep, SingleWriterStep, UploadIntactOrAbsentStep, IntactOrAbsentStep
  DEF FirmwareInv
<1>3. QED
  BY <1>1, <1>2, PTL DEF Spec

\* Every variable keeps its type.
THEOREM TypeCorrect == Spec => []TypeOK
BY FirmwareInvariant, PTL DEF FirmwareInv

\* One writer per version at a time, and none once its row is committed.
THEOREM OneWriter == Spec => []SingleWriter
BY FirmwareInvariant, PTL DEF FirmwareInv

\* No interleaving, failure or crash puts another upload's bytes, or a
\* manifest that was not signed for them, under a committed release.
THEOREM NeverAnotherUploadsObjects == Spec => []IntactOrAbsent
BY FirmwareInvariant, PTL DEF FirmwareInv

-----------------------------------------------------------------------------
(***************************************************************************)
(* FirmwareReleases implements ReleaseShelf.                               *)
(***************************************************************************)

\* A step that does not commit an upload changes the rows and objects of one
\* version at most, and makes or removes no row.
LEMMA OneVersion ==
    ASSUME TypeOK, ChangeOfRow, [Next]_vars
    PROVE  \/ UNCHANGED <<release, store>>
           \/ \E v \in Versions : \A w \in Versions \ {v} :
                 release'[w] = release[w] /\ store'[w] = store[w]
<1>1. ASSUME NEW u \in Uploaders,
             PutArtifact(u) \/ PutManifest(u) \/ DiscardObject(u) \/ CommitUpload(u)
      PROVE  \E v \in Versions : \A w \in Versions \ {v} :
                 release'[w] = release[w] /\ store'[w] = store[w]
  <2>1. upload[u].version \in Versions
    BY <1>1, UploadServed DEF PutArtifact, PutManifest, DiscardObject, CommitUpload, Uploads
  <2>2. \A w \in Versions \ {upload[u].version} :
           release'[w] = release[w] /\ store'[w] = store[w]
    BY <1>1 DEF PutArtifact, PutManifest, DiscardObject, CommitUpload, Put, TypeOK
  <2>3. QED
    BY <2>1, <2>2
<1>2. ASSUME NEW e \in Editors, CommitChange(e)
      PROVE  \E v \in Versions : \A w \in Versions \ {v} :
                 release'[w] = release[w] /\ store'[w] = store[w]
  <2>1. change[e].version \in Versions
    BY <1>2 DEF CommitChange, NoChange, TypeOK, Changes
  <2>2. \A w \in Versions \ {change[e].version} :
           release'[w] = release[w] /\ store'[w] = store[w]
    BY <1>2 DEF CommitChange, TypeOK
  <2>3. QED
    BY <2>1, <2>2
<1>3. \/ UNCHANGED <<release, store>>
      \/ \E u \in Uploaders :
            PutArtifact(u) \/ PutManifest(u) \/ DiscardObject(u) \/ CommitUpload(u)
      \/ \E e \in Editors : CommitChange(e)
  BY DEF Next, UploadStep, ChangeStep, CreateRelease, InsertRelease, AssertStoredIntegrity,
     RollbackUpload, FinishDiscard, BeginChange, AssertArtifactIntact, Restart, vars
<1>4. QED
  BY <1>1, <1>2, <1>3

\* Of a version with a row, the shelf shows the pinned parts or nothing.
ShownAsPinned ==
    \A v \in Versions : release[v] # NoRow =>
        \E a \in {Pinned[v].artifact, Nothing}, m \in {Pinned[v].manifest, Nothing} :
           Served[v] = [artifact |-> a, manifest |-> m]

LEMMA ServedAsPinned == IntactOrAbsent => ShownAsPinned
<1> SUFFICES ASSUME IntactOrAbsent, NEW v \in Versions, release[v] # NoRow
             PROVE  \E a \in {Pinned[v].artifact, Nothing}, m \in {Pinned[v].manifest, Nothing} :
                       Served[v] = [artifact |-> a, manifest |-> m]
  BY DEF ShownAsPinned
<1>1. Pinned[v].artifact = ArtifactObject(release[v].binary)
      /\ Pinned[v].manifest = release[v].manifest
  BY DEF Pinned
<1>2. CASE release[v].status \in Deliverable
  <2>1. Served[v] = [artifact |-> store[v][release[v].file], manifest |-> store[v][ManifestName]]
    BY <1>2 DEF Served
  <2>2. QED
    BY <1>1, <2>1 DEF IntactOrAbsent, Nothing
<1>3. CASE release[v].status \notin Deliverable
  BY <1>3 DEF Served
<1>4. QED
  BY <1>2, <1>3

LEMMA ShelfStep ==
    ASSUME FirmwareInv, FirmwareInv', [Next]_vars
    PROVE  [Shelf!Next]_<<Pinned, Served>>
<1> USE DEF FirmwareInv
<1>1. CASE UNCHANGED <<release, store>>
  BY <1>1 DEF Pinned, Served
<1>2. ASSUME NEW v \in Versions,
             \A w \in Versions \ {v} : release'[w] = release[w] /\ store'[w] = store[w]
      PROVE  [Shelf!Next]_<<Pinned, Served>>
  <2>1. /\ Pinned' = [Pinned EXCEPT ![v] = Pinned'[v]]
        /\ Served' = [Served EXCEPT ![v] = Served'[v]]
    BY <1>2 DEF Pinned, Served
  <2>2. CASE release[v] = NoRow
    <3>1. CASE release'[v] = NoRow
      <4>1. Pinned'[v] = Pinned[v] /\ Served'[v] = Served[v]
        BY <2>2, <3>1 DEF Pinned, Served, NoRow, Deliverable
      <4>2. Pinned = [Pinned EXCEPT ![v] = Pinned[v]] /\ Served = [Served EXCEPT ![v] = Served[v]]
        BY DEF Pinned, Served
      <4>3. QED
        BY <2>1, <4>1, <4>2
    <3>2. CASE release'[v] # NoRow
      <4>1. PICK u \in Uploaders :
               /\ upload[u] \in Uploads
               /\ release' = [release EXCEPT ![upload[u].version] = UploadedRow(upload[u])]
        BY <2>2, <3>2, StepKinds
      <4>2. release'[v] = UploadedRow(upload[u])
        BY <2>2, <3>2, <4>1 DEF TypeOK
      <4>3. Pinned'[v] \in Shelf!Items /\ Pinned[v] = Nothing
        BY <2>2, <3>2, <4>1, <4>2 DEF Pinned, Shelf!Items, UploadedRow, Uploads, Objects
      <4>4. Served'[v] = Served[v]
        BY <2>2, <4>2 DEF Served, UploadedRow, Deliverable, NoRow
      <4>5. Served = [Served EXCEPT ![v] = Served[v]]
        BY DEF Served
      <4>6. Shelf!Pin(v)
        BY <2>1, <4>3, <4>4, <4>5 DEF Shelf!Pin
      <4>7. QED
        BY <4>6 DEF Shelf!Next
    <3>3. QED
      BY <3>1, <3>2
  <2>3. CASE release[v] # NoRow
    <3>1. release'[v] # NoRow /\ Pinned'[v] = Pinned[v]
      <4>1. /\ release'[v] # NoRow
            /\ release'[v].file = release[v].file
            /\ release'[v].binary = release[v].binary
            /\ release'[v].manifest = release[v].manifest
        <5>1. ASSUME NEW u \in Uploaders, upload[u] \in Uploads, upload[u].step = "commit",
                     release' = [release EXCEPT ![upload[u].version] = UploadedRow(upload[u])]
              PROVE  release'[v] = release[v]
          <6>1. HoldsRow(u, upload[u].version) /\ upload[u].version \in Versions
            BY <5>1 DEF HoldsRow, Inserted, Uploads
          <6>2. upload[u].version # v
            BY <2>3, <6>1 DEF SingleWriter
          <6>3. QED
            BY <5>1, <6>2 DEF TypeOK
        <5>2. QED
          BY <2>3, <5>1, StepKinds
      <4>2. QED
        BY <2>3, <4>1 DEF Pinned
    <3>2. Pinned = [Pinned EXCEPT ![v] = Pinned[v]]
      BY DEF Pinned
    <3>3. Pinned' = Pinned
      BY <2>1, <3>1, <3>2
    <3>4. \E a \in {Pinned'[v].artifact, Nothing'}, m \in {Pinned'[v].manifest, Nothing'} :
             Served'[v] = [artifact |-> a, manifest |-> m]
      <4>1. ShownAsPinned'
        BY ServedAsPinned, PTL
      <4>2. QED
        BY <3>1, <4>1 DEF ShownAsPinned
    <3>5. Pinned[v] # Nothing
      BY <2>3 DEF Pinned, Nothing, Absent
    <3>6. Shelf!Arrange(v)
      BY <2>1, <3>3, <3>4, <3>5 DEF Shelf!Arrange, Nothing, Absent
    <3>7. QED
      BY <3>6 DEF Shelf!Next
  <2>4. QED
    BY <2>2, <2>3
<1>3. QED
  BY <1>1, <1>2, OneVersion

\* The detailed upload, publication and clean-up implement the shelf: whatever
\* is handed out for a version is what the version was recorded with.
THEOREM ShelfImplemented == Spec => ImplementsShelf
<1>1. Init => Shelf!Init
  BY DEF Init, Shelf!Init, Shelf!NoItem, Pinned, Served, NoRow, Deliverable
<1>2. FirmwareInv /\ FirmwareInv' /\ [Next]_vars => [Shelf!Next]_<<Pinned, Served>>
  BY ShelfStep
<1>3. QED
  BY <1>1, <1>2, FirmwareInvariant, PTL DEF Spec, ImplementsShelf, Shelf!Spec

-----------------------------------------------------------------------------
(***************************************************************************)
(* Publication behind a verifier.                                          *)
(***************************************************************************)

\* A publication in progress has passed the verifier guard, and nothing it
\* depends on changes before its commit.
PublishChecked ==
    \A e \in Editors : change[e] # NoChange =>
        \/ change[e].op # "publish_release"
        \/ verifier => release[change[e].version].verified

LEMMA PublishCheckedStep ==
    ASSUME FirmwareInv, PublishChecked, [Next]_vars
    PROVE  PublishChecked'
<1> USE DEF FirmwareInv
<1>1. ASSUME NEW u \in Uploaders, CreateRelease(u) \/ UploadStep(u) PROVE PublishChecked'
  <2>1. UNCHANGED <<change, verifier>>
    BY <1>1 DEF CreateRelease, UploadStep, InsertRelease, PutArtifact, PutManifest,
       AssertStoredIntegrity, CommitUpload, RollbackUpload, DiscardObject, FinishDiscard
  <2>2. ASSUME NEW v \in Versions, release[v] # NoRow PROVE release'[v] = release[v]
    <3>1. CASE UNCHANGED release
      BY <3>1
    <3>2. CASE CommitUpload(u)
      <4>1. HoldsRow(u, upload[u].version) /\ upload[u].version \in Versions
        BY <3>2, UploadServed DEF CommitUpload, HoldsRow, Inserted, Uploads
      <4>2. upload[u].version # v
        BY <2>2, <4>1 DEF SingleWriter
      <4>3. QED
        BY <3>2, <4>2 DEF CommitUpload, TypeOK
    <3>3. QED
      BY <1>1, <3>1, <3>2 DEF CreateRelease, UploadStep, InsertRelease, PutArtifact,
         PutManifest, AssertStoredIntegrity, RollbackUpload, DiscardObject, FinishDiscard
  <2>3. QED
    BY <2>1, <2>2 DEF PublishChecked, ChangeOfRow, TypeOK, Changes
<1>2. ASSUME NEW e \in Editors, BeginChange(e) PROVE PublishChecked'
  <2>1. PICK v \in Versions, op \in Operations, n \in Notes :
           /\ Allowed(op, release[v])
           /\ change' = [change EXCEPT ![e] =
                 [step |-> IF op = "publish_release" THEN "reread" ELSE "write",
                  op |-> op, version |-> v, notes |-> n]]
    BY <1>2 DEF BeginChange
  <2>2. /\ change'[e].op = op /\ change'[e].version = v
        /\ \A d \in Editors \ {e} : change'[d] = change[d]
    BY <2>1 DEF TypeOK
  <2>3. UNCHANGED <<release, verifier>>
    BY <1>2 DEF BeginChange
  <2>4. op = "publish_release" => (verifier => release[v].verified)
    BY <2>1 DEF Allowed
  <2>5. QED
    BY <2>2, <2>3, <2>4 DEF PublishChecked
<1>3. ASSUME NEW e \in Editors, AssertArtifactIntact(e) PROVE PublishChecked'
  <2>1. change[e] \in Changes /\ change[e] # NoChange
    BY <1>3 DEF AssertArtifactIntact, NoChange, TypeOK
  <2>2. \/ change'[e] = NoChange
        \/ change'[e].version = change[e].version /\ change'[e].op = change[e].op
    BY <1>3, <2>1 DEF AssertArtifactIntact, TypeOK, Changes
  <2>3. \A d \in Editors \ {e} : change'[d] = change[d]
    BY <1>3 DEF AssertArtifactIntact, TypeOK
  <2>4. UNCHANGED <<release, verifier>>
    BY <1>3 DEF AssertArtifactIntact
  <2>5. QED
    BY <2>1, <2>2, <2>3, <2>4 DEF PublishChecked
<1>4. ASSUME NEW e \in Editors, CommitChange(e) PROVE PublishChecked'
  <2>1. \A d \in Editors : change'[d] = IF d = e THEN NoChange ELSE change[d]
    BY <1>4 DEF CommitChange, TypeOK
  <2>2. \A d \in Editors : change[d] # NoChange =>
           change[d].version \in Versions /\ release[change[d].version] # NoRow
    BY DEF ChangeOfRow, TypeOK, Changes
  <2>3. \A v \in Versions : release[v] # NoRow => release'[v].verified = release[v].verified
    BY <1>4, ChangeFacts
  <2>4. UNCHANGED verifier
    BY <1>4 DEF CommitChange
  <2>5. QED
    BY <2>1, <2>2, <2>3, <2>4 DEF PublishChecked
<1>5. CASE Restart
  BY <1>5 DEF Restart, PublishChecked
<1>6. CASE UNCHANGED vars
  BY <1>6 DEF vars, PublishChecked
<1>7. QED
  BY <1>1, <1>2, <1>3, <1>4, <1>5, <1>6 DEF Next, ChangeStep

LEMMA PublishVerifiedStep ==
    ASSUME FirmwareInv, PublishChecked, [Next]_vars, NEW v \in Versions,
           release'[v].status = "PUBLISHED", release[v].status # "PUBLISHED", verifier
    PROVE  release[v].verified
<1> USE DEF FirmwareInv
<1>1. PICK e \in Editors : CommitChange(e)
  <2>1. ASSUME NEW u \in Uploaders, CommitUpload(u) PROVE FALSE
    <3>1. \/ release'[v] = release[v] 
          \/ release'[v] = UploadedRow(upload[u])
      BY <2>1 DEF CommitUpload, TypeOK
    <3>2. QED
      BY <3>1 DEF UploadedRow
  <2>2. ~UNCHANGED release
    OBVIOUS
  <2>3. QED
    BY <2>1, <2>2 DEF Next, UploadStep, ChangeStep, CreateRelease, InsertRelease, PutArtifact,
       PutManifest, AssertStoredIntegrity, RollbackUpload, DiscardObject, FinishDiscard,
       BeginChange, AssertArtifactIntact, Restart, vars
<1> DEFINE c == change[e]
<1>2. c \in Changes /\ c # NoChange /\ release[c.version] \in Rows
  BY <1>1 DEF CommitChange, NoChange, ChangeOfRow, Changes, TypeOK
<1>3. CASE release' = [release EXCEPT ![c.version].notes = c.notes]
  BY <1>2, <1>3 DEF TypeOK, Rows
<1>4. CASE /\ c.op # "update_metadata"
           /\ release' = [release EXCEPT ![c.version].status = Target[c.op]]
  <2>1. v = c.version
    BY <1>4 DEF TypeOK
  <2>2. Target[c.op] = "PUBLISHED"
    BY <1>2, <1>4, <2>1 DEF TypeOK, Rows
  <2>3. c.op = "publish_release"
    BY <1>2, <1>4, <2>2 DEF Changes, Operations, Target
  <2>4. QED
    BY <1>2, <2>1, <2>3 DEF PublishChecked
<1>5. QED
  BY <1>1, <1>3, <1>4 DEF CommitChange

\* The verifier guard holds at every publication, under any concurrency and
\* across restarts that switch the verifier on or off.
THEOREM PublicationIsVerified == Spec => PublishVerified
<1>1. Init => PublishChecked
  BY DEF Init, PublishChecked
<1>2. FirmwareInv /\ PublishChecked /\ [Next]_vars => PublishChecked'
  BY PublishCheckedStep
<1>3. FirmwareInv /\ PublishChecked /\ [Next]_vars =>
         [\A v \in Versions :
            (release'[v].status = "PUBLISHED" /\ release[v].status # "PUBLISHED")
               => (verifier => release[v].verified)]_vars
  BY PublishVerifiedStep
<1>4. QED
  BY <1>1, <1>2, <1>3, FirmwareInvariant, PTL DEF Spec, PublishVerified

-----------------------------------------------------------------------------
(***************************************************************************)
(* No version is inserted while an upload of it removes its objects, and   *)
(* commits whose outcome is known: what is published is servable.  Both    *)
(* assumptions are needed (FirmwareDiscardRace.cfg lacks the first).       *)
(***************************************************************************)
RowIntact(v) ==
    /\ store[v][release[v].file] = ArtifactObject(release[v].binary)
    /\ store[v][ManifestName] = release[v].manifest

Stored(r, st) ==
    /\ r.step = "put_manifest" => st[r.version][r.file] = ArtifactObject(r.binary)
    /\ r.step \in {"verify", "commit"} =>
          /\ st[r.version][ManifestName] = r.manifest
          /\ r.file # ManifestName => st[r.version][r.file] = ArtifactObject(r.binary)
    /\ r.step = "commit" => r.file # ManifestName

Unpublished(r) == r.step \in {"rollback", "discard"} => release[r.version] = NoRow

\* Every row has its objects, what a running upload has put is there, and an
\* upload that failed made no row.
ServableInv ==
    /\ \A v \in Versions : release[v] # NoRow => RowIntact(v)
    /\ \A u \in Uploaders : upload[u] # NoUpload => Stored(upload[u], store) /\ Unpublished(upload[u])

\* What is left to show of a step that makes no row.
LEMMA ServableByFrame ==
    ASSUME ServableInv,
           \A v \in Versions : release'[v] # NoRow =>
              /\ release[v] # NoRow
              /\ release'[v].file = release[v].file
              /\ release'[v].binary = release[v].binary
              /\ release'[v].manifest = release[v].manifest
              /\ store'[v] = store[v],
           \A u \in Uploaders : upload'[u] # NoUpload =>
              Stored(upload'[u], store') /\ Unpublished(upload[u])'
    PROVE  ServableInv'
<1>1. \A v \in Versions : release'[v] # NoRow => RowIntact(v)'
  BY DEF ServableInv, RowIntact
<1>2. QED
  BY <1>1 DEF ServableInv, Stored, Unpublished

\* A step of one upload that commits nothing touches objects only under a
\* version that no row and no other upload's insert has.
LEMMA ServableByUpload ==
    ASSUME FirmwareInv, ServableInv, NEW u \in Uploaders,
           \A other \in Uploaders \ {u} : upload'[other] = upload[other],
           UNCHANGED release,
           \/ UNCHANGED store
           \/ \E v \in Versions, n \in Names :
                 /\ \E object : Put(v, n, object)
                 /\ release[v] = NoRow
                 /\ \A other \in Uploaders \ {u} : ~HoldsRow(other, v),
           upload'[u] # NoUpload => Stored(upload'[u], store') /\ Unpublished(upload[u])'
    PROVE  ServableInv'
<1>1. \A v \in Versions : release[v] # NoRow => store'[v] = store[v]
  BY DEF FirmwareInv, TypeOK, Put
<1>2. ASSUME NEW other \in Uploaders \ {u}, upload[other] # NoUpload
      PROVE  Stored(upload[other], store')
  <2>1. CASE Inserted(other)
    <3>1. store'[upload[other].version] = store[upload[other].version]
      <4>1. upload[other].version \in Versions /\ HoldsRow(other, upload[other].version)
        BY <1>2, <2>1 DEF FirmwareInv, TypeOK, Uploads, HoldsRow
      <4>2. QED
        BY <4>1 DEF FirmwareInv, TypeOK, Put
    <3>2. QED
      BY <1>2, <3>1 DEF ServableInv, Stored
  <2>2. CASE ~Inserted(other)
    BY <2>2 DEF Inserted, Stored
  <2>3. QED
    BY <2>1, <2>2
<1>3. \A other \in Uploaders \ {u} : upload[other] # NoUpload => Unpublished(upload[other])'
  BY DEF ServableInv, Unpublished
<1>4. QED
  BY <1>1, <1>2, <1>3, ServableByFrame DEF ServableInv

LEMMA ServableStep ==
    ASSUME UploadsApart, "commit_unknown" \notin Faults, FirmwareInv, ServableInv, [Next]_vars
    PROVE  ServableInv'
<1> USE DEF FirmwareInv
\* A step of an upload that changes neither rows nor objects.
<1>1. ASSUME NEW u \in Uploaders, UNCHANGED <<release, store>>,
             \A other \in Uploaders \ {u} : upload'[other] = upload[other],
             upload'[u] # NoUpload => Stored(upload'[u], store) /\ Unpublished(upload'[u])
      PROVE  ServableInv'
  <2>1. upload'[u] # NoUpload => Stored(upload'[u], store') /\ Unpublished(upload[u])'
    BY <1>1 DEF Stored, Unpublished
  <2>2. QED
    BY <1>1, <2>1, ServableByUpload
<1>2. ASSUME NEW u \in Uploaders, CreateRelease(u) PROVE ServableInv'
  <2>1. PICK v \in Versions, f \in Filenames, b \in Binaries, m \in Manifests, n \in Notes :
           upload' = [upload EXCEPT ![u] = NewUpload(v, f, b, m, n)]
    BY <1>2 DEF CreateRelease
  <2>2. upload'[u].step = "insert"
    BY <2>1 DEF NewUpload, TypeOK
  <2>3. QED
    BY <1>1, <1>2, <2>1, <2>2 DEF CreateRelease, Stored, Unpublished
<1>3. ASSUME NEW u \in Uploaders, EndUpload(u), UNCHANGED <<release, store>> PROVE ServableInv'
  BY <1>1, <1>3 DEF EndUpload, TypeOK
<1>4. ASSUME NEW u \in Uploaders, InsertRelease(u) PROVE ServableInv'
  <2>1. CASE Advance(u, "put_artifact")
    <3>1. upload[u] \in Uploads
      BY <1>4, UploadServed DEF InsertRelease
    <3>2. /\ upload'[u].step = "put_artifact"
          /\ \A other \in Uploaders \ {u} : upload'[other] = upload[other]
      BY <2>1, <3>1, AdvanceFacts DEF Advance, UploadSteps
    <3>3. QED
      BY <1>1, <1>4, <3>2 DEF InsertRelease, Stored, Unpublished
  <2>2. QED
    BY <1>3, <1>4, <2>1 DEF InsertRelease
\* A put of an upload is under a version that it alone has inserted.
<1>5. ASSUME NEW u \in Uploaders, upload[u] \in Uploads, HoldsRow(u, upload[u].version),
             \A other \in Uploaders \ {u} : upload'[other] = upload[other],
             UNCHANGED release, NEW n \in Names, NEW object,
             Put(upload[u].version, n, object) \/ UNCHANGED store,
             upload'[u].version = upload[u].version, Stored(upload'[u], store')
      PROVE  ServableInv'
  <2>1. upload[u].version \in Versions
    BY <1>5 DEF Uploads
  <2>2. /\ release[upload[u].version] = NoRow
        /\ \A other \in Uploaders \ {u} : ~HoldsRow(other, upload[u].version)
    BY <1>5, <2>1 DEF SingleWriter
  <2>3. Unpublished(upload[u])'
    BY <1>5, <2>2 DEF Unpublished
  <2>4. QED
    BY <1>5, <2>1, <2>2, <2>3, ServableByUpload
<1>6. ASSUME NEW u \in Uploaders, PutArtifact(u) PROVE ServableInv'
  <2> DEFINE r == upload[u]
  <2>1. /\ r \in Uploads /\ HoldsRow(u, r.version)
        /\ r.version \in Versions /\ r.file \in Names
    BY <1>6, UploadServed DEF PutArtifact, HoldsRow, Inserted, Uploads, Names
  <2>2. CASE /\ Put(r.version, r.file, ArtifactObject(r.binary))
             /\ AdvanceWith(u, "put_manifest", <<r.file>>)
    <3>1. store'[r.version][r.file] = ArtifactObject(r.binary)
      BY <2>1, <2>2, PutFacts
    <3>2. /\ Stored(upload'[u], store') /\ upload'[u].version = r.version
          /\ \A other \in Uploaders \ {u} : upload'[other] = upload[other]
      BY <2>1, <2>2, <3>1, AdvanceFacts DEF Stored, UploadSteps
    <3>3. QED
      BY <1>5, <1>6, <2>1, <2>2, <3>2 DEF PutArtifact
  <2>3. CASE AdvanceWith(u, "rollback", <<r.file>>)
    <3>1. /\ Stored(upload'[u], store') /\ upload'[u].version = r.version
          /\ \A other \in Uploaders \ {u} : upload'[other] = upload[other]
      BY <2>1, <2>3, AdvanceFacts DEF Stored, UploadSteps
    <3>2. QED
      BY <1>5, <1>6, <2>1, <3>1 DEF PutArtifact
  <2>4. QED
    BY <1>6, <2>2, <2>3 DEF PutArtifact
<1>7. ASSUME NEW u \in Uploaders, PutManifest(u) PROVE ServableInv'
  <2> DEFINE r == upload[u]
  <2>1. /\ r \in Uploads /\ HoldsRow(u, r.version) /\ r.step = "put_manifest" /\ r # NoUpload
        /\ r.version \in Versions /\ r.file \in Names /\ ManifestName \in Names
    BY <1>7, UploadServed DEF PutManifest, HoldsRow, Inserted, Uploads, Names, NoUpload
  <2>2. CASE /\ Put(r.version, ManifestName, r.manifest)
             /\ AdvanceWith(u, "verify", Append(r.written, ManifestName))
    <3>1. /\ store'[r.version][ManifestName] = r.manifest
          /\ r.file # ManifestName => store'[r.version][r.file] = store[r.version][r.file]
      BY <2>1, <2>2, PutFacts
    <3>2. store[r.version][r.file] = ArtifactObject(r.binary)
      BY <2>1 DEF ServableInv, Stored
    <3>3. /\ Stored(upload'[u], store') /\ upload'[u].version = r.version
          /\ \A other \in Uploaders \ {u} : upload'[other] = upload[other]
      BY <2>1, <2>2, <3>1, <3>2, AdvanceFacts DEF Stored, UploadSteps
    <3>4. QED
      BY <1>5, <1>7, <2>1, <2>2, <3>3 DEF PutManifest
  <2>3. CASE Advance(u, "rollback")
    <3>1. /\ Stored(upload'[u], store') /\ upload'[u].version = r.version
          /\ \A other \in Uploaders \ {u} : upload'[other] = upload[other]
      BY <2>1, <2>3, AdvanceFacts DEF Advance, Stored, UploadSteps
    <3>2. QED
      BY <1>5, <1>7, <2>1, <3>1 DEF PutManifest
  <2>4. QED
    BY <1>7, <2>2, <2>3 DEF PutManifest
\* A step into rollback or discard, from one that holds the row or follows it.
<1>8. ASSUME NEW u \in Uploaders, upload[u] \in Uploads,
             Inserted(u) \/ upload[u].step = "discard",
             NEW s \in {"rollback", "discard"}, NEW w, AdvanceWith(u, s, w), UNCHANGED release,
             \/ UNCHANGED store
             \/ /\ upload[u].step = "discard"
                /\ \E n \in Names : Put(upload[u].version, n, Absent)
      PROVE  ServableInv'
  <2>1. upload[u].version \in Versions /\ upload[u] # NoUpload
    BY <1>8 DEF Uploads, NoUpload, Inserted
  <2>2. /\ release[upload[u].version] = NoRow
        /\ \A other \in Uploaders \ {u} : ~HoldsRow(other, upload[u].version)
    BY <1>8, <2>1 DEF ServableInv, Unpublished, UploadsApart, SingleWriter, HoldsRow
  <2>3. /\ upload'[u].step \in {"rollback", "discard"}
        /\ upload'[u].version = upload[u].version
        /\ \A other \in Uploaders \ {u} : upload'[other] = upload[other]
    BY <1>8, AdvanceFacts DEF UploadSteps
  <2>4. Stored(upload'[u], store') /\ Unpublished(upload[u])'
    BY <1>8, <2>2, <2>3 DEF Stored, Unpublished
  <2>5. QED
    BY <1>8, <2>1, <2>2, <2>3, <2>4, ServableByUpload
<1>9. ASSUME NEW u \in Uploaders, AssertStoredIntegrity(u) PROVE ServableInv'
  <2> DEFINE r == upload[u]
  <2>1. r \in Uploads /\ r # NoUpload /\ r.step = "verify" /\ Inserted(u)
    BY <1>9, UploadServed DEF AssertStoredIntegrity, NoUpload, Inserted
  <2>2. CASE store[r.version][r.file] = ArtifactObject(r.binary) /\ Advance(u, "commit")
    <3>1. store[r.version][ManifestName] = r.manifest
      BY <2>1 DEF ServableInv, Stored
    <3>2. r.manifest # ArtifactObject(r.binary)
      BY <2>1 DEF Uploads, Manifests, ArtifactObject
    <3>3. r.file # ManifestName
      BY <2>2, <3>1, <3>2
    <3>4. /\ Stored(upload'[u], store) /\ upload'[u].step = "commit"
          /\ \A other \in Uploaders \ {u} : upload'[other] = upload[other]
      BY <2>1, <2>2, <3>1, <3>3, AdvanceFacts DEF Advance, Stored, UploadSteps
    <3>5. QED
      BY <1>1, <1>9, <3>4 DEF AssertStoredIntegrity, Unpublished
  <2>3. CASE Advance(u, "rollback")
    BY <1>8, <1>9, <2>1, <2>3 DEF AssertStoredIntegrity, Advance
  <2>4. QED
    BY <1>9, <2>2, <2>3 DEF AssertStoredIntegrity
<1>10. ASSUME NEW u \in Uploaders, CommitUpload(u) PROVE ServableInv'
  <2> DEFINE r == upload[u]
  <2>1. r \in Uploads /\ r # NoUpload /\ r.step = "commit" /\ Inserted(u)
    BY <1>10, UploadServed DEF CommitUpload, NoUpload, Inserted
  <2>2. CASE release' = [release EXCEPT ![r.version] = UploadedRow(r)] /\ EndUpload(u)
    <3>1. ASSUME NEW x \in Uploaders, upload'[x] # NoUpload
          PROVE  Stored(upload'[x], store') /\ Unpublished(upload[x])'
      <4>1. x # u /\ upload'[x] = upload[x] /\ r.version \in Versions
        BY <2>1, <2>2, <3>1 DEF EndUpload, TypeOK, Uploads
      <4>2. UNCHANGED store
        BY <1>10 DEF CommitUpload
      <4>3. Stored(upload'[x], store')
        BY <3>1, <4>1, <4>2 DEF ServableInv
      <4>4. upload[x].step \in {"rollback", "discard"} => upload[x].version # r.version
        BY <2>1, <4>1 DEF SingleWriter, UploadsApart, HoldsRow, Inserted
      <4>5. Unpublished(upload[x])'
        BY <2>2, <3>1, <4>1, <4>4 DEF ServableInv, Unpublished, TypeOK
      <4>6. QED
        BY <4>3, <4>5
    <3>2. UNCHANGED store
      BY <1>10 DEF CommitUpload
    <3>3. ASSUME NEW v \in Versions, v = r.version PROVE RowIntact(v)'
      <4>1. /\ release'[v].file = r.file /\ release'[v].binary = r.binary
            /\ release'[v].manifest = r.manifest
        BY <2>2, <3>3 DEF UploadedRow, TypeOK
      <4>2. /\ store[v][r.file] = ArtifactObject(r.binary)
            /\ store[v][ManifestName] = r.manifest
        BY <2>1, <3>3 DEF ServableInv, Stored
      <4>3. QED
        BY <3>2, <4>1, <4>2 DEF RowIntact
    <3>4. \A v \in Versions : v # r.version /\ release'[v] # NoRow => RowIntact(v)'
      BY <2>2, <3>2 DEF ServableInv, RowIntact, TypeOK
    <3>5. QED
      BY <3>1, <3>3, <3>4 DEF ServableInv
  <2>3. CASE UNCHANGED release /\ Advance(u, "rollback")
    BY <1>8, <1>10, <2>1, <2>3 DEF CommitUpload, Advance
  <2>4. QED
    BY <1>10, <2>2, <2>3 DEF CommitUpload
<1>11. ASSUME NEW u \in Uploaders, RollbackUpload(u) PROVE ServableInv'
  <2>1. upload[u] \in Uploads /\ Inserted(u)
    BY <1>11, UploadServed DEF RollbackUpload, Inserted
  <2>2. QED
    BY <1>8, <1>11, <2>1 DEF RollbackUpload, Advance
<1>12. ASSUME NEW u \in Uploaders, DiscardObject(u) PROVE ServableInv'
  <2>1. upload[u] \in Uploads
    BY <1>12, UploadServed DEF DiscardObject
  <2>2. Head(upload[u].written) \in Names
    BY <1>12, <2>1 DEF DiscardObject, Uploads
  <2>3. QED
    BY <1>8, <1>12, <2>1, <2>2 DEF DiscardObject
<1>13. ASSUME NEW u \in Uploaders, FinishDiscard(u) PROVE ServableInv'
  BY <1>3, <1>13 DEF FinishDiscard
<1>14. ASSUME NEW e \in Editors, BeginChange(e) \/ ChangeStep(e) PROVE ServableInv'
  <2>1. UNCHANGED <<store, upload>>
    BY <1>14 DEF BeginChange, ChangeStep, AssertArtifactIntact, CommitChange
  <2>2. \A v \in Versions :
           /\ release'[v] = NoRow <=> release[v] = NoRow
           /\ release[v] # NoRow =>
                /\ release'[v].file = release[v].file
                /\ release'[v].binary = release[v].binary
                /\ release'[v].manifest = release[v].manifest
    BY <1>14, ChangeFacts DEF BeginChange, ChangeStep, AssertArtifactIntact
  <2>3. \A u \in Uploaders : upload[u] # NoUpload => upload[u].version \in Versions
    BY DEF TypeOK, Uploads
  <2>4. QED
    BY <2>1, <2>2, <2>3, ServableByFrame DEF ServableInv, Unpublished
<1>15. CASE Restart
  BY <1>15, ServableByFrame DEF Restart
<1>16. CASE UNCHANGED vars
  BY <1>16, ServableByFrame DEF vars, ServableInv, Unpublished
<1>17. QED
  BY <1>2, <1>4, <1>6, <1>7, <1>9, <1>10, <1>11, <1>12, <1>13, <1>14, <1>15, <1>16
  DEF Next, UploadStep

\* If no version is inserted while an upload of it removes its objects, and the
\* outcome of a commit is always known, a published release has its artifact and
\* its manifest in the store, however many uploads run, fail and die.
THEOREM UploadsApartAreServable ==
    ASSUME "commit_unknown" \notin Faults
    PROVE  Spec /\ []UploadsApart => []PublishedServable
<1>1. Init => ServableInv
  BY DEF Init, ServableInv
<1>2. FirmwareInv /\ UploadsApart /\ ServableInv /\ [Next]_vars => ServableInv'
  BY ServableStep
<1>3. ServableInv => PublishedServable
  BY DEF ServableInv, RowIntact, PublishedServable, NoRow
<1>4. QED
  BY <1>1, <1>2, <1>3, FirmwareInvariant, PTL DEF Spec

-----------------------------------------------------------------------------
(***************************************************************************)
(* Without faults of the store, lost answers and restarts, every object is *)
(* somebody's: a committed row refers to it, or the upload that put it has *)
(* its key on the list of what to discard.                                 *)
(***************************************************************************)
NothingLost == Faults \subseteq {"commit_refused"}

Entries(q) == {q[i] : i \in 1..Len(q)}

LEMMA EntriesFacts ==
    /\ Entries(<<>>) = {}
    /\ \A n : Entries(<<n>>) = {n}
    /\ \A q \in Seq(Names), n \in Names :
          Append(q, n) \in Seq(Names) /\ Entries(Append(q, n)) = Entries(q) \cup {n}
    /\ \A q \in Seq(Names) : q # <<>> =>
          Tail(q) \in Seq(Names) /\ Entries(q) = {Head(q)} \cup Entries(Tail(q))
<1>1. Entries(<<>>) = {}
  BY DEF Entries
<1>2. ASSUME NEW n PROVE Entries(<<n>>) = {n}
  BY DEF Entries
<1>3. ASSUME NEW q \in Seq(Names), NEW n \in Names
      PROVE  Append(q, n) \in Seq(Names) /\ Entries(Append(q, n)) = Entries(q) \cup {n}
  <2>1. /\ Len(Append(q, n)) = Len(q) + 1 /\ Append(q, n)[Len(q) + 1] = n
        /\ \A i \in 1..Len(q) : Append(q, n)[i] = q[i]
        /\ Append(q, n) \in Seq(Names) /\ Len(q) \in Nat
    OBVIOUS
  <2>2. 1..(Len(q) + 1) = (1..Len(q)) \cup {Len(q) + 1}
    BY <2>1
  <2> QED
    BY <2>1, <2>2 DEF Entries
<1>4. ASSUME NEW q \in Seq(Names), q # <<>>
      PROVE  Tail(q) \in Seq(Names) /\ Entries(q) = {Head(q)} \cup Entries(Tail(q))
  <2>1. /\ Len(q) \in Nat /\ Len(q) >= 1 /\ Len(Tail(q)) = Len(q) - 1 /\ Head(q) = q[1]
        /\ \A i \in 1..(Len(q) - 1) : Tail(q)[i] = q[i + 1]
        /\ Tail(q) \in Seq(Names)
    BY <1>4
  <2>2. ASSUME NEW i \in 1..Len(q) PROVE q[i] \in {Head(q)} \cup Entries(Tail(q))
    <3>1. CASE i = 1
      BY <2>1, <3>1
    <3>2. CASE i # 1
      <4>1. i - 1 \in 1..(Len(q) - 1) /\ (i - 1) + 1 = i
        BY <2>1, <2>2, <3>2
      <4>2. Tail(q)[i - 1] = q[i]
        BY <2>1, <4>1
      <4> QED
        BY <2>1, <4>1, <4>2 DEF Entries
    <3> QED
      BY <3>1, <3>2
  <2>3. ASSUME NEW i \in 1..(Len(q) - 1) PROVE Tail(q)[i] \in Entries(q)
    <3>1. i + 1 \in 1..Len(q)
      BY <2>1, <2>3
    <3> QED
      BY <2>1, <3>1 DEF Entries
  <2>4. Head(q) \in Entries(q)
    BY <2>1 DEF Entries
  <2>5. Entries(q) \subseteq {Head(q)} \cup Entries(Tail(q))
    BY <2>2 DEF Entries
  <2>6. Entries(Tail(q)) \subseteq Entries(q)
    BY <2>1, <2>3 DEF Entries
  <2> QED
    BY <2>1, <2>4, <2>5, <2>6
<1> QED
  BY <1>1, <1>2, <1>3, <1>4

\* Only what was put is on the list, and nothing before the first put.
Listed(u) ==
    upload[u] # NoUpload =>
        /\ Entries(upload[u].written) \subseteq {upload[u].file, ManifestName}
        /\ upload[u].step \in {"insert", "put_artifact"} => upload[u].written = <<>>

WillDiscard(u, v, n) ==
    upload[u] # NoUpload /\ upload[u].version = v /\ n \in Entries(upload[u].written)

Referred(v, n) == release[v] # NoRow /\ n \in {release[v].file, ManifestName}

Owned(v, n) == Referred(v, n) \/ \E u \in Uploaders : WillDiscard(u, v, n)

OrphanInv ==
    /\ \A u \in Uploaders : Listed(u)
    /\ \A v \in Versions, n \in Names : store[v][n] # Absent => Owned(v, n)

\* A step of u that leaves the rows alone: what was on its list stays there or
\* has been removed from the store.
LEMMA OrphanStepOfOne ==
    ASSUME OrphanInv, NEW u \in Uploaders, UNCHANGED release,
           \A o \in Uploaders \ {u} : upload'[o] = upload[o], Listed(u)',
           \A v \in Versions, n \in Names : store'[v][n] # Absent =>
               \/ store[v][n] # Absent /\ (WillDiscard(u, v, n) => WillDiscard(u, v, n)')
               \/ WillDiscard(u, v, n)'
    PROVE  OrphanInv'
<1>1. \A o \in Uploaders : Listed(o)'
  BY DEF OrphanInv, Listed
<1>2. ASSUME NEW v \in Versions, NEW n \in Names, store'[v][n] # Absent PROVE Owned(v, n)'
  <2>1. CASE WillDiscard(u, v, n)'
    BY <2>1 DEF Owned
  <2>2. CASE store[v][n] # Absent /\ (WillDiscard(u, v, n) => WillDiscard(u, v, n)')
    <3>1. Owned(v, n)
      BY <2>2 DEF OrphanInv
    <3>2. Referred(v, n) => Referred(v, n)'
      BY DEF Referred
    <3>3. ASSUME NEW o \in Uploaders, WillDiscard(o, v, n) PROVE WillDiscard(o, v, n)'
      BY <2>2, <3>3 DEF WillDiscard
    <3> QED
      BY <3>1, <3>2, <3>3 DEF Owned
  <2> QED
    BY <1>2, <2>1, <2>2
<1> QED
  BY <1>1, <1>2 DEF OrphanInv

\* A request that goes on, with a longer, shorter or equal list.
LEMMA AdvanceOrphan ==
    ASSUME TypeOK, OrphanInv, NEW u \in Uploaders, upload[u] \in Uploads, UNCHANGED release,
           NEW s \in UploadSteps, NEW w \in Seq(Names), AdvanceWith(u, s, w),
           Entries(w) \subseteq {upload[u].file, ManifestName},
           s \in {"insert", "put_artifact"} => w = <<>>,
           \A v \in Versions, n \in Names :
               (v # upload[u].version \/ n \notin Entries(w)) =>
                   /\ store'[v][n] # Absent => store[v][n] # Absent
                   /\ v = upload[u].version /\ n \in Entries(upload[u].written)
                         => store'[v][n] = Absent
    PROVE  OrphanInv'
<1>1. /\ upload'[u] # NoUpload /\ upload'[u].step = s
      /\ upload'[u].version = upload[u].version /\ upload'[u].file = upload[u].file
      /\ \A o \in Uploaders \ {u} : upload'[o] = upload[o]
  BY AdvanceFacts
<1>2. upload'[u].written = w
  BY DEF AdvanceWith, TypeOK, Uploads
<1>3. Listed(u)'
  BY <1>1, <1>2 DEF Listed
<1>4. \A v \in Versions, n \in Names :
         WillDiscard(u, v, n)' <=> v = upload[u].version /\ n \in Entries(w)
  BY <1>1, <1>2 DEF WillDiscard
<1>5. \A v \in Versions, n \in Names :
         WillDiscard(u, v, n) => v = upload[u].version /\ n \in Entries(upload[u].written)
  BY DEF WillDiscard
<1> QED
  BY <1>1, <1>3, <1>4, <1>5, OrphanStepOfOne

\* A request that ends with nothing on its list, or with a row that refers to all of it.
LEMMA EndOrphan ==
    ASSUME TypeOK, OrphanInv, NEW u \in Uploaders, upload[u] # NoUpload, EndUpload(u), UNCHANGED store,
           \A v \in Versions, n \in Names : Referred(v, n) \/ WillDiscard(u, v, n) => Referred(v, n)'
    PROVE  OrphanInv'
<1>1. upload'[u] = NoUpload /\ \A o \in Uploaders \ {u} : upload'[o] = upload[o]
  BY DEF EndUpload, TypeOK
<1>2. \A o \in Uploaders : Listed(o)'
  BY <1>1 DEF OrphanInv, Listed
<1>3. ASSUME NEW v \in Versions, NEW n \in Names, store'[v][n] # Absent PROVE Owned(v, n)'
  <2>1. Owned(v, n)
    BY <1>3 DEF OrphanInv
  <2>2. ASSUME NEW o \in Uploaders \ {u}, WillDiscard(o, v, n) PROVE WillDiscard(o, v, n)'
    BY <1>1, <2>2 DEF WillDiscard
  <2> QED
    BY <2>1, <2>2 DEF Owned
<1> QED
  BY <1>2, <1>3 DEF OrphanInv

LEMMA UploadOrphans ==
    ASSUME NothingLost, TypeOK, SingleWriter, OrphanInv, NEW u \in Uploaders, UploadStep(u)
    PROVE  OrphanInv'
<1> DEFINE r == upload[u]
<1>1. r \in Uploads /\ r # NoUpload
  BY UploadServed DEF UploadStep, InsertRelease, PutArtifact, PutManifest, AssertStoredIntegrity,
     CommitUpload, RollbackUpload, DiscardObject, FinishDiscard, NoUpload
<1>2. /\ r.version \in Versions /\ r.file \in Names /\ ManifestName \in Names
      /\ r.written \in Seq(Names)
  BY <1>1 DEF Uploads, Names
<1>3. Listed(u) /\ Entries(r.written) \subseteq {r.file, ManifestName}
  BY <1>1 DEF OrphanInv, Listed
<1>4. "storage" \notin Faults /\ "commit_unknown" \notin Faults
  BY DEF NothingLost
<1>5. ASSUME UNCHANGED <<release, store>>, NEW s \in UploadSteps, Advance(u, s),
             s \in {"insert", "put_artifact"} => r.step = "insert"
      PROVE  OrphanInv'
  <2>1. s \in {"insert", "put_artifact"} => r.written = <<>>
    BY <1>1, <1>3, <1>5 DEF Listed
  <2> QED
    BY <1>1, <1>2, <1>3, <1>5, <2>1, AdvanceOrphan DEF Advance
<1>6. ASSUME EndUpload(u), UNCHANGED <<release, store>>, r.written = <<>> PROVE OrphanInv'
  <2>1. \A v \in Versions, n \in Names : ~WillDiscard(u, v, n)
    BY <1>6, EntriesFacts DEF WillDiscard
  <2>2. \A v \in Versions, n \in Names : Referred(v, n) => Referred(v, n)'
    BY <1>6 DEF Referred
  <2> QED
    BY <1>1, <1>6, <2>1, <2>2, EndOrphan
<1>7. CASE InsertRelease(u)
  <2>1. r.step = "insert" /\ UNCHANGED <<release, store>>
    BY <1>7 DEF InsertRelease
  <2>2. r.written = <<>>
    BY <1>1, <1>3, <2>1 DEF Listed
  <2>3. CASE Advance(u, "put_artifact")
    BY <1>5, <2>1, <2>3 DEF UploadSteps
  <2>4. CASE EndUpload(u)
    BY <1>6, <2>1, <2>2, <2>4
  <2> QED
    BY <1>7, <2>3, <2>4 DEF InsertRelease
<1>8. CASE PutArtifact(u)
  <2> DEFINE w == <<r.file>>
  <2>1. /\ Put(r.version, r.file, ArtifactObject(r.binary)) /\ UNCHANGED release
        /\ AdvanceWith(u, "put_manifest", w)
    BY <1>4, <1>8 DEF PutArtifact
  <2>2. r.written = <<>>
    BY <1>1, <1>3, <1>8 DEF PutArtifact, Listed
  <2>3. Entries(w) = {r.file} /\ Entries(r.written) = {} /\ w \in Seq(Names)
    BY <1>2, <2>2, EntriesFacts
  <2> HIDE DEF w
  <2>4. \A v \in Versions, n \in Names :
           (v # r.version \/ n \notin Entries(w)) => store'[v][n] = store[v][n]
    BY <1>2, <2>1, <2>3, PutFacts
  <2> QED
    BY <1>1, <2>1, <2>3, <2>4, AdvanceOrphan DEF UploadSteps
<1>9. CASE PutManifest(u)
  <2> DEFINE w == Append(r.written, ManifestName)
  <2>1. /\ Put(r.version, ManifestName, r.manifest) /\ UNCHANGED release
        /\ AdvanceWith(u, "verify", w)
    BY <1>4, <1>9 DEF PutManifest
  <2>2. w \in Seq(Names) /\ Entries(w) = Entries(r.written) \cup {ManifestName}
    BY <1>2, EntriesFacts
  <2> HIDE DEF w
  <2>3. \A v \in Versions, n \in Names :
           (v # r.version \/ n \notin Entries(w)) => store'[v][n] = store[v][n]
    BY <1>2, <2>1, <2>2, PutFacts
  <2> QED
    BY <1>1, <1>3, <2>1, <2>2, <2>3, AdvanceOrphan DEF UploadSteps
<1>10. CASE AssertStoredIntegrity(u) \/ RollbackUpload(u)
  <2>1. PICK s \in {"commit", "rollback", "discard"} : Advance(u, s)
    BY <1>10 DEF AssertStoredIntegrity, RollbackUpload
  <2>2. UNCHANGED <<release, store>>
    BY <1>10 DEF AssertStoredIntegrity, RollbackUpload
  <2> QED
    BY <1>5, <2>1, <2>2 DEF UploadSteps
<1>11. CASE CommitUpload(u)
  <2>1. CASE Advance(u, "rollback") /\ UNCHANGED release
    BY <1>5, <1>11, <2>1 DEF CommitUpload, UploadSteps
  <2>2. CASE release' = [release EXCEPT ![r.version] = UploadedRow(r)] /\ EndUpload(u)
    <3>1. release[r.version] = NoRow
      BY <1>2, <1>11 DEF CommitUpload, SingleWriter, HoldsRow, Inserted
    <3>2. release'[r.version] = UploadedRow(r) /\ UploadedRow(r) # NoRow
          /\ UploadedRow(r).file = r.file
      BY <1>2, <2>2 DEF TypeOK, UploadedRow, NoRow
    <3>3. \A v \in Versions : v # r.version => release'[v] = release[v]
      BY <2>2 DEF TypeOK
    <3>4. \A v \in Versions, n \in Names : Referred(v, n) => Referred(v, n)'
      BY <3>1, <3>3 DEF Referred
    <3>5. \A v \in Versions, n \in Names : WillDiscard(u, v, n) => Referred(v, n)'
      BY <1>3, <3>2 DEF Referred, WillDiscard
    <3> QED
      BY <1>1, <1>11, <2>2, <3>4, <3>5, EndOrphan DEF CommitUpload
  <2> QED
    BY <1>4, <1>11, <2>1, <2>2 DEF CommitUpload
<1>12. CASE DiscardObject(u)
  <2> DEFINE w == Tail(r.written)
  <2>1. /\ Put(r.version, Head(r.written), Absent) /\ UNCHANGED release
        /\ AdvanceWith(u, "discard", w) /\ r.written # <<>>
    BY <1>4, <1>12 DEF DiscardObject
  <2>2. w \in Seq(Names) /\ Entries(r.written) = {Head(r.written)} \cup Entries(w)
    BY <1>2, <2>1, EntriesFacts
  <2>3. Head(r.written) \in Names
    BY <1>2, <1>3, <2>2
  <2> HIDE DEF w
  <2>4. /\ store'[r.version][Head(r.written)] = Absent
        /\ \A v \in Versions, n \in Names :
              v # r.version \/ n # Head(r.written) => store'[v][n] = store[v][n]
    BY <1>2, <2>1, <2>3, PutFacts
  <2>5. \A v \in Versions, n \in Names :
           (v # r.version \/ n \notin Entries(w)) =>
               /\ store'[v][n] # Absent => store[v][n] # Absent
               /\ v = r.version /\ n \in Entries(r.written) => store'[v][n] = Absent
    BY <2>2, <2>4
  <2> QED
    BY <1>1, <1>3, <2>1, <2>2, <2>5, AdvanceOrphan DEF UploadSteps
<1>13. CASE FinishDiscard(u)
  BY <1>6, <1>13 DEF FinishDiscard
<1> QED
  BY <1>7, <1>8, <1>9, <1>10, <1>11, <1>12, <1>13 DEF UploadStep

LEMMA OrphanStep ==
    ASSUME NothingLost, FirmwareInv, OrphanInv, [Next]_vars PROVE OrphanInv'
<1>1. TypeOK /\ ChangeOfRow /\ SingleWriter
  BY DEF FirmwareInv
<1>2. ASSUME NEW u \in Uploaders, CreateRelease(u) PROVE OrphanInv'
  <2>1. PICK v \in Versions, f \in Filenames, b \in Binaries, m \in Manifests, n \in Notes :
           upload' = [upload EXCEPT ![u] = NewUpload(v, f, b, m, n)]
    BY <1>2 DEF CreateRelease
  <2>2. /\ upload'[u].written = <<>> /\ \A o \in Uploaders \ {u} : upload'[o] = upload[o]
        /\ UNCHANGED <<release, store>> /\ upload[u] = NoUpload
    BY <1>1, <1>2, <2>1 DEF NewUpload, TypeOK, CreateRelease
  <2>3. Listed(u)'
    BY <2>2, EntriesFacts DEF Listed
  <2>4. \A w \in Versions, k \in Names : ~WillDiscard(u, w, k)
    BY <2>2 DEF WillDiscard
  <2> QED
    BY <2>2, <2>3, <2>4, OrphanStepOfOne
<1>3. ASSUME NEW u \in Uploaders, UploadStep(u) PROVE OrphanInv'
  BY <1>1, <1>3, UploadOrphans
\* No upload and no object changes, and no row comes to refer to other objects.
<1>4. ASSUME UNCHANGED <<upload, store>>,
             \A v \in Versions : release[v] # NoRow =>
                 release'[v] # NoRow /\ release'[v].file = release[v].file
      PROVE  OrphanInv'
  <2>1. \A v \in Versions, n \in Names : Referred(v, n) => Referred(v, n)'
    BY <1>4 DEF Referred
  <2>2. \A u \in Uploaders, v \in Versions, n \in Names : WillDiscard(u, v, n) <=> WillDiscard(u, v, n)'
    BY <1>4 DEF WillDiscard
  <2>3. \A u \in Uploaders : Listed(u)'
    BY <1>4 DEF OrphanInv, Listed
  <2> QED
    BY <1>4, <2>1, <2>2, <2>3 DEF OrphanInv, Owned
<1>5. ASSUME NEW e \in Editors, BeginChange(e) \/ AssertArtifactIntact(e) PROVE OrphanInv'
  BY <1>4, <1>5 DEF BeginChange, AssertArtifactIntact
<1>6. ASSUME NEW e \in Editors, CommitChange(e) PROVE OrphanInv'
  BY <1>1, <1>4, <1>6, ChangeFacts DEF CommitChange
<1>7. ~Restart
  BY DEF Restart, NothingLost
<1>8. CASE UNCHANGED vars
  BY <1>4, <1>8 DEF vars
<1> QED
  BY <1>2, <1>3, <1>5, <1>6, <1>7, <1>8 DEF Next, ChangeStep

\* With no worse fault than a refused commit, failed uploads leave nothing in
\* the store behind them, however many overlap under one version.
THEOREM UploadsLeaveNoOrphans ==
    ASSUME NothingLost
    PROVE  Spec => []NoOrphans
<1>1. Init => OrphanInv
  BY DEF Init, OrphanInv, Listed
<1>2. FirmwareInv /\ OrphanInv /\ [Next]_vars => OrphanInv'
  BY OrphanStep
<1>3. OrphanInv => NoOrphans
  BY DEF OrphanInv, Owned, Referred, WillDiscard, NoOrphans
<1>4. QED
  BY <1>1, <1>2, <1>3, FirmwareInvariant, PTL DEF Spec
=============================================================================
