-------------------------- MODULE OtaService_proofs --------------------------
(***************************************************************************)
(* Proofs about OtaService, for any versions, policies, threads and faults. *)
(***************************************************************************)
EXTENDS OtaService, PolicyRules_proofs

(***************************************************************************)
(* Rows and decisions.                                                     *)
(***************************************************************************)

LEMMA UpdateType ==
    ASSUME NEW stored \in Rows, NEW writes \in Updates
    PROVE  Update(stored, writes) \in Rows
<1>1. PICK row \in Rows, new \in Rows : writes = Dirty(row, new)
  BY DEF Updates
<1>2. /\ DOMAIN writes \subseteq Columns
      /\ \A c \in DOMAIN writes : writes[c] = new[c]
  BY <1>1 DEF Dirty
<1>3. QED
  BY <1>2 DEF Update, Columns, Rows

LEMMA DirtyType ==
    ASSUME NEW row \in Rows, NEW new \in Rows
    PROVE  Dirty(row, new) \in Updates
BY DEF Updates

LEMMA NoWritesType ==
    ASSUME NEW row \in Rows
    PROVE  NoWrites \in Updates
<1>1. Dirty(row, row) = NoWrites
  BY DEF Dirty, NoWrites
<1>2. QED
  BY <1>1, DirtyType

LEMMA ReportedType ==
    ASSUME NEW row \in Rows, NEW v \in MaybeVersion
    PROVE  Reported(row, v) \in Rows
BY DEF Reported, Rows, Sources

\* The resolution names a policy that is in effect, or none.
LEMMA ResolutionType ==
    ASSUME inEffect \subseteq PolicySet
    PROVE  /\ Resolution.policy \in inEffect \cup {NoPolicy}
           /\ Resolution.conflict \in BOOLEAN
<1>1. \A p \in inEffect : /\ p.scope \in Scopes /\ p.priority \in 0..MaxPriority
                          /\ IsInEffect(p, 0)
  BY PolicySetAssumption DEF PoliciesInEffect, IsInEffect
<1>2. CASE Resolution.conflict
  BY <1>2 DEF Resolution, ResolvePolicies, Ungoverned
<1>3. CASE ~Resolution.conflict /\ inEffect = {}
  <2>1. Resolution = Ungoverned
    BY <1>3 DEF Resolution, ResolvePolicies
  <2>2. QED
    BY <2>1 DEF Ungoverned
<1>4. CASE ~Resolution.conflict /\ inEffect # {}
  <2>1. PICK p \in inEffect : IsInEffect(p, 0)
    BY <1>1, <1>4
  <2>2. Resolution.policy \in inEffect
    BY <1>1, <1>4, <2>1, ResolutionFacts DEF Resolution
  <2>3. Resolution.conflict \in BOOLEAN
    BY <1>4 DEF Resolution, ResolvePolicies, Ungoverned
  <2>4. QED
    BY <2>2, <2>3
<1>5. QED
  BY <1>2, <1>3, <1>4

LEMMA NewestFacts ==
    ASSUME NEW vs, vs \subseteq Versions, vs # {}
    PROVE  Newest(vs) \in vs /\ \A w \in vs : w <= Newest(vs)
<1>1. \E v \in vs : \A w \in vs : w <= v
  BY VersionsAssumption, GreatestExists
<1>2. QED
  BY <1>1 DEF Newest

\* What is chosen is the newest of the versions that the policy leaves, and
\* newer than the known one.
LEMMA ChooseReleaseFacts ==
    ASSUME NEW published, published \subseteq Versions, NEW policy, NEW known \in MaybeVersion
    PROVE  LET decision == ChooseRelease(published, policy, known)
               candidates == Narrow(published, policy) IN
           /\ candidates \subseteq published
           /\ decision.available \in BOOLEAN
           /\ decision.available =>
                 /\ decision.release \in candidates
                 /\ known < decision.release
                 /\ \A w \in candidates : w <= decision.release
           /\ ~decision.available => \A w \in candidates : w <= known
           /\ decision.reason = "NO_UPDATE" <=> candidates # {} /\ ~decision.available
<1> DEFINE candidates == Narrow(published, policy)
           newest == Newest(candidates)
           decision == ChooseRelease(published, policy, known)
<1>1. candidates \subseteq published
  BY DEF Narrow
<1>2. CASE candidates = {}
  <2>1. decision = NoOffer(IF published # {} /\ policy # NoPolicy
                           THEN "POLICY_BLOCKED" ELSE "NO_ELIGIBLE_RELEASE")
    BY <1>2 DEF ChooseRelease
  <2>2. QED
    BY <1>1, <1>2, <2>1 DEF NoOffer
<1>3. CASE candidates # {}
  <2>1. newest \in candidates /\ \A w \in candidates : w <= newest
    <3> HIDE DEF candidates
    <3> QED
      BY <1>1, <1>3, NewestFacts
  <2>2. newest \in Nat /\ known \in Nat \cup {-1} /\ \A w \in candidates : w \in Nat
    <3>1. Versions \subseteq Nat
      BY VersionsAssumption
    <3>2. candidates \subseteq Nat
      BY <1>1, <3>1
    <3> HIDE DEF newest, candidates
    <3>3. QED
      BY <2>1, <3>1, <3>2 DEF MaybeVersion, None
  <2>3. decision = IF known # None /\ known >= newest
                   THEN [available |-> FALSE, reason |-> "NO_UPDATE", release |-> newest]
                   ELSE [available |-> TRUE, reason |-> "UPDATE", release |-> newest]
    BY <1>3 DEF ChooseRelease
  <2> HIDE DEF decision, newest, candidates
  <2>4. CASE known # None /\ known >= newest
    BY <1>1, <1>3, <2>1, <2>2, <2>3, <2>4 DEF decision, candidates
  <2>5. CASE ~(known # None /\ known >= newest)
    <3>1. known < newest
      BY <2>2, <2>5 DEF None
    <3>2. QED
      BY <1>1, <1>3, <2>1, <2>3, <2>5, <3>1 DEF decision, candidates
  <2>6. QED
    BY <2>4, <2>5
<1>4. QED
  BY <1>2, <1>3

\* A version that the policy of an offer leaves is one that it delivers.
LEMMA NarrowIsDelivered ==
    ASSUME NEW published, NEW policy, NEW v, policy.type \in PolicyTypes \/ policy = NoPolicy,
           NEW resolution, ~resolution.conflict, resolution.policy = policy
    PROVE  v \in Narrow(published, policy) <=>
              v \in published /\ AllowsDelivery(resolution, v)
BY DEF Narrow, AllowsDelivery, PolicyTypes, VersionInRange

-----------------------------------------------------------------------------
(***************************************************************************)
(* The invariant.                                                          *)
(***************************************************************************)

\* The steps between the UPDATE of authentication and the end of the transaction.
Early == {"policy", "releases", "read", "offer", "resolve", "deliver", "open"}
Holding == {"admit", "commit"} \cup Early

LockHeld == \A t \in Polls : poll[t].step \in Holding <=> lock = t

\* What a request has established before each of its steps.  Of what it read
\* this is what stays true when policies and releases change.
Established(r) ==
    /\ r.step \in Early => r.gives = "nothing"
    /\ r.step = "releases" =>
          \A published \in SUBSET Versions :
             Narrow(published, r.policy) \subseteq history.allowed
    /\ r.step \in {"read", "offer"} \/ (r.step = "commit" /\ r.gives = "offer") =>
          Entitled(r.version) /\ r.known < r.version
    /\ r.step = "commit" /\ r.gives = "offer" => offers[r.version] = <<>>
    /\ r.step = "deliver" => r.version \in history.deliverable
    /\ r.step = "open" \/ (r.step = "commit" /\ r.gives = "bytes") => Entitled(r.version)
    /\ r.step \in {"stream", "record"} => r.version \in Versions

HistoryCovers == Allowed \subseteq history.allowed /\ Deliverable \subseteq history.deliverable

OtaInv ==
    /\ TypeOK
    /\ LockHeld
    /\ \A t \in Polls : Established(poll[t])
    /\ HistoryCovers
    /\ OneOffer
    /\ OffersNewer

LEMMA InitInv == Init => OtaInv
<1> SUFFICES ASSUME Init PROVE OtaInv
  OBVIOUS
<1>1. TypeOK
  <2>1. device \in Rows /\ lock \in Polls \cup {Nobody} /\ inEffect \subseteq PolicySet
    BY EnrolledAssumption DEF Init
  <2>2. offers \in [Versions -> Seq(MaybeVersion)]
    BY DEF Init
  <2>3. poll \in [Polls -> Arrivals \cup Requests \cup {NoPoll}]
        /\ edit \in [Editors -> Edits \cup {NoEdit}]
    BY DEF Init
  <2>4. history \in [allowed: SUBSET Versions, deliverable: SUBSET Versions]
    BY DEF Init, Allowed, AllowedBy, Resolution, Deliverable
  <2>5. QED
    BY <2>1, <2>2, <2>3, <2>4 DEF Init, TypeOK
<1>2. LockHeld
  BY NobodyAssumption DEF Init, LockHeld, NoPoll, Holding, Early
<1>3. \A t \in Polls : Established(poll[t])
  BY DEF Init, Established, NoPoll, Early
<1>4. HistoryCovers
  BY DEF Init, HistoryCovers
<1>5. OneOffer /\ OffersNewer
  BY DEF Init, OneOffer, OffersNewer
<1>6. QED
  BY <1>1, <1>2, <1>3, <1>4, <1>5 DEF OtaInv

\* A step of one request that changes nothing that is committed.
LEMMA PollStep ==
    ASSUME OtaInv, NEW t \in Polls, NEW r \in Arrivals \cup Requests \cup {NoPoll},
           poll' = [poll EXCEPT ![t] = r],
           UNCHANGED <<device, offers, served, edit, world>>,
           Established(r),
           r.step \in Holding <=> lock' = t,
           lock' = lock \/ (lock \in {Nobody, t} /\ lock' \in {Nobody, t})
    PROVE  OtaInv'
<1> USE DEF OtaInv
<1>1. \A u \in Polls : poll'[u] = IF u = t THEN r ELSE poll[u]
  BY DEF TypeOK
<1>2. TypeOK'
  BY DEF TypeOK, world
<1>3. LockHeld'
  BY <1>1, NobodyAssumption DEF LockHeld, TypeOK
<1>4. \A u \in Polls : Established(poll[u])'
  BY <1>1 DEF Established, Entitled, world
<1>5. HistoryCovers'
  BY DEF HistoryCovers, Allowed, AllowedBy, Deliverable, Resolution, world
<1>6. OneOffer' /\ OffersNewer'
  BY DEF OneOffer, OffersNewer
<1>7. QED
  BY <1>2, <1>3, <1>4, <1>5, <1>6

\* A request has the fields of its step.
LEMMA PollFacts ==
    ASSUME TypeOK, NEW t \in Polls
    PROVE  /\ poll[t].step \in {"lock", "admit"} => poll[t] \in Arrivals
           /\ poll[t].step \in Early \cup {"commit", "stream", "record"} => poll[t] \in Requests
BY DEF TypeOK, Arrivals, Requests, NoPoll, Early, LockHeld, Holding

Steps == Early \cup {"commit", "stream", "record"}

\* A request that goes on keeps its other fields.
LEMMA RequestEdits ==
    ASSUME NEW r \in Requests, NEW s \in Steps
    PROVE  /\ [r EXCEPT !.step = s] \in Requests
           /\ \A v \in MaybeVersion : [r EXCEPT !.step = s, !.version = v] \in Requests
           /\ \A g \in {"nothing", "offer", "bytes"} :
                 [r EXCEPT !.step = s, !.gives = g] \in Requests
           /\ \A p \in PolicySet \cup {NoPolicy} :
                 [r EXCEPT !.step = s, !.policy = p] \in Requests
           /\ \A v \in MaybeVersion :
                 [r EXCEPT !.policy = NoPolicy, !.version = v, !.step = s] \in Requests
BY DEF Requests, Steps, Early

\* A request that declines has nothing to give.
LEMMA DeclineStep ==
    ASSUME OtaInv, NEW t \in Polls, poll[t].step \in Early, Decline(t), Locked
    PROVE  OtaInv'
<1> DEFINE r == [poll[t] EXCEPT !.step = "commit", !.version = None]
<1>1. poll[t] \in Requests /\ lock = t /\ poll[t].gives = "nothing"
  BY PollFacts DEF OtaInv, LockHeld, Holding, Established
<1>2. r \in Requests
  BY <1>1, RequestEdits DEF Steps, MaybeVersion
<1>3. r.step = "commit" /\ r.gives = "nothing"
  BY <1>1 DEF Requests
<1>4. poll' = [poll EXCEPT ![t] = r]
  BY <1>1 DEF Decline, OtaInv, TypeOK
<1> HIDE DEF r
<1>5. Established(r)
  BY <1>3 DEF Established, Early
<1>6. QED
  BY <1>1, <1>2, <1>3, <1>4, <1>5, PollStep DEF Locked, Holding

LEMMA ArriveStep ==
    ASSUME OtaInv, NEW t \in Polls, FindDevice(t) \/ LockDevice(t) \/ RateLimited(t)
    PROVE  OtaInv'
<1>1. CASE FindDevice(t)
  <2> DEFINE r == [step |-> "lock", row |-> device]
  <2>1. r \in Arrivals /\ Established(r) /\ r.step \notin Holding
    BY DEF OtaInv, TypeOK, Arrivals, Established, Early, Holding
  <2>2. lock # t
    BY <1>1 DEF FindDevice, OtaInv, LockHeld, NoPoll, Holding, Early
  <2>3. poll' = [poll EXCEPT ![t] = r] /\ Locked
    BY <1>1 DEF FindDevice
  <2> HIDE DEF r
  <2>4. QED
    BY <2>1, <2>2, <2>3, PollStep DEF Locked
<1>2. CASE LockDevice(t)
  <2> DEFINE r == [poll[t] EXCEPT !.step = "admit"]
  <2>1. poll[t] \in Arrivals
    BY <1>2, PollFacts DEF LockDevice, OtaInv
  <2>2. r \in Arrivals /\ r.step = "admit"
    BY <2>1 DEF Arrivals
  <2>3. poll' = [poll EXCEPT ![t] = r]
    BY <1>2 DEF LockDevice, Advance, OtaInv, TypeOK
  <2> HIDE DEF r
  <2>4. Established(r) /\ r.step \in Holding
    BY <2>2 DEF Established, Early, Holding
  <2>5. lock = Nobody /\ lock' = t
        /\ history' = [allowed |-> Allowed, deliverable |-> Deliverable]
        /\ UNCHANGED <<device, catalog, inEffect, offers, served, edit>>
    BY <1>2 DEF LockDevice
  <2>6. \A u \in Polls : poll'[u] = IF u = t THEN r ELSE poll[u]
    BY <2>3 DEF OtaInv, TypeOK
  <2>7. Allowed' = Allowed /\ Deliverable' = Deliverable
        /\ Allowed \subseteq Versions /\ Deliverable \subseteq Versions
    BY <2>5 DEF Allowed, AllowedBy, Deliverable, Resolution
  <2>8. TypeOK'
    BY <2>2, <2>3, <2>5, <2>7 DEF OtaInv, TypeOK
  <2>9. LockHeld'
    BY <2>4, <2>5, <2>6, NobodyAssumption DEF OtaInv, LockHeld
  <2>10. \A u \in Polls : poll[u].step \notin Holding
    BY <2>5, NobodyAssumption DEF OtaInv, LockHeld
  <2>11. \A u \in Polls : Established(poll[u])'
    <3>1. poll'[t].step = "admit"
      BY <2>2, <2>6
    <3>2. Established(poll[t])'
      BY <3>1 DEF Established, Early
    <3>3. ASSUME NEW u \in Polls, u # t PROVE Established(poll[u])'
      BY <2>6, <2>10, <3>3 DEF OtaInv, Established, Holding, Early
    <3>4. QED
      BY <3>2, <3>3
  <2>12. HistoryCovers'
    BY <2>5, <2>7 DEF HistoryCovers
  <2>13. OneOffer' /\ OffersNewer'
    BY <2>5 DEF OtaInv, OneOffer, OffersNewer
  <2>14. QED
    BY <2>8, <2>9, <2>11, <2>12, <2>13 DEF OtaInv
<1>3. CASE RateLimited(t)
  <2> DEFINE r == Admitted("commit", None, NoWrites)
  <2>1. poll[t] \in Arrivals /\ lock = t
    BY <1>3, PollFacts DEF RateLimited, OtaInv, LockHeld, Holding
  <2>2. r \in Requests /\ r.step = "commit" /\ r.gives = "nothing"
    BY <2>1, NoWritesType DEF Admitted, Requests, MaybeVersion, Arrivals
  <2>3. poll' = [poll EXCEPT ![t] = r] /\ Locked
    BY <1>3 DEF RateLimited
  <2> HIDE DEF r
  <2>4. Established(r) /\ r.step \in Holding
    BY <2>2 DEF Established, Early, Holding
  <2>5. QED
    BY <2>1, <2>2, <2>3, <2>4, PollStep DEF Locked
<1>4. QED
  BY <1>1, <1>2, <1>3

\* A request at an early step holds the lock and has nothing to give yet.
LEMMA EarlyFacts ==
    ASSUME OtaInv, NEW t \in Polls, poll[t].step \in Early
    PROVE  /\ poll[t] \in Requests /\ lock = t /\ poll[t].gives = "nothing"
           /\ poll[t].known \in MaybeVersion /\ poll[t].version \in MaybeVersion
           /\ Established(poll[t])
           /\ poll \in [Polls -> Arrivals \cup Requests \cup {NoPoll}]
<1>1. poll[t] \in Requests /\ lock = t /\ Established(poll[t])
  BY PollFacts DEF OtaInv, LockHeld, Holding
<1>2. QED
  BY <1>1 DEF Established, Requests, OtaInv, TypeOK

LEMMA AdmitManifestStep ==
    ASSUME OtaInv, NEW t \in Polls, AdmitManifest(t)
    PROVE  OtaInv'
<1>1. poll[t] \in Arrivals /\ lock = t /\ poll[t].row \in Rows
  BY PollFacts DEF AdmitManifest, OtaInv, LockHeld, Holding, Arrivals
<1>2. PICK v \in MaybeVersion, ownPath \in BOOLEAN :
         LET new == Reported(poll[t].row, v)
             eligible == CheckEligibility(new, ownPath) = "ELIGIBLE" IN
         poll' = [poll EXCEPT ![t] =
             Admitted(IF eligible THEN "policy" ELSE "commit", new.known,
                      Dirty(poll[t].row, new))]
  BY DEF AdmitManifest
<1> DEFINE new == Reported(poll[t].row, v)
           step == IF CheckEligibility(new, ownPath) = "ELIGIBLE" THEN "policy" ELSE "commit"
           r == Admitted(step, new.known, Dirty(poll[t].row, new))
<1>3. new \in Rows /\ Dirty(poll[t].row, new) \in Updates /\ new.known \in MaybeVersion
  BY <1>1, ReportedType, DirtyType DEF Rows
<1>4. poll' = [poll EXCEPT ![t] = r] /\ step \in {"policy", "commit"}
  BY <1>2
<1>5. r \in Requests /\ r.step = step /\ r.gives = "nothing"
  <2> HIDE DEF new, step
  <2> QED
    BY <1>3, <1>4 DEF Admitted, Requests, MaybeVersion
<1> HIDE DEF r, step
<1>6. Established(r) /\ r.step \in Holding
  BY <1>4, <1>5 DEF Established, Holding, Early
<1>7. QED
  BY <1>1, <1>4, <1>5, <1>6, PollStep DEF AdmitManifest, Locked

\* The policy that governs now leaves only versions that are allowed now.
LEMMA GovernManifestStep ==
    ASSUME OtaInv, NEW t \in Polls, GovernManifest(t)
    PROVE  OtaInv'
<1>1. CASE Decline(t)
  BY <1>1, DeclineStep DEF GovernManifest, Early
<1>2. CASE /\ PolicyGate(Resolution) = "GOVERNED"
           /\ poll' = [poll EXCEPT ![t].step = "releases", ![t].policy = Resolution.policy]
  <2> DEFINE policy == Resolution.policy
             r == [poll[t] EXCEPT !.step = "releases", !.policy = policy]
  <2>1. poll[t] \in Requests /\ lock = t /\ poll[t].gives = "nothing"
    BY EarlyFacts DEF GovernManifest, Early
  <2>2. ~Resolution.conflict /\ inEffect \subseteq PolicySet
    BY <1>2 DEF PolicyGate, OtaInv, TypeOK
  <2>3. policy \in PolicySet \cup {NoPolicy}
    BY <2>2, ResolutionType
  <2>4. policy.type \in PolicyTypes \/ policy = NoPolicy
    BY <2>3, PolicySetAssumption DEF PoliciesInEffect
  <2>5. ASSUME NEW published \in SUBSET Versions, NEW v \in Narrow(published, policy)
        PROVE  v \in history.allowed
    <3>1. v \in Versions /\ AllowsDelivery(Resolution, v)
      BY <2>2, <2>4, <2>5, NarrowIsDelivered
    <3>2. QED
      BY <3>1 DEF Allowed, AllowedBy, Resolution, OtaInv, HistoryCovers
  <2>6. poll' = [poll EXCEPT ![t] = r]
    BY <1>2 DEF OtaInv, TypeOK
  <2> HIDE DEF policy
  <2>7. r \in Requests /\ r.step = "releases" /\ r.gives = "nothing" /\ r.policy = policy
    <3>1. r \in Requests
      BY <2>1, <2>3, RequestEdits DEF Steps, Early
    <3>2. QED
      BY <2>1, <3>1 DEF Requests
  <2> HIDE DEF r
  <2>8. Established(r) /\ r.step \in Holding
    BY <2>5, <2>7 DEF Established, Holding, Early
  <2>9. QED
    BY <2>1, <2>6, <2>7, <2>8, PollStep DEF GovernManifest, Locked
<1>3. QED
  BY <1>1, <1>2 DEF GovernManifest

LEMMA SelectReleaseStep ==
    ASSUME OtaInv, NEW t \in Polls, SelectRelease(t)
    PROVE  OtaInv'
<1> DEFINE decision == ChooseRelease(Published, poll[t].policy, poll[t].known)
           version == IF decision.available THEN decision.release ELSE None
           step == IF decision.available THEN "read" ELSE "commit"
           r == [poll[t] EXCEPT !.policy = NoPolicy, !.version = version, !.step = step]
<1>1. /\ poll[t] \in Requests /\ lock = t /\ poll[t].gives = "nothing"
      /\ poll[t].known \in MaybeVersion /\ poll[t].step = "releases"
      /\ Narrow(Published, poll[t].policy) \subseteq history.allowed
  BY EarlyFacts DEF SelectRelease, Early, Established, Published
<1>2. /\ Published \subseteq Versions
      /\ Published \subseteq history.deliverable
  BY DEF Published, Deliverable, OtaInv, HistoryCovers
<1>3. /\ decision.available \in BOOLEAN
      /\ decision.available => Entitled(decision.release) /\ poll[t].known < decision.release
                               /\ decision.release \in Versions
  <2> HIDE DEF decision
  <2> QED
    BY <1>1, <1>2, ChooseReleaseFacts DEF decision, Entitled
<1>4. poll' = [poll EXCEPT ![t] = r]
  BY DEF SelectRelease, OtaInv, TypeOK
<1> HIDE DEF decision
<1>5. version \in MaybeVersion /\ step \in {"read", "commit"}
  BY <1>3 DEF MaybeVersion
<1>6. step = "read" => Entitled(version) /\ poll[t].known < version
  BY <1>3
<1> HIDE DEF version, step
<1>7. /\ r \in Requests /\ r.step = step /\ r.gives = "nothing" /\ r.version = version
      /\ r.known = poll[t].known
  <2>1. r \in Requests
    BY <1>1, <1>5, RequestEdits DEF Steps, Early
  <2>2. QED
    BY <1>1, <2>1 DEF Requests
<1> HIDE DEF r
<1>8. Established(r) /\ r.step \in Holding
  BY <1>5, <1>6, <1>7 DEF Established, Holding, Early
<1>9. QED
  BY <1>1, <1>4, <1>7, <1>8, PollStep DEF SelectRelease, Locked

LEMMA OfferStep ==
    ASSUME OtaInv, NEW t \in Polls, ReadManifest(t) \/ RecordOffer(t)
    PROVE  OtaInv'
<1>1. poll[t].step \in {"read", "offer"} /\ Locked
  BY DEF ReadManifest, RecordOffer
<1>2. CASE Decline(t)
  BY <1>1, <1>2, DeclineStep DEF Early
<1>3. /\ poll[t] \in Requests /\ lock = t /\ poll[t].gives = "nothing"
      /\ Entitled(poll[t].version) /\ poll[t].known < poll[t].version
  BY <1>1, EarlyFacts DEF Early, Established
<1>4. CASE ReadManifest(t) /\ Advance(t, "offer")
  <2> DEFINE r == [poll[t] EXCEPT !.step = "offer"]
  <2>1. /\ r \in Requests /\ r.step = "offer" /\ r.gives = "nothing"
        /\ r.version = poll[t].version /\ r.known = poll[t].known
    <3>1. r \in Requests
      BY <1>3, RequestEdits DEF Steps, Early
    <3>2. QED
      BY <1>3, <3>1 DEF Requests
  <2>2. poll' = [poll EXCEPT ![t] = r]
    BY <1>4 DEF Advance, OtaInv, TypeOK
  <2> HIDE DEF r
  <2>3. Established(r) /\ r.step \in Holding
    BY <1>3, <2>1 DEF Established, Holding, Early
  <2>4. QED
    BY <1>1, <1>3, <2>1, <2>2, <2>3, PollStep DEF Locked
<1>5. CASE RecordOffer(t) /\ Give(t, "offer") /\ offers[poll[t].version] = <<>>
  <2> DEFINE r == [poll[t] EXCEPT !.step = "commit", !.gives = "offer"]
  <2>1. /\ r \in Requests /\ r.step = "commit" /\ r.gives = "offer"
        /\ r.version = poll[t].version /\ r.known = poll[t].known
    <3>1. r \in Requests
      BY <1>3, RequestEdits DEF Steps, Early
    <3>2. QED
      BY <1>3, <3>1 DEF Requests
  <2>2. poll' = [poll EXCEPT ![t] = r]
    BY <1>5 DEF Give, OtaInv, TypeOK
  <2> HIDE DEF r
  <2>3. Established(r) /\ r.step \in Holding
    BY <1>3, <1>5, <2>1 DEF Established, Holding, Early
  <2>4. QED
    BY <1>1, <1>3, <2>1, <2>2, <2>3, PollStep DEF Locked
<1>6. QED
  BY <1>2, <1>4, <1>5 DEF ReadManifest, RecordOffer

LEMMA AdmitFirmwareStep ==
    ASSUME OtaInv, NEW t \in Polls, AdmitFirmware(t)
    PROVE  OtaInv'
<1>1. poll[t] \in Arrivals /\ lock = t /\ poll[t].row \in Rows
  BY PollFacts DEF AdmitFirmware, OtaInv, LockHeld, Holding, Arrivals
<1>2. PICK step \in {"resolve", "commit"} :
         poll' = [poll EXCEPT ![t] = Admitted(step, None, NoWrites)]
  BY DEF AdmitFirmware
<1> DEFINE r == Admitted(step, None, NoWrites)
<1>3. r \in Requests /\ r.step = step /\ r.gives = "nothing"
  BY <1>1, NoWritesType DEF Admitted, Requests, MaybeVersion
<1>4. poll' = [poll EXCEPT ![t] = r]
  BY <1>2
<1> HIDE DEF r
<1>5. Established(r) /\ r.step \in Holding
  BY <1>3 DEF Established, Holding, Early
<1>6. QED
  BY <1>1, <1>3, <1>4, <1>5, PollStep DEF AdmitFirmware, Locked

LEMMA ResolveReleaseStep ==
    ASSUME OtaInv, NEW t \in Polls, ResolveRelease(t)
    PROVE  OtaInv'
<1>1. CASE Decline(t)
  BY <1>1, DeclineStep DEF ResolveRelease, Early
<1>2. CASE \E v \in Deliverable :
              poll' = [poll EXCEPT ![t].step = "deliver", ![t].version = v]
  <2>1. PICK v \in Deliverable :
           poll' = [poll EXCEPT ![t].step = "deliver", ![t].version = v]
    BY <1>2
  <2> DEFINE r == [poll[t] EXCEPT !.step = "deliver", !.version = v]
  <2>2. poll[t] \in Requests /\ lock = t /\ poll[t].gives = "nothing"
    BY EarlyFacts DEF ResolveRelease, Early
  <2>3. v \in MaybeVersion /\ v \in history.deliverable
    BY DEF Deliverable, MaybeVersion, OtaInv, HistoryCovers
  <2>4. r \in Requests
    BY <2>2, <2>3, RequestEdits DEF Steps, Early
  <2>5. r.step = "deliver" /\ r.gives = "nothing" /\ r.version = v
    BY <2>2 DEF Requests
  <2>6. poll' = [poll EXCEPT ![t] = r]
    BY <2>1 DEF OtaInv, TypeOK
  <2> HIDE DEF r
  <2>7. Established(r) /\ r.step \in Holding
    BY <2>3, <2>5 DEF Established, Holding, Early
  <2>8. QED
    BY <2>2, <2>4, <2>6, <2>7, PollStep DEF ResolveRelease, Locked
<1>3. QED
  BY <1>1, <1>2 DEF ResolveRelease

LEMMA DeliveryStep ==
    ASSUME OtaInv, NEW t \in Polls, CheckDelivery(t) \/ OpenStream(t)
    PROVE  OtaInv'
<1>1. poll[t].step \in {"deliver", "open"} /\ Locked
  BY DEF CheckDelivery, OpenStream
<1>2. CASE Decline(t)
  BY <1>1, <1>2, DeclineStep DEF Early
<1>3. /\ poll[t] \in Requests /\ lock = t /\ poll[t].gives = "nothing"
      /\ poll[t].version \in MaybeVersion /\ Established(poll[t])
  BY <1>1, EarlyFacts DEF Early
<1>4. CASE CheckDelivery(t) /\ AllowsDelivery(Resolution, poll[t].version) /\ Advance(t, "open")
  <2> DEFINE r == [poll[t] EXCEPT !.step = "open"]
  <2>1. poll[t].version \in history.deliverable
    BY <1>3, <1>4 DEF CheckDelivery, Established
  <2>2. poll[t].version \in Versions
    BY <2>1 DEF OtaInv, TypeOK
  <2>3. Entitled(poll[t].version)
    BY <1>4, <2>1, <2>2 DEF Allowed, AllowedBy, Resolution, OtaInv, HistoryCovers, Entitled
  <2>4. r \in Requests
    BY <1>3, RequestEdits DEF Steps, Early
  <2>5. r.step = "open" /\ r.gives = "nothing" /\ r.version = poll[t].version
    BY <1>3 DEF Requests
  <2>6. poll' = [poll EXCEPT ![t] = r]
    BY <1>4 DEF Advance, OtaInv, TypeOK
  <2> HIDE DEF r
  <2>7. Established(r) /\ r.step \in Holding
    BY <2>3, <2>5 DEF Established, Holding, Early
  <2>8. QED
    BY <1>1, <1>3, <2>4, <2>6, <2>7, PollStep DEF Locked
<1>5. CASE OpenStream(t) /\ Give(t, "bytes")
  <2> DEFINE r == [poll[t] EXCEPT !.step = "commit", !.gives = "bytes"]
  <2>1. Entitled(poll[t].version)
    BY <1>3, <1>5 DEF OpenStream, Established
  <2>2. r \in Requests
    BY <1>3, RequestEdits DEF Steps, Early
  <2>3. r.step = "commit" /\ r.gives = "bytes" /\ r.version = poll[t].version
    BY <1>3 DEF Requests
  <2>4. poll' = [poll EXCEPT ![t] = r]
    BY <1>5 DEF Give, OtaInv, TypeOK
  <2> HIDE DEF r
  <2>5. Established(r) /\ r.step \in Holding
    BY <2>1, <2>3 DEF Established, Holding, Early
  <2>6. QED
    BY <1>1, <1>3, <2>2, <2>4, <2>5, PollStep DEF Locked
<1>6. QED
  BY <1>2, <1>4, <1>5 DEF CheckDelivery, OpenStream

-----------------------------------------------------------------------------
(***************************************************************************)
(* Commits, streams and restarts.                                          *)
(***************************************************************************)

\* What CommitPoll leaves of the request, and what it does to the offers.
LEMMA CommitPollStep ==
    ASSUME OtaInv, NEW t \in Polls, CommitPoll(t)
    PROVE  OtaInv'
<1> DEFINE r == poll[t]
<1> USE DEF OtaInv
<1>1. r \in Requests /\ lock = t /\ Established(r) /\ r.step = "commit"
  BY PollFacts DEF CommitPoll, LockHeld, Holding
<1>2. r.known \in MaybeVersion /\ r.writes \in Updates
  BY <1>1 DEF Requests
<1>3. PICK n \in Requests \cup {NoPoll} :
         /\ poll' = [poll EXCEPT ![t] = n]
         /\ n.step \in {"idle", "stream"}
         /\ n.step = "stream" => n.version \in Versions
  <2>1. CASE r.gives = "bytes"
    <3> DEFINE n == [r EXCEPT !.step = "stream"]
    <3>1. n \in Requests
      BY <1>1, RequestEdits DEF Steps
    <3>2. n.step = "stream" /\ n.version = r.version
      BY <1>1 DEF Requests
    <3>3. r.version \in Versions
      BY <1>1, <2>1 DEF Established, Entitled, TypeOK
    <3>4. poll' = [poll EXCEPT ![t] = n]
      BY <2>1 DEF CommitPoll, Advance, TypeOK
    <3>5. QED
      BY <3>1, <3>2, <3>3, <3>4
  <2>2. CASE r.gives # "bytes"
    BY <2>2 DEF CommitPoll, EndPoll, NoPoll
  <2>3. QED
    BY <2>1, <2>2
<1>4. \A u \in Polls : poll'[u] = IF u = t THEN n ELSE poll[u]
  BY <1>3 DEF TypeOK
<1>5. \A u \in Polls : u # t => poll[u].step \notin Holding
  BY <1>1, NobodyAssumption DEF LockHeld
<1>6. lock' = Nobody /\ device' \in Rows
  BY <1>2, UpdateType DEF CommitPoll, TypeOK
<1>7. /\ offers' \in [Versions -> Seq(MaybeVersion)]
      /\ \A v \in Versions :
            \/ offers'[v] = offers[v]
            \/ /\ Entitled(v) /\ r.known < v
               /\ offers[v] = <<>> /\ offers'[v] = <<r.known>>
  <2>1. CASE r.gives = "offer"
    <3>1. Entitled(r.version) /\ r.known < r.version /\ offers[r.version] = <<>>
      BY <1>1, <2>1 DEF Established
    <3>2. r.version \in Versions
      BY <3>1 DEF Entitled, TypeOK
    <3>3. offers' = [offers EXCEPT ![r.version] = Append(<<>>, r.known)]
      BY <2>1, <3>1, <3>2 DEF CommitPoll, TypeOK
    <3>4. Append(<<>>, r.known) = <<r.known>> /\ <<r.known>> \in Seq(MaybeVersion)
      BY <1>2
    <3>5. QED
      BY <3>1, <3>2, <3>3, <3>4 DEF TypeOK
  <2>2. CASE r.gives # "offer"
    BY <2>2 DEF CommitPoll, TypeOK
  <2>3. QED
    BY <2>1, <2>2
<1>8. TypeOK'
  BY <1>3, <1>6, <1>7 DEF CommitPoll, TypeOK, world
<1>9. LockHeld'
  BY <1>3, <1>4, <1>5, <1>6, NobodyAssumption DEF LockHeld, Holding, Early
<1>10. \A u \in Polls : Established(poll[u])'
  BY <1>3, <1>4, <1>5 DEF CommitPoll, Established, Entitled, Holding, Early, world
<1>11. HistoryCovers'
  BY DEF CommitPoll, HistoryCovers, Allowed, AllowedBy, Deliverable, Resolution, world
<1>12. ASSUME NEW v \in Versions
       PROVE  (Len(offers[v]) <= 1)' /\ (\A i \in DOMAIN offers[v] : offers[v][i] < v)'
  <2>1. CASE offers'[v] = offers[v]
    BY <2>1 DEF OneOffer, OffersNewer
  <2>2. CASE offers'[v] = <<r.known>> /\ r.known < v
    <3>1. Len(<<r.known>>) = 1 /\ DOMAIN <<r.known>> = {1} /\ <<r.known>>[1] = r.known
      OBVIOUS
    <3>2. QED
      BY <2>2, <3>1
  <2>3. QED
    BY <1>7, <2>1, <2>2
<1>13. QED
  BY <1>8, <1>9, <1>10, <1>11, <1>12 DEF OneOffer, OffersNewer

\* A step that ends requests and changes nothing else but the lock and served.
LEMMA EndStep ==
    ASSUME OtaInv, NEW t \in Polls, RefuseCommit(t) \/ EndStream(t) \/ RecordDownload(t)
    PROVE  OtaInv'
<1> USE DEF OtaInv
<1>1. ASSUME EndPoll(t) PROVE poll' = [poll EXCEPT ![t] = NoPoll]
  BY <1>1 DEF EndPoll
<1>2. Established(NoPoll) /\ NoPoll.step \notin Holding
  BY DEF Established, NoPoll, Early, Holding
<1>3. CASE RefuseCommit(t)
  <2>1. lock = t
    BY <1>3 DEF RefuseCommit, LockHeld, Holding
  <2>2. QED
    BY <1>1, <1>2, <1>3, <2>1, NobodyAssumption, PollStep DEF RefuseCommit
<1>4. CASE EndStream(t)
  <2>1. /\ poll[t] \in Requests /\ Established(poll[t]) /\ lock # t
        /\ poll[t].step = "stream" /\ Locked
    BY <1>4, PollFacts DEF EndStream, LockHeld, Holding, Early
  <2>2. CASE EndPoll(t)
    BY <1>1, <1>2, <2>1, <2>2, PollStep DEF Locked
  <2>3. CASE Advance(t, "record")
    <3> DEFINE r == [poll[t] EXCEPT !.step = "record"]
    <3>1. r \in Requests
      BY <2>1, RequestEdits DEF Steps
    <3>2. r.step = "record" /\ r.version = poll[t].version
      BY <2>1 DEF Requests
    <3>3. poll' = [poll EXCEPT ![t] = r]
      BY <2>3 DEF Advance, TypeOK
    <3> HIDE DEF r
    <3>4. Established(r) /\ r.step \notin Holding
      BY <2>1, <3>2 DEF Established, Holding, Early
    <3>5. QED
      BY <2>1, <3>1, <3>3, <3>4, PollStep DEF Locked
  <2>4. QED
    BY <1>4, <2>2, <2>3 DEF EndStream
<1>5. CASE RecordDownload(t)
  <2>1. poll[t].version \in Versions /\ poll[t].step \notin Holding
    BY <1>5 DEF RecordDownload, Established, Holding, Early
  <2>2. /\ UNCHANGED <<device, lock, offers, edit, world>>
        /\ served' \subseteq served \cup {poll[t].version}
        /\ poll' = [poll EXCEPT ![t] = NoPoll]
    BY <1>1, <1>5 DEF RecordDownload
  <2>3. \A u \in Polls : poll'[u] = IF u = t THEN NoPoll ELSE poll[u]
    BY <2>2 DEF TypeOK
  <2>4. TypeOK'
    BY <2>1, <2>2 DEF TypeOK, world
  <2>5. LockHeld'
    BY <1>2, <2>1, <2>2, <2>3 DEF LockHeld
  <2>6. \A u \in Polls : Established(poll[u])'
    BY <1>2, <2>2, <2>3 DEF Established, Entitled, world, NoPoll
  <2>7. HistoryCovers'
    BY <2>2 DEF HistoryCovers, Allowed, AllowedBy, Deliverable, Resolution, world
  <2>8. OneOffer' /\ OffersNewer'
    BY <2>1, <2>2 DEF OneOffer, OffersNewer
  <2>9. QED
    BY <2>4, <2>5, <2>6, <2>7, <2>8
<1>6. QED
  BY <1>3, <1>4, <1>5

LEMMA RestartStep == OtaInv /\ Restart => OtaInv'
<1> SUFFICES ASSUME OtaInv, Restart PROVE OtaInv'
  OBVIOUS
<1> USE DEF OtaInv, Restart
<1>1. \A u \in Polls : poll'[u] = NoPoll
  OBVIOUS
<1>2. TypeOK'
  BY DEF TypeOK, world
<1>3. LockHeld'
  BY <1>1, NobodyAssumption DEF LockHeld, NoPoll, Holding, Early
<1>4. \A u \in Polls : Established(poll[u])'
  BY <1>1 DEF Established, NoPoll, Early
<1>5. HistoryCovers'
  BY DEF HistoryCovers, Allowed, AllowedBy, Deliverable, Resolution, world
<1>6. OneOffer' /\ OffersNewer'
  BY DEF OneOffer, OffersNewer
<1>7. QED
  BY <1>2, <1>3, <1>4, <1>5, <1>6

-----------------------------------------------------------------------------
(***************************************************************************)
(* Administrators.                                                         *)
(***************************************************************************)

\* Edits of the device leave requests, offers and history alone.
LEMMA EditFrame ==
    ASSUME OtaInv, device' \in Rows, edit' \in [Editors -> Edits \cup {NoEdit}],
           UNCHANGED <<lock, offers, served, poll, world>>
    PROVE  OtaInv'
<1> USE DEF OtaInv
<1>1. TypeOK'
  BY DEF TypeOK, world
<1>2. LockHeld' /\ \A t \in Polls : Established(poll[t])'
  BY DEF LockHeld, Established, Entitled, world
<1>3. HistoryCovers'
  BY DEF HistoryCovers, Allowed, AllowedBy, Deliverable, Resolution, world
<1>4. OneOffer' /\ OffersNewer'
  BY DEF OneOffer, OffersNewer
<1>5. QED
  BY <1>1, <1>2, <1>3, <1>4

LEMMA EditStep ==
    ASSUME OtaInv, NEW e \in Editors,
           SetStatus(e) \/ SetOtaEnabled(e) \/ SetKnownVersion(e) \/ CommitEdit(e)
    PROVE  OtaInv'
<1>1. /\ device \in Rows
      /\ edit \in [Editors -> Edits \cup {NoEdit}]
  BY DEF OtaInv, TypeOK
<1>2. ASSUME NEW kind, NEW new \in Rows, BeginEdit(e, kind, new) PROVE OtaInv'
  <2>1. [step |-> "write", writes |-> Dirty(device, new)] \in Edits
    BY <1>1, DirtyType DEF Edits
  <2>2. QED
    BY <1>1, <1>2, <2>1, EditFrame DEF BeginEdit
<1>3. CASE SetStatus(e)
  <2>1. PICK s \in Transitions[device.status] \cup {device.status} :
           BeginEdit(e, "status",
               [device EXCEPT !.status = s, !.otaEnabled = IF s = "RETIRED" THEN FALSE ELSE @])
    BY <1>3 DEF SetStatus
  <2>2. s \in Statuses
    BY <1>1 DEF Rows, Statuses, Transitions
  <2>3. [device EXCEPT !.status = s, !.otaEnabled = IF s = "RETIRED" THEN FALSE ELSE @] \in Rows
    BY <1>1, <2>2 DEF Rows
  <2>4. QED
    BY <1>2, <2>1, <2>3
<1>4. CASE SetOtaEnabled(e)
  <2>1. \A b \in BOOLEAN : [device EXCEPT !.otaEnabled = b] \in Rows
    BY <1>1 DEF Rows
  <2>2. QED
    BY <1>2, <1>4, <2>1 DEF SetOtaEnabled
<1>5. CASE SetKnownVersion(e)
  <2>1. \A v \in MaybeVersion :
           [device EXCEPT !.known = v,
                          !.source = IF v = None THEN "NULL" ELSE "ADMIN_ASSERTED"] \in Rows
    BY <1>1 DEF Rows, Sources
  <2>2. QED
    BY <1>2, <1>5, <2>1 DEF SetKnownVersion
<1>6. CASE CommitEdit(e)
  <2>1. edit[e].writes \in Updates
    BY <1>1, <1>6 DEF CommitEdit, Edits, NoEdit
  <2>2. device' \in Rows
    BY <1>1, <1>6, <2>1, UpdateType DEF CommitEdit
  <2>3. QED
    BY <1>1, <1>6, <2>2, EditFrame DEF CommitEdit
<1>7. QED
  BY <1>3, <1>4, <1>5, <1>6

\* Releases and policies change, and with them what was ever entitled.
LEMMA WorldStep == OtaInv /\ (ChangeRelease \/ ChangePolicies) => OtaInv'
<1> SUFFICES ASSUME OtaInv, ChangeRelease \/ ChangePolicies PROVE OtaInv'
  OBVIOUS
<1> USE DEF OtaInv
<1>1. UNCHANGED <<device, lock, offers, served, poll, edit>>
  BY DEF ChangeRelease, ChangePolicies
<1>2. /\ catalog' \in [Versions -> {"withheld", "PUBLISHED", "DEPRECATED"}]
      /\ inEffect' \subseteq PolicySet
  BY DEF ChangeRelease, ChangePolicies, TypeOK
<1>3. Allowed' \subseteq Versions /\ Deliverable' \subseteq Versions
  BY DEF Allowed, AllowedBy, Resolution, Deliverable
<1>4. /\ history' \in [allowed: SUBSET Versions, deliverable: SUBSET Versions]
      /\ history.allowed \subseteq history'.allowed
      /\ history.deliverable \subseteq history'.deliverable
      /\ Allowed' \subseteq history'.allowed
      /\ Deliverable' \subseteq history'.deliverable
  <2>1. CASE ChangeRelease
    <3>1. history' = [history EXCEPT !.deliverable = @ \cup Deliverable']
      BY <2>1 DEF ChangeRelease
    <3>2. Allowed' = Allowed
      BY <2>1 DEF ChangeRelease, Allowed, AllowedBy, Resolution
    <3>3. QED
      BY <1>3, <3>1, <3>2 DEF TypeOK, HistoryCovers
  <2>2. CASE ChangePolicies
    <3>1. history' = [history EXCEPT !.allowed = @ \cup Allowed']
      BY <2>2 DEF ChangePolicies, Allowed
    <3>2. Deliverable' = Deliverable
      BY <2>2 DEF ChangePolicies, Deliverable
    <3>3. QED
      BY <1>3, <3>1, <3>2 DEF TypeOK, HistoryCovers
  <2>3. QED
    BY <2>1, <2>2
<1>5. TypeOK'
  BY <1>1, <1>2, <1>4 DEF TypeOK
<1>6. LockHeld' /\ HistoryCovers'
  BY <1>1, <1>4 DEF LockHeld, HistoryCovers
<1>7. \A t \in Polls : Established(poll[t])'
  BY <1>1, <1>4 DEF Established, Entitled
<1>8. OneOffer' /\ OffersNewer'
  BY <1>1, <1>4 DEF OneOffer, OffersNewer
<1>9. QED
  BY <1>5, <1>6, <1>7, <1>8

LEMMA OtaStep == OtaInv /\ [Next]_vars => OtaInv'
<1> SUFFICES ASSUME OtaInv, [Next]_vars PROVE OtaInv'
  OBVIOUS
<1>1. ASSUME NEW t \in Polls,
             FindDevice(t) \/ LockDevice(t) \/ Serve(t) \/ EndStream(t) \/ RecordDownload(t)
      PROVE  OtaInv'
  <2>1. CASE FindDevice(t) \/ LockDevice(t) \/ RateLimited(t)
    BY <2>1, ArriveStep
  <2>2. CASE AdmitManifest(t)
    BY <2>2, AdmitManifestStep
  <2>3. CASE GovernManifest(t)
    BY <2>3, GovernManifestStep
  <2>4. CASE SelectRelease(t)
    BY <2>4, SelectReleaseStep
  <2>5. CASE ReadManifest(t) \/ RecordOffer(t)
    BY <2>5, OfferStep
  <2>6. CASE AdmitFirmware(t)
    BY <2>6, AdmitFirmwareStep
  <2>7. CASE ResolveRelease(t)
    BY <2>7, ResolveReleaseStep
  <2>8. CASE CheckDelivery(t) \/ OpenStream(t)
    BY <2>8, DeliveryStep
  <2>9. CASE CommitPoll(t)
    BY <2>9, CommitPollStep
  <2>10. CASE RefuseCommit(t) \/ EndStream(t) \/ RecordDownload(t)
    BY <2>10, EndStep
  <2>11. QED
    BY <1>1, <2>1, <2>2, <2>3, <2>4, <2>5, <2>6, <2>7, <2>8, <2>9, <2>10 DEF Serve
<1>2. CASE Restart
  BY <1>2, RestartStep
<1>3. ASSUME NEW e \in Editors,
             SetStatus(e) \/ SetOtaEnabled(e) \/ SetKnownVersion(e) \/ CommitEdit(e)
      PROVE  OtaInv'
  BY <1>3, EditStep
<1>4. CASE ChangeRelease \/ ChangePolicies
  BY <1>4, WorldStep
<1>5. CASE UNCHANGED vars
  <2>1. device' \in Rows /\ edit' \in [Editors -> Edits \cup {NoEdit}]
    BY <1>5 DEF OtaInv, TypeOK, vars
  <2>2. QED
    BY <1>5, <2>1, EditFrame DEF vars, world
<1>6. QED
  BY <1>1, <1>2, <1>3, <1>4, <1>5 DEF Next

LEMMA OtaInvariant == Spec => []OtaInv
<1>1. QED
  BY InitInv, OtaStep, PTL DEF Spec

\* The device, its requests and the edits stay of their types.
THEOREM OtaTypeCorrect == Spec => []TypeOK
<1>1. OtaInv => TypeOK
  BY DEF OtaInv
<1>2. QED
  BY <1>1, OtaInvariant, PTL

\* _record_offer: one offer per version, for any number of requests of the
\* device, whatever fails.
THEOREM OneOfferPerVersion == Spec => []OneOffer
<1>1. OtaInv => OneOffer
  BY DEF OtaInv
<1>2. QED
  BY <1>1, OtaInvariant, PTL

\* No downgrade is ever offered, whoever reports or asserts what meanwhile.
THEOREM NoDowngradeOffered == Spec => []OffersNewer
<1>1. OtaInv => OffersNewer
  BY DEF OtaInv
<1>2. QED
  BY <1>1, OtaInvariant, PTL

\* A download is granted by the commit of its request.
LEMMA CommitGrants ==
    ASSUME TypeOK, [Next]_vars, NEW u \in Polls,
           poll[u].step # "stream", poll'[u].step = "stream"
    PROVE  CommitPoll(u)
<1>1. ASSUME NEW t \in Polls,
             FindDevice(t) \/ RateLimited(t) \/ AdmitManifest(t) \/ AdmitFirmware(t)
      PROVE  FALSE
  BY <1>1 DEF FindDevice, RateLimited, AdmitManifest, AdmitFirmware, Admitted, TypeOK
<1>2. ASSUME NEW t \in Polls, LockDevice(t)
      PROVE  FALSE
  <2>1. poll[t] \in Arrivals /\ poll' = [poll EXCEPT ![t].step = "admit"]
    BY <1>2, PollFacts DEF LockDevice, Advance
  <2>2. QED
    BY <2>1 DEF TypeOK, Arrivals
<1>3. ASSUME NEW t \in Polls, GovernManifest(t) \/ SelectRelease(t) \/ ReadManifest(t)
             \/ RecordOffer(t) \/ ResolveRelease(t) \/ CheckDelivery(t) \/ OpenStream(t)
             \/ EndStream(t)
      PROVE  FALSE
  <2>1. poll[t] \in Requests
    BY <1>3, PollFacts DEF GovernManifest, SelectRelease, ReadManifest, RecordOffer,
       ResolveRelease, CheckDelivery, OpenStream, EndStream, Early
  <2>2. /\ \A w \in Polls : w # t => poll'[w] = poll[w]
        /\ poll'[t].step # "stream"
    <3>1. CASE GovernManifest(t) \/ SelectRelease(t)
      BY <2>1, <3>1 DEF GovernManifest, SelectRelease, Decline, Requests, TypeOK
    <3>2. CASE ReadManifest(t) \/ RecordOffer(t) \/ OpenStream(t) \/ CheckDelivery(t)
      BY <2>1, <3>2 DEF ReadManifest, RecordOffer, OpenStream, CheckDelivery, Advance, Give,
         Decline, Requests, TypeOK
    <3>3. CASE ResolveRelease(t) \/ EndStream(t)
      BY <2>1, <3>3 DEF ResolveRelease, EndStream, Advance, EndPoll, NoPoll, Decline, Requests,
         TypeOK
    <3>4. QED
      BY <1>3, <3>1, <3>2, <3>3
  <2>3. QED
    BY <2>2
<1>4. ASSUME NEW t \in Polls, RefuseCommit(t) \/ RecordDownload(t)
      PROVE  FALSE
  BY <1>4 DEF RefuseCommit, RecordDownload, EndPoll, NoPoll, TypeOK
<1>5. ASSUME NEW t \in Polls, CommitPoll(t), t # u
      PROVE  FALSE
  BY <1>5 DEF CommitPoll, Advance, EndPoll, TypeOK
<1>6. ~Restart
  BY DEF Restart, NoPoll
<1>7. poll' # poll
  OBVIOUS
<1>8. \E t \in Polls :
         FindDevice(t) \/ LockDevice(t) \/ Serve(t) \/ EndStream(t) \/ RecordDownload(t)
  BY <1>6, <1>7 DEF Next, vars, SetStatus, SetOtaEnabled, SetKnownVersion, BeginEdit, CommitEdit,
     ChangeRelease, ChangePolicies
<1>9. QED
  BY <1>1, <1>2, <1>3, <1>4, <1>5, <1>8 DEF Serve

\* So is an offer recorded.
LEMMA CommitOffers ==
    ASSUME [Next]_vars, offers' # offers
    PROVE  \E t \in Polls : CommitPoll(t)
BY DEF Next, vars, Serve, FindDevice, LockDevice, RateLimited, AdmitManifest, GovernManifest,
       SelectRelease, ReadManifest, RecordOffer, AdmitFirmware, ResolveRelease, CheckDelivery,
       OpenStream, RefuseCommit, EndStream, RecordDownload, Restart, SetStatus, SetOtaEnabled,
       SetKnownVersion, BeginEdit, CommitEdit, ChangeRelease, ChangePolicies, Locked

\* Both endpoints withhold what policies or releases withhold all the time that
\* a request is served.
THEOREM EntitledOnly == Spec => OnlyEntitled
<1>1. ASSUME OtaInv, [Next]_vars, NEW v \in Versions, offers'[v] # offers[v]
      PROVE  Entitled(v)
  <2>1. PICK t \in Polls : CommitPoll(t)
    BY <1>1, CommitOffers
  <2>2. poll[t].gives = "offer" /\ v = poll[t].version
    BY <1>1, <2>1 DEF CommitPoll, OtaInv, TypeOK
  <2>3. QED
    BY <1>1, <2>1, <2>2 DEF CommitPoll, OtaInv, Established
<1>2. ASSUME OtaInv, [Next]_vars, NEW v \in Versions, NEW t \in Polls,
             poll[t].step # "stream", poll'[t].step = "stream", poll'[t].version = v
      PROVE  Entitled(v)
  <2>1. CommitPoll(t)
    BY <1>2, CommitGrants DEF OtaInv
  <2>2. poll[t] \in Requests
    BY <1>2, <2>1, PollFacts DEF CommitPoll, OtaInv
  <2>3. poll[t].gives = "bytes" /\ poll[t].version = v
    BY <1>2, <2>1, <2>2 DEF CommitPoll, Advance, EndPoll, NoPoll, OtaInv, TypeOK, Requests
  <2>4. QED
    BY <1>2, <2>1, <2>3 DEF CommitPoll, OtaInv, Established
<1>3. OtaInv /\ [Next]_vars =>
         [\A v \in Versions :
             \/ offers'[v] # offers[v]
             \/ \E t \in Polls : /\ poll[t].step # "stream" /\ poll'[t].step = "stream"
                                 /\ poll'[t].version = v
             => Entitled(v)]_vars
  BY <1>1, <1>2
<1>4. QED
  BY <1>3, OtaInvariant, PTL DEF Spec, OnlyEntitled

\* The two endpoints agree: what would be offered is the newest published
\* version that would be delivered, in every state of device, policies and
\* releases.
THEOREM OfferAgreesWithDelivery == Spec => []OfferIsNewestDeliverable
<1>1. TypeOK => OfferIsNewestDeliverable
  <2> SUFFICES ASSUME TypeOK PROVE OfferIsNewestDeliverable
    OBVIOUS
  <2> DEFINE decision == DecideForDevice(device, TRUE, inEffect, 0, Published)
             installable == {v \in Published \cap Allowed :
                               device.status = "ACTIVE" /\ device.otaEnabled}
             newest == {v \in installable : \A w \in installable : w <= v}
             policy == Resolution.policy
             chosen == ChooseRelease(Published, policy, device.known)
             candidates == Narrow(Published, policy)
  <2>1. /\ Published \subseteq Versions /\ device.known \in MaybeVersion
        /\ policy \in PolicySet \cup {NoPolicy} /\ Resolution.conflict \in BOOLEAN
    BY ResolutionType DEF TypeOK, Rows, Published
  <2>2. CASE CheckEligibility(device, TRUE) # "ELIGIBLE"
    <3>1. decision.available = FALSE /\ decision.reason # "NO_UPDATE"
      BY <2>2 DEF DecideForDevice, NoOffer, CheckEligibility
    <3>2. installable = {}
      BY <2>2 DEF CheckEligibility
    <3>3. QED
      BY <3>1, <3>2 DEF OfferIsNewestDeliverable
  <2>3. CASE CheckEligibility(device, TRUE) = "ELIGIBLE" /\ PolicyGate(Resolution) # "GOVERNED"
    <3>1. decision.available = FALSE /\ decision.reason # "NO_UPDATE"
      BY <2>3 DEF DecideForDevice, NoOffer, PolicyGate, Resolution
    <3>2. Allowed = {}
      BY <2>3 DEF PolicyGate, Allowed, AllowedBy, Resolution, AllowsDelivery
    <3>3. QED
      BY <3>1, <3>2 DEF OfferIsNewestDeliverable
  <2>4. CASE CheckEligibility(device, TRUE) = "ELIGIBLE" /\ PolicyGate(Resolution) = "GOVERNED"
    <3>1. decision = chosen
      BY <2>4 DEF DecideForDevice, Resolution
    <3>2. ~Resolution.conflict /\ (policy.type \in PolicyTypes \/ policy = NoPolicy)
      BY <2>1, <2>4, PolicySetAssumption DEF PolicyGate, PoliciesInEffect
    <3>3. candidates = Published \cap Allowed
      BY <2>1, <3>2, NarrowIsDelivered DEF Allowed, AllowedBy, Resolution
    <3>4. installable = candidates
      BY <2>4, <3>3 DEF CheckEligibility
    <3>5. /\ chosen.available \in BOOLEAN
          /\ chosen.available =>
                /\ chosen.release \in candidates
                /\ device.known < chosen.release
                /\ \A w \in candidates : w <= chosen.release
          /\ ~chosen.available => \A w \in candidates : w <= device.known
          /\ chosen.reason = "NO_UPDATE" <=> candidates # {} /\ ~chosen.available
      BY <2>1, ChooseReleaseFacts
    <3> HIDE DEF chosen, candidates
    <3>6. /\ chosen.available => chosen.release \in newest /\ device.known < chosen.release
          /\ ~chosen.available => \A v \in installable : v <= device.known
          /\ chosen.reason = "NO_UPDATE" <=> installable # {} /\ ~chosen.available
      <4> HIDE DEF installable
      <4> QED
        BY <3>4, <3>5
    <3> HIDE DEF decision, installable, newest
    <3>7. QED
      BY <3>1, <3>6 DEF OfferIsNewestDeliverable, decision, installable, newest
  <2>5. QED
    BY <2>2, <2>3, <2>4
<1>2. QED
  BY <1>1, OtaTypeCorrect, PTL

-----------------------------------------------------------------------------
(***************************************************************************)
(* Retirement, while none overlaps an edit that switches updates on.       *)
(***************************************************************************)

\* A poll writes nothing to the row but the known version and who told it.
PollsReport ==
    \A t \in Polls : poll[t].step \in Steps => DOMAIN poll[t].writes \subseteq {"known", "source"}

\* An edit that retires the device leaves updates off.
RetirementOff ==
    \A e \in Editors : Retires(e) =>
        IF "otaEnabled" \in DOMAIN edit[e].writes THEN ~SwitchesOn(e) ELSE ~device.otaEnabled

LEMMA ReportOnly ==
    ASSUME NEW row \in Rows, NEW v \in MaybeVersion
    PROVE  DOMAIN Dirty(row, Reported(row, v)) \subseteq {"known", "source"}
<1>1. Reported(row, v).status = row.status /\ Reported(row, v).otaEnabled = row.otaEnabled
  BY DEF Reported, Rows
<1>2. QED
  BY <1>1 DEF Dirty, Columns

\* What a poll does at each step to what it has read and what it will write.
PollMoves(t) ==
    \/ poll'[t] = poll[t]
    \/ poll'[t] = NoPoll
    \/ poll'[t].step = "lock" /\ poll'[t].row = device
    \/ poll[t].step = "lock" /\ poll'[t].step = "admit" /\ poll'[t].row = poll[t].row
    \/ /\ poll[t].step = "admit" /\ poll'[t].step \in Steps
       /\ \/ poll'[t].writes = NoWrites
          \/ \E v \in MaybeVersion :
                poll'[t].writes = Dirty(poll[t].row, Reported(poll[t].row, v))
    \/ /\ poll[t].step \in Steps /\ poll'[t].step \in Steps
       /\ poll'[t].writes = poll[t].writes
       /\ poll'[t].step \in Early \cup {"commit"} => poll[t].step \in Early

LEMMA PollsMove == ASSUME TypeOK, [Next]_vars, NEW u \in Polls PROVE PollMoves(u)
<1>1. ASSUME NEW t \in Polls, FindDevice(t) \/ LockDevice(t) PROVE PollMoves(u)
  <2>1. poll[t] = NoPoll \/ poll[t] \in Arrivals
    BY <1>1, PollFacts DEF FindDevice, LockDevice
  <2>2. ASSUME u = t, FindDevice(t) PROVE PollMoves(u)
    <3>1. poll'[t] = [step |-> "lock", row |-> device]
      BY <2>2 DEF FindDevice, TypeOK
    <3>2. QED
      BY <2>2, <3>1 DEF PollMoves
  <2>3. ASSUME u = t, LockDevice(t) PROVE PollMoves(u)
    <3>1. poll[t] \in Arrivals
      BY <2>1, <2>3 DEF LockDevice, NoPoll
    <3>2. /\ poll'[t] = [poll[t] EXCEPT !.step = "admit"]
          /\ poll[t].step = "lock"
      BY <2>3 DEF LockDevice, Advance, TypeOK
    <3>3. poll'[t].step = "admit" /\ poll'[t].row = poll[t].row
      BY <3>1, <3>2 DEF Arrivals
    <3>4. QED
      BY <2>3, <3>2, <3>3 DEF PollMoves
  <2>4. CASE u # t
    BY <1>1, <2>4 DEF FindDevice, LockDevice, Advance, TypeOK, PollMoves
  <2>5. QED
    BY <1>1, <2>2, <2>3, <2>4
<1>2. ASSUME NEW t \in Polls, AdmitManifest(t) PROVE PollMoves(u)
  <2>1. PICK v \in MaybeVersion, ownPath \in BOOLEAN :
           LET new == Reported(poll[t].row, v)
               eligible == CheckEligibility(new, ownPath) = "ELIGIBLE" IN
           poll' = [poll EXCEPT ![t] =
               Admitted(IF eligible THEN "policy" ELSE "commit", new.known,
                        Dirty(poll[t].row, new))]
    BY <1>2 DEF AdmitManifest
  <2>2. /\ u = t => /\ poll'[t].writes = Dirty(poll[t].row, Reported(poll[t].row, v))
                    /\ poll'[t].step \in {"policy", "commit"}
        /\ u # t => poll'[u] = poll[u]
    BY <2>1 DEF Admitted, TypeOK
  <2>3. QED
    BY <1>2, <2>2 DEF AdmitManifest, PollMoves, Steps, Early
<1>3. ASSUME NEW t \in Polls, RateLimited(t) \/ AdmitFirmware(t) PROVE PollMoves(u)
  <2>1. /\ u = t => poll'[t].writes = NoWrites /\ poll'[t].step \in {"resolve", "commit"}
        /\ u # t => poll'[u] = poll[u]
    BY <1>3 DEF RateLimited, AdmitFirmware, Admitted, TypeOK
  <2>2. QED
    BY <1>3, <2>1 DEF RateLimited, AdmitFirmware, PollMoves, Steps, Early
<1>4. ASSUME NEW t \in Polls, GovernManifest(t) \/ SelectRelease(t) \/ ReadManifest(t)
             \/ RecordOffer(t) \/ ResolveRelease(t) \/ CheckDelivery(t) \/ OpenStream(t)
             \/ CommitPoll(t) \/ RefuseCommit(t) \/ EndStream(t) \/ RecordDownload(t)
      PROVE  PollMoves(u)
  <2>1. poll[t].step \in Steps
    BY <1>4 DEF GovernManifest, SelectRelease, ReadManifest, RecordOffer, ResolveRelease,
                CheckDelivery, OpenStream, CommitPoll, RefuseCommit, EndStream, RecordDownload,
                Steps, Early
  <2>2. poll[t] \in Requests /\ poll \in [Polls -> Arrivals \cup Requests \cup {NoPoll}]
    BY <2>1, PollFacts DEF Steps, TypeOK
  <2>3. \A w \in Polls : w # t => poll'[w] = poll[w]
    BY <1>4, <2>2 DEF GovernManifest, SelectRelease, ReadManifest, RecordOffer, ResolveRelease,
       CheckDelivery, OpenStream, CommitPoll, RefuseCommit, EndStream, RecordDownload, Advance,
       Give, Decline, EndPoll
  <2>4. CASE poll[t].step \in Early
    <3>1. ASSUME GovernManifest(t) \/ SelectRelease(t)
          PROVE  poll'[t].writes = poll[t].writes /\ poll'[t].step \in Steps
      BY <2>2, <3>1 DEF GovernManifest, SelectRelease, Decline, Requests, Steps, Early
    <3>2. ASSUME ~(GovernManifest(t) \/ SelectRelease(t))
          PROVE  poll'[t].writes = poll[t].writes /\ poll'[t].step \in Steps
      <4>1. \/ \E s \in Steps : Advance(t, s)
            \/ \E g \in {"offer", "bytes"} : Give(t, g)
            \/ Decline(t)
            \/ \E v \in Deliverable :
                  poll' = [poll EXCEPT ![t].step = "deliver", ![t].version = v]
        BY <1>4, <2>4, <3>2 DEF ReadManifest, RecordOffer, ResolveRelease, CheckDelivery,
           OpenStream, CommitPoll, RefuseCommit, EndStream, RecordDownload, Steps, Early
      <4>2. QED
        BY <2>2, <4>1 DEF Advance, Give, Decline, Requests, Steps, Early
    <3>3. QED
      BY <2>1, <2>3, <2>4, <3>1, <3>2 DEF PollMoves
  <2>5. CASE poll[t].step \notin Early
    <3>1. (\E s \in {"stream", "record"} : Advance(t, s)) \/ EndPoll(t)
      BY <1>4, <2>5 DEF GovernManifest, SelectRelease, ReadManifest, RecordOffer,
         ResolveRelease, CheckDelivery, OpenStream, CommitPoll, RefuseCommit, EndStream,
         RecordDownload, Early
    <3>2. \/ poll'[t] = NoPoll
          \/ poll'[t].writes = poll[t].writes /\ poll'[t].step \in {"stream", "record"}
      BY <2>2, <3>1 DEF Advance, EndPoll, Requests
    <3>3. QED
      BY <2>1, <2>3, <3>2 DEF PollMoves, Steps, Early
  <2>6. QED
    BY <2>4, <2>5
<1>5. CASE Restart
  BY <1>5 DEF Restart, PollMoves
<1>6. CASE UNCHANGED poll
  BY <1>6 DEF PollMoves
<1>7. QED
  <2>1. UNCHANGED poll \/ Restart \/ \E t \in Polls :
           FindDevice(t) \/ LockDevice(t) \/ Serve(t) \/ EndStream(t) \/ RecordDownload(t)
    BY DEF Next, vars, SetStatus, SetOtaEnabled, SetKnownVersion, BeginEdit, CommitEdit,
           ChangeRelease, ChangePolicies
  <2>2. QED
    BY <1>1, <1>2, <1>3, <1>4, <1>5, <1>6, <2>1 DEF Serve

LEMMA WritesStep ==
    ASSUME TypeOK, PollsReport, [Next]_vars
    PROVE  PollsReport'
<1> SUFFICES ASSUME NEW t \in Polls, poll'[t].step \in Steps
             PROVE  DOMAIN poll'[t].writes \subseteq {"known", "source"}
  BY DEF PollsReport
<1>1. poll[t].step = "admit" => poll[t].row \in Rows
  BY PollFacts DEF Arrivals
<1>2. DOMAIN NoWrites = {}
  BY DEF NoWrites
<1>3. QED
  BY <1>1, <1>2, PollsMove, ReportOnly DEF PollMoves, PollsReport, NoPoll, Steps, Early

\* Who changes the row: the commit of a poll, which leaves status and switch
\* alone, or the commit of an edit.
LEMMA RowChanges ==
    ASSUME TypeOK, PollsReport, [Next]_vars
    PROVE  \/ /\ device'.status = device.status /\ device'.otaEnabled = device.otaEnabled
              /\ edit' = edit
           \/ device' = device
           \/ \E e \in Editors : CommitEdit(e)
<1>1. ASSUME NEW t \in Polls, CommitPoll(t)
      PROVE  /\ device'.status = device.status /\ device'.otaEnabled = device.otaEnabled
             /\ edit' = edit
  <2>1. DOMAIN poll[t].writes \subseteq {"known", "source"}
    BY <1>1 DEF CommitPoll, PollsReport, Steps
  <2>2. device' = Update(device, poll[t].writes) /\ edit' = edit
    BY <1>1 DEF CommitPoll
  <2>3. QED
    BY <2>1, <2>2 DEF Update, Columns
<1>2. ASSUME ~\E t \in Polls : CommitPoll(t), ~\E e \in Editors : CommitEdit(e)
      PROVE  device' = device
  BY <1>2 DEF Next, vars, Serve, FindDevice, LockDevice, RateLimited, AdmitManifest,
              GovernManifest, SelectRelease, ReadManifest, RecordOffer, AdmitFirmware,
              ResolveRelease, CheckDelivery, OpenStream, RefuseCommit, EndStream, RecordDownload,
              Restart, SetStatus, SetOtaEnabled, SetKnownVersion, BeginEdit, ChangeRelease,
              ChangePolicies, Locked
<1>3. QED
  BY <1>1, <1>2

LEMMA BegunEditIsOff ==
    ASSUME TypeOK, RetirementOff, NEW e \in Editors,
           SetStatus(e) \/ SetOtaEnabled(e) \/ SetKnownVersion(e)
    PROVE  RetirementOff'
<1>1. device \in Rows /\ edit \in [Editors -> Edits \cup {NoEdit}]
  BY DEF TypeOK
<1>2. ASSUME NEW kind, NEW new \in Rows, BeginEdit(e, kind, new),
             new.status = device.status \/ (new.status = "RETIRED" => ~new.otaEnabled)
      PROVE  RetirementOff'
  <2> DEFINE w == Dirty(device, new)
  <2>1. /\ \A f \in Editors :
              edit'[f] = IF f = e THEN [step |-> "write", writes |-> w] ELSE edit[f]
        /\ device' = device
    BY <1>1, <1>2 DEF BeginEdit
  <2>2. "status" \in DOMAIN w /\ w.status = "RETIRED" =>
           IF "otaEnabled" \in DOMAIN w THEN ~w.otaEnabled ELSE ~device.otaEnabled
    BY <1>1, <1>2 DEF Dirty, Columns
  <2> HIDE DEF w
  <2>3. QED
    BY <2>1, <2>2 DEF RetirementOff, Retires, SwitchesOn
<1>3. CASE SetStatus(e)
  <2>1. PICK s \in Transitions[device.status] \cup {device.status} :
           BeginEdit(e, "status",
               [device EXCEPT !.status = s, !.otaEnabled = IF s = "RETIRED" THEN FALSE ELSE @])
    BY <1>3 DEF SetStatus
  <2> DEFINE new == [device EXCEPT !.status = s,
                                   !.otaEnabled = IF s = "RETIRED" THEN FALSE ELSE @]
  <2>2. s \in Statuses
    BY <1>1 DEF Rows, Statuses, Transitions
  <2>3. new \in Rows /\ (new.status = "RETIRED" => ~new.otaEnabled)
    BY <1>1, <2>2 DEF Rows
  <2>4. QED
    BY <1>2, <2>1, <2>3
<1>4. CASE SetOtaEnabled(e)
  <2>1. \A b \in BOOLEAN : /\ [device EXCEPT !.otaEnabled = b] \in Rows
                            /\ [device EXCEPT !.otaEnabled = b].status = device.status
    BY <1>1 DEF Rows
  <2>2. QED
    BY <1>2, <1>4, <2>1 DEF SetOtaEnabled
<1>5. CASE SetKnownVersion(e)
  <2>1. PICK v \in MaybeVersion :
           BeginEdit(e, "known",
               [device EXCEPT !.known = v,
                              !.source = IF v = None THEN "NULL" ELSE "ADMIN_ASSERTED"])
    BY <1>5 DEF SetKnownVersion
  <2> DEFINE new == [device EXCEPT !.known = v,
                                   !.source = IF v = None THEN "NULL" ELSE "ADMIN_ASSERTED"]
  <2>2. new \in Rows /\ new.status = device.status
    BY <1>1 DEF Rows, Sources
  <2>3. QED
    BY <1>2, <2>1, <2>2
<1>6. QED
  BY <1>3, <1>4, <1>5

RetirementInv == TypeOK /\ PollsReport /\ RetirementOff

LEMMA RetirementStep ==
    ASSUME RetirementInv, SwitchesApart, TypeOK', [Next]_vars
    PROVE  RetirementInv'
<1> USE DEF RetirementInv
<1>1. PollsReport'
  BY WritesStep
<1>2. CASE \E e \in Editors : CommitEdit(e)
  <2>1. PICK e \in Editors : CommitEdit(e)
    BY <1>2
  <2>2. /\ edit[e].step = "write" /\ edit'[e] = NoEdit
        /\ \A f \in Editors \ {e} : edit'[f] = edit[f]
        /\ device'.otaEnabled = IF "otaEnabled" \in DOMAIN edit[e].writes
                                THEN edit[e].writes.otaEnabled ELSE device.otaEnabled
    BY <2>1 DEF CommitEdit, TypeOK, Update, Columns
  <2>3. device'.otaEnabled => device.otaEnabled \/ SwitchesOn(e)
    BY <2>2 DEF SwitchesOn
  <2>4. ASSUME NEW f \in Editors \ {e}, Retires(f)'
        PROVE  /\ Retires(f) /\ (~device'.otaEnabled \/ "otaEnabled" \in DOMAIN edit[f].writes)
               /\ SwitchesOn(f)' <=> SwitchesOn(f)
    BY <2>2, <2>3, <2>4 DEF RetirementOff, SwitchesApart, Retires, SwitchesOn
  <2>5. ~Retires(e)'
    BY <2>2 DEF Retires, NoEdit
  <2>6. RetirementOff'
    BY <2>2, <2>4, <2>5 DEF RetirementOff, Retires
  <2>7. QED
    BY <1>1, <2>6
<1>3. CASE \E e \in Editors : SetStatus(e) \/ SetOtaEnabled(e) \/ SetKnownVersion(e)
  BY <1>1, <1>3, BegunEditIsOff
<1>4. CASE Restart
  <2>1. RetirementOff'
    BY <1>4 DEF Restart, RetirementOff, Retires, NoEdit
  <2>2. QED
    BY <1>1, <2>1
<1>5. CASE edit' = edit /\ ~\E e \in Editors : CommitEdit(e)
  <2>1. device'.otaEnabled = device.otaEnabled
    BY <1>5, RowChanges
  <2>2. RetirementOff'
    BY <1>5, <2>1 DEF RetirementOff, Retires, SwitchesOn
  <2>3. QED
    BY <1>1, <2>2
<1>6. QED
  <2>1. \/ \E e \in Editors : CommitEdit(e)
        \/ \E e \in Editors : SetStatus(e) \/ SetOtaEnabled(e) \/ SetKnownVersion(e)
        \/ Restart
        \/ edit' = edit
    BY DEF Next, vars, Serve, FindDevice, LockDevice, RateLimited, AdmitManifest,
           GovernManifest, SelectRelease, ReadManifest, RecordOffer, AdmitFirmware,
           ResolveRelease, CheckDelivery, OpenStream, CommitPoll, RefuseCommit, EndStream,
           RecordDownload, ChangeRelease, ChangePolicies, Locked
  <2>2. QED
    BY <1>2, <1>3, <1>4, <1>5, <2>1

\* What RetiredStaysOff says of a step.
StaysOff ==
    /\ device.status # "RETIRED" /\ device'.status = "RETIRED" => ~device'.otaEnabled
    /\ ~device.otaEnabled /\ device'.otaEnabled =>
          \E e \in Editors : SwitchesOn(e) /\ edit'[e] = NoEdit

LEMMA StaysOffStep ==
    ASSUME RetirementInv, [Next]_vars
    PROVE  StaysOff
<1> USE DEF RetirementInv
<1>1. ASSUME NEW e \in Editors, CommitEdit(e) PROVE StaysOff
  <2> DEFINE w == edit[e].writes
  <2>1. /\ edit[e].step = "write" /\ edit'[e] = NoEdit
        /\ device' = Update(device, w)
    BY <1>1 DEF CommitEdit, TypeOK
  <2>2. /\ device'.status = IF "status" \in DOMAIN w THEN w.status ELSE device.status
        /\ device'.otaEnabled = IF "otaEnabled" \in DOMAIN w THEN w.otaEnabled
                                ELSE device.otaEnabled
    BY <2>1 DEF Update, Columns
  <2>3. "status" \in DOMAIN w /\ w.status = "RETIRED" =>
           IF "otaEnabled" \in DOMAIN w THEN ~w.otaEnabled ELSE ~device.otaEnabled
    BY <2>1 DEF RetirementOff, Retires, SwitchesOn
  <2>4. QED
    BY <2>1, <2>2, <2>3 DEF StaysOff, SwitchesOn
<1>2. CASE device'.status = device.status /\ device'.otaEnabled = device.otaEnabled
  BY <1>2 DEF StaysOff
<1>3. QED
  BY <1>1, <1>2, RowChanges

\* Retirement holds against every poll that read the device before it, and against
\* every edit but one that switches updates on while the retirement is under way:
\* a retirement that found them off does not write that column.
THEOREM RetirementHolds == Spec /\ []SwitchesApart => RetiredStaysOff
<1>1. Init => PollsReport /\ RetirementOff
  BY DEF Init, PollsReport, RetirementOff, Retires, NoPoll, NoEdit, Steps, Early
<1>2. RetirementInv /\ SwitchesApart /\ TypeOK' /\ [Next]_vars => RetirementInv'
  BY RetirementStep
<1>3. RetirementInv /\ [Next]_vars =>
         [/\ device.status # "RETIRED" /\ device'.status = "RETIRED" => ~device'.otaEnabled
          /\ ~device.otaEnabled /\ device'.otaEnabled =>
                \E e \in Editors : SwitchesOn(e) /\ edit'[e] = NoEdit]_vars
  BY StaysOffStep DEF StaysOff
<1>4. RetirementInv <=> TypeOK /\ PollsReport /\ RetirementOff
  BY DEF RetirementInv
<1>5. QED
  BY <1>1, <1>2, <1>3, <1>4, OtaTypeCorrect, PTL DEF Spec, RetiredStaysOff
=============================================================================
