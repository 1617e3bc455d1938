--------------------------- MODULE UpdateDecision ---------------------------
(***************************************************************************)
(* Whether a device is offered firmware, which, and whether it may fetch   *)
(* it: app/services/update_decision.py.  The service reads the device, the *)
(* policies and the releases by different statements; here they are        *)
(* parameters, and OtaService says when each is read.                      *)
(*                                                                         *)
(* A version that does not parse counts as unknown when the device is said *)
(* to run it and as not published when a release has it; such versions are *)
(* None and left out.                                                      *)
(***************************************************************************)
EXTENDS PolicyRules

CheckEligibility(row, ownPath) ==
    IF ~ownPath THEN "DEVICE_TYPE_MISMATCH"
    ELSE IF row.status # "ACTIVE" THEN "DEVICE_INACTIVE"
    ELSE IF ~row.otaEnabled THEN "OTA_DISABLED"
    ELSE "ELIGIBLE"

\* The versions of a published set that the policy leaves, _narrow.
Narrow(published, policy) ==
    IF policy = NoPolicy THEN published
    ELSE IF policy.type = "PIN" THEN published \cap {policy.target}
    ELSE IF policy.type = "RANGE"
         THEN {v \in published : VersionInRange(v, policy.min, policy.max)}
    ELSE {}

NoOffer(reason) == [available |-> FALSE, reason |-> reason, release |-> None]

Newest(versions) == CHOOSE v \in versions : \A w \in versions : w <= v

\* Mutant: the known version itself is offered again.
ChooseReleaseAgain(published, policy, known) ==
    LET candidates == Narrow(published, policy)
        newest == Newest(candidates) IN
    IF candidates = {}
    THEN NoOffer(IF published # {} /\ policy # NoPolicy
                 THEN "POLICY_BLOCKED" ELSE "NO_ELIGIBLE_RELEASE")
    ELSE IF known # None /\ known > newest
    THEN [available |-> FALSE, reason |-> "NO_UPDATE", release |-> newest]
    ELSE [available |-> TRUE, reason |-> "UPDATE", release |-> newest]

\* decide_for_device from the published releases on.  UPDATE stands for the
\* three reasons that say what kind of policy let the offer through.
ChooseRelease(published, policy, known) ==
    LET candidates == Narrow(published, policy)
        newest == Newest(candidates) IN
    IF candidates = {}
    THEN NoOffer(IF published # {} /\ policy # NoPolicy
                 THEN "POLICY_BLOCKED" ELSE "NO_ELIGIBLE_RELEASE")
    ELSE IF known # None /\ known >= newest
    THEN [available |-> FALSE, reason |-> "NO_UPDATE", release |-> newest]
    ELSE [available |-> TRUE, reason |-> "UPDATE", release |-> newest]

\* The reason to stop before the releases are looked at, or GOVERNED.
PolicyGate(resolution) ==
    IF resolution.conflict THEN "POLICY_BLOCKED"
    ELSE IF resolution.policy # NoPolicy /\ resolution.policy.type = "DISABLE"
         THEN "OTA_DISABLED"
    ELSE "GOVERNED"

\* decide_for_device, with nothing changing meanwhile.
DecideForDevice(row, ownPath, policies, now, published) ==
    LET eligible == CheckEligibility(row, ownPath)
        resolution == ResolvePolicies(policies, now) IN
    IF eligible # "ELIGIBLE" THEN NoOffer(eligible)
    ELSE IF PolicyGate(resolution) # "GOVERNED" THEN NoOffer(PolicyGate(resolution))
    ELSE ChooseRelease(published, resolution.policy, row.known)

\* Mutant: the upper bound of a range is not looked at.
AllowsDeliveryFromMin(resolution, v) ==
    /\ ~resolution.conflict
    /\ LET p == resolution.policy IN
       \/ p = NoPolicy
       \/ p # NoPolicy /\ p.type = "PIN" /\ v = p.target
       \/ p # NoPolicy /\ p.type = "RANGE" /\ VersionInRange(v, p.min, None)

AllowsDelivery(resolution, v) ==
    /\ ~resolution.conflict
    /\ LET p == resolution.policy IN
       \/ p = NoPolicy
       \/ p # NoPolicy /\ p.type = "PIN" /\ v = p.target
       \/ p # NoPolicy /\ p.type = "RANGE" /\ VersionInRange(v, p.min, p.max)
=============================================================================
