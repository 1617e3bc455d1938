---------------------------- MODULE PolicyRules ----------------------------
(***************************************************************************)
(* What an update policy may say and which policy governs a device:        *)
(* app/domain/policy.py, the pure part of the policy engine.               *)
(*                                                                         *)
(* Versions and instants are naturals: the code compares versions as       *)
(* number triples and instants as timestamps, and only their order counts. *)
(***************************************************************************)
EXTENDS Integers

None == -1      \* an absent column

MaxPriority == 1000

Scopes == {"DEVICE", "DEVICE_TYPE", "GLOBAL"}
PolicyTypes == {"DISABLE", "PIN", "RANGE"}

\* Mutant: the order of the enum in the database model.
PrecedenceWidestFirst == [DEVICE |-> 3, DEVICE_TYPE |-> 2, GLOBAL |-> 1]

\* SCOPE_PRECEDENCE, narrowest first.
Precedence == [DEVICE |-> 1, DEVICE_TYPE |-> 2, GLOBAL |-> 3]

ScopeTargetFits(p) ==
    /\ p.scope = "DEVICE" <=> p.device # None
    /\ p.scope = "DEVICE_TYPE" <=> p.deviceType # None

\* Also a check constraint of the table.
TypeFieldsFit(p) ==
    \/ p.type = "DISABLE" /\ p.target = None /\ p.min = None /\ p.max = None
    \/ p.type = "PIN" /\ p.target # None /\ p.min = None /\ p.max = None
    \/ p.type = "RANGE" /\ p.target = None /\ (p.min # None \/ p.max # None)

ValidDefinition(p) ==
    /\ ScopeTargetFits(p)
    /\ TypeFieldsFit(p)
    /\ p.min # None /\ p.max # None => p.min <= p.max
    /\ p.starts # None /\ p.ends # None => p.starts < p.ends

\* Mutant: off by one, windows that share one instant pass.
WindowsOverlapStrict(p, q) ==
    /\ ~(p.ends # None /\ q.starts # None /\ p.ends <= q.starts + 1)
    /\ ~(q.ends # None /\ p.starts # None /\ q.ends <= p.starts + 1)

WindowsOverlap(p, q) ==
    /\ ~(p.ends # None /\ q.starts # None /\ p.ends <= q.starts)
    /\ ~(q.ends # None /\ p.starts # None /\ q.ends <= p.starts)

IsInEffect(p, now) ==
    /\ p.active
    /\ p.starts # None => p.starts <= now
    /\ p.ends # None => now < p.ends

VersionInRange(version, min, max) ==
    /\ min # None => min <= version
    /\ max # None => version <= max

Highest(policies) == {p \in policies : \A q \in policies : q.priority <= p.priority}

NoPolicy == [scope |-> "none"]
Ungoverned == [policy |-> NoPolicy, conflict |-> FALSE]

\* The narrowest scope that has a policy in effect decides; in it the highest
\* priority; several at that priority are a conflict.
ResolvePolicies(policies, now) ==
    LET AtScope(s) == {p \in policies : IsInEffect(p, now) /\ p.scope = s}
        winners == Highest(AtScope(CHOOSE s \in Scopes :
                      /\ AtScope(s) # {}
                      /\ \A t \in Scopes :
                            Precedence[t] < Precedence[s] => AtScope(t) = {})) IN
    IF \A s \in Scopes : AtScope(s) = {} THEN Ungoverned
    ELSE IF \E p, q \in winners : p # q THEN [policy |-> NoPolicy, conflict |-> TRUE]
    ELSE [policy |-> CHOOSE p \in winners : TRUE, conflict |-> FALSE]
=============================================================================
