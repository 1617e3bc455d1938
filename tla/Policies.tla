------------------------------ MODULE Policies ------------------------------
(***************************************************************************)
(* The rows of update_policies and the admin requests that edit them.      *)
(*   app/services/policies.py   PolicyService                              *)
(*   app/api/v1/policies.py     the routes that call it and commit         *)
(*                                                                         *)
(* A request loads the row, later queries for conflicting rows, later      *)
(* writes and commits; at READ COMMITTED another request may commit        *)
(* between any two of these.  Requests that a check refuses change nothing *)
(* and end.                                                                *)
(***************************************************************************)
EXTENDS PolicyRules

CONSTANTS
    PolicyIds,      \* ids the table may give out
    Admins,         \* threads that serve the policy routes
    Devices,        \* devices that policies may name and that are resolved for
    DeviceTypes,    \* device types
    TypeOf,         \* the type of each device
    Definitions,    \* what create requests may ask for
    Edits,          \* what update requests may ask for: some fields and their values
    Priorities,     \* priorities a policy may have, at most MaxPriority
    Instants        \* instants at which a policy is resolved

Targets == [scope: Scopes, device: Devices \cup {None}, deviceType: DeviceTypes \cup {None},
            type: PolicyTypes, target: Nat \cup {None}, min: Nat \cup {None},
            max: Nat \cup {None}, priority: Priorities, starts: Nat \cup {None},
            ends: Nat \cup {None}]

\* Scope, type and the device or device type of a policy cannot be edited.
Editable == {"target", "min", "max", "priority", "starts", "ends"}

ASSUME DefinitionsAssumption == Definitions \subseteq Targets
ASSUME EditsAssumption ==
    \A c \in Edits :
        /\ DOMAIN c \subseteq Editable
        /\ \A f \in DOMAIN c : c[f] \in IF f = "priority" THEN Priorities ELSE Nat \cup {None}
ASSUME NumbersAssumption == Priorities \subseteq 0..MaxPriority /\ Instants \subseteq Nat
ASSUME TypeOfAssumption == TypeOf \in [Devices -> DeviceTypes]
ASSUME NoneAssumption == None \notin Devices /\ None \notin DeviceTypes

VARIABLES
    policies,   \* policies[i]: the committed row with id i, or NoPolicy
    request     \* request[a]: what admin thread a is doing

vars == <<policies, request>>

Rows == [id: PolicyIds, scope: Scopes, device: Devices \cup {None},
         deviceType: DeviceTypes \cup {None}, type: PolicyTypes,
         target: Nat \cup {None}, min: Nat \cup {None}, max: Nat \cup {None},
         priority: Priorities, starts: Nat \cup {None}, ends: Nat \cup {None},
         active: BOOLEAN, archived: BOOLEAN]

Operations == {"update", "activate", "deactivate", "archive", "restore"}
NoRequest == [step |-> "idle"]
Requests ==
    [step: {"loaded"}, op: Operations, seen: Rows]
      \cup [step: {"write"}, seen: Rows, new: Rows]
      \cup [step: {"insert"}, new: Rows]

Init ==
    /\ policies = [i \in PolicyIds |-> NoPolicy]
    /\ request = [a \in Admins |-> NoRequest]

Stored == {policies[i] : i \in PolicyIds} \ {NoPolicy}

SameTarget(p, q) ==
    /\ p.scope = q.scope
    /\ p.scope = "DEVICE" => p.device = q.device
    /\ p.scope = "DEVICE_TYPE" => p.deviceType = q.deviceType

\* The query behind _assert_no_conflict; archived rows are not left out of it.
AssertNoConflict(p) ==
    \A q \in Stored :
        q.active /\ q.id # p.id /\ SameTarget(p, q) /\ q.priority = p.priority
          => ~WindowsOverlap(p, q)

NewRow(i, d) ==
    [id |-> i, scope |-> d.scope, device |-> d.device, deviceType |-> d.deviceType,
     type |-> d.type, target |-> d.target, min |-> d.min, max |-> d.max,
     priority |-> d.priority, starts |-> d.starts, ends |-> d.ends,
     active |-> TRUE, archived |-> FALSE]

Edit(row, c) == [f \in DOMAIN row |-> IF f \in DOMAIN c THEN c[f] ELSE row[f]]

\* create up to its INSERT: ids are taken from a sequence, so no two requests
\* have the same one.
CreatePolicy(a) ==
    /\ request[a] = NoRequest
    /\ \E i \in PolicyIds, d \in Definitions :
          /\ policies[i] = NoPolicy
          /\ \A b \in Admins : request[b].step = "insert" => request[b].new.id # i
          /\ ValidDefinition(d)
          /\ AssertNoConflict(NewRow(i, d))
          /\ request' = [request EXCEPT ![a] = [step |-> "insert", new |-> NewRow(i, d)]]
    /\ UNCHANGED policies

\* The row as this request will see it to its end, with the check on it.
LoadPolicy(a) ==
    /\ request[a] = NoRequest
    /\ \E p \in Stored, op \in Operations :
          /\ op # "archive" => (p.archived <=> op = "restore")
          /\ op = "archive" => ~p.archived
          /\ request' = [request EXCEPT ![a] = [step |-> "loaded", op |-> op, seen |-> p]]
    /\ UNCHANGED policies

Write(a, new) ==
    request' = [request EXCEPT ![a] = [step |-> "write", seen |-> request[a].seen, new |-> new]]

Loaded(a, op) == request[a].step = "loaded" /\ request[a].op = op
Refuse(a) == request' = [request EXCEPT ![a] = NoRequest]

\* Mutant: an edit is only checked for conflicts.
UpdateUnvalidated(a) ==
    /\ Loaded(a, "update")
    /\ \E c \in Edits :
          LET new == Edit(request[a].seen, c) IN
          \/ AssertNoConflict(new) /\ Write(a, new)
          \/ ~AssertNoConflict(new) /\ Refuse(a)
    /\ UNCHANGED policies

\* The edited policy is checked as a whole, also when it is switched off.
UpdatePolicy(a) ==
    /\ Loaded(a, "update")
    /\ \E c \in Edits :
          LET new == Edit(request[a].seen, c)
              accepted == ValidDefinition(new) /\ AssertNoConflict(new) IN
          \/ accepted /\ Write(a, new)
          \/ ~accepted /\ Refuse(a)
    /\ UNCHANGED policies

ActivatePolicy(a) ==
    /\ Loaded(a, "activate")
    /\ \/ /\ AssertNoConflict(request[a].seen)
          /\ Write(a, [request[a].seen EXCEPT !.active = TRUE])
       \/ /\ ~AssertNoConflict(request[a].seen)
          /\ Refuse(a)
    /\ UNCHANGED policies

DeactivatePolicy(a) ==
    /\ Loaded(a, "deactivate")
    /\ Write(a, [request[a].seen EXCEPT !.active = FALSE])
    /\ UNCHANGED policies

ArchivePolicy(a) ==
    /\ Loaded(a, "archive")
    /\ Write(a, [request[a].seen EXCEPT !.active = FALSE, !.archived = TRUE])
    /\ UNCHANGED policies

RestorePolicy(a) ==
    /\ Loaded(a, "restore")
    /\ Write(a, [request[a].seen EXCEPT !.active = FALSE, !.archived = FALSE])
    /\ UNCHANGED policies

CommitInsert(a) ==
    /\ request[a].step = "insert"
    /\ policies' = [policies EXCEPT ![request[a].new.id] = request[a].new]
    /\ Refuse(a)

\* An UPDATE sets the columns whose value differs from the one loaded.
Merge(row, seen, new) ==
    [f \in DOMAIN row |-> IF new[f] # seen[f] THEN new[f] ELSE row[f]]

\* The check constraints hold of what would be stored, or the request fails.
CommitWrite(a) ==
    LET r == request[a]
        row == Merge(policies[r.new.id], r.seen, r.new) IN
    /\ r.step = "write"
    /\ policies' = IF TypeFieldsFit(row) THEN [policies EXCEPT ![r.new.id] = row] ELSE policies
    /\ Refuse(a)

\* The query of resolve_for_device and the ranking of what it returns.
Reaching(d) ==
    {p \in Stored :
        /\ p.active /\ ~p.archived
        /\ p.scope = "DEVICE_TYPE" => p.deviceType = TypeOf[d]
        /\ p.scope = "DEVICE" => p.device = d}

Resolution(d, now) == ResolvePolicies(Reaching(d), now)

Next ==
    \E a \in Admins :
        \/ CreatePolicy(a) \/ LoadPolicy(a)
        \/ UpdatePolicy(a) \/ ActivatePolicy(a) \/ DeactivatePolicy(a)
        \/ ArchivePolicy(a) \/ RestorePolicy(a)
        \/ CommitInsert(a) \/ CommitWrite(a)

Spec == Init /\ [][Next]_vars
-----------------------------------------------------------------------------
(***************************************************************************)
(* Properties.                                                             *)
(***************************************************************************)

TypeOK ==
    /\ policies \in [PolicyIds -> Rows \cup {NoPolicy}]
    /\ request \in [Admins -> Requests \cup {NoRequest}]
    /\ \A i \in PolicyIds : policies[i] # NoPolicy => policies[i].id = i

\* What the routes leave to their callers.  No request commits to a policy that
\* another one has loaded and still works on.
RowsApart ==
    \A a, b \in Admins :
        /\ request[a].step = "write"
        /\ request[b].step \in {"loaded", "write"}
        /\ request[a].new.id = request[b].seen.id
        => a = b

\* No two requests have passed the conflict check with active policies of one
\* target.
Storing(a) == request[a].step \in {"write", "insert"} /\ request[a].new.active
TargetsApart ==
    \A a, b \in Admins :
        Storing(a) /\ Storing(b) /\ SameTarget(request[a].new, request[b].new) => a = b

RequestsApart == RowsApart /\ TargetsApart

\* The service module: "a policy can never be created or edited into an
\* ambiguous configuration".  Whatever device polls, at whatever instant, at
\* most one policy governs it.
NeverAmbiguous ==
    \A d \in Devices, now \in Instants : ~Resolution(d, now).conflict

\* Every stored policy is one that validate_policy_definition accepts.
DefinitionsStand == \A p \in Stored : ValidDefinition(p)

\* docs/07: the narrower scope wins, then the higher priority.  Where there is
\* no conflict, no policy in effect for the device outranks the governing one.
Narrower == {<<"DEVICE", "DEVICE_TYPE">>, <<"DEVICE", "GLOBAL">>, <<"DEVICE_TYPE", "GLOBAL">>}

GovernedByNarrowest ==
    \A d \in Devices, now \in Instants :
        LET r == Resolution(d, now) IN
        ~r.conflict => \A p \in Reaching(d) : IsInEffect(p, now) =>
            /\ r.policy # NoPolicy
            /\ \/ <<r.policy.scope, p.scope>> \in Narrower
               \/ r.policy.scope = p.scope /\ p.priority <= r.policy.priority
=============================================================================
