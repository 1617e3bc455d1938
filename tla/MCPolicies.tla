----------------------------- MODULE MCPolicies -----------------------------
EXTENDS Policies, TLC

CONSTANTS d1, d2, t1, t2

MCTypeOf == [d \in {d1, d2} |-> IF d = d1 THEN t1 ELSE t2]

Define(scope, device, deviceType, type, target, min, max, priority, starts, ends) ==
    [scope |-> scope, device |-> device, deviceType |-> deviceType, type |-> type,
     target |-> target, min |-> min, max |-> max, priority |-> priority,
     starts |-> starts, ends |-> ends]

\* Two windows of t1 that touch and one that shares an instant with each.
Windows ==
    {Define("DEVICE_TYPE", None, t1, "PIN", 1, None, None, 0, None, 2),
     Define("DEVICE_TYPE", None, t1, "PIN", 1, None, None, 0, 2, None),
     Define("DEVICE_TYPE", None, t1, "PIN", 1, None, None, 0, 1, 3)}

\* The other scopes, and a second type.
Cascade ==
    {Define("DEVICE", d1, None, "DISABLE", None, None, None, 0, None, None),
     Define("DEVICE_TYPE", None, t2, "PIN", 1, None, None, 0, None, 2),
     Define("GLOBAL", None, None, "RANGE", None, 1, None, 1, 1, None)}

WindowDefinitions == Windows \cup Cascade

\* A window moved, a policy outranked, one made endless, a bound that makes a
\* range empty and one that leaves a pin without its target.
WindowEdits ==
    {[starts |-> 1], [priority |-> 1], [starts |-> None, ends |-> None],
     [max |-> 0], [target |-> None]}

\* One window moved.
ConflictEdits == {[starts |-> 2]}

Threads == Permutations(Admins)
=============================================================================
