---------------------------- MODULE MCOtaService ----------------------------
EXTENDS OtaService, TLC

InEffect(scope, type, target, min, max, priority) ==
    [scope |-> scope, type |-> type, target |-> target, min |-> min, max |-> max,
     priority |-> priority, active |-> TRUE, starts |-> None, ends |-> None]

\* Two scopes, every type, and two policies that conflict.
MCPolicySet ==
    {InEffect("GLOBAL", "RANGE", None, None, 1, 0),
     InEffect("GLOBAL", "PIN", 2, None, None, 0),
     InEffect("DEVICE", "DISABLE", None, None, None, 0)}

Device(status, otaEnabled, known, source) ==
    [status |-> status, otaEnabled |-> otaEnabled, known |-> known, source |-> source]

\* Activated, and nobody has said what it runs.
Activated == {Device("ACTIVE", TRUE, None, "NULL")}

\* Every known version, and every reason not to be eligible.
AnyDevice ==
    {Device("ACTIVE", TRUE, v, "ADMIN_ASSERTED") : v \in Versions}
      \cup Activated
      \cup {Device("PROVISIONED", TRUE, None, "NULL"), Device("ACTIVE", FALSE, None, "NULL")}

Threads == Permutations(Polls) \cup Permutations(Editors)
=============================================================================
