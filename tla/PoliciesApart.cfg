CONSTANTS
    d1 = d1
    d2 = d2
    t1 = t1
    t2 = t2
    PolicyIds = {1, 2}
    Admins = {a1, a2}
    Devices = {d1, d2}
    DeviceTypes = {t1, t2}
    TypeOf <- MCTypeOf
    Definitions <- WindowDefinitions
    Edits <- WindowEdits
    Priorities = {0, 1}
    Instants = {0, 1, 2, 3, 4}
SPECIFICATION Spec
SYMMETRY Threads
CONSTRAINT RequestsApart
INVARIANTS NeverAmbiguous DefinitionsStand GovernedByNarrowest
