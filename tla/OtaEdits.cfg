CONSTANTS
    Versions = {1}
    MaxVersion = 1
    PolicySet = {}
    Polls = {t1}
    Editors = {e1, e2}
    EditKinds = {"status", "ota", "known"}
    Faults = {"commit_refused", "restart"}
    Enrolled <- Activated
    Nobody = Nobody
SPECIFICATION Spec
INVARIANTS TypeOK OffersNewer
PROPERTY RetiredStaysOff
SYMMETRY Threads
CONSTRAINT SwitchesApart
