CONSTANTS
    Versions = {1}
    MaxVersion = 1
    PolicySet = {}
    Polls = {t1, t2}
    Editors = {e1, e2}
    EditKinds = {"status", "ota"}
    Faults = {"commit_refused", "restart"}
    Enrolled <- Activated
    Nobody = Nobody
SPECIFICATION Spec
PROPERTY RetiredStaysOff
SYMMETRY Threads
