CONSTANTS
    Versions = {1, 2}
    MaxVersion = 2
    PolicySet = {}
    Polls = {t1, t2}
    Editors = {e1, e2}
    EditKinds = {"known"}
    Faults = {"commit_refused"}
    Enrolled <- Activated
    Nobody = Nobody
SPECIFICATION Spec
INVARIANT ProvenanceKept
SYMMETRY Threads
