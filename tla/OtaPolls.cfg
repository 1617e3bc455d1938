CONSTANTS
    Versions = {1}
    MaxVersion = 1
    PolicySet = {}
    Polls = {t1, t2}
    Editors = {e1}
    EditKinds = {"ota"}
    Faults = {"commit_refused", "restart"}
    Enrolled <- Activated
    Nobody = Nobody
SPECIFICATION FairSpec
INVARIANT OneOffer
PROPERTY RequestsAnswered
