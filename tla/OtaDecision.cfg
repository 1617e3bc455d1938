CONSTANTS
    Versions = {1, 2}
    MaxVersion = 2
    PolicySet <- MCPolicySet
    Polls = {t1}
    Editors = {}
    EditKinds = {}
    Faults = {"storage"}
    Enrolled <- AnyDevice
    Nobody = Nobody
SPECIFICATION Spec
INVARIANTS OffersNewer OfferIsNewestDeliverable
PROPERTY OnlyEntitled
