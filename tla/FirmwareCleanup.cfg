CONSTANTS
    Versions = {v1}
    Filenames = {"app.bin", "alt.bin", "manifest.json"}
    ManifestName = "manifest.json"
    Binaries = {b1, b2}
    Notes = {n1}
    Uploaders = {u1, u2}
    Editors = {}
    Faults = {"commit_refused"}
SPECIFICATION FairSpec
INVARIANT NoOrphans
PROPERTY UploadsEnd
CHECK_DEADLOCK FALSE
