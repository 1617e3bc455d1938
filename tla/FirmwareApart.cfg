CONSTANTS
    Versions = {v1, v2}
    Filenames = {"app.bin"}
    ManifestName = "manifest.json"
    Binaries = {b1}
    Notes = {n1}
    Uploaders = {u1, u2}
    Editors = {e1, e2}
    Faults = {"storage", "commit_refused", "restart"}
SPECIFICATION Spec
SYMMETRY Threads
CONSTRAINT UploadsApart
INVARIANT PublishedServable
