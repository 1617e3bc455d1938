CONSTANTS
    Versions = {v1}
    Filenames = {"app.bin", "manifest.json"}
    ManifestName = "manifest.json"
    Binaries = {b1, b2}
    Notes = {n1}
    Uploaders = {u1, u2}
    Editors = {e1, e2}
    Faults = {"storage", "commit_refused", "commit_unknown", "restart"}
SPECIFICATION Spec
SYMMETRY Threads
INVARIANTS TypeOK SingleWriter IntactOrAbsent
PROPERTIES PublishVerified ImplementsShelf
