CONSTANTS
    Versions = {v1}
    Filenames = {"app.bin", "alt.bin"}
    ManifestName = "manifest.json"
    Binaries = {b1, b2}
    Notes = {n1}
    Uploaders = {u1, u2}
    Editors = {e1}
    Faults = {"commit_refused"}
SPECIFICATION Spec
SYMMETRY Threads
INVARIANT PublishedServable
