CONSTANTS
    Versions = {v1}
    Filenames = {"app.bin"}
    ManifestName = "manifest.json"
    Binaries = {b1}
    Notes = {n1, n2}
    Uploaders = {u1}
    Editors = {e1, e2}
    Faults = {}
SPECIFICATION Spec
PROPERTY LifecycleOrder
