CONSTANTS
    Types = {y1}
    Devices = {d1}
    Tokens = {k1, k2}
    Serials = {s1, s2}
    Codes = {c1, c2}
    Platforms = {m1}
    Admins = {a1, a2}
    Uploaders = {u1}
    Polls = {p1}
    MaxReleases = 1
    PolicyTargets = {y1, d1}
SPECIFICATION Spec
SYMMETRY Symmetry
PROPERTY PurgesProvisioned
CONSTRAINT TwoAtWork
CHECK_DEADLOCK FALSE
