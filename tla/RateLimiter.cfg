CONSTANTS
    k1 = k1
    k2 = k2
    Keys = {k1, k2}
    LimitOf <- MCLimitOf
    WindowOf <- MCWindowOf
    SweepThreshold = 1
    Threads = {t1, t2}
    MaxClock = 4
    MaxCalls = 3
SPECIFICATION Spec
SYMMETRY Symmetry
INVARIANT LongRunRate
PROPERTY RefusedOnlyWhenBusy
