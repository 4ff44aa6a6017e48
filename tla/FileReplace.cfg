SPECIFICATION Spec
CONSTANTS
    Runs = {r1, r2}
    Pids = {p1, p2}
    Stamps = {t1}
    Archive = archive
    Out = out
    Torn = torn
    MaxVersion = 1
INVARIANTS
    TargetsWhole
    DurableOnceReported
    CleanedUp
PROPERTIES
    EveryRunEnds
CHECK_DEADLOCK FALSE
