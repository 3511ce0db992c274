SPECIFICATION FairSpec
CONSTANTS
    t1 = t1
    t2 = t2
    NoTarget = NoTarget
    Targets = {t1, t2}
    Beam <- MCBeam
    Chosen <- MCChosen
    MaxOrders = 2
    MaxReports = 2
    MaxPolls = 1
INVARIANTS
    TypeOK
    LockedIsListed
PROPERTIES
    EveryOrderReaches
    PictureConverges
CHECK_DEADLOCK FALSE
