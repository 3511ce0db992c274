SPECIFICATION FairSpec
CONSTANTS
    NumTargets = 3
    MaxLaunches = 3
INVARIANTS
    TypeOK
    SurvivorsListed
    ErasedWereAnnounced
PROPERTIES
    SurvivorsReported
    OneMissile
    HitReportedLast
CHECK_DEADLOCK FALSE
