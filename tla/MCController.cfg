SPECIFICATION FairSpec
CONSTANTS
    TargetIds = {1, 2}
    MissileIds = {}
    Places = {0, 5}
    Track <- MCTrack
    MaxCommands = 2
    MaxDetections = 2
INVARIANTS
    TypeOK
    PictureSkew
    NothingVanishes
PROPERTIES
    LaunchFollowsLock
    EveryFireLaunches
    EveryHitReported
CHECK_DEADLOCK FALSE
