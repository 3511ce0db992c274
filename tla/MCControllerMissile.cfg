SPECIFICATION Spec
CONSTANTS
    TargetIds = {1, 2}
    MissileIds = {9}
    Places = {0, 5}
    Track <- MCTrack
    MaxCommands = 1
    MaxDetections = 1
PROPERTIES
    HitMissileDeleted
CHECK_DEADLOCK FALSE
