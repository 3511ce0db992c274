SPECIFICATION FairSpec
CONSTANTS
    TargetIds = {1, 2}
    MissileIds = {9}
    Plots <- MCPlots
    Blank <- MCBlank
    Circle = 8
    Beam = 1
    Reach = 2
    MaxPlots = 2
    MaxOrders = 2
INVARIANTS
    TypeOK
    LockKept
    BeamComplete
PROPERTIES
    RotationConverges
    GoalSettles
CHECK_DEADLOCK FALSE
