SPECIFICATION Spec
CONSTANTS
    TargetIds = {1, 2}
    MissileIds = {}
    Plots <- MCPlots
    Blank <- MCBlank
    Circle = 8
    Beam = 1
    Reach = 2
    MaxPlots = 2
    MaxOrders = 1
PROPERTIES
    GoalObeyed
CHECK_DEADLOCK FALSE
