SPECIFICATION Spec
CONSTANTS
    NumTargets = 2
    MaxLaunches = 1
PROPERTIES
    OnlyValidUpdated
CHECK_DEADLOCK FALSE
