SPECIFICATION FairSpec
CONSTANTS
    Steps = 8
    Digits = {0, 1, 2, 3}
    Base = 4
    RxSize = 5
    Inputs <- MCInputs
INVARIANTS
    TypeOK
    HeadsForTarget
    DriftPerOrder
    LinesObeyed
PROPERTIES
    RestsAtTarget
CHECK_DEADLOCK FALSE
