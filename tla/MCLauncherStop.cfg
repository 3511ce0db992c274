SPECIFICATION FairSpec
CONSTANTS
    Angles = {1}
    Places <- MCPlaces
    ModeBytes = {7}
    Home = 6
    Stride = 2
    MaxCommands = 2
PROPERTIES
    DestructorReturns

CHECK_DEADLOCK FALSE
