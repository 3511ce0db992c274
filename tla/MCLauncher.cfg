SPECIFICATION FairSpec
CONSTANTS
    Angles = {0, 1}
    Places <- MCPlaces
    ModeBytes = {7}
    Home = 6
    Stride = 2
    MaxCommands = 3
INVARIANTS
    TypeOK
    CommandsInOrder
    MoveFlagOwned
    NoLostWakeup
PROPERTIES
    EveryCommandExecuted
    MoverJoinsEnd
    ImplementsCommandService
    MoveEndsAtDestination
    NoOvershoot
    FireOnlyWhenAligned
CHECK_DEADLOCK FALSE
