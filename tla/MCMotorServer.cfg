SPECIFICATION FairSpec
CONSTANTS
    Digits = {1}
    Base = 2
    launcher = launcher
    radar = radar
    Clients = {launcher, radar}
    NoClient = NoClient
    OrdersOf <- MCOrdersOf
    Faulty = {launcher}
    Early = {radar}
    MaxSends = 2
INVARIANTS
    TypeOK
    JoinedAll
    OrdersInOrder
PROPERTIES
    EveryOrderWritten
CHECK_DEADLOCK FALSE
