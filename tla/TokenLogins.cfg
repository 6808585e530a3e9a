CONSTANTS
    l0 = l0
    l1 = l1
    l2 = l2
    k1 = k1
    b1 = b1
    b2 = b2
    s1 = s1
    s2 = s2
    NoChan = NoChan
    NoValue = NoValue
    Login <- Logins3
    Here <- HereOnly
    Setter <- Setters
    Browser <- Browsers
    State <- States
SPECIFICATION FairSpecLater
INVARIANTS
    TypeOK
    NoLeftoverChannel
    CreatedFromCallback
    TokenIsReal
PROPERTIES
    CreateEnds
CHECK_DEADLOCK FALSE
