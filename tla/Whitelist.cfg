CONSTANTS
    a1 = a1
    a2 = a2
    e1 = e1
    e2 = e2
    c1 = c1
    c2 = c2
    Addr <- OneAddr
    BadAddr <- None
    Endpoint <- TwoEndpoints
    Caller <- TwoCallers
    Capacity = 2
    Silent = TRUE
    MaxFaults = 1
SPECIFICATION FairSpec
INVARIANTS
    TypeOK
    NoLostTrigger
PROPERTIES
    ObsoleteRuleRemoved
    AddressAdmitted
    CallerUnblocked
