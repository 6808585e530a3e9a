CONSTANTS
    a1 = a1
    a2 = a2
    e1 = e1
    e2 = e2
    c1 = c1
    c2 = c2
    Addr <- TwoAddrs
    BadAddr <- Second
    Endpoint <- TwoEndpoints
    Caller <- OneCaller
    Capacity = 1
    Silent = FALSE
    MaxFaults = 0
SPECIFICATION FairSpec
PROPERTIES
    ObsoleteRuleRemoved
