CONSTANTS
    h1 = h1
    c = c
    upload = upload
    alice = alice
    a1 = a1
    NoRow = NoRow
    Handler <- OneHandler
    Cleaner = c
    User <- Users
    Upload = upload
    Addr <- Addrs
    BadAddr <- None
    Capacity = 1
    Ops <- ServerOps
    MaxImages = 1
    MaxInstances = 2
    MinPort = 1
    MaxPort = 2
    MaxFaults = 1
SPECIFICATION FairSpecReady
INVARIANT
    AtRestInSync
PROPERTIES
    ImplementsWhitelister
    ChainSettles
