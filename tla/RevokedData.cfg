CONSTANTS
    h1 = h1
    h2 = h2
    c = c
    upload = upload
    alice = alice
    a1 = a1
    NoRow = NoRow
    Handler <- OneHandler
    Cleaner = c
    User <- Users
    Upload = upload
    Addr <- Addrs
    Ops <- FirstImageOps
    MaxImages = 1
    MaxInstances = 2
    MinPort = 1
    MaxPort = 3
    MaxFaults = 1
SPECIFICATION FairSpec
PROPERTIES
    RevokedDataRemoved
