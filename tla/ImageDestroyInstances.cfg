CONSTANTS
    h1 = h1
    h2 = h2
    c = c
    upload = upload
    alice = alice
    a1 = a1
    NoRow = NoRow
    Handler <- TwoHandlers
    Cleaner = c
    User <- Users
    Upload = upload
    Addr <- Addrs
    Ops <- ImageDestroyOps
    MaxImages = 1
    MaxInstances = 1
    MinPort = 1
    MaxPort = 2
    MaxFaults = 1
SPECIFICATION SpecReady
INVARIANTS
    ImageDestroyedWithInstances
