CONSTANTS
    h1 = h1
    h2 = h2
    c = c
    upload = upload
    alice = alice
    a1 = a1
    NoRow = NoRow
    Handler <- TwoHandlers
    Cleaner = c
    User <- Users
    Upload = upload
    Addr <- Addrs
    Ops <- PairOps
    MaxImages = 1
    MaxInstances = 2
    MinPort = 1
    MaxPort = 3
    MaxFaults = 0
SPECIFICATION SpecReady
SYMMETRY Symmetry
INVARIANTS
    CreatedIsServing
