CONSTANTS
    h1 = h1
    h2 = h2
    cleaner = cleaner
    upload = upload
    alice = alice
    a1 = a1
    NoRow = NoRow
    Handler <- TwoHandlers
    Cleaner = cleaner
    User <- Users
    Upload = upload
    Addr <- Addrs
    Ops <- InstanceOps
    Cmds <- InstanceCmds
    Direct = TRUE
    MaxImages = 1
    MaxInstances = 1
    MinPort = 1
    MaxPort = 2
    MaxFaults = 2
SPECIFICATION SpecReady
SYMMETRY Symmetry
PROPERTIES
    ImplementsLife
INVARIANTS
    SuccessIsReal
    DestroyedIsGone
    DirHasRow
