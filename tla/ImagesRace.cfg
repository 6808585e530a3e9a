CONSTANTS
    h1 = h1
    h2 = h2
    cleaner = cleaner
    upload = upload
    alice = alice
    a1 = a1
    NoRow = NoRow
    Handler <- TwoHandlers
    Cleaner = cleaner
    User <- Users
    Upload = upload
    Addr <- Addrs
    Ops <- ImageOps
    Cmds <- ImageCmds
    Direct = TRUE
    MaxImages = 2
    MaxInstances = 1
    MinPort = 1
    MaxPort = 2
    MaxFaults = 1
SPECIFICATION ClientSpec
SYMMETRY Symmetry
INVARIANTS
    TypeOK
    SuccessIsReal
    ReadyImageHasSnapshot
    InstanceOfReadyImage
