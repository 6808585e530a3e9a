CONSTANTS
    v4 = v4
    v6 = v6
    lb = lb
    junk = junk
    none = none
    noversion = noversion
    unparsable = unparsable
    Ip <- Addresses
    Trusted <- Proxies
    V6 <- Six
    Junk <- junk
    NoIp <- none
    Semver <- Versions
    NoVersion <- noversion
    Unparsable <- unparsable
    MaxOwn = 2
    MaxEntries = 4
SPECIFICATION Spec
INVARIANTS
    TypeOK
    AddressIsTheClients
    CoreIsGuarded
    LoggedAsAnswered
    NoFalseSuccess
CHECK_DEADLOCK FALSE
