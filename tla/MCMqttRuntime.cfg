SPECIFICATION Spec
CONSTANTS
    plain = plain
    caTls = caTls
    pskTls = pskTls
    noConfig = noConfig
    Config <- MCConfig
    NoConfig = noConfig
    Tls <- MCTls
    Psk <- MCPsk
    Steps = 2
    Option <- MCOption
    MaxFaults = 1
INVARIANTS Secured LockedIsShut
CHECK_DEADLOCK FALSE
PROPERTIES StopIsClean Settles
