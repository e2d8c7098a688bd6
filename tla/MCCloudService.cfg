SPECIFICATION FairSpec
CONSTANTS
    r1 = r1
    o1 = o1
    Operation = {o1}
    NoOperation = NoOperation
    Request = {r1}
    NoRequest = NoRequest
    States = 2
    Periodic = 1
    Preempts = TRUE
    ExternalFirst = TRUE
    ProductStates = TRUE
    MaxGeneration = 2
    MaxWake = 2
INVARIANTS BootstrapIsWhole
PROPERTIES ImplementsCloudBootstrap QueuedIsReported AllReported
CHECK_DEADLOCK FALSE
