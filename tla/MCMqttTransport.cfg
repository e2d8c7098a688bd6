CONSTANTS
    c1 = c1
    c2 = c2
    Config = {c1, c2}
    Subs = 1
    MaxOps = 2
    MaxOpens = 2
    NoConfig = NoConfig
SPECIFICATION FairSpec
INVARIANTS RestIsDrained ClientInStep BorrowedIsQuiet
PROPERTIES ConfirmedByOwn ImplementsPublishContract StopEnds
CHECK_DEADLOCK FALSE
