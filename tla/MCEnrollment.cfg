SPECIFICATION FairSpec
CONSTANTS
    Chunks = 3
    Settings = 3
    Backlog = 4
INVARIANTS RequestInStep TrustsPinnedCa SessionClosed
PROPERTIES ImplementsEnrolmentRequest RequestEnds
