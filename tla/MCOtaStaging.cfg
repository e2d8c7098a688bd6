SPECIFICATION FairSpec
CONSTANTS
    Probes = 2
    FileProbe = 1
    CaChunks = 2
    Chunks = 2
    Unanswered = 2
PROPERTIES ImplementsTransfers StagingEnds
