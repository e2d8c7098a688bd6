SPECIFICATION FairSpec
CONSTANTS
    Chunks = 2
    Settings = 1
    Backlog = 2
PROPERTIES ImplementsVerifiedTransfer DownloadEnds
