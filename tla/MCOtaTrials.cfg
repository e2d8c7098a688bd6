SPECIFICATION TrialSpec
CONSTANTS
    factory = factory
    good = good
    faulty = faulty
    Image = {factory, good, faulty}
    NoImage = NoImage
    Bad = Bad
    NoRecord = NoRecord
    Factory = factory
    Faulty = {faulty}
    Misnamed = {}
    ReadyGate = TRUE
    MaxFaults = 5
INVARIANTS RunsRecordedImage SlotsIntact NotStranded
PROPERTIES FailuresAreItsOwn BootReachesApp FaultyRolledBack
\* An App whose commit failed after its record took effect, and a Boot whose
\* install attempt could not be recorded, wait for somebody to reset them.
CHECK_DEADLOCK FALSE
