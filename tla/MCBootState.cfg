SPECIFICATION Spec
CONSTANTS
    r1 = r1
    r2 = r2
    Record = {r1, r2}
    NoRecord = NoRecord
    Words = 3
    MaxSequence = 5
PROPERTIES ImplementsAtomicRecord
