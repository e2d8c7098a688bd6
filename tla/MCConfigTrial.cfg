SPECIFICATION FairSpec
CONSTANTS
    c1 = c1
    c2 = c2
    c3 = c3
    Config = {c1, c2, c3}
    NoConfig = NoConfig
    Damaged = Damaged
    MaxSession = 3
PROPERTIES ImplementsConfigSwitch ActionInTime TrialEnds
