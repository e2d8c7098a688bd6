SPECIFICATION LoopSpec
CONSTANTS
    RingSize = 2
    CounterRange = 4
    Span = 2
    Serials = 3
    TickRange = 4
    Cooldown = 1
PROPERTY CooldownIsBounded
