CONSTANTS
    q1 = q1
    q2 = q2
    Word = 64
    PerSecond = 5
    Share = 4
    Minimum = 10
    DefaultLifetime = 6
    Configured <- MCConfigured
    TickRate = 3
    TickWord = 156
    Delay = 2
    Slots = {q1, q2}
    MaxOthers = 1
    MaxMissed = 1
SPECIFICATION Spec
SYMMETRY Symmetry
CHECK_DEADLOCK FALSE
INVARIANTS
    KeepaliveInv
    RefreshedInTime
    FoundOut
