CONSTANTS
    NumSlots = 1
    MaxGen = 1
    MaxFibers = 2
    Quantum = 1
    MaxLag = 1
    IdleStep = 2
    MaxIdle = 2
    Delays = {2}
    MaxClock = 5
    SleepClock = 5
    MaySuspend = TRUE
SPECIFICATION MCFairSpec
PROPERTIES
    IdleEnds
