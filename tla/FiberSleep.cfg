CONSTANTS
    NumSlots = 2
    MaxGen = 1
    MaxFibers = 3
    Quantum = 1
    MaxLag = 1
    IdleStep = 2
    MaxIdle = 2
    Delays = {2}
    MaxClock = 5
    SleepClock = 4
    MaySuspend = TRUE
SPECIFICATION MCFairSpec
INVARIANTS
    OneMayRun
    EveryThreadGoesOn
    DeadlineIsOwn
    FairShare
PROPERTIES
    IdleEndsUnlessOverdue
