CONSTANTS
    f = f
    g = g
    Functions = {f, g}
    Nested = Nested
    Nothing = Nothing
    Keys <- KeysOf
    CfgSlots = 2
    CacheLimit = 3
    MaxGen = 2
    Quanta = 2
    Threads = {1, 2}
    Entry <- Entries
    Loops = {1}
    RestartAnytime = FALSE
SPECIFICATION Spec
INVARIANTS
    YieldResumesExactly
