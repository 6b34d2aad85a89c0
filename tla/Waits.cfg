CONSTANTS
    Threads = {t1,t2}
    t1 = t1
    t2 = t2
    event = event
    sem = sem
    mutant = mutant
    section = section
    lock = lock
    Nobody = Nobody
    NoObject = NoObject
    NotificationEvents = {}
    SynchronizationEvents = {event}
    Semaphores = {sem}
    Mutants = {mutant}
    Sections = {section}
    Locks = {}
    Limit = 1
    MaxDepth = 2
    TitleCalls <- MixedCalls
    InterruptEvents = {event}
    PortLaunches = {l1, l2, l3}
    NoLaunch = none
    Buttons = {b1, b2}
    Moves = {w, a}
    SaveFiles = 2
    MaxLinks = 3
    MaxReserve = 7
    Launches <- Two
    Cores <- Two
    AssetFaults = {"sha256"}
    MaxFetches = 1
SPECIFICATION WaitingSpec
INVARIANTS
    TypeOK
    WaitsAgree
    LaunchesShareTheCore
PROPERTIES
    UntimedExactlyOnce
    EngineStarts
    SupersededStops
