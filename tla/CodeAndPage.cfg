CONSTANTS
    Threads = {t1,t2,t3}
    t1 = t1
    t2 = t2
    t3 = t3
    event = event
    sem = sem
    mutant = mutant
    section = section
    lock = lock
    Nobody = Nobody
    NoObject = NoObject
    NotificationEvents = {event}
    SynchronizationEvents = {}
    Semaphores = {}
    Mutants = {}
    Sections = {}
    Locks = {lock}
    Limit = 1
    MaxDepth = 2
    TitleCalls <- LockCalls
    InterruptEvents = {event}
    GuestFunctions = {f, g}
    NeedsBuilder = {g}
    Budget = 1
    CompiledLimit = 1
    HotThreshold = 2
    MaxRewrites = 1
    MaxRequests = 1
    MaxFrames = 2
    MaxTitles = 2
    MaxLocks = 3
    MaxToggles = 2
    LibraryGames = {g1, g2}
    NoGame = none
    MaxClock = 1
    MaxCalls = 2
    MaxDrawings = 2
    PcFiles <- PortalFiles
    PcParents <- PortalParents
    Lowercase <- LowerNames
    MaxFolders = 1
    PcGames = {g1, g2, g3}
    KnownGames = {g1, g2}
    Runtimes = {r1, r2}
    Blocked = {r2}
    NoPcGame = none
    NoRuntime = none
    MaxOpened = 2
    MaxChosen = 3
    DiscPaths <- OneLevel
    ContentPaths <- NestedPaths
    PackageNames = {"p", "q"}
    Roots = {"save"}
    LinkNames = {"cache"}
    Dispositions = {1, 2, 5}
    FileHandles = {"h"}
    FolderHandles = {}
    MaxDevices = 2
SPECIFICATION CodeAndPageSpec
INVARIANTS
    WaitsAgree
    CodeIsCurrent
    BrowserFollows
    LibraryIsTrue
    FolderIsTheGame
    ContentIsKept
