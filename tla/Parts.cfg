CONSTANTS
    MaxThreads = 3
    ReservedSlot = 1
    GenerationModulus = 65536
    MaxReuse = 2
    MaxSuspendCount = 2
    MaxTlsSlots = 1
    TlsValues = {0, 1}
    TargetKeys <- Keys2
    EdramTiles = 3
    MaxRows = 2
    TextureIds = {1}
    GpuPages = {1}
    LostPages = {9}
    RingSlots = 2
    StagingSlots = 2
    MaxStream = 5
    NoTarget = NoTarget
    Words7e3 <- AllWords7e3
    Words20e4 <- EdgeWords20e4
    DumpRows <- FirstRows
    TitleShaders = {s1, s2}
    NoShader = none
    MaxDevices = 2
    ResolveKeys = {k1, k2, k3}
    TargetSizes = {1, 2}
    MaxTargets = 2
    Resolvers = {r1, r2}
    MaxTextures = 4
    MaxFrames = 3
    MaxGenerations = 4
    MaxPending = 2
    SliceWords = 1
    MaxWords = 4
    Steps = 4
    Cooldown = 2
    RecoverySamples = 3
    MaxTime = 5
    Window = 2
    MaxFramesSeen = 3
    Script <- Reads
    ScriptSize = 6
    MaxRetries = 6
    MaxCache = 5
    CacheBlocks = {1, 2, 3}
    MaxBlocks = 2
    BlockReaders = {r1, r2}
    TreeNodes = {1, 2, 3}
    StfsSample <- BlockSample
    ChainBlocks = {0, 1, 2}
    ImageBlocks <- Images
    ChunkUnits = 2
    ZeroUnits = 2
    CryptoUnits = 3
    FrameChunks <- Chunks
    MaxRecords = 3
    ImageSizes = {1, 2, 3}
    HostBlocks = {1, 2, 3, 4}
    MaxRequests = 2
    PortLaunches = {l1, l2, l3}
    NoLaunch = none
    Buttons = {b1, b2}
    Moves = {w, a}
    SaveFiles = 2
    MaxLinks = 3
    MaxReserve = 7
    Offered <- OfferedFiles
    Nothing = nothing
    PoolWorkers <- TwoWorkers
    PoolJobs = {j1, j2, j3}
    MaxJobs = 2
    MaxDeploys = 2
    HistoryCapacity = 3
    MaxEvents = 4
    FrameSizes = {1}
    StackReserve = 0
    GuestCalls <- CallForms
    StopCases <- StopSample
    NextImages <- ImageSample
    Latches <- FaultSample
    MAX_LOGS = 2
    Messages = {"a", "b"}
    MaxAccepted = 5
    ConsoleResults = {1, 2}
    RingCapacity = 4
    DecoderCapacity = 2
    MaxQueued = 6
    HeaderSizes = {512, 4100}
    ImportPlans <- ImportedVariables
    MaxPuts = 1
    TitleEntries <- Entries32
    RingBases <- Bases32
    RingLogs = {9, 17}
    MaxShimCalls = 3
    TraceCapacity = 3
    TraceCallers = {c1, c2}
    MaxTraced = 8
    RecentLimit = 2
    OldestLimit = 2
SPECIFICATION PartsSpec
INVARIANTS
    StatesAgree
    NothingOutlivesItsThread
    CommandsSeeTheirs
    WordsComeBack
    CachesAreTrue
    
    PacingIsSteady
    ReadsGetOn
    TablesAreTrees
    ImageIsWhole
    BootIsClean
    SessionIsHeld
    PlayerFilesAreWhole
    GamesGetTheirOwn
    PageKeepsUp
    CauseIsNamed
    ConsoleIsTrue
    RingRunsOnce
    VariablesAreTheirs
    TraceIsTrue
CHECK_DEADLOCK FALSE
