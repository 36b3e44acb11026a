CONSTANTS
    x1 = x1  x2 = x2  x3 = x3  y1 = y1  y2 = y2  z1 = z1  z2 = z2
    r1 = r1  c1 = c1  c2 = c2  s1 = s1  s2 = s2  s3 = s3
    p1 = p1  p2 = p2  p3 = p3  d1 = d1  d2 = d2
    k1 = k1  k2 = k2  t1 = t1  t2 = t2  t3 = t3
    Users <- MCActors
    Reactors <- MCReactors
    Buffers <- MCResources
    Sizes <- MCSizes
    Cap = 2
    CudaThreads <- MCActors
    Contexts <- MCContexts
    Events <- MCPair
    Streams <- MCStreams
    NoContext = NoContext
    Page = 4
    Sector = 2
    FileEnd = 13
    IoOffsets <- MCIoOffsets
    IoSizes <- MCIoSizes
    Misalign <- MCMisalign
    BounceSizes <- MCBounceSizes
    MmapHandles <- MCActors
    Tokens <- MCTokens
    NoToken = NoToken
    PageBytes = 4
    Word = 16
    FileLengths <- MCFileLengths
    MapOffsets <- MCMapOffsets
    MapSizes <- MCMapSizes
    MapReadOffsets <- MCMapReadOffsets
    MapReadSizes <- MCMapReadSizes
    MapTaskSizes <- MCMapTaskSizes
    MapBounceSizes <- MCMapBounceSizes
    ToTheEnd = ToTheEnd
    FileHandles <- MCActors
    Fds <- MCResources
    NoFd = NoFd
    Paths <- MCPaths
    DeviceOf <- MCDeviceOf
    NoDevice = NoDevice
    ThreadPools <- MCPair
    DefaultPool = DefaultPool
    NoPool = NoPool
    Futures <- MCActors
    Blocks <- MCPair
    NoBlock = NoBlock
    Batches <- MCActors
    BatchIds <- MCPair
    NoBatchId = NoBatchId
    Thresholds <- MCThresholds
    Allocations <- MCPair
    PlanKeys <- MCPlanKeys
    PlanOffsets <- MCPlanOffsets
    PlanSizes <- MCPlanSizes
    MaxRequests = 3
    TaskSizes <- MCTaskSizes
    Gaps <- MCGaps
    NoGap = NoGap
    CurlThreads <- MCCurlThreads
    Handles <- MCPair
    Owners <- MCActors
    MaxPerCache = 2
    NoShare = NoShare
    ObjectSize = 4
    ReadSizes <- MCReadSizes
    ReadOffsets <- MCReadOffsets
    Capacities <- MCCapacities
    MaxPieces = 3
    AttemptLimits <- MCAttemptLimits
    ServerFaults <- AnyFault
    NoByte = NoByte
    AllowLists <- MCAllowLists
    RemoteSize = 3
    GivenSizes <- MCGivenSizes
    None = None
    Settings <- MCSettings
    Lowest <- MCLowest
    DefaultOf <- MCDefaultOf
    EnvValues <- MCEnvValues
    Garbage = Garbage
    SetterThreads <- MCActors
    SetValues <- MCSetValues
    NoSetter = NoSetter
SPECIFICATION Spec
INVARIANTS
    BufferSizesHold
    OneOwner
    ShardIsCounted
    CudaObjectsStayHome
    RangeIsMoved
    MmapOwnsOnce
    ReadsHitTheirBytes
    FilesOwnOnce
    PoolsArePerDevice
    CuFileObjectsOwned
    PropsMirrorDriver
    PlanTilesRequests
    FreeHandlesAreDetached
    SharesAreCounted
    BytesLandInPlace
    OpenIsAllowed
SYMMETRY PartsSymmetry
CHECK_DEADLOCK FALSE
