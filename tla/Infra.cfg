SPECIFICATION InfraSpec
CONSTANTS
    ka = ka
    kb = kb
    kc = kc
    f1 = f1
    f2 = f2
    i1 = i1
    i2 = i2
    g1 = g1
    g2 = g2
    g3 = g3
    CacheKeys = {ka, kb, kc}
    Sizes = {0, 2}
    TTLs = {0}
    NoExpiry = NoExpiry
    CacheMaxTime = 2
    DBKeys = {ka, kb, kc}
    DBValues = {1, 2}
    Files = {f1, f2}
    File <- MCFile
    Entries <- MCEntries
    Batches <- MCBatches
    DBCacheSize = 2
    NoFile = NoFile
    Torn = Torn
    Absent = Absent
    InDoubt = InDoubt
    MaxFaults = 2
    IterKeys = {1, 2, 3}
    Prefix = {2, 3}
    SourceValues = {10}
    Missing = Missing
    Empty = Empty
    BatchedKeys = {x, y}
    BatchedValues = {1, 2}
    PutSize = 2
    DeleteSize = 1
    MaxBatchSize = 4
    MaxBuilderFaults = 1
    FreshIDs = {fresh}
    ForeignIDs = {x, z}
    EmptyIDs = {fresh}
    Workers = {w1, w2}
    NewTTL = 5
    ForeignTTLs = {1}
    ValidatorTTL = 2
    MaxHops = 2
    TTLModulus = 6
    SeenLimit = 1
    CleanLimit = 0
    MaxPending = 1
    MaxHandled = 2
    PeerIDs = {i, j}
    Conns = {k, l}
    maxPeers = 1
    MaxAge = 0
    PeerMaxTime = 1
    RateCallers = {c1, c2}
    maxMessages = 2
    Window = 2
    RateMaxTime = 4
    DHTNodes <- MCDHTNodes
    Self <- MCSelf
    K = 2
    Targets <- MCTargets
    BootstrapLists <- MCBootstrapLists
    TablePeers = {g1, g2, g3}
    Versions = {1, 2}
    GetBucket <- MCGetBucket
    NoPeer = NoPeer
    TableMax = 2
    LeafHashes <- MCLeafHashes
    NoHash = NoHash
    MaxLeaves = 7
    TrieKeys <- MCTrieKeys
    TrieValues = {1, 2}
CHECK_DEADLOCK FALSE
INVARIANT InfraTypesOK
INVARIANT StoresSound
INVARIANT HelpersSound
INVARIANT DeliveriesBounded
INVARIANT PeersSound
INVARIANT RateBounded
INVARIANT TablesSound
INVARIANT RootsCommit
INVARIANT AnswersOwn
