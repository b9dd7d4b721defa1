SPECIFICATION TxSpec
CONSTANTS
    A = A
    B = B
    t1 = t1
    t2 = t2
    t3 = t3
    big = big
    Addr = {A, B}
    NoAccount = NoAccount
    Modulus = 8
    InitialBalance = 5
    Tx = {t1, t2, t3, big}
    NoTx = NoTx
    TxBody <- MCTxBody
    TxTimestamp <- MCTimestamp
    TxSize <- MCSize
    MinFee <- MCMinFee
    Boosted <- MCBoosted
    GasPrice <- MCGasPrice
    Funded = {A}
    MaxPoolSize = 2
    MaxTTL = 1
    PoolMaxTime = 3
    BaseGasPrice = 20
    MinGasPrice = 1
    Adjustments <- MCAdjustments
    Utilizations = {50}
    PoolSizes = {0}
    maxHistory = 2
    MaxPrice = 28
    k1 = k1
    OfflineTxs <- MCOfflineTxs
    Keys = {k1}
    Callers = {c1, c2}
    NoInfo = NoInfo
    Periods = {1, 2}
    SevenDays = 2
    Tolerances = {0, 1}
    FiveMinutes = 1
    maxFutureTime = 1
    MaxAccepts = 2
    OfflineMaxTime = 4
    lock = lock
    other = other
    Proofs <- MCProofs
    Owners = {A, B}
    Claimants = {c1, c2}
    NoClaim = NoClaim
    NoLimit = NoLimit
    OneV6 = 2
    Limits = {1, 3}
    proofValidity = 1
    LockValidity = 2
    MigrationMaxTime = 3
    blockWorker = blockWorker
    consensusWorker = consensusWorker
    rpcServer = rpcServer
    Launched <- MCLaunched
    Receivers = {blockWorker}
CHECK_DEADLOCK FALSE
PROPERTY EvictsLowest
