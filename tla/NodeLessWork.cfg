SPECIFICATION NodeSpec
CONSTANTS
    A = A
    B = B
    g = g
    a1 = a1
    a2 = a2
    a3 = a3
    c2 = c2
    c3 = c3
    x1 = x1
    p2 = p2
    Addr = {A, B}
    NoAccount = NoAccount
    Modulus = 64
    InitialBalance = 4
    Block = {g, a1, a2, a3, c2}
    NoBlock = NoBlock
    Genesis = g
    Header <- MCHeader
    BlockTxs <- MCBlockTxs
    MaxHeight = 3
    MaxTime = 2
    Drift = 1
    Workers = {blockWorker}
    NoWorker = NoWorker
    maxForkDepth = 2
    BlockReward <- ConstantReward
    MaxForks = 1
    Proposers = {}
    Received = {a1, a2, a3, c2}
    Proposals = {}
PROPERTY MoreWorkOnly
