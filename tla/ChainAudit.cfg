SPECIFICATION AuditSpec
CONSTANTS
    A = A
    B = B
    g = g
    a1 = a1
    a2 = a2
    a3 = a3
    b1 = b1
    b2 = b2
    b3 = b3
    c2 = c2
    c3 = c3
    bad = bad
    root = root
    Addr = {A, B}
    NoAccount = NoAccount
    Modulus = 64
    InitialBalance = 4
    Block = {g, a1, a2, a3, b1, b2, b3, c2, c3, bad, root}
    NoBlock = NoBlock
    Genesis = g
    Header <- MCHeader
    BlockTxs <- MCBlockTxs
    MaxHeight = 3
    MaxTime = 3
    Drift = 1
CHECK_DEADLOCK FALSE
INVARIANT TypeOK
INVARIANT TreeIndexed
INVARIANT HeadIsLongest
INVARIANT ForkAlwaysDecided
INVARIANT CleanState
PROPERTY HeadAdvances
PROPERTY AddBlockReturns
