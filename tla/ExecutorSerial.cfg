SPECIFICATION BookSpec
CONSTANTS
    A = A
    B = B
    C = C
    Addr = {A, B, C}
    NoAccount = NoAccount
    NoCall = NoCall
    Executors = {addBlock, reorg}
    Guarded = {addBlock, reorg}
    Txs <- PlainTxs
    Rewards <- RewardsToC
    Modulus = 64
    InitialBalance = 4
    MaxGranted = 14
INVARIANT Conservation
PROPERTY ImplementsLedger
