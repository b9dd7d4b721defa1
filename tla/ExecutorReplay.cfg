SPECIFICATION BookSpec
CONSTANTS
    A = A
    B = B
    C = C
    Addr = {A, B}
    NoAccount = NoAccount
    NoCall = NoCall
    Executors = {addBlock}
    Guarded = {addBlock}
    Txs <- CrossTxs
    Rewards <- NoRewards
    Modulus = 64
    InitialBalance = 8
    MaxGranted = 16
INVARIANT NoReplay
