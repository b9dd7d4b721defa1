SPECIFICATION Spec
CONSTANTS
    A = A
    B = B
    C = C
    Addr = {A, B}
    NoAccount = NoAccount
    NoCall = NoCall
    Executors = {addBlock, executeBlock}
    Guarded = {addBlock}
    Txs <- WritingTxs
    Rewards <- RewardsToB
    Modulus = 5
    InitialBalance = 3
INVARIANT TypeOK
PROPERTY AccountsPersist
