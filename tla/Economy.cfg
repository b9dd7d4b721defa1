SPECIFICATION EconomySpec
CONSTANTS
    Validator = {v1, v2}
    NoRecord = NoRecord
    Amounts = {0, 1, 2}
    MinStakeAmount = 1
    MinUnstakePeriod = 1
    UnstakePeriod = 1
    StakeModulus = 3
    OnlineWindow = 1
    BaseReward = 30
    HalvingInterval = 2
    Heights = {0, 3}
    MaxEntered = 3
    MaxUnstakes = 2
    StakeMaxTime = 3
    p1 = p1
    p2 = p2
    x1 = x1
    x2 = x2
    Proposal = {p1, p2}
    ProposalType <- MCProposalType
    Fields <- MCFields
    Deposit <- MCDeposit
    MinProposalDeposit = 1
    Voter = {x1, x2}
    NoVote = NoVote
    Weights = {3}
    Score <- MCScore
    Staked <- MCStaked
    TotalSupply = 20
    VotingPeriod = 1
    GovModulus = 4
    MaxCreated = 2
    GovMaxTime = 3
    n1 = n1
    n2 = n2
    n3 = n3
    d1 = d1
    d2 = d2
    d3 = d3
    prefixA = prefixA
    prefixB = prefixB
    PeerID = {n1, n2, n3}
    NoContribution = NoContribution
    Window = 1
    Gigabyte = 1
    ValidatorCount = 2
    EngineTx <- MCEngineTx
    MaxHeight = 1
    Device = {d1, d2, d3}
    GetPrefix <- MCGetPrefix
    NoCount = NoCount
    MaxDevices = 2
    EngineMaxTime = 1
    PoCNode = {n1, n2, n3}
    extractPrefix <- MCextractPrefix
    NoPeer = NoPeer
    OnlineMax = 1
    ForwardMax = 1
    Measurements <- MCMeasurements
    validatorCount = 2
    maxPerPrefix = 1
    PoCMaxTime = 1
    NoPassword = NoPassword
    Passwords = {NoPassword, p}
    NilHash = NilHash
    Plain = Plain
    Builders = {b1, b2}
    ExplicitNonces = {0, 1}
    MaxAccounts = 2
    MaxNonce = 1
    MaxEncryptFaults = 1
CHECK_DEADLOCK FALSE
INVARIANT EconomyTypesOK
INVARIANT StakesAccounted
INVARIANT SharesFair
INVARIANT VotesDecide
INVARIANT SelectionSound
INVARIANT KeysKept
INVARIANT NonceOnce
PROPERTY DecisionFinal
