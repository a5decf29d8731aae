SPECIFICATION GlueSpec
CONSTANTS
    BlockHashCount = 5
    EXISTENTIAL_DEPOSIT = 1
    MortalPeriod = 4
    Fee = 2
    GenesisBalance = 6
    FUND = 3
    STAKE = 2
    BOND = 1
    Authority = {"Alice", "Bob"}
    FullNode = {"Charlie"}
    DisableGrandpa = {}
    ForceAuthoring = {"Bob"}
    VotingDepth = 0
    PoolLimit = 2
    Priority <- CallPriority
    Budgets <- NetworkBudgets
    MaxCalls = 3
    Rpc = "Alice"
    TimeoutSlots = 2
INVARIANTS
    NodeTypeOK
    FinalityAgreement
    NonceOrder
    EraRespected
    SignersStayAlive
    NoEquivocation
    ResolvedStands
PROPERTIES
    FinalityKept
    SoleAuthorityNoReorg
    ReportSettles
    WaitEnds
CHECK_DEADLOCK FALSE
