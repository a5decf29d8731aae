SPECIFICATION FairSpec
CONSTANTS
    ACCURACY = 10
    MaxU128 = 1000
    Account = {"alice", "bob", "foo", "bs"}
    ExistentialDeposit = 1
    Endowment = 12
    Source = {"c0ff33d"}
    Hash = {h1, h2}
    Version = {"1.2.3"}
    Cid = {"cid1"}
    Genesis <- LifecycleGenesis
    MaxEnactmentsPerBlock = 2
    MaxBlock = 9
    Horizon = 6
    MaxProjects = 1
    MaxProposals = 1
    MaxDen = 7
INVARIANTS
    TypeOK
    NoMissedEnactment
    StatusTracksQuorums
    AcceptedIffEqOne
    TalliesRecount
    NoRatioRefused
    ShortfallBelowOnePart
PROPERTIES
    EnactedOnTime
    ApprovalResolves
CHECK_DEADLOCK FALSE
