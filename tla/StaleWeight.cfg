SPECIFICATION Spec
CONSTANTS
    ACCURACY = 10
    MaxU128 = 1000
    Account = {"alice", "foo", "bs"}
    ExistentialDeposit = 1
    Endowment = 12
    Source = {"c0ff33d"}
    Hash = {h1, h2}
    Version = {"1.2.3"}
    Cid = {"cid1"}
    Genesis <- StaleWeightGenesis
    MaxEnactmentsPerBlock = 2
    MaxBlock = 9
    Horizon = 3
    MaxProjects = 1
    MaxProposals = 2
INVARIANTS
    ApprovalBackedByStake
CHECK_DEADLOCK FALSE
