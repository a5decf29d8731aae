SPECIFICATION FairSpec
CONSTANTS
    ACCURACY = 10
    MaxU128 = 1000
    Account = {"alice", "bs"}
    ExistentialDeposit = 1
    Endowment = 12
    Source = {"c0ff33d"}
    Hash = {h1, h2}
    Version = {"1.2.3"}
    Cid = {"cid1"}
    Genesis <- BuilderQuorumGenesis
    MaxEnactmentsPerBlock = 2
    MaxBlock = 5
    Horizon = 4
    MaxProjects = 1
    MaxProposals = 2
PROPERTIES
    ProposalsEnd
CHECK_DEADLOCK FALSE
