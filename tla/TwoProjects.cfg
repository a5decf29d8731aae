SPECIFICATION Spec
CONSTANTS
    ACCURACY = 10
    MaxU128 = 1000
    Account = {"alice", "foo", "bs"}
    ExistentialDeposit = 1
    Endowment = 20
    Source = {"c0ff33d"}
    Hash = {h1, h2}
    Version = {"1.2.3"}
    Cid = {"cid1"}
    Genesis <- TwoProjectsGenesis
    MaxEnactmentsPerBlock = 1
    MaxBlock = 9
    Horizon = 3
    MaxProjects = 2
    MaxProposals = 2
SYMMETRY HashSymmetry
INVARIANTS
    EscrowMatchesBooks
    PendingExact
    AcceptedIffEqOne
PROPERTIES
    SlashOnlyOnRejection
    ImplementsLedger
CHECK_DEADLOCK FALSE
