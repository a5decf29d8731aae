SPECIFICATION Spec
CONSTANTS
    ACCURACY = 10
    MaxU128 = 1000
    Account = {"alice", "foo", "bs"}
    ExistentialDeposit = 1
    Endowment = 12
    Source = {"c0ff33d"}
    Hash = {h1, h2}
    Version = {"1.2.3"}
    Cid = {"cid1"}
    Genesis <- SlashGenesis
    MaxEnactmentsPerBlock = 2
    MaxBlock = 5
    Horizon = 3
    MaxProjects = 1
    MaxProposals = 2
SYMMETRY HashSymmetry
INVARIANTS
    PendingExact
    EscrowMatchesBooks
    LogMatchesProposals
    TalliesCoverVotes
    NoMissedEnactment
PROPERTIES
    SlashOnlyOnRejection
    FundsConserved
    StaleUntilTouched
CHECK_DEADLOCK FALSE
