SPECIFICATION BuildSpec
CONSTANTS
    Process = {b1}
    Job <- HonestJobs
    Tree <- TwoTrees
    FirstTree <- TheTree
    MaxBuilds = 2
    MaxEdits = 1
    MaxKills = 0
INVARIANTS
    HonestBuildReproducible
CHECK_DEADLOCK FALSE
