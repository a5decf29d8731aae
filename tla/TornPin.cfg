SPECIFICATION BuildSpec
CONSTANTS
    Process = {b1}
    Job <- DemoJobs
    Tree <- OneTree
    FirstTree <- TheTree
    MaxBuilds = 2
    MaxEdits = 0
    MaxKills = 1
INVARIANTS
    PinnedIsReadable
CHECK_DEADLOCK FALSE
