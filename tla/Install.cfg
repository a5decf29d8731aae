SPECIFICATION FairDistribution
CONSTANTS
    Process = {b1, b2}
    Job <- HonestJobs
    Tree <- TwoTrees
    FirstTree <- TheTree
    MaxBuilds = 2
    MaxEdits = 1
    MaxKills = 1
    MaxCrashes = 1
    Registered = {"bs"}
    ReleaseVersion = {"1.2.3", "1.2.4"}
    StrayCid <- NowhereCid
    MaxLog = 2
INVARIANTS
    SyncReportTrue
    PinnedUnlessRewritten
PROPERTIES
    InstalledPairBinds
    EventuallyInstalled
