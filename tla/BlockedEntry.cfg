SPECIFICATION FairDistribution
CONSTANTS
    Process = {b1}
    Job <- HonestJobs
    Tree <- OneTree
    FirstTree <- TheTree
    MaxBuilds = 1
    MaxEdits = 0
    MaxKills = 0
    MaxCrashes = 0
    Registered = {"bs"}
    ReleaseVersion = {"1.2.3", "1.2.4"}
    StrayCid <- NowhereCid
    MaxLog = 2
PROPERTIES
    EveryBlessedEntryInstalled
