SPECIFICATION FairSpec
CONSTANTS
    w1 = w1
    w2 = w2
    b1 = b1
    b2 = b2
    Workers <- TwoWorkers
    Runs = {1, 2}
    Batches <- TwoBatches
    JobStatusCheck <- IntendedCheck
    MaxFaults = 2
INVARIANTS
    TypeOK
    RunFollowsJobs
    ActiveRunHasLiveJob
    StageRunsOnce
PROPERTIES
    RunsFinish
    ProgressSpec
