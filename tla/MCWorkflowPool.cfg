\* Two workers, two mapping jobs, a section and the rollup, no fault: phases, claims, review.
CONSTANTS
    r1 = r1
    w1 = w1
    w2 = w2
    cloud1 = cloud1
    cloud2 = cloud2
    cloud3 = cloud3
    cloud4 = cloud4
    local1 = local1
    good = good
    dubious = dubious
    Runs = {r1}
    Jobs = {1, 2, 3, 4}
    RunOf <- OneRun
    Derived = {3, 4}
    Tokens = {w1, w2}
    Keys = {cloud1, cloud2, cloud3, cloud4}
    CacheKey <- CloudKeys
    Results = {good, dubious}
    SlotLimit = 2
    CallCeiling <- TwoMappings
    RetryCeiling = 1
    UnitCeiling = 1
    WarmKeys = {}
    Units = {0}
    MaxAttempts <- EnoughAttempts
    WorkerRun <- WorkersOfOne
    LocalKey <- CloudKeys
    Fallback = FALSE
    Flagged = {dubious}
    DerivedKind <- SectionDerived
    ResumesLive = FALSE
    MaxFaults = 0
SPECIFICATION FairWorkflow
INVARIANTS
    CleanDrain
PROPERTIES
    StartedIsPublished
CHECK_DEADLOCK FALSE
