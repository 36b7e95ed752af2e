\* Two workers, a mapping job and the section that waits for it, one fault, fair threads.
\* An earlier run may have filled the cache for the mapping job.
CONSTANTS
    r1 = r1
    w1 = w1
    w2 = w2
    cloud1 = cloud1
    cloud2 = cloud2
    cloud3 = cloud3
    cloud4 = cloud4
    local1 = local1
    good = good
    dubious = dubious
    Runs = {r1}
    Jobs = {1, 2}
    RunOf <- OneRun
    Derived = {2}
    Tokens = {w1, w2}
    Keys = {cloud1, cloud2}
    CacheKey <- CloudKeys
    Results = {good}
    SlotLimit = 1
    CallCeiling <- OneOfEach
    RetryCeiling = 1
    UnitCeiling = 1
    WarmKeys = {cloud1}
    Units = {0}
    MaxAttempts <- EnoughAttempts
    WorkerRun <- WorkersOfOne
    LocalKey <- CloudKeys
    Fallback = FALSE
    Flagged = {}
    DerivedKind <- SectionDerived
    ResumesLive = TRUE
    MaxFaults = 1
SPECIFICATION FairWorkflow
INVARIANTS
    DerivedAfterMapping
PROPERTIES
    ExecutionEnds
    CancellationStops
CHECK_DEADLOCK FALSE
