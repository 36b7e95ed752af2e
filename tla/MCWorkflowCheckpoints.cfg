\* A crash between storing a result and finalizing its job.
CONSTANTS
    r1 = r1
    w1 = w1
    w2 = w2
    cloud1 = cloud1
    cloud2 = cloud2
    cloud3 = cloud3
    cloud4 = cloud4
    local1 = local1
    good = good
    dubious = dubious
    Runs = {r1}
    Jobs = {1}
    RunOf <- OneRun
    Derived = {}
    Tokens = {w1}
    Keys = {cloud1, local1}
    CacheKey <- CloudKeys
    Results = {good, dubious}
    SlotLimit = 1
    CallCeiling <- OneOfEach
    RetryCeiling = 1
    UnitCeiling = 1
    WarmKeys = {}
    Units = {0}
    MaxAttempts <- EnoughAttempts
    WorkerRun <- WorkersOfOne
    LocalKey <- LocalKeys
    Fallback = TRUE
    Flagged = {dubious}
    DerivedKind <- SectionDerived
    ResumesLive = FALSE
    MaxFaults = 1
SPECIFICATION Workflow
INVARIANTS
    RecoveryFinishesCheckpoints
CHECK_DEADLOCK FALSE
