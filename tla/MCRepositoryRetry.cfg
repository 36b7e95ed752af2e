\* One job, review and retry: three attempts, against the ledger of calls.
CONSTANTS
    r1 = r1
    r2 = r2
    w1 = w1
    k1 = k1
    a1 = a1
    a2 = a2
    Runs = {r1}
    Jobs = {1}
    RunOf <- OneRun
    Derived = {}
    Tokens = {w1}
    Keys = {k1}
    CacheKey <- OneKey
    Results = {a1}
    SlotLimit = 1
    CallCeiling <- WithReview
    RetryCeiling = 1
    UnitCeiling = 3
    WarmKeys = {}
    Units = {1}
    MaxAttempts <- ThreeAttempts
SPECIFICATION RepoSpec
INVARIANTS
    AttemptMatchesJob
    NoSilentResend
    ApprovalSpentOnce
    CeilingRespected
PROPERTIES
    ImplementsLedger
