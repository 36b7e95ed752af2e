\* Two runs whose jobs share a cache identity (the second run registers its job late),
\* and validators that disagree.
CONSTANTS
    r1 = r1
    r2 = r2
    w1 = w1
    k1 = k1
    a1 = a1
    a2 = a2
    Runs = {r1, r2}
    Jobs = {1, 2}
    RunOf <- RunEach
    Derived = {2}
    Tokens = {w1}
    Keys = {k1}
    CacheKey <- OneKey
    Results = {a1, a2}
    SlotLimit = 1
    CallCeiling <- MappingOnly
    RetryCeiling = 0
    UnitCeiling = 1
    WarmKeys = {}
    Units = {0}
    MaxAttempts <- OneThenNone
SPECIFICATION RepoSpec
SYMMETRY ResultSymmetry
INVARIANTS
    SlotBound
    RunStatusFresh
    AcceptedIsCached
PROPERTIES
    CancellationHolds
