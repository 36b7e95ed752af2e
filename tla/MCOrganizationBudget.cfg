\* One run of two scopes on two threads, one scope in two parts: ledger, repairs, withdrawal.
CONSTANTS
    g1 = g1
    g2 = g2
    id1 = id1
    id2 = id2
    id3 = id3
    text1 = text1
    Scopes = {1, 2}
    Identities = {id1, id2, id3}
    Identity <- TwoIdentities
    Generations = {g1, g2}
    Selections = {{1, 2}}
    Texts = {text1}
    Parts <- SplitFirst
    Ceiling = 2
    HardTokens = 5
    HardCalls = 3
    Reports <- AllReports
    Answers = {"valid", "invalid", "withdrawn"}
    InitialWorkers = 2
    MaximumWorkers = 2
    MaximumRepairs = 1
    RampAfter = 1
    MaxRuns = 1
    MaxTexts = 0
    MaxEdits = 0
    MaxEvents = 2
SPECIFICATION FairSpec
INVARIANTS
    BudgetHeld
    ChargesAddUp
    LateAtMostOnce
    CompletedIsDurable
PROPERTIES
    RunEnds
CHECK_DEADLOCK FALSE
