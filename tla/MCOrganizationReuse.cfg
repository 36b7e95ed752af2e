\* Two runs of different selections: what registration does to validated scopes.
CONSTANTS
    g1 = g1
    g2 = g2
    id1 = id1
    id2 = id2
    id3 = id3
    text1 = text1
    Scopes = {1, 2}
    Identities = {id1, id2, id3}
    Identity <- TwoIdentities
    Generations = {g1, g2}
    Selections = {{1}, {2}}
    Texts = {text1}
    Parts <- OnePart
    Ceiling = 2
    HardTokens = 4
    HardCalls = 2
    Reports <- NoReports
    Answers = {"valid"}
    InitialWorkers = 1
    MaximumWorkers = 1
    MaximumRepairs = 1
    RampAfter = 2
    MaxRuns = 2
    MaxTexts = 0
    MaxEdits = 0
    MaxEvents = 1
SPECIFICATION Spec
PROPERTIES
    ValidationIsKept
CHECK_DEADLOCK FALSE
