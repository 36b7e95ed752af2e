\* Two scopes, two runs, two generations: registration, replay, assemblies, crash and refresh.
CONSTANTS
    g1 = g1
    g2 = g2
    id1 = id1
    id2 = id2
    id3 = id3
    text1 = text1
    Scopes = {1, 2}
    Identities = {id1, id2, id3}
    Identity <- TwoIdentities
    Generations = {g1, g2}
    Selections = {{1}}
    Texts = {text1}
    Parts <- OnePart
    Ceiling = 2
    HardTokens = 4
    HardCalls = 2
    Reports <- NoReports
    Answers = {"valid"}
    InitialWorkers = 1
    MaximumWorkers = 1
    MaximumRepairs = 1
    RampAfter = 2
    MaxRuns = 2
    MaxTexts = 1
    MaxEdits = 2
    MaxEvents = 2
SPECIFICATION Spec
SYMMETRY GenerationSymmetry
INVARIANTS
    CachedIsNotSent
    ValidatedIsCached
    AssembliesAreCurrent
CHECK_DEADLOCK FALSE
