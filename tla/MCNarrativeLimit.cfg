\* Every failure a provider can report, up to the limit of calls.
CONSTANTS
    s1 = s1
    s2 = s2
    g1 = g1
    g2 = g2
    Scenes = {s1, s2}
    Segments = {}
    Members <- AllScenes
    Order <- StoryOrder
    BatchSize = 2
    MaxCalls = 2
    MaxAttempts = 2
    MaxTransient = 2
    MaxMalformed = 2
    Failures = {"withdrawn", "global", "transient", "limit", "refusal", "output", "other"}
    MaxStarts = 2
SPECIFICATION FairSpec
INVARIANTS
    PhaseWithinLimit
PROPERTIES
    RunEnds
CHECK_DEADLOCK FALSE
