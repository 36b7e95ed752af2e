\* A segment whose sibling changes after a crash: two segments of a scene each, three starts.
CONSTANTS
    s1 = s1
    s2 = s2
    g1 = g1
    g2 = g2
    Scenes = {s1, s2}
    Segments = {g1, g2}
    Members <- EachScene
    Order <- StoryOrder
    BatchSize = 1
    MaxCalls = 5
    MaxAttempts = 3
    MaxTransient = 3
    MaxMalformed = 3
    Failures = {}
    MaxStarts = 3
SPECIFICATION Spec
INVARIANTS
    RestartAgrees
CHECK_DEADLOCK FALSE
