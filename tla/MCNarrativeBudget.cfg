\* Two scenes in a batch and the segment above them; one crash or interruption can be retried.
CONSTANTS
    s1 = s1
    s2 = s2
    g1 = g1
    g2 = g2
    Scenes = {s1, s2}
    Segments = {g1}
    Members <- AllScenes
    Order <- StoryOrder
    BatchSize = 2
    MaxCalls = 2
    MaxAttempts = 2
    MaxTransient = 2
    MaxMalformed = 2
    Failures = {"transient"}
    MaxStarts = 2
SPECIFICATION Spec
INVARIANTS
    CallsWithinConsent
CHECK_DEADLOCK FALSE
