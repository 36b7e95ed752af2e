\* Two scenes in a batch and the segment above them, at the limit of calls; one crash or
\* interruption can be retried.
CONSTANTS
    s1 = s1
    s2 = s2
    g1 = g1
    g2 = g2
    Scenes = {s1, s2}
    Segments = {g1}
    Members <- AllScenes
    Order <- StoryOrder
    BatchSize = 2
    MaxCalls = 2
    MaxAttempts = 2
    MaxTransient = 1
    MaxMalformed = 2
    Failures = {"transient", "refusal"}
    MaxStarts = 2
SPECIFICATION FairSpec
INVARIANTS
    PhaseWithinLimit
    SentIsCharged
    ResumeAgrees
PROPERTIES
    AcceptedNeverResent
    RunEnds
CHECK_DEADLOCK FALSE
