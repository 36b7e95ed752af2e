\* Loops with and without acceleration authority, one exit where it accelerates.
CONSTANTS
    root = root
    body = body
    mid = mid
    target = target
    Nodes = {root, body, mid, target}
    Root = root
    Target = target
    Horizon = 9
    Unknown = Unknown
    None = None
    Requests <- SoundRequests
SPECIFICATION Spec
INVARIANTS
    NegativeIsTrue
    ConfirmedIsWalkable
    RepetitionsAreReal
    NoDirectRouteIsBetter
CHECK_DEADLOCK FALSE
