\* A loop entered at a node whose own effect changes the variable, and a direct
\* way through a loop; with -continue TLC reports both properties.
CONSTANTS
    root = root
    body = body
    mid = mid
    target = target
    Nodes = {root, body, mid, target}
    Root = root
    Target = target
    Horizon = 9
    Unknown = Unknown
    None = None
    Requests <- Repetitions
SPECIFICATION Spec
INVARIANTS
    RepetitionsAreReal
    NoDirectRouteIsBetter
CHECK_DEADLOCK FALSE
