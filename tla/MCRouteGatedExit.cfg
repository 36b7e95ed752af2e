\* A gate behind the exit of an accelerated loop.
CONSTANTS
    root = root
    body = body
    mid = mid
    target = target
    Nodes = {root, body, mid, target}
    Root = root
    Target = target
    Horizon = 9
    Unknown = Unknown
    None = None
    Requests <- GatedExitLoops
SPECIFICATION Spec
INVARIANTS
    NegativeIsTrue
CHECK_DEADLOCK FALSE
