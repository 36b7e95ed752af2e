\* One editorial run in one process: two answers of the provider, one crash in between.
CONSTANTS
    p1 = p1
    p2 = p2
    Runs = {r1}
    Synthesis = {}
    Timelines = {t1, t2}
    Rollups = 0
    Pages = 1
    Processes = {p1}
    MaxCommands = 2
SPECIFICATION Spec
INVARIANTS
    ResumeIsNotRefused
CHECK_DEADLOCK FALSE
