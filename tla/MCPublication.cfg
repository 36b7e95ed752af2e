\* Two processes and two windows; an editorial and a synthesis run with one rollup.
CONSTANTS
    p1 = p1
    p2 = p2
    Runs = {r1, r2}
    Synthesis = {r2}
    Timelines = {t1}
    Rollups = 1
    Pages = 1
    Processes = {p1, p2}
    MaxCommands = 3
SPECIFICATION Spec
SYMMETRY Twins
INVARIANTS
    ReadableIsStored
    WindowIsCurrent
PROPERTIES
    OneHistory
    ViewNeverRegresses
CHECK_DEADLOCK FALSE
