SPECIFICATION Spec
CONSTANTS
    index = index
    style = style
    Change = {c1, c2, c3}
    Build = {b1, b2, b3}
    NoBuild = NoBuild
    Worker = {w1, w2}
    NoWorker = NoWorker
    Editor = {e1, e2}
    NoChange = NoChange
    Path = {index}
    Paths <- IndexOnly
    MaxSource = 1
    MaxAttempts = 1
    Lapses = 1
    Crashes = 0
CHECK_DEADLOCK FALSE
SYMMETRY Names
INVARIANTS OnePublishedReady
