SPECIFICATION FairSpec
CONSTANTS
    index = index
    style = style
    Change = {c1}
    Build = {b1, b2}
    NoBuild = NoBuild
    Worker = {w1, w2}
    NoWorker = NoWorker
    Editor = {e1}
    NoChange = NoChange
    Path = {style, index}
    Paths <- IndexLast
    MaxSource = 2
    MaxAttempts = 2
    Lapses = 0
    Crashes = 1
CHECK_DEADLOCK FALSE
INVARIANT ReadyBuildsImmutable
PROPERTY EveryBuildEnds
