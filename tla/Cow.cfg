SPECIFICATION MCSpec
CONSTANTS
    Procs = {p1, p2, p3}
    Root = p1
    Pages = {v1, v2}
    Frames = {f1, f2, f3}
    NoFrame = NoFrame
    Values = {x1, x2}
    MAX_OVERLAP = 2
    REF_MAX = 3
CHECK_DEADLOCK FALSE
INVARIANT RefCountCovers
INVARIANT WriterIsAlone
INVARIANT StoreFaultEnds
INVARIANT TlbIsolation
PROPERTY PrivateSpec
SYMMETRY Symmetry
