SPECIFICATION MCSpec
CONSTANTS
    Procs = {p1, p2, p3}
    Root = p1
    Tables = {t1, t2, t3}
    Fds = {3, 4}
    Data = {note}
    Programs = {prog}
    Missing = missing
    Foreign = foreign
    None = None
    Flags <- AllFlags
    Size <- Sizes
    Room = 1
    PGSIZE = 1
CHECK_DEADLOCK FALSE
INVARIANT HeldIsFile
INVARIANT ProgramReadsItsFile
PROPERTY DescSpec
SYMMETRY Symmetry
