SPECIFICATION Spec
CONSTANTS
    Tasks = {p1, p2, p3}
    First = p1
    Idle = Idle
    Values = {v1, v2}
    Start = v1
    Behind = Behind
    User = User
    Junk = Junk
    Nested = Nested
    Result = Result
    Zero = Zero
    DEPTH = 6
CHECK_DEADLOCK FALSE
INVARIANT StacksHold
INVARIANT ResumesAsItWas
SYMMETRY Symmetry
