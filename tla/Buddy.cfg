SPECIFICATION Spec
CONSTANTS
    SIZE = 8
    RESERVED = 1
    Requests = {1, 3}
    REF_MAX = 2
CHECK_DEADLOCK FALSE
INVARIANT BitmapIsExact
PROPERTY AllocatorSpec
PROPERTY AllocIsFresh
