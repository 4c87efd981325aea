SPECIFICATION Spec
CONSTANTS
    PGSIZE = 4096
    HEADER = 48
    WORD = 8
    Sizes = {1000, 4090}
    MAX_HELD = 3
CHECK_DEADLOCK FALSE
INVARIANT SlabsListed
INVARIANT CountIsBacked
INVARIANT NoIdleSlab
PROPERTY HeapSpec
