SPECIFICATION Spec
CONSTANTS
    RADIX = 2
    PGSIZE = 2
    Perms = {"x", "w", "user"}
    None = None
    Wild = Wild
    NR_VMA_SLOTS = 3
    USER_END = 6
    Sections <- KernelSections
    Images <- Programs
    Lens = {2}
CHECK_DEADLOCK FALSE
INVARIANT MmapAddsArea
