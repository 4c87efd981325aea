SPECIFICATION Spec
CONSTANTS
    NR_TASKS = 4
    PRIORITY_MIN = 1
    PRIORITY_MAX = 1
    CPID_MAX = 4
CHECK_DEADLOCK FALSE
INVARIANT NoSleepOnDeadChild
