SPECIFICATION FairSpec
CONSTANTS
    NR_TASKS = 4
    PRIORITY_MIN = 1
    PRIORITY_MAX = 2
    CPID_MAX = 3
CHECK_DEADLOCK FALSE
INVARIANT CpuOnRunningTask
INVARIANT IdleOnlyWhenNothingRuns
INVARIANT WaitQueueAgrees
INVARIANT ParentAlive
INVARIANT ChildListed
INVARIANT Rooted
PROPERTY DeadStayDead
PROPERTY ExitWakesWaiter
PROPERTY TreeSpec
PROPERTY StarvationFree
