CONSTANTS
    MAX_THREAD_COUNT = 4
    MAX_CHILD_COUNT = 2
    schedulingAlgo = 4
    UserTick = 1
    SystemTick = 2
    TimerTicks = 2
    ConsoleTime = 2
    SCHED_QUANTUM = 2
    SleepTimes = {3}
    randomYield = TRUE
SPECIFICATION UnixFairSpec
INVARIANT TimeSlice
PROPERTY ReadyRuns
