CONSTANTS
    MAX_THREAD_COUNT = 4
    MAX_CHILD_COUNT = 4
    schedulingAlgo = 3
    UserTick = 1
    SystemTick = 2
    TimerTicks = 4
    ConsoleTime = 3
    SCHED_QUANTUM = 4
    SleepTimes <- TwoSleeps
    randomYield = FALSE
SPECIFICATION FairSpec
INVARIANTS TypeOK QueuesAgree OneWriteAtATime NoLostWakeup HaltMeansDone NoDangling
    JoinHandshake IdleHasWaker NoLostCarcass
PROPERTIES WokenOnTime ImplementsProcesses ReadyRuns SleeperWakes JoinReturns
