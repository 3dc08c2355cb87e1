CONSTANTS
    THREADS_MAX = 2
    MUTEX_MAX = 0
    COND_MAX = 0
    SEM_MAX = 0
    EVENT_MAX = 0
    FLAG_MAX = 0
    GATE_MAX = 0
    CLOCK_HALF = 1
    CRITICAL_MAX = 2
    SCHED_LIMIT_MAX = 2
    Delays = {1}
    Priorities = {0, 1}
SPECIFICATION Spec
INVARIANTS FirstReadyRuns
PROPERTIES CriticalKept IdleGivesWay EveryThreadRuns
