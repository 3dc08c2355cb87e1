CONSTANTS
    THREADS_MAX = 3
    MUTEX_MAX = 0
    COND_MAX = 1
    SEM_MAX = 1
    EVENT_MAX = 0
    FLAG_MAX = 0
    GATE_MAX = 0
    CLOCK_HALF = 1
    CRITICAL_MAX = 0
    SCHED_LIMIT_MAX = 1
    SEM_RANGE = 4
    Delays = {1}
    Priorities = {0}
    Values = {0, 1}
    VALUE_MAX = 1
    Quiet = {"clock", "wq_clock", "timeout"}
SPECIFICATION Spec
INVARIANTS TypeOK QueuesSettled RunsFirstReady
PROPERTY CountingSpec HandlerEnds

