CONSTANTS
    THREADS_MAX = 3
    MUTEX_MAX = 0
    COND_MAX = 1
    SEM_MAX = 0
    EVENT_MAX = 0
    FLAG_MAX = 1
    GATE_MAX = 0
    CLOCK_HALF = 2
    CRITICAL_MAX = 0
    SCHED_LIMIT_MAX = 1
    Delays = {1}
    Priorities = {0, 1}
    Quiet = {"watch_insert"}
    EarlyGives = FALSE
SPECIFICATION Spec
PROPERTY FlagSpec
VIEW View
