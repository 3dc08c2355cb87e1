CONSTANTS
    THREADS_MAX = 3
    MUTEX_MAX = 0
    COND_MAX = 0
    SEM_MAX = 0
    EVENT_MAX = 0
    FLAG_MAX = 0
    GATE_MAX = 0
    CLOCK_HALF = 3
    CRITICAL_MAX = 0
    SCHED_LIMIT_MAX = 2
    Delays = {0, 1, 3}
    Priorities = {0, 1}
SPECIFICATION Spec
INVARIANTS TypeOK Punctual SleepLasts
VIEW View
