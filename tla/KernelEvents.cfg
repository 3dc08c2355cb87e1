CONSTANTS
    THREADS_MAX = 3
    MUTEX_MAX = 0
    COND_MAX = 1
    SEM_MAX = 0
    EVENT_MAX = 1
    FLAG_MAX = 0
    GATE_MAX = 0
    CLOCK_HALF = 2
    CRITICAL_MAX = 0
    SCHED_LIMIT_MAX = 1
    EV_WIDTH = 2
    Delays = {1}
    Priorities = {0}
    Quiet = {"clock", "wq_clock", "timeout", "unmask_mask"}
SPECIFICATION Spec
INVARIANT TypeOK
PROPERTY EventSpec
VIEW View
