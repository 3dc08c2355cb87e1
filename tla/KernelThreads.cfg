CONSTANTS
    THREADS_MAX = 3
    MUTEX_MAX = 1
    COND_MAX = 0
    SEM_MAX = 0
    EVENT_MAX = 0
    FLAG_MAX = 0
    GATE_MAX = 0
    CLOCK_HALF = 2
    CRITICAL_MAX = 0
    SCHED_LIMIT_MAX = 1
    Delays = {1}
    Priorities = {1}
    Codes = {1, 2}
    Careless = {}
SPECIFICATION Spec
INVARIANTS
    TypeOK
    DeadInNoQueue
    ThreadsQueued
    WorkConserving
    WaitersHaveOwner
    FinishedGoesOn
PROPERTY LifeSpec
VIEW View
