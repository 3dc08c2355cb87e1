------------------------------ MODULE ThinkosRt ------------------------------
(***************************************************************************)
(* The ThinkOS runtime structure and the primitives of thinkos/kernel.h    *)
(* that every system call is built from.                                   *)
(*                                                                         *)
(* A wait queue is a 32-bit map of threads; here it is a set of thread     *)
(* numbers.  All queues live in one array, wq, indexed as in the source:   *)
(* ready, time share, clock, then one queue per mutex, condition variable, *)
(* semaphore, event set, flag, gate and joinable thread, and the paused    *)
(* and canceled queues.                                                    *)
(*                                                                         *)
(* A system call runs at SYSCALL_PRIORITY, the clock tick at               *)
(* CLOCK_PRIORITY and the scheduler (PendSV) at SCHED_PRIORITY.  The first *)
(* two are equal and the third is lower (thinkos/irq.h), so a system call  *)
(* and a tick never interleave, and a requested context switch (pendsv)    *)
(* waits until they are done.  Where only these touch an object, each      *)
(* handler is one atomic action.  Interrupt handlers, at IRQ_DEF_PRIORITY, *)
(* interrupt all three; the objects they touch (semaphores, event sets,    *)
(* flags and gates) are modelled at a finer grain.                         *)
(***************************************************************************)
EXTENDS Integers, FiniteSets

CONSTANTS
    THREADS_MAX,    \* number of thread slots
    MUTEX_MAX,      \* number of mutexes
    COND_MAX,       \* number of condition variables
    SEM_MAX,        \* number of semaphores
    EVENT_MAX,      \* number of event sets
    FLAG_MAX,       \* number of flags
    GATE_MAX,       \* number of gates
    CLOCK_HALF,     \* half the range of the tick counter (2^31 in the code)
    CRITICAL_MAX    \* bound of the model on nested critical sections

ASSUME RtAssumption ==
    /\ THREADS_MAX \in Nat \ {0}
    /\ MUTEX_MAX \in Nat
    /\ COND_MAX \in Nat
    /\ SEM_MAX \in Nat
    /\ EVENT_MAX \in Nat
    /\ FLAG_MAX \in Nat
    /\ GATE_MAX \in Nat
    /\ CLOCK_HALF \in Nat \ {0}
    /\ CRITICAL_MAX \in Nat

VARIABLES
    wq,             \* thinkos_rt.wq_lst[]
    th_stat,        \* per thread: the queue it waits in and the clock bit
    clock,          \* per thread wake up time
    ticks,          \* the tick counter
    active,         \* the current thread
    pendsv,         \* the scheduler interrupt is pending
    critical_cnt,   \* nesting of critical sections
    r0              \* per thread return value of the last system call

rtVars == <<wq, th_stat, clock, ticks, active, pendsv, critical_cnt, r0>>

Threads == 0 .. THREADS_MAX - 1
IDLE == THREADS_MAX
VOID == THREADS_MAX + 1

(* Return codes, enum thinkos_err. *)
OK == 0
ETIMEDOUT == -1
EINTR == -2
EINVAL == -3
EAGAIN == -4
EDEADLK == -5
EPERM == -6
EFAULT == -8
ENOMEM == -9

(* The order of the queues in struct thinkos_rt. *)
WQ_READY == 0
WQ_TMSHARE == 1
WQ_CLOCK == 2
MUTEX_BASE == 3
COND_BASE == MUTEX_BASE + MUTEX_MAX
SEM_BASE == COND_BASE + COND_MAX
EVENT_BASE == SEM_BASE + SEM_MAX
FLAG_BASE == EVENT_BASE + EVENT_MAX
GATE_BASE == FLAG_BASE + FLAG_MAX
JOIN_BASE == GATE_BASE + GATE_MAX
WQ_PAUSED == JOIN_BASE + THREADS_MAX
WQ_CANCELED == WQ_PAUSED + 1
WQ_LST_END == WQ_CANCELED + 1

Queues == 0 .. WQ_LST_END - 1
ObjectQueues == MUTEX_BASE .. WQ_LST_END - 1
Mutexes == MUTEX_BASE .. COND_BASE - 1
Conds == COND_BASE .. SEM_BASE - 1
Sems == SEM_BASE .. EVENT_BASE - 1
JoinQ(th) == JOIN_BASE + th
Joins == JOIN_BASE .. WQ_PAUSED - 1

Ticks == 0 .. 2 * CLOCK_HALF - 1
TickAdd(t, ms) == (t + ms) % (2 * CLOCK_HALF)

(* Mutant: (int32_t)(clk - t) < 0. *)
ExpiredLate(clk, t) == (clk - t) % (2 * CLOCK_HALF) >= CLOCK_HALF

(* (int32_t)(clk - t) <= 0: clk is t or lies in the half range before it. *)
Expired(clk, t) ==
    LET d == (clk - t) % (2 * CLOCK_HALF) IN d = 0 \/ d >= CLOCK_HALF

(* th_stat is (wq << 1) + clock bit. *)
Stat(w, timed) == [wq |-> w, timed |-> timed]
NoStat == Stat(WQ_READY, FALSE)

(* __thinkos_wq_head(): the lowest numbered thread of a queue. *)
IsHead(S, th) == th \in S /\ \A t \in S : th <= t
WqHead(S) == CHOOSE th \in S : IsHead(S, th)

(* Mutant: the time share queue is never collected. *)
SuspendNoCollect(q, th) == [q EXCEPT ![WQ_READY] = @ \ {th}]

(* __thinkos_suspend(): drop th from the ready queue; when only the idle   *)
(* thread is left, collect the threads of the time share queue.            *)
Suspend(q, th) ==
    LET ready == q[WQ_READY] \ {th} IN
    IF ready = {IDLE}
    THEN [q EXCEPT ![WQ_READY] = ready \union q[WQ_TMSHARE],
                   ![WQ_TMSHARE] = {}]
    ELSE [q EXCEPT ![WQ_READY] = ready]

(* __thinkos_wq_insert() and __thinkos_tmdwq_insert(): the queue part. *)
Insert(q, w, th) == [q EXCEPT ![w] = @ \union {th}]
TmdInsert(q, w, th) == Insert(Insert(q, w, th), WQ_CLOCK, th)

(* Mutant: a woken thread keeps its place in the clock queue. *)
WakeupKeepsClock(q, w, th) ==
    [[q EXCEPT ![WQ_READY] = @ \union {th}] EXCEPT ![w] = @ \ {th}]

(* __thinkos_wakeup() and __thinkos_wakeup_return(): the queue part. *)
Wakeup(q, w, th) ==
    [[[q EXCEPT ![WQ_READY] = @ \union {th}]
         EXCEPT ![w] = @ \ {th}]
         EXCEPT ![WQ_CLOCK] = @ \ {th}]

(* The same for every thread of a set, as the while loops of broadcast,    *)
(* exit and break do.                                                      *)
WakeupAll(q, w) ==
    [[[q EXCEPT ![WQ_READY] = @ \union q[w]]
         EXCEPT ![w] = {}]
         EXCEPT ![WQ_CLOCK] = @ \ q[w]]

(* Mutant: the scheduler is never asked for. *)
PreemptNever == pendsv

(* Mutant: critical sections are ignored. *)
PreemptAlways == TRUE

(* __thinkos_preempt(): ask for the scheduler unless in a critical section *)
Preempt == pendsv \/ critical_cnt = 0

(* Thread th executes its own code: it is the current thread and no        *)
(* scheduler interrupt is waiting to be taken.                             *)
Running(th) == active = th /\ ~pendsv

(* A call that returns at once with code v. *)
Return(self, v) == r0' = [r0 EXCEPT ![self] = v]

(* __thinkos_reset() and __thinkos_init_main(), after which every thread   *)
(* of the set alive is ready (the threads main has created).               *)
RtInit(alive) ==
    /\ wq = [w \in Queues |-> IF w = WQ_READY THEN alive \union {IDLE} ELSE {}]
    /\ th_stat = [th \in Threads |-> NoStat]
    /\ clock = [th \in Threads |-> 0]
    /\ ticks = 0
    /\ active = WqHead(alive)
    /\ pendsv = FALSE
    /\ critical_cnt = 0
    /\ r0 = [th \in Threads |-> OK]

RtTypeOK ==
    /\ wq \in [Queues -> SUBSET (Threads \union {IDLE})]
    /\ th_stat \in [Threads -> [wq : Queues, timed : BOOLEAN]]
    /\ clock \in [Threads -> Ticks]
    /\ ticks \in Ticks
    /\ active \in 0 .. VOID
    /\ pendsv \in BOOLEAN
    /\ critical_cnt \in 0 .. CRITICAL_MAX
    /\ r0 \in [Threads -> Int]

(* The status words st describe the queues q: a thread whose status is 0   *)
(* is ready or waits for its time share, any other thread is in the queue  *)
(* its status names and, when the clock bit is set, in the clock queue,    *)
(* and no thread is anywhere else.                                         *)
Agree(q, st) ==
    /\ \A w \in Queues : IDLE \in q[w] <=> w = WQ_READY
    /\ \A th \in Threads :
          IF st[th] = NoStat
          THEN /\ \A w \in Queues \ {WQ_READY, WQ_TMSHARE} : th \notin q[w]
               /\ th \in q[WQ_READY] <=> th \notin q[WQ_TMSHARE]
          ELSE /\ st[th].wq \notin {WQ_READY, WQ_TMSHARE}
               /\ \A w \in Queues :
                     th \in q[w] <=> \/ w = st[th].wq
                                    \/ (w = WQ_CLOCK /\ st[th].timed)
=============================================================================
