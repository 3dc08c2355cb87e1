---------------------------- MODULE ThinkosSched ----------------------------
(***************************************************************************)
(* The scheduler, the clock tick and the system calls that only concern    *)
(* the processor: sleep, alarm, yield, critical sections and the idle      *)
(* thread.                                                                 *)
(***************************************************************************)
EXTENDS ThinkosRt

CONSTANT SCHED_LIMIT_MAX    \* largest scheduling priority of a thread

ASSUME SchedAssumption == SCHED_LIMIT_MAX \in Nat \ {0}

VARIABLES
    sched_val,      \* what is left of the time slice
    sched_pri,      \* what a tick takes from it; 0 is never charged
    sched_limit     \* size of the time slice

schedVars == <<sched_val, sched_pri, sched_limit>>

(* The threads and the idle thread, which has priority 0 throughout. *)
Slots == Threads \union {IDLE}

SchedInit(pri) ==
    /\ sched_pri = [s \in Slots |-> IF s = IDLE THEN 0 ELSE pri[s]]
    /\ sched_limit \in 1 .. SCHED_LIMIT_MAX
    /\ \A th \in Threads : pri[th] <= sched_limit
    /\ sched_val = [s \in Slots |-> IF s = IDLE THEN 0 ELSE sched_limit \div 2]

SchedTypeOK ==
    /\ sched_val \in [Slots -> 0 .. SCHED_LIMIT_MAX]
    /\ sched_pri \in [Slots -> 0 .. SCHED_LIMIT_MAX]
    /\ sched_limit \in 1 .. SCHED_LIMIT_MAX

-----------------------------------------------------------------------------
(* cm3_pendsv_isr: the lowest numbered ready thread becomes current. *)
PendSV ==
    /\ pendsv
    /\ pendsv' = FALSE
    /\ active' = WqHead(wq[WQ_READY])
    /\ UNCHANGED <<wq, th_stat, clock, ticks, critical_cnt, r0, schedVars>>

(* Mutant: the queue named by the status is not left. *)
TimeWakeupClockOnly(q, S) ==
    [q EXCEPT ![WQ_READY] = @ \union S, ![WQ_CLOCK] = @ \ S]

(* thinkos_time_wakeup() for every thread of the set S. *)
TimeWakeup(q, S) ==
    [w \in Queues |->
        IF w = WQ_READY THEN q[w] \union S
        ELSE IF w = WQ_CLOCK THEN q[w] \ S
        ELSE q[w] \ {th \in S : th_stat[th].wq = w}]

(* Mutant: a tick costs nothing. *)
RemainingUncharged == sched_val[active]

(* The current thread is charged for the tick.  The void thread, current   *)
(* from the end of a thread to the next context switch, owns no slot.      *)
Charged == active # VOID
Remaining == sched_val[active] - sched_pri[active]

(* Mutant: a used up slice is not refilled. *)
RefilledNever(v) == v

(* A used up slice is refilled. *)
Refilled(v) == IF v < 0 THEN v + sched_limit ELSE v

(* Mutant: a thread that is blocked already is not told apart. *)
SharedBlocked(q) == Charged /\ Remaining < 0

(* thinkos_timeshare(): a ready thread that has used its slice up waits in *)
(* the time share queue.                                                   *)
Shared(q) == Charged /\ Remaining < 0 /\ active \in q[WQ_READY]
Timeshare(q) ==
    IF Shared(q) THEN Suspend(Insert(q, WQ_TMSHARE, active), active) ELSE q

(* cm3_systick_isr *)
SysTick ==
    LET now == TickAdd(ticks, 1)
        woken == {th \in wq[WQ_CLOCK] : Expired(clock[th], now)}
        awake == TimeWakeup(wq, woken)
    IN
    /\ ticks' = now
    /\ wq' = Timeshare(awake)
    /\ th_stat' = [th \in Threads |->
                      IF th \in woken THEN NoStat ELSE th_stat[th]]
    /\ sched_val' = IF ~Charged THEN sched_val
                    ELSE [sched_val EXCEPT ![active] = Refilled(Remaining)]
    /\ pendsv' = IF woken # {} \/ Shared(awake) THEN Preempt ELSE pendsv
    /\ UNCHANGED <<clock, active, critical_cnt, r0, sched_pri, sched_limit>>

-----------------------------------------------------------------------------
(* The current thread waits for its clock to reach the value clk. *)
WaitClock(self, clk) ==
    /\ clock' = [clock EXCEPT ![self] = clk]
    /\ wq' = Suspend(Insert(wq, WQ_CLOCK, self), self)
    /\ th_stat' = [th_stat EXCEPT ![self] = Stat(WQ_CLOCK, TRUE)]
    /\ pendsv' = TRUE
    /\ UNCHANGED <<ticks, active, critical_cnt, r0, schedVars>>

(* thinkos_sleep_svc and thinkos_alarm_svc *)
Sleep(self, ms) == Running(self) /\ WaitClock(self, TickAdd(ticks, ms))
Alarm(self, clk) == Running(self) /\ WaitClock(self, clk)

(* thinkos_yield(): ask for the scheduler, from the thread itself. *)
Yield(self) ==
    /\ Running(self)
    /\ pendsv' = TRUE
    /\ UNCHANGED <<wq, th_stat, clock, ticks, active, critical_cnt, r0, schedVars>>

(* thinkos_critical_enter_svc: preemption is off, and a context switch     *)
(* requested but not yet taken is dropped.                                 *)
CriticalEnter(self) ==
    /\ Running(self)
    /\ critical_cnt < CRITICAL_MAX
    /\ critical_cnt' = critical_cnt + 1
    /\ pendsv' = FALSE
    /\ UNCHANGED <<wq, th_stat, clock, ticks, active, r0, schedVars>>

(* Mutant: the switches suppressed in the section are not made good for. *)
DeferAtExitNever(cnt) == FALSE

(* Leaving the outermost critical section asks for the scheduler. *)
DeferAtExit(cnt) == cnt = 0

(* thinkos_critical_exit_svc *)
CriticalExit(self) ==
    /\ Running(self)
    /\ \/ /\ critical_cnt = 0
          /\ Return(self, EFAULT)
          /\ UNCHANGED <<critical_cnt, pendsv>>
       \/ /\ critical_cnt > 0
          /\ critical_cnt' = critical_cnt - 1
          /\ pendsv' = DeferAtExit(critical_cnt - 1)
          /\ UNCHANGED r0
    /\ UNCHANGED <<wq, th_stat, clock, ticks, active, schedVars>>

(* Mutant: the idle thread only waits for interrupts. *)
IdleWaits == Running(IDLE) /\ UNCHANGED <<rtVars, schedVars>>

(* thinkos_idle_task: the idle thread asks for the scheduler when it finds *)
(* another thread ready (thinkos_idle_svc).                                *)
Idle ==
    /\ Running(IDLE)
    /\ wq[WQ_READY] # {IDLE}
    /\ pendsv' = TRUE
    /\ UNCHANGED <<wq, th_stat, clock, ticks, active, critical_cnt, r0, schedVars>>

-----------------------------------------------------------------------------
(* A system call that sets the return value and no queue. *)
Reply(self, err) ==
    /\ Return(self, err)
    /\ UNCHANGED <<wq, th_stat, clock, ticks, active, pendsv, critical_cnt,
                   schedVars>>

(* Mutant: the number of objects is not looked at. *)
BmpAllocNoLimit(used, all) ==
    IF all \ used = {} THEN 1 + CHOOSE n \in all : \A m \in all : m <= n
    ELSE WqHead(all \ used)

(* __thinkos_bmp_alloc(): the lowest index that is not in use is taken.    *)
BmpAlloc(used, all) ==
    IF all \ used = {} THEN ENOMEM ELSE WqHead(all \ used)

-----------------------------------------------------------------------------
(* For the proofs: the types of the queues and of the status words, and    *)
(* what holds of every bitmap that is not 0: it has a lowest bit.          *)
QMap == [Queues -> SUBSET Slots]
SMap == [Threads -> [wq : Queues, timed : BOOLEAN]]
HeadsExist == \A S \in SUBSET Nat : S # {} => IsHead(S, WqHead(S))

(* The idle thread is ready and waits nowhere. *)
IdleReady(q) == \A w \in Queues : IDLE \in q[w] <=> w = WQ_READY
=============================================================================
