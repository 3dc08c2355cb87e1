----------------------------- MODULE SchedClock -----------------------------
(***************************************************************************)
(* A kernel whose threads compute, sleep, yield and enter critical         *)
(* sections, under the clock tick and the scheduler.  A thread that        *)
(* computes takes no step of the model: it only uses its time slice up.    *)
(***************************************************************************)
EXTENDS ThinkosSched

CONSTANTS
    Delays,     \* the times threads sleep
    Priorities  \* the scheduling priorities of the threads

ASSUME SchedClockAssumption ==
    /\ Delays \in SUBSET Nat
    /\ Priorities \in SUBSET (0 .. SCHED_LIMIT_MAX)

VARIABLES
    due,    \* per thread: the ticks it still has to sleep by its request
    asked   \* how the current thread itself has asked for the scheduler

vars == <<rtVars, schedVars, due, asked>>

Init ==
    /\ RtInit(Threads)
    /\ \E pri \in [Threads -> Priorities] : SchedInit(pri)
    /\ due = [th \in Threads |-> 0]
    /\ asked = "no"

(* A sleep lasts at least until the next tick. *)
Request(self, ms) == due' = [due EXCEPT ![self] = IF ms = 0 THEN 1 ELSE ms]

(* An alarm less than half the range of the counter before the present is  *)
(* in the past, and over at the next tick.                                 *)
Ahead(clk) ==
    LET d == (clk - ticks) % (2 * CLOCK_HALF) IN IF d <= CLOCK_HALF THEN d ELSE 0

SleepCall(self) ==
    /\ \/ \E ms \in Delays : Sleep(self, ms) /\ Request(self, ms)
       \/ \E clk \in Ticks : Alarm(self, clk) /\ Request(self, Ahead(clk))
    /\ asked' = "block"

YieldCall(self) ==
    /\ Yield(self)
    /\ asked' = "yield"
    /\ UNCHANGED due

EnterCall(self) ==
    /\ CriticalEnter(self)
    /\ UNCHANGED <<due, asked>>

ExitCall(self) ==
    /\ CriticalExit(self)
    /\ asked' = IF pendsv' THEN "exit" ELSE asked
    /\ UNCHANGED due

Tick ==
    /\ SysTick
    /\ due' = [th \in Threads |-> IF due[th] > 0 THEN due[th] - 1 ELSE 0]
    /\ UNCHANGED asked

Switch ==
    /\ PendSV
    /\ asked' = "no"
    /\ UNCHANGED due

IdleLoop ==
    /\ Idle
    /\ asked' = "block"
    /\ UNCHANGED due

Next ==
    \/ Tick
    \/ Switch
    \/ IdleLoop
    \/ \E self \in Threads :
          \/ SleepCall(self)
          \/ YieldCall(self)
          \/ EnterCall(self)
          \/ ExitCall(self)

(* Interrupts are taken and the idle loop goes round.  Threads are free to *)
(* compute for ever.                                                       *)
Fairness == WF_vars(Tick) /\ WF_vars(Switch) /\ WF_vars(IdleLoop)

Spec == Init /\ [][Next]_vars /\ Fairness

-----------------------------------------------------------------------------
TypeOK ==
    /\ RtTypeOK
    /\ SchedTypeOK
    /\ due \in [Threads -> Nat]
    /\ asked \in {"no", "yield", "block", "exit"}

(* thinkos_time_wakeup() ends a sleep at the tick at which the requested   *)
(* time is over, neither earlier nor later, also when the tick counter     *)
(* wraps around.                                                           *)
Punctual == \A th \in Threads : th \in wq[WQ_CLOCK] <=> due[th] > 0

(* thinkos_sleep() "suspends execution of the calling thread for (at       *)
(* least) ms milliseconds": no thread executes before its time.            *)
SleepLasts == \A th \in Threads : Running(th) => due[th] = 0

(* Outside of critical sections the processor runs the first ready thread  *)
(* unless a context switch is pending; a wake up inside a critical section *)
(* is made good for when thinkos_critical_exit() ends it.                  *)
FirstReadyRuns ==
    ~pendsv /\ critical_cnt = 0 => IsHead(wq[WQ_READY], active)

(* The clock tick never takes the processor from a thread in a critical    *)
(* section: it is lost only when the thread itself asks for the scheduler. *)
CriticalKept == [][critical_cnt > 0 /\ active' # active => asked # "no"]_vars

(* Time sharing, when every thread has a priority: a ready thread          *)
(* eventually runs although the threads ahead of it in the ready queue     *)
(* never block.  (Threads that sleep are not charged when they are asleep  *)
(* at the tick, and may keep the processor from a thread behind them, as   *)
(* may one in a critical section.)                                         *)
EveryThreadRuns ==
    \A th \in Threads :
        th \in wq[WQ_READY] /\ (\A t \in Threads : sched_pri[t] > 0) ~>
            \/ active = th
            \/ critical_cnt > 0
            \/ \E other \in Threads \ {th} : other \in wq[WQ_CLOCK]

(* The idle thread gives way to a ready thread, also when a thread sleeps  *)
(* in a critical section, where a wake up does not ask for the scheduler.  *)
IdleGivesWay == active = IDLE /\ wq[WQ_READY] # {IDLE} ~> active # IDLE

-----------------------------------------------------------------------------
(* No thread is in two of the ready, time share and clock queues. *)
Apart(q) ==
    \A th \in Threads :
        /\ th \in q[WQ_READY] => th \notin q[WQ_TMSHARE] /\ th \notin q[WQ_CLOCK]
        /\ th \in q[WQ_TMSHARE] => th \notin q[WQ_CLOCK]

(* What the tick counter has to say of the time that is left of a sleep: a *)
(* distance beyond half the range, or none at all, ends it at the next     *)
(* tick.                                                                   *)
ClockLeft(th) ==
    LET d == (clock[th] - ticks) % (2 * CLOCK_HALF) IN
    IF d \in 1 .. CLOCK_HALF THEN d ELSE 1

(* The inductive invariant: the scheduler, ...                             *)
SchedInv ==
    /\ TypeOK
    /\ active \in Slots
    /\ sched_pri[IDLE] = 0
    /\ \A s \in Slots : sched_pri[s] <= sched_limit
    /\ \A w \in Queues : IDLE \in wq[w] <=> w = WQ_READY
    /\ FirstReadyRuns
    /\ critical_cnt > 0 /\ pendsv => asked # "no"

(* ... and, when no sleep is longer than half the range, the clock.        *)
ClockInv == Punctual /\ \A th \in wq[WQ_CLOCK] : due[th] = ClockLeft(th)
=============================================================================
