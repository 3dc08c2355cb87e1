--------------------------- MODULE ThinkosHandler ---------------------------
(***************************************************************************)
(* System calls and the clock tick, step by step, for the objects that     *)
(* interrupt handlers signal with plain function calls: semaphores, event  *)
(* sets, flags and gates.                                                  *)
(*                                                                         *)
(* System calls and the tick do not interrupt each other, so at most one   *)
(* of them is in progress; handler is its program counter and its local    *)
(* variables.  An interrupt handler runs to its end before they go on: its *)
(* call is one action.  An exclusive load followed by nothing but its      *)
(* exclusive store is one step, since an interrupt between the two makes   *)
(* the store fail and the load run again.  The pair on the wait queue in   *)
(* the waits encloses a test of the object, and is modelled with the       *)
(* exclusive monitor, which every interrupt clears.  Two consecutive       *)
(* writes are one step when no interrupt handler looks at what they write. *)
(*                                                                         *)
(* The waits of the four kinds of object differ in how they test and take  *)
(* the object (the label again) and are otherwise the same code.           *)
(***************************************************************************)
EXTENDS ThinkosSched

VARIABLES
    handler,        \* the system call or tick in progress
    excl            \* the exclusive monitor still holds the address loaded

handlerVars == <<handler, excl>>

(* The part of the kernel that only the tick and the scheduler change. *)
schedState == <<ticks, active, critical_cnt, schedVars>>

(* A wait without a time limit. *)
FOREVER == -1

NoHandler == [pc |-> "none", self |-> IDLE, wq |-> WQ_READY, ms |-> FOREVER,
              th |-> IDLE, arg |-> 0, todo |-> {}]
Idling == handler = NoHandler

WaitPoints == {"again", "suspend", "queue", "check", "insert",
               "clock", "wq_clock", "timeout"}
TickPoints == {"scan", "expired", "share"}

At(pc) == handler.pc = pc
Goto(pc) == handler' = [handler EXCEPT !.pc = pc]
Done == handler' = NoHandler

(* A system call begins, with the argument arg, and goes on at the point   *)
(* pc.  Its first argument w is in r0 until a result is written over it.   *)
Begin(pc, self, w, ms, arg) ==
    handler' = [NoHandler EXCEPT !.pc = pc, !.self = self, !.wq = w,
                                 !.ms = ms, !.arg = arg]

HandlerInit == handler = NoHandler /\ excl = FALSE

HandlerTypeOK(points, args) ==
    /\ handler \in [pc : points, self : Slots, wq : Queues,
                    ms : Nat \union {FOREVER}, th : Slots, arg : args,
                    todo : SUBSET Threads]
    /\ excl \in BOOLEAN

(* A system call made by a thread while no other is in progress. *)
Entered(self) == Idling /\ Running(self)

(* One that ends at once, with the result v. *)
Replied(self, v) == Reply(self, v) /\ UNCHANGED handlerVars

-----------------------------------------------------------------------------
(* The steps that the waits have in common.  (1), (2): leave the ready     *)
(* queue, set the status and save the context.                             *)
WaitSuspend ==
    /\ At("suspend")
    /\ wq' = Suspend(wq, handler.self)
    /\ th_stat' = [th_stat EXCEPT
                      ![handler.self] = Stat(handler.wq, handler.ms # FOREVER)]
    /\ Goto("queue")
    /\ UNCHANGED <<clock, pendsv, r0, schedState, excl>>

(* __ldrex() of the wait queue. *)
WaitQueue ==
    /\ At("queue")
    /\ excl' = TRUE
    /\ Goto("check")
    /\ UNCHANGED <<rtVars, schedVars>>

(* Mutant: the test is not made again but the insertion is. *)
RestartPointQueue == "queue"

(* After the roll back the call starts again. *)
RestartPoint == "again"
RollBack ==
    /\ th_stat' = [th_stat EXCEPT ![handler.self] = NoStat]
    /\ wq' = Insert(wq, WQ_READY, handler.self)
    /\ Goto(RestartPoint)

(* The object may have been signaled while suspending (1). *)
WaitCheck(signaled) ==
    /\ At("check")
    /\ \/ signaled /\ RollBack
       \/ ~signaled /\ Goto("insert") /\ UNCHANGED <<wq, th_stat>>
    /\ UNCHANGED <<clock, pendsv, r0, schedState, excl>>

(* __strex() succeeds unless an interrupt has been taken since the load. *)
Stored == excl
WaitInsert ==
    /\ At("insert")
    /\ excl' = FALSE
    /\ \/ ~Stored /\ RollBack
       \/ /\ Stored
          /\ wq' = Insert(wq, handler.wq, handler.self)
          /\ Goto(IF handler.ms = FOREVER THEN "defer" ELSE "clock")
          /\ UNCHANGED th_stat
    /\ UNCHANGED <<clock, pendsv, r0, schedState>>

(* The time limit is set once the thread is in the object's queue. *)
WaitClockSet ==
    /\ At("clock")
    /\ clock' = [clock EXCEPT ![handler.self] = TickAdd(ticks, handler.ms)]
    /\ Goto("wq_clock")
    /\ UNCHANGED <<wq, th_stat, pendsv, r0, schedState, excl>>

WaitClockQueue ==
    /\ At("wq_clock")
    /\ wq' = Insert(wq, WQ_CLOCK, handler.self)
    /\ Goto("timeout")
    /\ UNCHANGED <<th_stat, clock, pendsv, r0, schedState, excl>>

(* "Set the default return value to timeout." *)
WaitTimeout ==
    /\ At("timeout")
    /\ Return(handler.self, ETIMEDOUT)
    /\ Goto("defer")
    /\ UNCHANGED <<wq, th_stat, clock, pendsv, schedState, excl>>

WaitStep(signaled) ==
    \/ WaitSuspend
    \/ WaitQueue
    \/ WaitCheck(signaled)
    \/ WaitInsert
    \/ WaitClockSet
    \/ WaitClockQueue
    \/ WaitTimeout

(* __thinkos_defer_sched() at the end of a call. *)
Defer ==
    /\ At("defer")
    /\ pendsv' = TRUE
    /\ Done
    /\ UNCHANGED <<wq, th_stat, clock, r0, schedState, excl>>

-----------------------------------------------------------------------------
(* The calls that signal an object take the first thread out of its queue  *)
(* (and go on at the point found), or find the queue empty; ...            *)
TakeThread(found, empty) ==
    LET w == handler.wq IN
    /\ \/ /\ wq[w] = {}
          /\ Goto(empty)
          /\ UNCHANGED wq
       \/ /\ wq[w] # {}
          /\ wq' = [wq EXCEPT ![w] = @ \ {WqHead(wq[w])}]
          /\ handler' = [handler EXCEPT !.pc = found, !.th = WqHead(wq[w])]
    /\ UNCHANGED <<th_stat, clock, pendsv, r0, schedState, excl>>

(* ... later they make the thread ready, with the result v. *)
WakeThread(v) ==
    LET th == handler.th IN
    /\ wq' = Wakeup(wq, handler.wq, th)
    /\ r0' = [r0 EXCEPT ![th] = v]
    /\ th_stat' = [th_stat EXCEPT ![th] = NoStat]
    /\ Goto("defer")
    /\ UNCHANGED <<clock, pendsv, schedState, excl>>

(* An interrupt handler that finds the thread th at the head of the queue  *)
(* w makes it ready, with the result v, ...                                *)
IsrWake(w, th, v) ==
    /\ wq' = Wakeup(wq, w, th)
    /\ r0' = [r0 EXCEPT ![th] = v]
    /\ th_stat' = [th_stat EXCEPT ![th] = NoStat]

(* ... and at its end asks for the scheduler. *)
IsrEnd ==
    /\ pendsv' = Preempt
    /\ excl' = FALSE
    /\ UNCHANGED <<clock, schedState, handler>>

-----------------------------------------------------------------------------
(* cm3_systick_isr, step by step: the time goes on and the clock queue is  *)
(* copied; ...                                                             *)
TickStart ==
    /\ Idling
    /\ ticks' = TickAdd(ticks, 1)
    /\ handler' = [NoHandler EXCEPT !.pc = "scan", !.todo = wq[WQ_CLOCK]]
    /\ UNCHANGED <<wq, th_stat, clock, active, pendsv, critical_cnt, r0,
                   schedVars, excl>>

(* ... each thread of the copy is looked at in turn, and the status of one *)
(* whose time has come is read and cleared; ...                            *)
TickScan ==
    /\ At("scan")
    /\ \/ /\ handler.todo = {}
          /\ Goto("share")
          /\ UNCHANGED th_stat
       \/ /\ handler.todo # {}
          /\ LET th == WqHead(handler.todo) IN
             IF Expired(clock[th], ticks)
             THEN /\ handler' = [handler EXCEPT !.pc = "expired", !.th = th,
                                     !.wq = th_stat[th].wq, !.todo = @ \ {th}]
                  /\ th_stat' = [th_stat EXCEPT ![th] = NoStat]
             ELSE /\ handler' = [handler EXCEPT !.todo = @ \ {th}]
                  /\ UNCHANGED th_stat
    /\ UNCHANGED <<wq, clock, pendsv, r0, schedState, excl>>

(* ... it leaves the queue that the status named, the clock queue, and     *)
(* becomes ready (thinkos_time_wakeup); ...                                *)
TickExpired ==
    LET th == handler.th
        left == [wq EXCEPT ![handler.wq] = @ \ {th}]
    IN
    /\ At("expired")
    /\ wq' = [left EXCEPT ![WQ_CLOCK] = @ \ {th}, ![WQ_READY] = @ \union {th}]
    /\ pendsv' = Preempt
    /\ Goto("scan")
    /\ UNCHANGED <<th_stat, clock, r0, schedState, excl>>

(* ... and the current thread is charged (thinkos_timeshare). *)
TickShare ==
    /\ At("share")
    /\ wq' = Timeshare(wq)
    /\ sched_val' = IF ~Charged THEN sched_val
                    ELSE [sched_val EXCEPT ![active] = Refilled(Remaining)]
    /\ pendsv' = IF Shared(wq) THEN Preempt ELSE pendsv
    /\ Done
    /\ UNCHANGED <<th_stat, clock, ticks, active, critical_cnt, r0, sched_pri,
                   sched_limit, excl>>

TickStep == TickScan \/ TickExpired \/ TickShare

-----------------------------------------------------------------------------
(* th_stat[] tells the truth about the queues whenever no handler is in    *)
(* progress, also after a wait that was rolled back or interrupted.        *)
QueuesSettled == Idling => Agree(wq, th_stat)

(* Unless a context switch is pending, the processor runs the first ready  *)
(* thread: an object signaled from an interrupt that hits a system call or *)
(* a tick always leads to the scheduler.                                   *)
RunsFirstReady == Idling /\ ~pendsv => IsHead(wq[WQ_READY], active)

-----------------------------------------------------------------------------
(* The inductive invariants of the handlers, shared by the compositions.   *)

(* The points, of any kind of object, at which the caller is in no queue,  *)
(* in that of the object only, or perhaps no longer ready, and at which    *)
(* another thread has been taken out of the object's queue.                *)
ParkedPoints == {"queue", "check", "insert"}
LimitPoints == {"clock", "wq_clock"}
SuspendedPoints == ParkedPoints \union LimitPoints \union {"timeout", "defer"}
TakenPoints == {"wakeup", "close", "unmask_clear", "unmask_mask"}

(* The idle thread is ready and never charged, nobody is in a critical     *)
(* section, a system call in progress has a caller and an object, and the  *)
(* first ready thread runs unless a switch is pending, or is certain to be *)
(* asked for at the end of the call.                                       *)
SwitchInv ==
    /\ \A w \in Queues : IDLE \in wq[w] <=> w = WQ_READY
    /\ critical_cnt = 0
    /\ active \in Slots
    /\ sched_pri[IDLE] = 0
    /\ \A s \in Slots : sched_pri[s] <= sched_limit
    /\ At("none") => Idling
    /\ ~At("none") /\ handler.pc \notin TickPoints =>
          handler.self \in Threads /\ handler.wq \in ObjectQueues
    /\ handler.pc \in TakenPoints \union {"expired"} => handler.th \in Threads
    /\ handler.pc \in LimitPoints => handler.ms # FOREVER
    /\ ~pendsv /\ handler.pc \in {"check", "insert"} => excl
    /\ ~pendsv /\ handler.pc \notin SuspendedPoints =>
          IsHead(wq[WQ_READY], active)

(* Thread th is in the queues of S and in no other. *)
In(th, S) == \A w \in Queues : th \in wq[w] <=> w \in S

(* Its status tells the truth about it. *)
Settled(th) ==
    \/ th_stat[th] = NoStat /\ (In(th, {WQ_READY}) \/ In(th, {WQ_TMSHARE}))
    \/ /\ th_stat[th].wq \in ObjectQueues
       /\ In(th, {th_stat[th].wq}
                    \union (IF th_stat[th].timed THEN {WQ_CLOCK} ELSE {}))

(* The handler is moving it between queues. *)
Moving(th) ==
    \/ th = handler.self /\ handler.pc \in ParkedPoints \union LimitPoints
    \/ th = handler.th /\ handler.pc \in TakenPoints \union {"expired"}

(* Where the caller is at each point of its wait. *)
CallerPlace ==
    /\ handler.pc \in {"again", "suspend"} => handler.self \in wq[WQ_READY]
    /\ handler.pc \in ParkedPoints =>
          /\ th_stat[handler.self] = Stat(handler.wq, handler.ms # FOREVER)
          /\ In(handler.self, {})
    /\ handler.pc \in LimitPoints =>
          /\ th_stat[handler.self] = Stat(handler.wq, TRUE)
          /\ In(handler.self, {handler.wq})

(* Where a thread is that a call has taken out of the object's queue. *)
TakenPlace ==
    handler.pc \in TakenPoints => In(handler.th, {}) \/ In(handler.th, {WQ_CLOCK})

(* A thread whose time is over still waits, or has been woken after the    *)
(* tick read its status.                                                   *)
ExpiredPlace ==
    At("expired") =>
       /\ th_stat[handler.th] = NoStat
       /\ \/ In(handler.th, {WQ_READY})
          \/ handler.wq \in ObjectQueues /\ In(handler.th, {handler.wq, WQ_CLOCK})

(* The threads that the tick has yet to look at wait with a time limit, or *)
(* have been woken.                                                        *)
TodoPlace ==
    handler.pc \in {"scan", "expired"} =>
       handler.todo \subseteq wq[WQ_CLOCK] \union wq[WQ_READY]

(* What a thread with a time limit returns when it is over. *)
LimitResult ==
    \A th \in Threads : th \in wq[WQ_CLOCK] =>
       r0[th] = ETIMEDOUT \/ (At("timeout") /\ th = handler.self)

(* Where the threads are at each point of a handler. *)
PlaceInv ==
    /\ \A th \in Threads : Moving(th) \/ Settled(th)
    /\ CallerPlace
    /\ TakenPlace
    /\ ExpiredPlace
    /\ TodoPlace
    /\ LimitResult
=============================================================================
