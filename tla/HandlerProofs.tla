---------------------------- MODULE HandlerProofs ----------------------------
(***************************************************************************)
(* The steps of system calls and of the tick that ThinkosHandler models    *)
(* preserve its invariants, for every kind of object built on them.        *)
(***************************************************************************)
EXTENDS ThinkosHandler, TLAPS

USE DEF WQ_READY, WQ_TMSHARE, WQ_CLOCK, NoStat, Stat

-----------------------------------------------------------------------------
(* The indices of the ready, time share and clock queues. *)
LEMMA Indices == {0, 1, 2} \subseteq Queues /\ Queues \subseteq Nat
BY RtAssumption
   DEF Queues, MUTEX_BASE, COND_BASE, SEM_BASE, EVENT_BASE, FLAG_BASE, GATE_BASE,
       JOIN_BASE, WQ_PAUSED, WQ_CANCELED, WQ_LST_END

(* Threads and slots are numbers, and the idle thread is not a thread. *)
LEMMA SlotNumbers ==
    /\ Threads \subseteq Slots
    /\ Slots \subseteq Nat
    /\ IDLE \in Slots \ Threads
    /\ Slots = Threads \union {IDLE}
    /\ \A th \in Threads : th < IDLE
    /\ Slots \subseteq 0 .. VOID
    /\ VOID \notin Slots
BY RtAssumption DEF Threads, Slots, IDLE, VOID

(* __thinkos_wq_head() finds the lowest thread of a queue that is not empty *)
LEMMA HeadExists ==
    ASSUME HeadsExist, NEW S \in SUBSET Slots, S # {}
    PROVE  IsHead(S, WqHead(S))
<1>1. S \in SUBSET Nat
  BY SlotNumbers
<1> QED
  BY <1>1 DEF HeadsExist

(* Everything __thinkos_suspend() does to the queues. *)
LEMMA SuspendFacts ==
    ASSUME NEW q \in QMap, NEW th \in Threads, NEW s, s = Suspend(q, th),
           IDLE \in q[WQ_READY], IDLE \notin q[WQ_TMSHARE]
    PROVE  /\ s \in QMap
           /\ \A w \in Queues \ {WQ_READY, WQ_TMSHARE} : s[w] = q[w]
           /\ s[WQ_READY] = {IDLE} => s[WQ_TMSHARE] = {}
           /\ IDLE \in s[WQ_READY] /\ IDLE \notin s[WQ_TMSHARE]
           /\ \A t \in Slots : t \in s[WQ_READY] =>
                                  \/ t \in q[WQ_READY] /\ t # th
                                  \/ t \in q[WQ_TMSHARE] /\ s[WQ_TMSHARE] = {}
           /\ \A t \in Slots : t \in s[WQ_TMSHARE] => t \in q[WQ_TMSHARE]
           /\ \A t \in Slots : t \in q[WQ_READY] /\ t # th => t \in s[WQ_READY]
           /\ \A t \in q[WQ_TMSHARE] : t \in s[WQ_READY] \union s[WQ_TMSHARE]
           /\ th \in s[WQ_READY] => th \notin s[WQ_TMSHARE]
BY Indices, SlotNumbers DEF Suspend, QMap

(* Remainders of what is less than a range away from 0. *)
LEMMA ModRange ==
    ASSUME NEW N \in Nat \ {0}
    PROVE  /\ \A x \in Int : x % N \in 0 .. N - 1
           /\ \A x \in 0 .. N - 1 : x % N = x
           /\ \A x \in (-N) .. -1 : x % N = x + N
           /\ \A x \in N .. 2 * N - 1 : x % N = x - N
<1>1. \A x \in Int : x % N \in 0 .. N - 1
  OBVIOUS
<1>2. \A x \in 0 .. N - 1 : x % N = x
  OBVIOUS
<1>3. \A x \in (-N) .. -1 : x % N = x + N
  OBVIOUS
<1>4. \A x \in N .. 2 * N - 1 : x % N = x - N
  OBVIOUS
<1> QED
  BY <1>1, <1>2, <1>3, <1>4

(* The tick counter wraps around within its type. *)
LEMMA TickAddType ==
    ASSUME NEW t \in Ticks, NEW ms \in Nat
    PROVE  TickAdd(t, ms) \in Ticks
<1>1. t + ms \in Nat /\ 2 * CLOCK_HALF \in Nat \ {0}
  BY RtAssumption DEF Ticks
<1>2. \A a \in Nat, b \in Nat \ {0} : a % b \in 0 .. b - 1
  OBVIOUS
<1> QED
  BY <1>1, <1>2 DEF TickAdd, Ticks

-----------------------------------------------------------------------------
(* Whole queues, for threads whose status does not tell where they are. *)

(* The object queues are none of the first three. *)
LEMMA ObjectIndices ==
    /\ ObjectQueues \subseteq Queues \ {WQ_READY, WQ_TMSHARE, WQ_CLOCK}
    /\ WQ_READY \in Queues /\ WQ_TMSHARE \in Queues /\ WQ_CLOCK \in Queues
    /\ Sems \subseteq ObjectQueues
BY RtAssumption
   DEF ObjectQueues, Queues, Sems, MUTEX_BASE, COND_BASE, SEM_BASE, EVENT_BASE,
       FLAG_BASE, GATE_BASE, JOIN_BASE, WQ_PAUSED, WQ_CANCELED, WQ_LST_END

(* A thread enters a queue. *)
LEMMA InsertFacts ==
    ASSUME NEW q \in QMap, IdleReady(q), NEW th \in Threads, NEW w \in Queues,
           NEW s, s = Insert(q, w, th)
    PROVE  /\ s \in QMap
           /\ IdleReady(s)
           /\ \A v \in Queues, t \in Slots :
                 t \in s[v] <=> t \in q[v] \/ (t = th /\ v = w)
<1>1. s \in QMap
  BY SlotNumbers DEF Insert, QMap
<1>2. \A v \in Queues, t \in Slots : t \in s[v] <=> t \in q[v] \/ (t = th /\ v = w)
  BY DEF Insert, QMap
<1> QED
  BY <1>1, <1>2, SlotNumbers, Zenon DEF IdleReady

(* A thread leaves a queue. *)
Removed(q, w, th) == [q EXCEPT ![w] = @ \ {th}]

LEMMA RemoveFacts ==
    ASSUME NEW q \in QMap, IdleReady(q), NEW th \in Threads, NEW w \in Queues,
           NEW s, s = Removed(q, w, th)
    PROVE  /\ s \in QMap
           /\ IdleReady(s)
           /\ \A v \in Queues, t \in Slots :
                 t \in s[v] <=> t \in q[v] /\ ~(t = th /\ v = w)
<1>1. s \in QMap
  BY DEF Removed, QMap
<1>2. \A v \in Queues, t \in Slots : t \in s[v] <=> t \in q[v] /\ ~(t = th /\ v = w)
  BY DEF Removed, QMap
<1> QED
  BY <1>1, <1>2, SlotNumbers, Zenon DEF IdleReady

(* A thread of the queue w of an object, or one taken out of it, is woken. *)
LEMMA WakeupFacts ==
    ASSUME NEW q \in QMap, IdleReady(q), NEW th \in Threads, NEW w \in ObjectQueues,
           NEW s, s = Wakeup(q, w, th)
    PROVE  /\ s \in QMap
           /\ IdleReady(s)
           /\ \A v \in Queues, t \in Slots :
                 t \in s[v] <=> \/ t = th /\ v = WQ_READY
                                \/ t \in q[v] /\ (t = th => v # w /\ v # WQ_CLOCK)
<1>0. w \in Queues /\ w # WQ_READY /\ w # WQ_CLOCK
  BY ObjectIndices
<1>1. s \in QMap
  BY <1>0, SlotNumbers, ZenonT(60) DEF Wakeup, QMap
<1>2. \A v \in Queues, t \in Slots :
         t \in s[v] <=> \/ t = th /\ v = WQ_READY
                        \/ t \in q[v] /\ (t = th => v # w /\ v # WQ_CLOCK)
  BY <1>0, ObjectIndices DEF Wakeup, QMap
<1> QED
  BY <1>1, <1>2, SlotNumbers DEF IdleReady

(* The time of a thread is over: it leaves the queue w, which may be the   *)
(* ready queue when it has been woken already, and the clock queue.        *)
TimedOut(q, w, th) ==
    [Removed(q, w, th) EXCEPT ![WQ_CLOCK] = @ \ {th}, ![WQ_READY] = @ \union {th}]

LEMMA ExpireFacts ==
    ASSUME NEW q \in QMap, IdleReady(q), NEW th \in Threads, NEW w \in Queues,
           NEW s, s = TimedOut(q, w, th)
    PROVE  /\ s \in QMap
           /\ IdleReady(s)
           /\ \A v \in Queues, t \in Slots :
                 t \in s[v] <=> \/ t = th /\ v = WQ_READY
                                \/ t \in q[v] /\ (t = th => v # w /\ v # WQ_CLOCK)
<1> DEFINE left == Removed(q, w, th)
<1>1. /\ left \in QMap
      /\ \A v \in Queues, t \in Slots :
            t \in left[v] <=> t \in q[v] /\ ~(t = th /\ v = w)
  BY RemoveFacts
<1>e. s = [left EXCEPT ![WQ_CLOCK] = @ \ {th}, ![WQ_READY] = @ \union {th}]
  BY DEF TimedOut
<1> HIDE DEF left
<1>2. s \in QMap
  BY <1>1, <1>e, ObjectIndices, SlotNumbers DEF QMap
<1>3. \A v \in Queues, t \in Slots :
         t \in s[v] <=> \/ t = th /\ v = WQ_READY
                        \/ t \in left[v] /\ ~(t = th /\ v = WQ_CLOCK)
  BY <1>1, <1>e, ObjectIndices, SlotNumbers DEF QMap
<1>4. IdleReady(s)
  <2>1. IDLE \in Slots /\ IDLE # th
    BY SlotNumbers
  <2> QED
    BY <1>1, <1>3, <2>1 DEF IdleReady
<1>5. ASSUME NEW v \in Queues, NEW t \in Slots
      PROVE  t \in s[v] <=> \/ t = th /\ v = WQ_READY
                            \/ t \in q[v] /\ (t = th => v # w /\ v # WQ_CLOCK)
  <2>1. t \in left[v] <=> t \in q[v] /\ ~(t = th /\ v = w)
    BY <1>1
  <2>2. t \in s[v] <=> \/ t = th /\ v = WQ_READY
                       \/ t \in left[v] /\ ~(t = th /\ v = WQ_CLOCK)
    BY <1>3, Zenon
  <2> QED
    BY <2>1, <2>2, Zenon
<1> QED
  BY <1>2, <1>4, <1>5, Zenon

(* A thread stops being ready. *)
LEMMA LeaveReady ==
    ASSUME NEW q \in QMap, IdleReady(q), NEW th \in Threads,
           NEW s, s = Suspend(q, th)
    PROVE  /\ s \in QMap
           /\ IdleReady(s)
           /\ \A v \in Queues \ {WQ_READY, WQ_TMSHARE} : s[v] = q[v]
           /\ th \notin q[WQ_TMSHARE] => th \notin s[WQ_READY] /\ th \notin s[WQ_TMSHARE]
           /\ \A t \in Slots :
                 /\ t # th => (t \in s[WQ_READY] \/ t \in s[WQ_TMSHARE]
                                  <=> t \in q[WQ_READY] \/ t \in q[WQ_TMSHARE])
                 /\ ~(t \in q[WQ_READY] /\ t \in q[WQ_TMSHARE]) =>
                       ~(t \in s[WQ_READY] /\ t \in s[WQ_TMSHARE])
                 /\ t \in q[WQ_READY] /\ t # th => t \in s[WQ_READY]
<1>1. IDLE \in q[WQ_READY] /\ IDLE \notin q[WQ_TMSHARE]
  BY ObjectIndices DEF IdleReady
<1>2. /\ s \in QMap
      /\ \A v \in Queues \ {WQ_READY, WQ_TMSHARE} : s[v] = q[v]
      /\ IDLE \in s[WQ_READY] /\ IDLE \notin s[WQ_TMSHARE]
      /\ \A t \in Slots : t \in s[WQ_READY] =>
                             \/ t \in q[WQ_READY] /\ t # th
                             \/ t \in q[WQ_TMSHARE] /\ s[WQ_TMSHARE] = {}
      /\ \A t \in Slots : t \in s[WQ_TMSHARE] => t \in q[WQ_TMSHARE]
      /\ \A t \in Slots : t \in q[WQ_READY] /\ t # th => t \in s[WQ_READY]
      /\ \A t \in q[WQ_TMSHARE] : t \in s[WQ_READY] \union s[WQ_TMSHARE]
  BY <1>1, SuspendFacts
<1>3. IdleReady(s)
  BY <1>2, ObjectIndices DEF IdleReady
<1>4. th \in Slots
  BY SlotNumbers
<1>5. th \notin q[WQ_TMSHARE] => th \notin s[WQ_READY] /\ th \notin s[WQ_TMSHARE]
  BY <1>2, <1>4, Zenon
<1> QED
  BY <1>2, <1>3, <1>5
(* The thread that has used its slice up, and the queues then. *)
LEMMA ShareFacts ==
    ASSUME NEW q \in QMap, IdleReady(q), NEW th \in Threads, th \in q[WQ_READY],
           NEW s, s = Suspend(Insert(q, WQ_TMSHARE, th), th)
    PROVE  /\ s \in QMap
           /\ IdleReady(s)
           /\ \A v \in Queues \ {WQ_READY, WQ_TMSHARE} : s[v] = q[v]
           /\ \A t \in Slots :
                 /\ t \in s[WQ_READY] \/ t \in s[WQ_TMSHARE]
                       <=> t \in q[WQ_READY] \/ t \in q[WQ_TMSHARE]
                 /\ ~(t \in q[WQ_READY] /\ t \in q[WQ_TMSHARE]) =>
                       ~(t \in s[WQ_READY] /\ t \in s[WQ_TMSHARE])
<1> DEFINE q1 == Insert(q, WQ_TMSHARE, th)
<1>1. /\ q1 \in QMap
      /\ IdleReady(q1)
      /\ \A v \in Queues, t \in Slots :
            t \in q1[v] <=> t \in q[v] \/ (t = th /\ v = WQ_TMSHARE)
  BY ObjectIndices, InsertFacts
<1>2. \A v \in Queues \ {WQ_READY, WQ_TMSHARE} : q1[v] = q[v]
  BY ObjectIndices DEF Insert, QMap
<1>3. th \in q1[WQ_TMSHARE] /\ th \in Slots
  BY <1>1, ObjectIndices, SlotNumbers
<1> HIDE DEF q1
<1>4. IDLE \in q1[WQ_READY] /\ IDLE \notin q1[WQ_TMSHARE]
  BY <1>1, ObjectIndices DEF IdleReady
<1>5. s = Suspend(q1, th)
  BY DEF q1
<1>6. /\ s \in QMap
      /\ \A v \in Queues \ {WQ_READY, WQ_TMSHARE} : s[v] = q1[v]
      /\ IDLE \in s[WQ_READY] /\ IDLE \notin s[WQ_TMSHARE]
      /\ \A t \in Slots : t \in s[WQ_READY] =>
                             \/ t \in q1[WQ_READY] /\ t # th
                             \/ t \in q1[WQ_TMSHARE] /\ s[WQ_TMSHARE] = {}
      /\ \A t \in Slots : t \in s[WQ_TMSHARE] => t \in q1[WQ_TMSHARE]
      /\ \A t \in Slots : t \in q1[WQ_READY] /\ t # th => t \in s[WQ_READY]
      /\ \A t \in q1[WQ_TMSHARE] : t \in s[WQ_READY] \union s[WQ_TMSHARE]
      /\ th \in s[WQ_READY] => th \notin s[WQ_TMSHARE]
  BY <1>1, <1>4, <1>5, SuspendFacts
<1>7. IdleReady(s)
  BY <1>1, <1>6, ObjectIndices DEF IdleReady
<1>8. ASSUME NEW t \in Slots
      PROVE  /\ t \in s[WQ_READY] \/ t \in s[WQ_TMSHARE]
                   <=> t \in q[WQ_READY] \/ t \in q[WQ_TMSHARE]
             /\ ~(t \in q[WQ_READY] /\ t \in q[WQ_TMSHARE]) =>
                   ~(t \in s[WQ_READY] /\ t \in s[WQ_TMSHARE])
  <2>1. t \in q1[WQ_READY] <=> t \in q[WQ_READY]
    BY <1>1, ObjectIndices
  <2>2. t \in q1[WQ_TMSHARE] <=> t \in q[WQ_TMSHARE] \/ t = th
    BY <1>1, ObjectIndices
  <2> QED
    BY <1>3, <1>6, <2>1, <2>2
<1> QED
  BY <1>2, <1>6, <1>7, <1>8, Zenon

-----------------------------------------------------------------------------
(* The types and SwitchInv, for handlers with the points and the arguments *)
(* of a kind of object.                                                    *)
Base(points, args) ==
    /\ RtTypeOK /\ SchedTypeOK /\ HandlerTypeOK(points, args) /\ SwitchInv
    /\ HeadsExist

Common(points, args) ==
    WaitPoints \union TickPoints \union {"none", "defer"} \subseteq points /\ 0 \in args

(* The types of what a step changes, other than the handler. *)
StepTypes ==
    /\ wq \in QMap
    /\ IdleReady(wq)
    /\ th_stat \in SMap
    /\ clock \in [Threads -> Ticks]
    /\ r0 \in [Threads -> Int]
    /\ pendsv \in BOOLEAN
    /\ excl \in BOOLEAN

LEMMA BaseTypes ==
    ASSUME NEW points, NEW args, Base(points, args)
    PROVE  StepTypes
BY DEF Base, StepTypes, RtTypeOK, HandlerTypeOK, SwitchInv, IdleReady, QMap, SMap, Slots

(* The processor's part of the state does not change. *)
SameSched == UNCHANGED <<ticks, active, critical_cnt, sched_val, sched_pri, sched_limit>>

LEMMA SameSchedFacts == SameSched <=> UNCHANGED schedState
BY DEF SameSched, schedState, schedVars

(* What the tick may do to it besides. *)
SchedStep ==
    /\ ticks' \in Ticks
    /\ sched_val' \in [Slots -> 0 .. SCHED_LIMIT_MAX]
    /\ UNCHANGED <<active, critical_cnt, sched_pri, sched_limit>>

(* The records that HandlerTypeOK allows. *)
Handlers(points, args) ==
    [pc : points, self : Slots, wq : Queues, ms : Nat \union {FOREVER},
     th : Slots, arg : args, todo : SUBSET Threads]

(* A handler goes on at another point. *)
LEMMA GotoFacts ==
    ASSUME NEW points, NEW args, HandlerTypeOK(points, args), NEW pc \in points, Goto(pc)
    PROVE  /\ handler' \in Handlers(points, args)
           /\ handler'.pc = pc
           /\ handler'.self = handler.self /\ handler'.wq = handler.wq
           /\ handler'.ms = handler.ms /\ handler'.th = handler.th
           /\ handler'.arg = handler.arg /\ handler'.todo = handler.todo
BY DEF HandlerTypeOK, Handlers, Goto

(* What is left to show of a step that leaves a handler in progress. *)
LEMMA BaseGoes ==
    ASSUME NEW points, NEW args, Base(points, args),
           handler' \in Handlers(points, args),
           SameSched \/ SchedStep, StepTypes', handler'.pc # "none",
           handler'.pc \in TickPoints \/ (handler'.self \in Threads /\ handler'.wq \in ObjectQueues),
           handler'.pc \in TakenPoints \union {"expired"} => handler'.th \in Threads,
           handler'.pc \in LimitPoints => handler'.ms # FOREVER,
           ~pendsv' /\ handler'.pc \in {"check", "insert"} => excl',
           ~pendsv' /\ handler'.pc \notin SuspendedPoints => IsHead(wq'[WQ_READY], active)
    PROVE  Base(points, args)'
<1>0. SchedStep
  BY DEF SameSched, SchedStep, Base, RtTypeOK, SchedTypeOK
<1>1. RtTypeOK'
  BY <1>0 DEF Base, SchedStep, StepTypes, RtTypeOK, QMap, SMap, Slots
<1>2. SchedTypeOK'
  BY <1>0 DEF Base, SchedStep, SchedTypeOK
<1>3. HandlerTypeOK(points, args)'
  BY DEF HandlerTypeOK, Handlers, StepTypes
<1>4. SwitchInv'
  BY <1>0 DEF Base, SchedStep, StepTypes, SwitchInv, IdleReady, At
<1> QED
  BY <1>1, <1>2, <1>3, <1>4 DEF Base

(* The same of a step that ends it. *)
LEMMA BaseDone ==
    ASSUME NEW points, NEW args, Common(points, args), Base(points, args),
           Done, SameSched \/ SchedStep, StepTypes',
           ~pendsv' => IsHead(wq'[WQ_READY], active)
    PROVE  Base(points, args)'
<1>0. SchedStep
  BY DEF SameSched, SchedStep, Base, RtTypeOK, SchedTypeOK
<1>1. RtTypeOK'
  BY <1>0 DEF Base, SchedStep, StepTypes, RtTypeOK, QMap, SMap, Slots
<1>2. SchedTypeOK'
  BY <1>0 DEF Base, SchedStep, SchedTypeOK
<1>3. HandlerTypeOK(points, args)'
  BY SlotNumbers, ObjectIndices DEF HandlerTypeOK, StepTypes, Done, NoHandler, Common
<1>4. handler' = NoHandler /\ handler'.pc = "none"
  BY DEF Done, NoHandler
<1>5. SwitchInv'
  BY <1>0, <1>4 DEF Base, SchedStep, StepTypes, SwitchInv, IdleReady, At, Idling, NoHandler,
              LimitPoints, TakenPoints
<1> QED
  BY <1>1, <1>2, <1>3, <1>5 DEF Base

-----------------------------------------------------------------------------
(* The steps that preserve Base. *)

(* A system call in progress has a caller and an object. *)
LEMMA CallerFacts ==
    ASSUME NEW points, NEW args, Base(points, args),
           handler.pc \notin TickPoints \union {"none"}
    PROVE  /\ handler.self \in Threads
           /\ handler.wq \in ObjectQueues
           /\ handler.wq \in Queues
BY ObjectIndices DEF Base, SwitchInv, At

(* The steps of the waits.  An object found signaled after the suspension  *)
(* has been signaled by an interrupt, which asked for the scheduler.       *)
LEMMA BaseWait ==
    ASSUME NEW points, NEW args, Common(points, args), Base(points, args),
           NEW signaled, signaled => pendsv, WaitStep(signaled)
    PROVE  Base(points, args)'
<1> USE DEF TickPoints, SuspendedPoints, ParkedPoints, LimitPoints, TakenPoints
<1>0. StepTypes /\ HandlerTypeOK(points, args)
  BY BaseTypes DEF Base
<1>p. {"again", "suspend", "queue", "check", "insert", "clock", "wq_clock", "timeout",
       "defer"} \subseteq points
  BY DEF Common, WaitPoints
<1>1. ASSUME WaitSuspend
      PROVE  Base(points, args)'
  <2>1. handler.self \in Threads /\ handler.wq \in ObjectQueues /\ handler.wq \in Queues
    BY <1>1, CallerFacts DEF WaitSuspend, At
  <2>2. Goto("queue") /\ SameSched /\ wq' = Suspend(wq, handler.self)
        /\ th_stat' = [th_stat EXCEPT ![handler.self] = [wq |-> handler.wq, timed |-> handler.ms # FOREVER]]
        /\ UNCHANGED <<clock, pendsv, r0, excl>>
    BY <1>1, SameSchedFacts DEF WaitSuspend
  <2>3. wq' \in QMap /\ IdleReady(wq')
    BY <1>0, <2>1, <2>2, LeaveReady DEF StepTypes
  <2>4. th_stat' \in SMap
    BY <1>0, <2>1, <2>2 DEF StepTypes, SMap
  <2>5. StepTypes'
    BY <1>0, <2>2, <2>3, <2>4 DEF StepTypes, IdleReady
  <2>6. handler'.pc = "queue" /\ handler'.self = handler.self /\ handler'.wq = handler.wq
        /\ handler' \in Handlers(points, args)
    BY <1>0, <1>p, <2>2, GotoFacts
  <2> QED
    BY <2>1, <2>2, <2>5, <2>6, BaseGoes
<1>2. ASSUME WaitQueue
      PROVE  Base(points, args)'
  <2>1. handler.self \in Threads /\ handler.wq \in ObjectQueues
    BY <1>2, CallerFacts DEF WaitQueue, At
  <2>2. Goto("check") /\ SameSched /\ excl' = TRUE
        /\ UNCHANGED <<wq, th_stat, clock, pendsv, r0>>
    BY <1>2 DEF WaitQueue, SameSched, rtVars, schedVars
  <2>3. StepTypes'
    BY <1>0, <2>2 DEF StepTypes, IdleReady
  <2>4. handler'.pc = "check" /\ handler'.self = handler.self /\ handler'.wq = handler.wq
        /\ handler' \in Handlers(points, args)
    BY <1>0, <1>p, <2>2, GotoFacts
  <2> QED
    BY <2>1, <2>2, <2>3, <2>4, BaseGoes
<1>r. ASSUME RollBack, pendsv, handler.pc \in ParkedPoints, SameSched, excl' \in BOOLEAN,
             UNCHANGED <<clock, pendsv, r0>>
      PROVE  Base(points, args)'
  <2>1. handler.self \in Threads /\ handler.wq \in ObjectQueues
    BY <1>r, CallerFacts
  <2>2. wq' = Insert(wq, WQ_READY, handler.self)
        /\ th_stat' = [th_stat EXCEPT ![handler.self] = [wq |-> 0, timed |-> FALSE]]
        /\ Goto("again")
    BY <1>r DEF RollBack, RestartPoint
  <2>3. wq' \in QMap /\ IdleReady(wq')
    BY <1>0, <2>1, <2>2, ObjectIndices, InsertFacts DEF StepTypes
  <2>4. th_stat' \in SMap
    BY <1>0, <2>1, <2>2, ObjectIndices DEF StepTypes, SMap
  <2>5. StepTypes'
    BY <1>0, <1>r, <2>2, <2>3, <2>4 DEF StepTypes, IdleReady
  <2>6. handler'.pc = "again" /\ handler'.self = handler.self /\ handler'.wq = handler.wq
        /\ handler' \in Handlers(points, args)
    BY <1>0, <1>p, <2>2, GotoFacts
  <2> QED
    BY <1>r, <2>1, <2>5, <2>6, BaseGoes
<1>3. ASSUME WaitCheck(signaled)
      PROVE  Base(points, args)'
  <2>1. handler.self \in Threads /\ handler.wq \in ObjectQueues
    BY <1>3, CallerFacts DEF WaitCheck, At
  <2>2. At("check") /\ SameSched /\ UNCHANGED <<clock, pendsv, r0, excl>>
    BY <1>3, SameSchedFacts DEF WaitCheck
  <2>3. CASE signaled /\ RollBack
    BY <1>0, <1>r, <2>2, <2>3 DEF At, StepTypes
  <2>4. CASE ~signaled /\ Goto("insert") /\ UNCHANGED <<wq, th_stat>>
    <3>1. StepTypes'
      BY <1>0, <2>2, <2>4 DEF StepTypes, IdleReady
    <3>2. handler'.pc = "insert" /\ handler'.self = handler.self /\ handler'.wq = handler.wq
          /\ handler' \in Handlers(points, args)
      BY <1>0, <1>p, <2>4, GotoFacts
    <3>3. ~pendsv' => excl'
      BY <2>2 DEF Base, SwitchInv, At
    <3> QED
      BY <2>1, <2>2, <3>1, <3>2, <3>3, BaseGoes
  <2> QED
    BY <1>3, <2>3, <2>4 DEF WaitCheck
<1>4. ASSUME WaitInsert
      PROVE  Base(points, args)'
  <2>1. handler.self \in Threads /\ handler.wq \in ObjectQueues /\ handler.wq \in Queues
    BY <1>4, CallerFacts DEF WaitInsert, At
  <2>2. At("insert") /\ SameSched /\ excl' = FALSE /\ UNCHANGED <<clock, pendsv, r0>>
    BY <1>4, SameSchedFacts DEF WaitInsert
  <2>3. CASE ~Stored /\ RollBack
    <3>1. pendsv
      BY <2>2, <2>3 DEF Base, SwitchInv, At, Stored
    <3> QED
      BY <1>r, <2>2, <2>3, <3>1, Zenon DEF At
  <2>4. CASE /\ Stored
             /\ wq' = Insert(wq, handler.wq, handler.self)
             /\ Goto(IF handler.ms = FOREVER THEN "defer" ELSE "clock")
             /\ UNCHANGED th_stat
    <3>1. wq' \in QMap /\ IdleReady(wq')
      BY <1>0, <2>1, <2>4, InsertFacts DEF StepTypes
    <3>2. StepTypes'
      BY <1>0, <2>2, <2>4, <3>1, Zenon DEF StepTypes, IdleReady
    <3>3. handler'.pc = (IF handler.ms = FOREVER THEN "defer" ELSE "clock")
          /\ handler'.self = handler.self /\ handler'.wq = handler.wq
          /\ handler'.ms = handler.ms
          /\ handler' \in Handlers(points, args)
      <4> DEFINE pc == IF handler.ms = FOREVER THEN "defer" ELSE "clock"
      <4>1. pc \in points
        BY <1>p
      <4>2. Goto(pc)
        BY <2>4
      <4> HIDE DEF pc
      <4>3. handler'.pc = pc
            /\ handler'.self = handler.self /\ handler'.wq = handler.wq
            /\ handler'.ms = handler.ms
            /\ handler' \in Handlers(points, args)
        BY <1>0, <4>1, <4>2, GotoFacts
      <4> QED
        BY <4>3 DEF pc
    <3> QED
      BY <2>1, <2>2, <3>2, <3>3, BaseGoes
  <2> QED
    BY <1>4, <2>3, <2>4 DEF WaitInsert
<1>5. ASSUME WaitClockSet
      PROVE  Base(points, args)'
  <2>1. handler.self \in Threads /\ handler.wq \in ObjectQueues
    BY <1>5, CallerFacts DEF WaitClockSet, At
  <2>2. At("clock") /\ SameSched /\ Goto("wq_clock")
        /\ clock' = [clock EXCEPT ![handler.self] = TickAdd(ticks, handler.ms)]
        /\ UNCHANGED <<wq, th_stat, pendsv, r0, excl>>
    BY <1>5, SameSchedFacts DEF WaitClockSet
  <2>3. handler.ms \in Nat /\ ticks \in Ticks
    BY <2>2 DEF Base, HandlerTypeOK, SwitchInv, At, RtTypeOK, FOREVER
  <2>4. TickAdd(ticks, handler.ms) \in Ticks
    BY <2>3, TickAddType
  <2>5. StepTypes'
    BY <1>0, <2>2, <2>4, Zenon DEF StepTypes, IdleReady
  <2>6. handler'.pc = "wq_clock" /\ handler'.self = handler.self /\ handler'.wq = handler.wq
        /\ handler'.ms = handler.ms
        /\ handler' \in Handlers(points, args)
    BY <1>0, <1>p, <2>2, GotoFacts
  <2>7. handler.ms # FOREVER
    BY <2>3 DEF FOREVER
  <2> QED
    BY <2>1, <2>2, <2>5, <2>6, <2>7, BaseGoes
<1>6. ASSUME WaitClockQueue
      PROVE  Base(points, args)'
  <2>1. handler.self \in Threads /\ handler.wq \in ObjectQueues
    BY <1>6, CallerFacts DEF WaitClockQueue, At
  <2>2. SameSched /\ Goto("timeout")
        /\ wq' = Insert(wq, WQ_CLOCK, handler.self)
        /\ UNCHANGED <<th_stat, clock, pendsv, r0, excl>>
    BY <1>6, SameSchedFacts DEF WaitClockQueue
  <2>3. wq' \in QMap /\ IdleReady(wq')
    BY <1>0, <2>1, <2>2, ObjectIndices, InsertFacts DEF StepTypes
  <2>4. StepTypes'
    BY <1>0, <2>2, <2>3 DEF StepTypes, IdleReady
  <2>5. handler'.pc = "timeout" /\ handler'.self = handler.self /\ handler'.wq = handler.wq
        /\ handler' \in Handlers(points, args)
    BY <1>0, <1>p, <2>2, GotoFacts
  <2> QED
    BY <2>1, <2>2, <2>4, <2>5, BaseGoes
<1>7. ASSUME WaitTimeout
      PROVE  Base(points, args)'
  <2>1. handler.self \in Threads /\ handler.wq \in ObjectQueues
    BY <1>7, CallerFacts DEF WaitTimeout, At
  <2>2. SameSched /\ Goto("defer")
        /\ r0' = [r0 EXCEPT ![handler.self] = ETIMEDOUT]
        /\ UNCHANGED <<wq, th_stat, clock, pendsv, excl>>
    BY <1>7, SameSchedFacts DEF WaitTimeout, Return
  <2>3. StepTypes'
    <3>1. ETIMEDOUT \in Int
      BY DEF ETIMEDOUT
    <3>2. r0' \in [Threads -> Int]
      BY <1>0, <2>2, <3>1, Zenon DEF StepTypes
    <3> QED
      BY <1>0, <2>2, <3>2 DEF StepTypes, IdleReady
  <2>4. handler'.pc = "defer" /\ handler'.self = handler.self /\ handler'.wq = handler.wq
        /\ handler' \in Handlers(points, args)
    BY <1>0, <1>p, <2>2, GotoFacts
  <2> QED
    BY <2>1, <2>2, <2>3, <2>4, BaseGoes
<1> QED
  BY <1>1, <1>2, <1>3, <1>4, <1>5, <1>6, <1>7 DEF WaitStep

(* The end of a call that may have changed the ready queue. *)
LEMMA BaseDefer ==
    ASSUME NEW points, NEW args, Common(points, args), Base(points, args), Defer
    PROVE  Base(points, args)'
<1>1. SameSched /\ Done /\ pendsv' = TRUE /\ UNCHANGED <<wq, th_stat, clock, r0, excl>>
  BY SameSchedFacts DEF Defer
<1>2. StepTypes'
  BY <1>1, BaseTypes DEF StepTypes, IdleReady
<1> QED
  BY <1>1, <1>2, BaseDone

(* The first thread of an object's queue. *)
LEMMA ObjectHead ==
    ASSUME HeadsExist, NEW q \in QMap, IdleReady(q), NEW w \in ObjectQueues, q[w] # {}
    PROVE  /\ WqHead(q[w]) \in q[w]
           /\ WqHead(q[w]) \in Threads
           /\ \A t \in q[w] : WqHead(q[w]) <= t
<1>1. w \in Queues /\ w # WQ_READY
  BY ObjectIndices
<1>2. q[w] \in SUBSET Slots
  BY <1>1 DEF QMap
<1>3. IsHead(q[w], WqHead(q[w]))
  BY <1>2, HeadExists
<1>4. WqHead(q[w]) \in q[w] /\ \A t \in q[w] : WqHead(q[w]) <= t
  BY <1>3, Zenon DEF IsHead
<1>5. IDLE \notin q[w]
  BY <1>1 DEF IdleReady
<1> QED
  BY <1>2, <1>4, <1>5, SlotNumbers

(* A call takes the first thread out of the object's queue. *)
LEMMA BaseTake ==
    ASSUME NEW points, NEW args, Base(points, args),
           NEW found \in points, NEW empty \in points,
           handler.pc \notin TickPoints \union SuspendedPoints \union {"none"},
           found \notin TickPoints \union SuspendedPoints \union {"none"},
           empty \notin TickPoints \union SuspendedPoints \union TakenPoints \union {"none"},
           TakeThread(found, empty)
    PROVE  Base(points, args)'
<1> USE DEF TickPoints, SuspendedPoints, ParkedPoints, LimitPoints
<1>0. StepTypes /\ HandlerTypeOK(points, args)
  BY BaseTypes DEF Base
<1>1. handler.self \in Threads /\ handler.wq \in ObjectQueues /\ handler.wq \in Queues
  BY CallerFacts
<1>2. SameSched /\ UNCHANGED <<th_stat, clock, pendsv, r0, excl>>
  BY SameSchedFacts DEF TakeThread
<1>3. ~pendsv => IsHead(wq[WQ_READY], active)
  BY DEF Base, SwitchInv
<1>4. CASE wq[handler.wq] = {} /\ Goto(empty) /\ UNCHANGED wq
  <2>1. StepTypes'
    BY <1>0, <1>2, <1>4 DEF StepTypes, IdleReady
  <2>2. handler'.pc = empty /\ handler'.self = handler.self /\ handler'.wq = handler.wq
        /\ handler' \in Handlers(points, args)
    BY <1>0, <1>4, GotoFacts
  <2> QED
    BY <1>1, <1>2, <1>3, <1>4, <2>1, <2>2, BaseGoes DEF TakenPoints
<1>5. CASE /\ wq[handler.wq] # {}
           /\ wq' = [wq EXCEPT ![handler.wq] = @ \ {WqHead(wq[handler.wq])}]
           /\ handler' = [handler EXCEPT !.pc = found, !.th = WqHead(wq[handler.wq])]
  <2>1. WqHead(wq[handler.wq]) \in Threads
    BY <1>0, <1>1, <1>5, ObjectHead DEF StepTypes, Base
  <2>2. wq' \in QMap /\ IdleReady(wq')
    <3>1. wq' = Removed(wq, handler.wq, WqHead(wq[handler.wq]))
      BY <1>5 DEF Removed
    <3> QED
      BY <1>0, <1>1, <2>1, <3>1, RemoveFacts DEF StepTypes
  <2>3. StepTypes'
    BY <1>0, <1>2, <2>2 DEF StepTypes, IdleReady
  <2>4. handler'.pc = found /\ handler'.self = handler.self /\ handler'.wq = handler.wq
        /\ handler'.th \in Threads
        /\ handler' \in Handlers(points, args)
    BY <1>0, <1>5, <2>1, SlotNumbers, Zenon DEF HandlerTypeOK, Handlers
  <2>5. wq'[WQ_READY] = wq[WQ_READY]
    BY <1>0, <1>1, <1>5, ObjectIndices DEF StepTypes, QMap
  <2> QED
    BY <1>1, <1>2, <1>3, <2>3, <2>4, <2>5, BaseGoes
<1> QED
  BY <1>4, <1>5 DEF TakeThread

(* It makes the thread it has taken ready. *)
LEMMA BaseWake ==
    ASSUME NEW points, NEW args, Common(points, args), Base(points, args),
           At("wakeup"), NEW v \in Int, WakeThread(v)
    PROVE  Base(points, args)'
<1> USE DEF TickPoints, SuspendedPoints, ParkedPoints, LimitPoints, TakenPoints
<1>0. StepTypes /\ HandlerTypeOK(points, args)
  BY BaseTypes DEF Base
<1>1. handler.self \in Threads /\ handler.wq \in ObjectQueues /\ handler.wq \in Queues
  BY CallerFacts DEF At
<1>2. handler.th \in Threads
  BY DEF Base, SwitchInv, At
<1>3. SameSched /\ Goto("defer")
      /\ wq' = Wakeup(wq, handler.wq, handler.th)
      /\ r0' = [r0 EXCEPT ![handler.th] = v]
      /\ th_stat' = [th_stat EXCEPT ![handler.th] = [wq |-> 0, timed |-> FALSE]]
      /\ UNCHANGED <<clock, pendsv, excl>>
  BY SameSchedFacts DEF WakeThread
<1>4. wq' \in QMap /\ IdleReady(wq')
  BY <1>0, <1>1, <1>2, <1>3, WakeupFacts DEF StepTypes
<1>5. th_stat' \in SMap
  BY <1>0, <1>2, <1>3, ObjectIndices DEF StepTypes, SMap
<1>6. StepTypes'
  BY <1>0, <1>2, <1>3, <1>4, <1>5 DEF StepTypes, IdleReady
<1>7. handler'.pc = "defer" /\ handler'.self = handler.self /\ handler'.wq = handler.wq
      /\ handler' \in Handlers(points, args)
  <2>1. "defer" \in points
    BY DEF Common
  <2> QED
    BY <1>0, <1>3, <2>1, GotoFacts
<1> QED
  BY <1>1, <1>3, <1>6, <1>7, BaseGoes, Zenon

(* What is left to show of a step that is not one of the handler. *)
LEMMA BaseStays ==
    ASSUME NEW points, NEW args, Base(points, args),
           UNCHANGED <<handler, ticks, critical_cnt, schedVars>>,
           active' \in Slots, StepTypes',
           ~pendsv' /\ handler.pc \in {"check", "insert"} => excl',
           ~pendsv' /\ handler.pc \notin SuspendedPoints => IsHead(wq'[WQ_READY], active')
    PROVE  Base(points, args)'
<1>1. RtTypeOK'
  BY SlotNumbers DEF Base, StepTypes, RtTypeOK, QMap, SMap, Slots
<1>2. SchedTypeOK'
  BY DEF Base, SchedTypeOK, schedVars
<1>3. HandlerTypeOK(points, args)'
  BY DEF Base, HandlerTypeOK, StepTypes
<1>4. SwitchInv'
  BY DEF Base, StepTypes, SwitchInv, IdleReady, At, Idling, schedVars
<1> QED
  BY <1>1, <1>2, <1>3, <1>4 DEF Base

(* The call of an interrupt handler. *)
LEMMA BaseIsr ==
    ASSUME NEW points, NEW args, Base(points, args), NEW w \in ObjectQueues, NEW v \in Int,
           IsrEnd,
           \/ UNCHANGED <<wq, r0, th_stat>>
           \/ wq[w] # {} /\ IsrWake(w, WqHead(wq[w]), v)
    PROVE  Base(points, args)' /\ pendsv'
<1>0. StepTypes
  BY BaseTypes
<1>1. pendsv' /\ pendsv' \in BOOLEAN /\ excl' = FALSE
  BY <1>0, ZenonT(60) DEF IsrEnd, Preempt, Base, SwitchInv, StepTypes
<1>2. UNCHANGED <<handler, ticks, critical_cnt, schedVars, clock, active>>
  BY DEF IsrEnd, schedState
<1>3. active' \in Slots
  BY <1>2 DEF Base, SwitchInv
<1>4. ASSUME UNCHANGED <<wq, r0, th_stat>>
      PROVE  StepTypes'
  BY <1>0, <1>1, <1>2, <1>4, Zenon DEF StepTypes, IdleReady
<1>5. ASSUME wq[w] # {}, IsrWake(w, WqHead(wq[w]), v)
      PROVE  StepTypes'
  <2> DEFINE th == WqHead(wq[w])
  <2>1. th \in Threads
    BY <1>0, <1>5, ObjectHead DEF StepTypes, Base
  <2>2. /\ wq' = Wakeup(wq, w, th)
        /\ r0' = [r0 EXCEPT ![th] = v]
        /\ th_stat' = [th_stat EXCEPT ![th] = [wq |-> 0, timed |-> FALSE]]
    BY <1>5 DEF IsrWake
  <2> HIDE DEF th
  <2>3. wq' \in QMap /\ IdleReady(wq')
    BY <1>0, <2>1, <2>2, WakeupFacts DEF StepTypes
  <2>4. th_stat' \in SMap
    BY <1>0, <2>1, <2>2, ObjectIndices DEF StepTypes, SMap
  <2> QED
    BY <1>0, <1>1, <1>2, <2>1, <2>2, <2>3, <2>4, ZenonT(60) DEF StepTypes, IdleReady
<1>6. StepTypes'
  BY <1>4, <1>5
<1> QED
  BY <1>1, <1>2, <1>3, <1>6, BaseStays

(* A context switch. *)
LEMMA BaseSwitch ==
    ASSUME NEW points, NEW args, Base(points, args), Idling, PendSV, UNCHANGED handlerVars
    PROVE  Base(points, args)'
<1>0. StepTypes
  BY BaseTypes
<1>1. /\ pendsv' = FALSE /\ active' = WqHead(wq[WQ_READY])
      /\ UNCHANGED <<wq, th_stat, clock, ticks, critical_cnt, r0, schedVars, handler, excl>>
  BY DEF PendSV, handlerVars
<1>2. wq[WQ_READY] \in SUBSET Slots /\ wq[WQ_READY] # {}
  BY <1>0, ObjectIndices DEF StepTypes, QMap, IdleReady
<1>3. IsHead(wq[WQ_READY], WqHead(wq[WQ_READY]))
  BY <1>2, HeadExists DEF Base
<1>4. active' \in Slots /\ IsHead(wq'[WQ_READY], active')
  <2>1. active' \in wq[WQ_READY]
    BY <1>1, <1>3 DEF IsHead
  <2> QED
    BY <1>1, <1>2, <1>3, <2>1
<1>5. StepTypes'
  BY <1>0, <1>1, Zenon DEF StepTypes, IdleReady
<1>6. handler.pc = "none"
  BY DEF Idling, NoHandler
<1> QED
  BY <1>1, <1>4, <1>5, <1>6, BaseStays

(* A thread that makes a system call is ready. *)
LEMMA CallFacts ==
    ASSUME NEW points, NEW args, Base(points, args), NEW self \in Threads, Entered(self)
    PROVE  /\ handler = NoHandler /\ handler.pc = "none" /\ ~pendsv /\ active = self
           /\ IsHead(wq[WQ_READY], active)
           /\ self \in wq[WQ_READY]
<1>1. handler = NoHandler /\ handler.pc = "none" /\ ~pendsv /\ active = self
  BY DEF Entered, Idling, NoHandler, Running
<1>2. IsHead(wq[WQ_READY], active)
  BY <1>1 DEF Base, SwitchInv, SuspendedPoints, ParkedPoints, LimitPoints
<1> QED
  BY <1>1, <1>2 DEF IsHead

(* A call that returns at once. *)
LEMMA BaseReplied ==
    ASSUME NEW points, NEW args, Base(points, args), NEW self \in Threads, Entered(self),
           NEW v \in Int, Replied(self, v)
    PROVE  Base(points, args)'
<1>0. StepTypes
  BY BaseTypes
<1>1. r0' = [r0 EXCEPT ![self] = v]
      /\ UNCHANGED <<wq, th_stat, clock, ticks, active, pendsv, critical_cnt, schedVars,
                     handler, excl>>
  BY DEF Replied, Reply, Return, handlerVars
<1>2. handler.pc = "none" /\ IsHead(wq[WQ_READY], active)
  BY CallFacts
<1>3. StepTypes' /\ active' \in Slots
  BY <1>0, <1>1 DEF StepTypes, IdleReady, Base, SwitchInv
<1> QED
  BY <1>1, <1>2, <1>3, BaseStays

(* A call that goes on step by step. *)
LEMMA BaseBegin ==
    ASSUME NEW points, NEW args, Base(points, args), NEW self \in Threads, Entered(self),
           NEW v \in Int, Reply(self, v), UNCHANGED excl,
           NEW pc \in points, pc \notin TickPoints \union SuspendedPoints
                                           \union TakenPoints \union {"none"},
           NEW w \in ObjectQueues, NEW ms \in Nat \union {FOREVER}, NEW arg \in args,
           Begin(pc, self, w, ms, arg)
    PROVE  /\ Base(points, args)'
           /\ handler'.pc = pc /\ handler'.self = self /\ handler'.wq = w
           /\ handler'.ms = ms
<1>0. StepTypes
  BY BaseTypes
<1>1. r0' = [r0 EXCEPT ![self] = v]
      /\ SameSched /\ UNCHANGED <<wq, th_stat, clock, pendsv, excl, active>>
  BY DEF Reply, Return, SameSched, schedVars
<1>2. IsHead(wq[WQ_READY], active)
  BY CallFacts
<1>3. StepTypes'
  BY <1>0, <1>1, Zenon DEF StepTypes, IdleReady
<1>4. handler' = [pc |-> pc, self |-> self, wq |-> w, ms |-> ms, th |-> IDLE,
                  arg |-> arg, todo |-> {}]
  BY Zenon DEF Begin, NoHandler
<1>5. /\ handler'.pc = pc /\ handler'.self = self /\ handler'.wq = w /\ handler'.ms = ms
      /\ handler' \in Handlers(points, args)
  BY <1>4, ObjectIndices, SlotNumbers, Zenon DEF Handlers
<1> QED
  BY <1>1, <1>2, <1>3, <1>5, BaseGoes DEF SuspendedPoints, ParkedPoints, TickPoints

(* The steps of the tick. *)
LEMMA BaseTickStart ==
    ASSUME NEW points, NEW args, Common(points, args), Base(points, args), TickStart
    PROVE  /\ Base(points, args)'
           /\ handler'.pc = "scan" /\ handler'.todo = wq[WQ_CLOCK]
           /\ UNCHANGED <<wq, th_stat, clock, pendsv, r0, excl>>
<1>0. StepTypes
  BY BaseTypes
<1>1. /\ ticks' = TickAdd(ticks, 1)
      /\ handler' = [pc |-> "scan", self |-> IDLE, wq |-> 0, ms |-> FOREVER, th |-> IDLE,
                     arg |-> 0, todo |-> wq[WQ_CLOCK]]
      /\ UNCHANGED <<wq, th_stat, clock, active, pendsv, critical_cnt, r0, schedVars, excl>>
  BY Zenon DEF TickStart, NoHandler
<1>2. ticks \in Ticks /\ TickAdd(ticks, 1) \in Ticks
  BY TickAddType DEF Base, RtTypeOK
<1>3. SchedStep
  BY <1>1, <1>2 DEF SchedStep, schedVars, Base, SchedTypeOK
<1>4. wq[WQ_CLOCK] \in SUBSET Threads
  BY <1>0, ObjectIndices, SlotNumbers DEF StepTypes, QMap, IdleReady
<1>5. /\ handler'.pc = "scan" /\ handler'.todo = wq[WQ_CLOCK]
      /\ handler' \in Handlers(points, args)
  BY <1>1, <1>4, ObjectIndices, SlotNumbers DEF Handlers, Common, TickPoints
<1>6. StepTypes'
  BY <1>0, <1>1 DEF StepTypes, IdleReady
<1>7. ~pendsv' => IsHead(wq'[WQ_READY], active)
  BY <1>1 DEF TickStart, Idling, NoHandler, Base, SwitchInv, SuspendedPoints, ParkedPoints,
              LimitPoints
<1>8. Base(points, args)'
  BY <1>3, <1>5, <1>6, <1>7, BaseGoes, Zenon
     DEF TickPoints, LimitPoints, TakenPoints
<1> QED
  BY <1>1, <1>5, <1>8

LEMMA BaseTickScan ==
    ASSUME NEW points, NEW args, Common(points, args), Base(points, args), TickScan
    PROVE  Base(points, args)'
<1> USE DEF TickPoints, SuspendedPoints, ParkedPoints, LimitPoints, TakenPoints
<1>0. StepTypes /\ HandlerTypeOK(points, args)
  BY BaseTypes DEF Base
<1>p. {"scan", "expired", "share"} \subseteq points
  BY DEF Common
<1>1. SameSched /\ At("scan") /\ UNCHANGED <<wq, clock, pendsv, r0, excl>>
  BY SameSchedFacts DEF TickScan
<1>2. ~pendsv => IsHead(wq[WQ_READY], active)
  BY <1>1 DEF Base, SwitchInv, At
<1>3. CASE handler.todo = {} /\ Goto("share") /\ UNCHANGED th_stat
  <2>1. StepTypes'
    BY <1>0, <1>1, <1>3, ZenonT(60) DEF StepTypes, IdleReady
  <2>2. handler'.pc = "share" /\ handler' \in Handlers(points, args)
    BY <1>0, <1>p, <1>3, GotoFacts
  <2> QED
    BY <1>1, <1>2, <2>1, <2>2, BaseGoes, ZenonT(60)
<1> DEFINE th == WqHead(handler.todo)
<1>4. ASSUME handler.todo # {}
      PROVE  th \in Threads /\ th \in handler.todo
  <2>1. handler.todo \in SUBSET Threads
    BY <1>0 DEF HandlerTypeOK
  <2>2. handler.todo \in SUBSET Slots
    BY <2>1, SlotNumbers
  <2>3. IsHead(handler.todo, th)
    BY <1>4, <2>2, HeadExists DEF Base
  <2> QED
    BY <2>1, <2>3 DEF IsHead
<1>5. CASE /\ handler.todo # {}
           /\ handler' = [handler EXCEPT !.pc = "expired", !.th = th,
                                !.wq = th_stat[th].wq, !.todo = @ \ {th}]
           /\ th_stat' = [th_stat EXCEPT ![th] = NoStat]
  <2>1. th \in Threads /\ th_stat[th].wq \in Queues
    BY <1>0, <1>4, <1>5 DEF StepTypes, SMap
  <2> HIDE DEF th
  <2>2. th_stat' \in SMap
    BY <1>0, <1>5, <2>1, ObjectIndices DEF StepTypes, SMap
  <2>3. StepTypes'
    BY <1>0, <1>1, <2>2 DEF StepTypes, IdleReady
  <2>4. handler'.pc = "expired" /\ handler'.th = th /\ handler' \in Handlers(points, args)
    BY <1>0, <1>p, <1>5, <2>1, SlotNumbers, ZenonT(60) DEF HandlerTypeOK, Handlers
  <2> QED
    BY <1>1, <1>2, <2>1, <2>3, <2>4, BaseGoes
<1>6. CASE /\ handler.todo # {}
           /\ handler' = [handler EXCEPT !.todo = @ \ {th}]
           /\ UNCHANGED th_stat
  <2> HIDE DEF th
  <2>1. StepTypes'
    BY <1>0, <1>1, <1>6 DEF StepTypes, IdleReady
  <2>2. handler'.pc = "scan" /\ handler' \in Handlers(points, args)
    BY <1>0, <1>1, <1>6 DEF HandlerTypeOK, Handlers, At
  <2> QED
    BY <1>1, <1>2, <2>1, <2>2, BaseGoes
<1> QED
  BY <1>3, <1>5, <1>6 DEF TickScan

LEMMA BaseTickExpired ==
    ASSUME NEW points, NEW args, Common(points, args), Base(points, args), TickExpired
    PROVE  Base(points, args)' /\ pendsv'
<1>0. StepTypes /\ HandlerTypeOK(points, args)
  BY BaseTypes DEF Base
<1>1. handler.th \in Threads /\ handler.wq \in Queues
  BY <1>0 DEF TickExpired, At, Base, SwitchInv, HandlerTypeOK
<1>2. /\ wq' = TimedOut(wq, handler.wq, handler.th)
      /\ Goto("scan") /\ SameSched
      /\ UNCHANGED <<th_stat, clock, r0, excl>>
  BY SameSchedFacts DEF TickExpired, TimedOut, Removed
<1>3. wq' \in QMap /\ IdleReady(wq')
  BY <1>0, <1>1, <1>2, ExpireFacts DEF StepTypes
<1>4. pendsv' /\ pendsv' \in BOOLEAN
  BY <1>0, Zenon DEF TickExpired, Preempt, Base, SwitchInv, StepTypes
<1>5. StepTypes'
  BY <1>0, <1>2, <1>3, <1>4 DEF StepTypes, IdleReady
<1>6. handler'.pc = "scan" /\ handler' \in Handlers(points, args)
  <2>1. "scan" \in points
    BY DEF Common, TickPoints
  <2> QED
    BY <1>0, <1>2, <2>1, GotoFacts
<1> QED
  BY <1>2, <1>4, <1>5, <1>6, BaseGoes DEF TickPoints, LimitPoints, TakenPoints

(* The thread that is charged for the tick. *)
LEMMA ChargeFacts ==
    ASSUME NEW points, NEW args, Base(points, args)
    PROVE  /\ Shared(wq) => active \in Threads /\ active \in wq[WQ_READY]
           /\ sched_val[active] \in 0 .. SCHED_LIMIT_MAX
           /\ Refilled(Remaining) \in 0 .. SCHED_LIMIT_MAX
<1>1. /\ active \in Slots /\ sched_pri[IDLE] = 0
      /\ sched_val[active] \in 0 .. SCHED_LIMIT_MAX
      /\ sched_pri[active] \in 0 .. SCHED_LIMIT_MAX
      /\ sched_limit \in 1 .. SCHED_LIMIT_MAX
      /\ sched_pri[active] <= sched_limit
  BY DEF Base, SwitchInv, SchedTypeOK
<1>2. Shared(wq) => active # IDLE
  BY <1>1, SchedAssumption DEF Shared, Remaining
<1>3. Refilled(Remaining) \in 0 .. SCHED_LIMIT_MAX
  BY <1>1, SchedAssumption DEF Refilled, Remaining
<1> QED
  BY <1>1, <1>2, <1>3, SlotNumbers DEF Shared

LEMMA BaseTickShare ==
    ASSUME NEW points, NEW args, Common(points, args), Base(points, args), TickShare
    PROVE  Base(points, args)'
<1>0. StepTypes
  BY BaseTypes
<1>1. /\ wq' = Timeshare(wq)
      /\ sched_val' = IF ~Charged THEN sched_val
                      ELSE [sched_val EXCEPT ![active] = Refilled(Remaining)]
      /\ pendsv' = (IF Shared(wq) THEN Preempt ELSE pendsv)
      /\ Done
      /\ UNCHANGED <<th_stat, clock, ticks, active, critical_cnt, r0, sched_pri,
                     sched_limit, excl>>
  BY DEF TickShare
<1>2. SchedStep
  <2>1. sched_val \in [Slots -> 0 .. SCHED_LIMIT_MAX]
    BY DEF Base, SchedTypeOK
  <2>2. sched_val' \in [Slots -> 0 .. SCHED_LIMIT_MAX]
    BY <1>1, <2>1, ChargeFacts, Zenon
  <2>3. ticks' \in Ticks
    BY <1>1 DEF Base, RtTypeOK
  <2> QED
    BY <1>1, <2>2, <2>3 DEF SchedStep
<1>3. CASE Shared(wq)
  <2>1. pendsv' /\ pendsv' \in BOOLEAN
    BY <1>0, <1>1, <1>3, Zenon DEF Preempt, Base, SwitchInv, StepTypes
  <2>2. active \in Threads /\ active \in wq[WQ_READY]
    BY <1>3, ChargeFacts
  <2>3. wq' = Suspend(Insert(wq, WQ_TMSHARE, active), active)
    BY <1>1, <1>3 DEF Timeshare
  <2>4. wq' \in QMap /\ IdleReady(wq')
    BY <1>0, <2>2, <2>3, ShareFacts DEF StepTypes
  <2>5. StepTypes'
    BY <1>0, <1>1, <2>1, <2>4, Zenon DEF StepTypes, IdleReady
  <2> QED
    BY <1>1, <1>2, <2>1, <2>5, BaseDone, Zenon
<1>4. CASE ~Shared(wq)
  <2>1. UNCHANGED <<wq, pendsv>>
    BY <1>1, <1>4 DEF Timeshare
  <2>2. StepTypes'
    BY <1>0, <1>1, <2>1 DEF StepTypes, IdleReady
  <2>3. ~pendsv => IsHead(wq[WQ_READY], active)
    BY DEF TickShare, At, Base, SwitchInv, SuspendedPoints, ParkedPoints, LimitPoints
  <2> QED
    BY <1>1, <1>2, <2>1, <2>2, <2>3, BaseDone
<1> QED
  BY <1>3, <1>4

-----------------------------------------------------------------------------
(* What PlaceInv asks of a thread that no handler is moving. *)
Quietly(t) == Settled(t) /\ (t \in wq[WQ_CLOCK] => r0[t] = ETIMEDOUT)

(* The places of the threads before a step at a point where none moves. *)
LEMMA AllSettled ==
    ASSUME PlaceInv,
           handler.pc \notin ParkedPoints \union LimitPoints \union TakenPoints
                                \union {"expired", "timeout"}
    PROVE  \A t \in Threads : Quietly(t)
BY DEF PlaceInv, LimitResult, Moving, Quietly, At

(* A thread that no handler is moving and that is in the ready queue is in *)
(* no other, and one in the queue of an object has the status of a wait.   *)
LEMMA ReadySettled ==
    ASSUME NEW t, Settled(t), t \in wq[WQ_READY]
    PROVE  th_stat[t] = NoStat /\ In(t, {WQ_READY})
<1>1. WQ_READY \in Queues /\ WQ_READY \notin ObjectQueues
  BY ObjectIndices
<1> QED
  BY <1>1 DEF Settled, In

LEMMA ObjectSettled ==
    ASSUME NEW t, Settled(t), NEW w \in ObjectQueues, t \in wq[w]
    PROVE  /\ th_stat[t].wq = w
           /\ In(t, {w} \union (IF th_stat[t].timed THEN {WQ_CLOCK} ELSE {}))
<1>1. w \in Queues /\ w \notin {WQ_READY, WQ_TMSHARE, WQ_CLOCK}
  BY ObjectIndices
<1> QED
  BY <1>1 DEF Settled, In

(* Where a thread is in the queue of an object while an interrupt handler  *)
(* runs, and no wait is setting a time limit.  It may be one that the tick *)
(* is about to wake.                                                       *)
LEMMA WaiterPlace ==
    ASSUME PlaceInv, handler.pc \notin LimitPoints,
           NEW x \in Threads, NEW w \in ObjectQueues, x \in wq[w]
    PROVE  In(x, {w}) \/ In(x, {w, WQ_CLOCK})
<1>i. w \in Queues /\ w \notin {WQ_READY, WQ_TMSHARE, WQ_CLOCK}
  BY ObjectIndices
<1>1. CASE x = handler.self /\ handler.pc \in ParkedPoints
  BY <1>i, <1>1 DEF PlaceInv, CallerPlace, In
<1>2. CASE x = handler.th /\ handler.pc \in TakenPoints
  BY <1>i, <1>2 DEF PlaceInv, TakenPlace, In
<1>3. CASE x = handler.th /\ handler.pc = "expired"
  BY <1>i, <1>3 DEF PlaceInv, ExpiredPlace, In, At
<1>4. CASE Settled(x)
  <2>1. In(x, {w} \union (IF th_stat[x].timed THEN {WQ_CLOCK} ELSE {}))
    BY <1>4, ObjectSettled
  <2> QED
    BY <2>1 DEF In
<1> QED
  BY <1>1, <1>2, <1>3, <1>4 DEF PlaceInv, Moving
=============================================================================
