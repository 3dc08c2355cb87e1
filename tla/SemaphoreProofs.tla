--------------------------- MODULE SemaphoreProofs ---------------------------
(***************************************************************************)
(* Semaphores, for every number of threads and semaphores and every width  *)
(* of the clock: the scheduler is always asked for, and, when no interrupt *)
(* posts between the entry of a timed wait into the queue and its default  *)
(* result, the queues are kept and the semaphores count.                   *)
(***************************************************************************)
EXTENDS SemRequestProofs, PlaceProofs

USE DEF WQ_READY, WQ_TMSHARE, WQ_CLOCK, NoStat, Stat

-----------------------------------------------------------------------------
WellFounded == INSTANCE WellFoundedInduction

(* The lowest bit of a bitmap that is not 0. *)
LEMMA LowestBit ==
    ASSUME NEW S \in SUBSET Nat, S # {}
    PROVE  IsHead(S, WqHead(S))
<1>1. S \subseteq Nat
  OBVIOUS
<1>2. \E x \in S : \A y \in S : ~(<<y, x>> \in WellFounded!OpToRel(<, Nat))
  BY <1>1, WellFounded!WFMin, WellFounded!NatLessThanWellFounded, Zenon
<1>3. \A x, y \in Nat : y < x => <<y, x>> \in WellFounded!OpToRel(<, Nat)
  BY DEF WellFounded!OpToRel
<1>4. \E x \in S : \A y \in S : ~(y < x)
  BY <1>1, <1>2, <1>3, Zenon
<1>5. \E x \in S : \A y \in S : x <= y
  BY <1>1, <1>4
<1> QED
  BY <1>5, Zenon DEF IsHead, WqHead

LEMMA HeadsAlways == HeadsExist
BY LowestBit, Zenon DEF HeadsExist

LEMMA SemParts == SemSwitchInv <=> SemBase /\ SemRest
BY HeadsAlways DEF SemSwitchInv, TypeOK, SemTypeOK, SemBase, Base, SemRest, HandlerTypeOK

-----------------------------------------------------------------------------
(* Where it begins. *)
LEMMA InitRows ==
    ASSUME RtInit(Threads)
    PROVE  /\ RtTypeOK
           /\ IdleReady(wq)
           /\ \A th \in Threads : In(th, {WQ_READY}) /\ th_stat[th] = NoStat
           /\ \A w \in ObjectQueues : wq[w] = {}
           /\ active \in Slots
           /\ IsHead(wq[WQ_READY], active)
<1>1. Threads # {} /\ IsHead(Threads, WqHead(Threads))
  <2>1. Threads # {}
    BY RtAssumption DEF Threads
  <2> QED
    BY <2>1, HeadsAlways, HeadExists, SlotNumbers
<1>2. /\ wq[WQ_READY] = Threads \union {IDLE}
      /\ \A w \in Queues \ {WQ_READY} : wq[w] = {}
      /\ \A th \in Threads : th_stat[th] = NoStat
  BY Indices DEF RtInit
<1>3. RtTypeOK
  <2>1. wq \in [Queues -> SUBSET (Threads \union {IDLE})]
    BY DEF RtInit
  <2>2. th_stat \in [Threads -> [wq : Queues, timed : BOOLEAN]]
    <3>1. NoStat \in [wq : Queues, timed : BOOLEAN]
      BY Indices
    <3> HIDE DEF NoStat
    <3> QED
      BY <3>1 DEF RtInit
  <2>3. clock \in [Threads -> Ticks] /\ ticks \in Ticks
    BY RtAssumption DEF RtInit, Ticks
  <2>4. active \in 0 .. VOID
    BY <1>1, SlotNumbers, Zenon DEF RtInit, IsHead
  <2>5. pendsv \in BOOLEAN
    BY Zenon DEF RtInit
  <2>6. critical_cnt \in 0 .. CRITICAL_MAX /\ r0 \in [Threads -> Int]
    BY RtAssumption DEF RtInit, OK
  <2> QED
    BY <2>1, <2>2, <2>3, <2>4, <2>5, <2>6 DEF RtTypeOK
<1>4. IdleReady(wq)
  BY <1>2, Indices DEF IdleReady
<1>5. \A th \in Threads : In(th, {WQ_READY})
  BY <1>2, Zenon DEF In
<1>6. \A w \in ObjectQueues : wq[w] = {}
  BY <1>2, ObjectIndices
<1>7. active \in Slots
  BY <1>1, SlotNumbers, Zenon DEF RtInit, IsHead
<1>8. IsHead(wq[WQ_READY], active)
  <2>1. \A th \in Threads : th <= IDLE
    BY SlotNumbers
  <2> QED
    BY <1>1, <1>2, <2>1, Zenon DEF IsHead, RtInit
<1> QED
  BY <1>2, <1>3, <1>4, <1>5, <1>6, <1>7, <1>8

LEMMA InitPriorities ==
    ASSUME NEW pri \in [Threads -> Priorities], SchedInit(pri)
    PROVE  /\ SchedTypeOK /\ sched_pri[IDLE] = 0
           /\ \A s \in Slots : sched_pri[s] <= sched_limit
<1>2. sched_limit \in 1 .. SCHED_LIMIT_MAX
  BY DEF SchedInit
<1>3. sched_limit \div 2 \in 0 .. SCHED_LIMIT_MAX
  BY <1>2, SchedAssumption
<1>4. \A th \in Threads : pri[th] \in 0 .. SCHED_LIMIT_MAX /\ pri[th] <= sched_limit
  BY SemaphoresAssumption, ZenonT(60) DEF SchedInit
<1>5. sched_pri \in [Slots -> 0 .. SCHED_LIMIT_MAX]
  BY <1>4, SlotNumbers, SchedAssumption DEF SchedInit
<1>6. sched_val \in [Slots -> 0 .. SCHED_LIMIT_MAX]
  BY <1>3, SchedAssumption DEF SchedInit
<1>7. sched_pri[IDLE] = 0 /\ \A s \in Slots : sched_pri[s] <= sched_limit
  BY <1>2, <1>4, SlotNumbers DEF SchedInit
<1> QED
  BY <1>2, <1>5, <1>6, <1>7 DEF SchedTypeOK

LEMMA InitSwitch ==
    ASSUME Init
    PROVE  SemBase /\ SemRest
<1>1. /\ RtTypeOK /\ IdleReady(wq) /\ active \in Slots /\ IsHead(wq[WQ_READY], active)
  BY InitRows DEF Init
<1>2. /\ SchedTypeOK /\ sched_pri[IDLE] = 0
      /\ \A s \in Slots : sched_pri[s] <= sched_limit
  BY InitPriorities DEF Init
<1>3. /\ handler = NoHandler /\ handler.pc = "none" /\ excl = FALSE
      /\ sem_val = [s \in Sems |-> 0] /\ sem_alloc = Sems /\ critical_cnt = 0
      /\ asked = [th \in Threads |-> 0] /\ posts = [s \in Sems |-> 0]
  BY Zenon DEF Init, SemInit, HandlerInit, NoHandler, RtInit
<1>4. HandlerTypeOK(SemPoints, {0})
  BY <1>3, SlotNumbers, ObjectIndices, Zenon DEF HandlerTypeOK, NoHandler, SemPoints
<1>5. SwitchInv
  BY <1>1, <1>2, <1>3 DEF SwitchInv, IdleReady, Idling, At, TickPoints, TakenPoints, LimitPoints
<1>6. SemRest
  BY <1>3, SemAssumption DEF SemRest, ParkedPoints
<1> QED
  BY <1>1, <1>2, <1>4, <1>5, <1>6, HeadsAlways DEF SemBase, Base

(* The types, and the scheduler, are kept whatever interrupts post and     *)
(* whenever they do.                                                       *)
LEMMA SwitchInvariance == Spec => [](SemBase /\ SemRest)
<1>1. Init => SemBase /\ SemRest
  BY InitSwitch
<1>2. (SemBase /\ SemRest) /\ [Next]_vars => (SemBase /\ SemRest)'
  BY SwitchNext
<1> QED
  BY <1>1, <1>2, PTL DEF Spec

(* The type invariant: a semaphore's value stays in its range and every    *)
(* handler goes on at a point of the code, with interrupts at any point.   *)
THEOREM SemTypes == Spec => []TypeOK
<1>1. SemBase /\ SemRest => TypeOK
  BY SemParts DEF SemSwitchInv
<1> QED
  BY <1>1, SwitchInvariance, PTL

(* Unless a context switch is pending, the processor runs the first ready  *)
(* thread whenever no handler is in progress: __thinkos_sem_post_i() from  *)
(* an interrupt, the waits' roll back, which asks for no scheduler, and    *)
(* the tick always end in one when they change it.                         *)
THEOREM SemFirstReady == Spec => []RunsFirstReady
<1>1. SemBase => RunsFirstReady
  BY DEF SemBase, Base, SwitchInv, RunsFirstReady, Idling, NoHandler, SuspendedPoints,
         ParkedPoints, LimitPoints
<1> QED
  BY <1>1, SwitchInvariance, PTL

-----------------------------------------------------------------------------
(* PlaceInv is preserved when no interrupt posts in the window. *)
LEMMA PlaceAgain ==
    ASSUME SemBase, SemRest, PlaceInv, WaitAgain
    PROVE  PlaceInv'
<1>1. /\ handler.pc = "again" /\ handler.self \in Threads
      /\ UNCHANGED <<wq, th_stat>>
  BY CallerFacts DEF WaitAgain, At, SemBase, TickPoints
<1>2. PICK x \in Threads : x = handler.self
  BY <1>1
<1>3. (\A t \in Threads : Quietly(t)) /\ x \in wq[WQ_READY]
  BY <1>1, <1>2, AllSettled, Zenon DEF PlaceInv, CallerPlace, ParkedPoints, LimitPoints, TakenPoints
<1>4. CASE Return(x, OK) /\ Done
  <2>1. In(x, {WQ_READY})
    BY <1>3, ReadySettled DEF Quietly
  <2>2. x \notin wq[WQ_CLOCK]
    BY <2>1, ObjectIndices DEF In
  <2>3. r0 \in [Threads -> Int]
    BY BaseTypes DEF SemBase, StepTypes
  <2>4. \A t \in Threads : t # x => r0'[t] = r0[t]
    BY <1>4, <2>3 DEF Return
  <2>5. \A t \in Threads : Settled(t)' <=> Settled(t)
    BY <1>1 DEF Settled, In
  <2>6. \A t \in Threads : Quietly(t)'
    BY <1>1, <1>3, <2>2, <2>4, <2>5 DEF Quietly
  <2>7. handler'.pc = "none"
    BY <1>4 DEF Done, NoHandler
  <2> QED
    BY <2>6, <2>7, PlaceQuiet DEF ParkedPoints, LimitPoints, TakenPoints
<1>5. CASE Goto("suspend") /\ r0' = r0
  <2>1. handler'.pc = "suspend" /\ handler'.self = x
    BY <1>2, <1>5, GotoFacts DEF SemBase, Base, SemPoints, WaitPoints
  <2>2. \A t \in Threads : Quietly(t)'
    BY <1>1, <1>3, <1>5, NoneTouched
  <2> QED
    BY <1>1, <1>3, <2>1, <2>2, PlaceCalling
<1> QED
  BY <1>2, <1>4, <1>5 DEF WaitAgain

LEMMA PlaceStep ==
    ASSUME SemBase, SemRest, PlaceInv, SemStep
    PROVE  PlaceInv'
<1>1. CASE WaitStep(PostedMeanwhile(handler.wq))
  BY <1>1, SemCommon, PlaceWait DEF SemBase
<1>2. CASE Defer \/ TickStep
  BY <1>2, SemCommon, PlaceDefer, PlaceTickScan, PlaceTickExpired, PlaceTickShare
     DEF SemBase, TickStep
<1>3. CASE WaitAgain
  BY <1>3, PlaceAgain
<1>4. {"wakeup", "count", "defer"} \subseteq SemPoints /\ HandlerTypeOK(SemPoints, {0})
  BY DEF SemPoints, SemBase, Base
<1>5. CASE PostTake
  BY <1>4, <1>5, PlaceTake DEF SemBase, PostTake, At, TickPoints, SuspendedPoints,
     ParkedPoints, LimitPoints, TakenPoints
<1>6. CASE PostCount
  <2>1. handler.pc = "count" /\ handler'.pc = "defer" /\ UNCHANGED <<wq, th_stat, r0>>
    BY <1>4, <1>6, GotoFacts, Zenon DEF PostCount, At, rtVars
  <2> QED
    BY <2>1, PlaceStill DEF ParkedPoints, LimitPoints, TakenPoints
<1>7. CASE PostWakeup
  <2>1. OK \in Int
    BY DEF OK
  <2> QED
    BY <1>7, <2>1, SemCommon, PlaceWake DEF SemBase, PostWakeup
<1> QED
  BY <1>1, <1>2, <1>3, <1>5, <1>6, <1>7 DEF SemStep

LEMMA PlaceCall ==
    ASSUME SemBase, SemRest, PlaceInv, NEW self \in Threads, Entered(self), Called(self)
    PROVE  PlaceInv'
<1>1. handler = NoHandler /\ handler.pc = "none"
  BY CallFacts DEF SemBase
<1>2. CASE Ends(self)
  <2>1. PICK v \in Int : Replied(self, v)
    BY <1>2 DEF Ends
  <2>2. Reply(self, v) /\ handler'.pc = "none"
    BY <1>1, <2>1 DEF Replied, handlerVars
  <2> QED
    BY <2>2, PlaceReply DEF SemBase, ParkedPoints, LimitPoints, TakenPoints
<1>3. ASSUME NEW s, NEW pc \in {"again", "post"}, Begins(self, s, pc)
      PROVE  PlaceInv'
  <2>1. PICK v \in Int : Reply(self, v) /\ \E ms : Begin(pc, self, s, ms, 0)
    BY <1>3 DEF Begins
  <2>2. handler'.pc = pc /\ handler'.self = self
    BY <2>1 DEF Begin, NoHandler
  <2> QED
    BY <2>1, <2>2, PlaceReply DEF SemBase, ParkedPoints, LimitPoints, TakenPoints
<1>4. OK \in Int /\ EAGAIN \in Int
  BY DEF OK, EAGAIN
<1>5. ASSUME NEW s, Tries(self, s)
      PROVE  Ends(self)
  BY <1>4, <1>5 DEF Tries, Ends
<1> QED
  BY <1>2, <1>3, <1>5 DEF Called, Forgets, Waits, Posts, Sets

LEMMA PlaceNext ==
    ASSUME WaitWindow \subseteq Quiet, SemBase, SemRest, PlaceInv, [Next]_vars
    PROVE  PlaceInv'
<1>1. CASE Step
  BY <1>1, PlaceStep DEF Step
<1>2. CASE Tick
  BY <1>2, SemCommon, PlaceTickStart DEF Tick, SemBase
<1>3. CASE Switch
  BY <1>3, PlaceSwitch DEF Switch
<1>4. CASE Interrupt
  <2>1. PICK s \in sem_alloc : SemPostIsr(s)
    BY <1>4 DEF Interrupt
  <2>2. s \in ObjectQueues /\ OK \in Int
    BY <2>1, ObjectIndices DEF SemRest, OK
  <2>3. /\ \/ UNCHANGED <<wq, r0, th_stat>>
           \/ wq[s] # {} /\ IsrWake(s, WqHead(wq[s]), OK)
        /\ IsrEnd
    BY <2>1 DEF SemPostIsr
  <2>4. handler.pc \notin LimitPoints \union {"timeout"}
    BY <1>4 DEF Interrupt, WaitWindow, LimitPoints
  <2> QED
    BY <2>2, <2>3, <2>4, PlaceIsr DEF SemBase
<1>5. ASSUME NEW self \in Threads, WaitCall(self) \/ PostCall(self) \/ SetCall(self)
      PROVE  PlaceInv'
  BY <1>5, CallShapes, PlaceCall
<1>6. CASE UNCHANGED vars
  <2>1. UNCHANGED <<wq, th_stat, r0, handler>>
    BY <1>6 DEF vars, rtVars, handlerVars
  <2> QED
    BY <2>1 DEF PlaceInv, CallerPlace, TakenPlace, ExpiredPlace, TodoPlace, LimitResult,
                Settled, Moving, In, At
<1> QED
  BY <1>1, <1>2, <1>3, <1>4, <1>5, <1>6 DEF Next

(* The inductive invariant of the queues begins. *)
LEMMA InitPlace ==
    ASSUME Init
    PROVE  PlaceInv
<1>1. /\ \A th \in Threads : In(th, {WQ_READY}) /\ th_stat[th] = NoStat
      /\ handler.pc = "none"
  BY InitRows, Zenon DEF Init, SemInit, HandlerInit, NoHandler
<1>2. \A th \in Threads : th \notin wq[WQ_CLOCK]
  BY <1>1, ObjectIndices DEF In
<1> QED
  BY <1>1, <1>2 DEF PlaceInv, CallerPlace, TakenPlace, ExpiredPlace, TodoPlace, LimitResult,
         Settled, ParkedPoints, LimitPoints, TakenPoints, At

LEMMA PlaceInvariance ==
    ASSUME WaitWindow \subseteq Quiet
    PROVE  Spec => []PlaceInv
<1>1. Init => PlaceInv
  BY InitPlace
<1>2. (SemBase /\ SemRest) /\ PlaceInv /\ [Next]_vars => PlaceInv'
  BY PlaceNext
<1> QED
  BY <1>1, <1>2, SwitchInvariance, PTL DEF Spec

(* When no interrupt handler posts between the entry of a timed wait into  *)
(* the queue and the default result that thinkos_sem_timedwait_svc() sets  *)
(* afterwards, th_stat[] describes the wait queues exactly whenever no     *)
(* handler is in progress, after every roll back, post and time out.       *)
THEOREM SemQueues ==
    ASSUME WaitWindow \subseteq Quiet
    PROVE  Spec => []QueuesSettled
<1>1. SemBase /\ PlaceInv => QueuesSettled
  <2> SUFFICES ASSUME SemBase, PlaceInv, Idling
               PROVE  Agree(wq, th_stat)
    BY DEF QueuesSettled
  <2>1. \A th \in Threads : Settled(th)
    BY AllSettled DEF Idling, NoHandler, Quietly, ParkedPoints, LimitPoints, TakenPoints
  <2>2. \A w \in Queues : IDLE \in wq[w] <=> w = WQ_READY
    BY DEF SemBase, Base, SwitchInv
  <2>3. ASSUME NEW th \in Threads
        PROVE  IF th_stat[th] = NoStat
               THEN /\ \A w \in Queues \ {WQ_READY, WQ_TMSHARE} : th \notin wq[w]
                    /\ th \in wq[WQ_READY] <=> th \notin wq[WQ_TMSHARE]
               ELSE /\ th_stat[th].wq \notin {WQ_READY, WQ_TMSHARE}
                    /\ \A w \in Queues :
                          th \in wq[w] <=> \/ w = th_stat[th].wq
                                         \/ (w = WQ_CLOCK /\ th_stat[th].timed)
    <3>1. CASE th_stat[th] = NoStat /\ (In(th, {WQ_READY}) \/ In(th, {WQ_TMSHARE}))
      BY <3>1, ObjectIndices DEF In
    <3>2. CASE /\ th_stat[th].wq \in ObjectQueues
               /\ In(th, {th_stat[th].wq}
                            \union (IF th_stat[th].timed THEN {WQ_CLOCK} ELSE {}))
      <4>1. th_stat[th].wq \notin {WQ_READY, WQ_TMSHARE} /\ th_stat[th] # NoStat
        BY <3>2, ObjectIndices
      <4>2. \A w \in Queues : th \in wq[w] <=> \/ w = th_stat[th].wq
                                             \/ (w = WQ_CLOCK /\ th_stat[th].timed)
        BY <3>2 DEF In
      <4> QED
        BY <4>1, <4>2, Zenon
    <3> QED
      BY <2>1, <3>1, <3>2, Zenon DEF Settled
  <2> QED
    BY <2>2, <2>3, Zenon DEF Agree
<1> QED
  BY <1>1, SwitchInvariance, PlaceInvariance, PTL

-----------------------------------------------------------------------------
LEMMA InitRequest ==
    ASSUME Init
    PROVE  CInv /\ Counting!Init
<1>1. SemBase /\ SemRest /\ PlaceInv
  BY InitSwitch, InitPlace
<1>2. /\ handler.pc = "none" /\ sem_alloc = Sems /\ asked = [th \in Threads |-> 0]
      /\ sem_val = [s \in Sems |-> 0] /\ posts = [s \in Sems |-> 0]
      /\ \A w \in ObjectQueues : wq[w] = {}
  BY InitRows, Zenon DEF Init, SemInit, HandlerInit, NoHandler
<1>3. \A t \in Threads : Outcome(t) = "none"
  BY <1>2 DEF Outcome
<1>4. RequestInv
  BY <1>2, <1>3 DEF RequestInv, WaitPoints, At, Counting!Outcomes
<1>5. Counting!Init
  BY <1>1, <1>2, <1>3 DEF Counting!Init, SemRest
<1> QED
  BY <1>1, <1>4, <1>5 DEF CInv

(* The inductive invariant of the queues and the requests. *)
THEOREM SemInvariance ==
    ASSUME WaitWindow \subseteq Quiet
    PROVE  Spec => []SemInv
<1>1. Init => CInv
  BY InitRequest
<1>2. CInv /\ [Next]_vars => CInv'
  BY PlaceNext, RequestNext DEF CInv
<1>3. CInv => SemInv
  BY SemParts DEF CInv, SemInv
<1> QED
  BY <1>1, <1>2, <1>3, PTL DEF Spec

(* The semaphores of thinkos_semaphore.c implement counting semaphores for *)
(* every number of threads and semaphores, with interrupt handlers posting *)
(* at every point but the window of the timed wait: each step of a wait, a *)
(* post, a tick or an interrupt is a step of CountingSemaphore or none.    *)
THEOREM SemImplementsCounting ==
    ASSUME WaitWindow \subseteq Quiet
    PROVE  Spec => CountingSpec
<1>1. Init => CInv /\ Counting!Init
  BY InitRequest
<1>2. CInv /\ [Next]_vars => CInv' /\ [Counting!Next]_(Counting!vars)
  BY PlaceNext, RequestNext DEF AbstractStep, CInv
<1> QED
  BY <1>1, <1>2, PTL DEF Spec, CountingSpec, Counting!Spec
=============================================================================
