---------------------------- MODULE SemStepProofs ----------------------------
(***************************************************************************)
(* The steps of Semaphores: each keeps the types and the rules of the      *)
(* scheduler.  And how requests map to counting semaphores: what a change  *)
(* of one thread's request has to satisfy, and what the calls make of it.  *)
(***************************************************************************)
EXTENDS Semaphores, HandlerProofs

USE DEF WQ_READY, WQ_TMSHARE, WQ_CLOCK, NoStat, Stat

-----------------------------------------------------------------------------
(* SemSwitchInv is what the steps of ThinkosHandler preserve for all kinds *)
(* of objects, and the rest.                                               *)
SemBase == Base(SemPoints, {0})

SemRest ==
    /\ sem_val \in [Sems -> 0 .. SEM_RANGE - 1]
    /\ sem_alloc \in SUBSET Sems
    /\ asked \in [Threads -> Sems \union {0}]
    /\ posts \in [Sems -> {0, 1}]
    /\ handler.pc \in {"again", "suspend", "post", "count"} \union ParkedPoints =>
          handler.wq \in Sems
    /\ ~pendsv /\ handler.pc \in {"suspend"} \union ParkedPoints =>
          ~PostedMeanwhile(handler.wq)

LEMMA SemCommon == Common(SemPoints, {0})
BY DEF Common, SemPoints

(* How a wait goes on. *)
LEMMA WaitMoves ==
    ASSUME SemBase, NEW signaled, WaitStep(signaled)
    PROVE  /\ handler'.self = handler.self /\ handler'.wq = handler.wq
           /\ UNCHANGED <<pendsv, ticks, active>>
           /\ \/ WaitSuspend /\ handler.pc = "suspend" /\ handler'.pc = "queue"
              \/ WaitQueue /\ handler.pc = "queue" /\ handler'.pc = "check"
              \/ /\ WaitCheck(signaled) /\ handler.pc = "check"
                 /\ \/ handler'.pc = "again" /\ RollBack
                    \/ handler'.pc = "insert" /\ ~signaled /\ UNCHANGED <<wq, th_stat>>
              \/ /\ WaitInsert /\ handler.pc = "insert"
                 /\ \/ handler'.pc = "again" /\ RollBack
                    \/ handler'.pc \in {"defer", "clock"} /\ excl
              \/ WaitClockSet /\ handler.pc = "clock" /\ handler'.pc = "wq_clock"
              \/ WaitClockQueue /\ handler.pc = "wq_clock" /\ handler'.pc = "timeout"
              \/ WaitTimeout /\ handler.pc = "timeout" /\ handler'.pc = "defer"
<1>1. HandlerTypeOK(SemPoints, {0})
  BY DEF SemBase, Base
<1>2. WaitPoints \union {"defer"} \subseteq SemPoints
  BY DEF SemPoints
<1>3. UNCHANGED <<pendsv, ticks, active>>
  BY Zenon DEF WaitStep, WaitSuspend, WaitQueue, WaitCheck, WaitInsert, WaitClockSet,
         WaitClockQueue, WaitTimeout, rtVars, schedState
<1>4. ASSUME NEW pc \in WaitPoints \union {"defer"}, Goto(pc)
      PROVE  handler'.self = handler.self /\ handler'.wq = handler.wq /\ handler'.pc = pc
  BY <1>1, <1>2, <1>4, GotoFacts
<1> USE <1>4
<1>5. CASE WaitSuspend \/ WaitQueue
  BY <1>3, <1>5, Zenon DEF WaitSuspend, WaitQueue, At, WaitPoints
<1>6. CASE WaitCheck(signaled)
  BY <1>3, <1>6, Zenon DEF WaitCheck, RollBack, RestartPoint, At, WaitPoints
<1>7. CASE WaitInsert
  BY <1>3, <1>7, Zenon DEF WaitInsert, Stored, RollBack, RestartPoint, At, WaitPoints
<1>8. CASE WaitClockSet \/ WaitClockQueue \/ WaitTimeout
  BY <1>3, <1>8, Zenon DEF WaitClockSet, WaitClockQueue, WaitTimeout, At, WaitPoints
<1> QED
  BY <1>5, <1>6, <1>7, <1>8, Zenon DEF WaitStep

-----------------------------------------------------------------------------
(* SemSwitchInv is preserved.  First the rest, by what changes it. *)
LEMMA RestGoes ==
    ASSUME SemRest, UNCHANGED <<semVars, asked, posts>>,
           handler'.pc \in {"again", "suspend", "post", "count"} \union ParkedPoints =>
              handler'.wq \in Sems,
           ~pendsv' /\ handler'.pc \in {"suspend"} \union ParkedPoints =>
              /\ ~pendsv /\ handler.pc \in {"suspend"} \union ParkedPoints
              /\ handler'.wq = handler.wq
    PROVE  SemRest'
BY DEF SemRest, semVars, PostedMeanwhile

LEMMA RestEnds ==
    ASSUME SemRest,
           sem_val' \in [Sems -> 0 .. SEM_RANGE - 1], sem_alloc' \in SUBSET Sems,
           asked' \in [Threads -> Sems \union {0}], posts' \in [Sems -> {0, 1}],
           handler'.pc \notin {"again", "suspend", "post", "count"} \union ParkedPoints
    PROVE  SemRest'
BY DEF SemRest

LEMMA SwitchWait ==
    ASSUME SemBase, SemRest, WaitStep(PostedMeanwhile(handler.wq)),
           UNCHANGED <<semVars, asked, posts>>
    PROVE  SemBase' /\ SemRest'
<1>1. PICK signaled : (signaled => pendsv) /\ WaitStep(signaled)
  <2>1. CASE handler.pc = "check"
    <3>1. PostedMeanwhile(handler.wq) => pendsv
      BY <2>1 DEF SemRest, ParkedPoints
    <3> QED
      BY <3>1, Zenon
  <2>2. CASE handler.pc # "check"
    <3>1. WaitStep(FALSE)
      BY <2>2, Zenon DEF WaitStep, WaitCheck, At
    <3> QED
      BY <3>1, Zenon
  <2> QED
    BY <2>1, <2>2
<1>2. SemBase'
  BY <1>1, SemCommon, BaseWait DEF SemBase
<1>3. /\ handler'.wq = handler.wq /\ pendsv' = pendsv
      /\ handler'.pc \in {"again"} \union ParkedPoints =>
            handler.pc \in {"suspend"} \union ParkedPoints
      /\ handler'.pc \notin {"suspend", "post", "count"}
  BY WaitMoves, Zenon DEF ParkedPoints
<1>4. SemRest'
  <2>1. handler.pc \in {"suspend"} \union ParkedPoints => handler.wq \in Sems
    BY DEF SemRest
  <2> QED
    BY <1>3, <2>1, RestGoes, Zenon
<1> QED
  BY <1>2, <1>4

(* The tick, and the end of a call. *)
LEMMA SwitchTick ==
    ASSUME SemBase, SemRest, Defer \/ TickStep \/ TickStart,
           UNCHANGED <<semVars, asked, posts>>
    PROVE  SemBase' /\ SemRest'
<1>1. SemBase'
  BY SemCommon, BaseDefer, BaseTickStart, BaseTickScan, BaseTickExpired, BaseTickShare, Zenon
     DEF SemBase, TickStep
<1>2. HandlerTypeOK(SemPoints, {0}) /\ "share" \in SemPoints /\ "scan" \in SemPoints
  BY DEF SemBase, Base, SemPoints, TickPoints
<1>3. handler'.pc \in TickPoints \union {"none"}
  <2>1. CASE Defer \/ TickShare
    BY <2>1 DEF Defer, TickShare, Done, NoHandler
  <2>2. CASE TickStart
    BY <2>2, SemCommon, BaseTickStart DEF SemBase, TickPoints
  <2>3. CASE TickExpired
    <3>1. Goto("scan")
      BY <2>3 DEF TickExpired
    <3> QED
      BY <3>1, <1>2, GotoFacts DEF TickPoints
  <2>4. CASE TickScan
    <3>1. CASE Goto("share")
      BY <3>1, <1>2, GotoFacts DEF TickPoints
    <3>2. CASE ~Goto("share")
      BY <2>4, <3>2, <1>2, Zenon DEF TickScan, HandlerTypeOK, TickPoints, At
    <3> QED
      BY <3>1, <3>2
  <2> QED
    BY <2>1, <2>2, <2>3, <2>4 DEF TickStep
<1>4. SemRest'
  BY <1>3, RestGoes DEF TickPoints, ParkedPoints
<1> QED
  BY <1>1, <1>4

(* A wait that takes a unit, or finds none. *)
LEMMA SwitchAgain ==
    ASSUME SemBase, SemRest, WaitAgain, UNCHANGED <<asked, posts>>
    PROVE  SemBase' /\ SemRest'
<1>1. handler.wq \in Sems /\ handler.self \in Threads /\ handler.wq \in ObjectQueues
      /\ handler.pc = "again"
  BY CallerFacts, Zenon DEF WaitAgain, At, SemRest, SemBase, TickPoints
<1>2. StepTypes /\ SameSched
  BY BaseTypes, SameSchedFacts, Zenon DEF SemBase, WaitAgain
<1>3. SemBase /\ SemRest /\ pendsv' = pendsv /\ sem_alloc' = sem_alloc
      /\ UNCHANGED <<wq, th_stat, clock, excl>>
  BY DEF WaitAgain
<1>4. ~pendsv => IsHead(wq[WQ_READY], active)
  BY <1>1, Zenon DEF SemBase, Base, SwitchInv, SuspendedPoints, ParkedPoints, LimitPoints
<1>5. CASE /\ sem_val[handler.wq] > 0
           /\ sem_val' = [sem_val EXCEPT ![handler.wq] = @ - 1]
           /\ Return(handler.self, OK)
           /\ Done
  <2>1. r0' \in [Threads -> Int]
    BY <1>1, <1>2, <1>5 DEF Return, OK, StepTypes
  <2>2. StepTypes'
    BY <1>2, <1>3, <2>1 DEF StepTypes, IdleReady
  <2>3. SemBase'
    BY <1>2, <1>3, <1>4, <1>5, <2>2, SemCommon, BaseDone, Zenon DEF SemBase
  <2>4. sem_val' \in [Sems -> 0 .. SEM_RANGE - 1]
    BY <1>1, <1>5, SemAssumption DEF SemRest
  <2>5. handler'.pc = "none"
    BY <1>5 DEF Done, NoHandler
  <2>6. SemRest'
    BY <1>3, <2>4, <2>5, RestEnds, Zenon DEF SemRest, ParkedPoints
  <2> QED
    BY <2>3, <2>6
<1>6. CASE sem_val[handler.wq] = 0 /\ Goto("suspend") /\ UNCHANGED <<sem_val, r0>>
  <2>1. /\ handler' \in Handlers(SemPoints, {0}) /\ handler'.pc = "suspend"
        /\ handler'.self = handler.self /\ handler'.wq = handler.wq
    BY <1>6, GotoFacts DEF SemBase, Base, SemPoints, WaitPoints
  <2>2. StepTypes'
    BY <1>2, <1>3, <1>6, Zenon DEF StepTypes, IdleReady
  <2>3. IsHead(wq'[WQ_READY], active) <=> IsHead(wq[WQ_READY], active)
    BY <1>3
  <2>4. SemBase'
    BY <1>1, <1>2, <1>3, <1>4, <2>1, <2>2, <2>3, BaseGoes, Zenon
       DEF SemBase, TickPoints, TakenPoints, LimitPoints
  <2>5. SemRest'
    BY <1>1, <1>3, <1>6, <2>1 DEF SemRest, ParkedPoints, PostedMeanwhile
  <2> QED
    BY <2>4, <2>5
<1> QED
  BY <1>5, <1>6, Zenon DEF WaitAgain

(* A post made by a thread. *)
LEMMA SwitchPost ==
    ASSUME SemBase, SemRest, PostTake \/ PostWakeup, UNCHANGED asked,
           posts' \in [Sems -> {0, 1}]
    PROVE  SemBase' /\ SemRest'
<1>1. HandlerTypeOK(SemPoints, {0}) /\ {"wakeup", "count", "defer"} \subseteq SemPoints
  BY DEF SemBase, Base, SemPoints
<1>2. CASE PostTake
  <2>1. SemBase'
    BY <1>1, <1>2, BaseTake DEF SemBase, PostTake, At, TickPoints, SuspendedPoints,
       ParkedPoints, LimitPoints, TakenPoints
  <2>2. handler'.pc \in {"wakeup", "count"} /\ handler'.wq = handler.wq
    BY <1>1, <1>2, Zenon DEF PostTake, TakeThread, Goto, HandlerTypeOK
  <2>3. SemRest'
    BY <1>2, <2>2, Zenon DEF SemRest, PostTake, At, ParkedPoints, semVars
  <2> QED
    BY <2>1, <2>3
<1>3. CASE PostWakeup
  <2>1. OK \in Int
    BY DEF OK
  <2>2. SemBase'
    BY <1>3, <2>1, SemCommon, BaseWake DEF SemBase, PostWakeup
  <2>3. handler'.pc = "defer"
    BY <1>1, <1>3, GotoFacts, Zenon DEF PostWakeup, WakeThread
  <2>4. SemRest'
    BY <1>3, <2>3, RestEnds, Zenon DEF SemRest, PostWakeup, semVars, ParkedPoints
  <2> QED
    BY <2>2, <2>4
<1> QED
  BY <1>2, <1>3

LEMMA SwitchCount ==
    ASSUME SemBase, SemRest, PostCount, UNCHANGED asked, posts' \in [Sems -> {0, 1}]
    PROVE  SemBase' /\ SemRest'
<1>1. handler.wq \in Sems /\ handler.self \in Threads /\ handler.wq \in ObjectQueues
  BY CallerFacts DEF PostCount, At, SemRest, SemBase, TickPoints
<1>2. StepTypes /\ SameSched /\ UNCHANGED <<wq, th_stat, clock, r0, pendsv, excl>>
  BY BaseTypes DEF SemBase, PostCount, rtVars, schedVars, SameSched
<1>3. StepTypes'
  BY <1>2 DEF StepTypes, IdleReady
<1>4. /\ handler' \in Handlers(SemPoints, {0}) /\ handler'.pc = "defer"
      /\ handler'.self = handler.self /\ handler'.wq = handler.wq
  BY GotoFacts DEF SemBase, Base, SemPoints, PostCount
<1>5. SemBase'
  BY <1>1, <1>2, <1>3, <1>4, BaseGoes, Zenon
     DEF SemBase, TickPoints, TakenPoints, LimitPoints, SuspendedPoints
<1>6. \A v \in Int : Incremented(v) \in 0 .. SEM_RANGE - 1
  BY SemAssumption, ModRange DEF Incremented
<1>7. sem_val' \in [Sems -> 0 .. SEM_RANGE - 1] /\ sem_alloc' = sem_alloc
  BY <1>1, <1>6 DEF SemRest, PostCount
<1>8. SemRest'
  BY <1>4, <1>7, RestEnds, Zenon DEF SemRest, ParkedPoints
<1> QED
  BY <1>5, <1>8

(* A post made by an interrupt handler. *)
LEMMA SwitchIsr ==
    ASSUME SemBase, SemRest, Interrupt
    PROVE  SemBase' /\ SemRest'
<1>1. PICK s \in sem_alloc : SemPostIsr(s) /\ Posted(s)
  BY DEF Interrupt
<1>2. s \in Sems /\ s \in ObjectQueues /\ OK \in Int
  BY <1>1, ObjectIndices DEF SemRest, OK
<1>3. /\ \/ UNCHANGED <<wq, r0, th_stat>>
         \/ wq[s] # {} /\ IsrWake(s, WqHead(wq[s]), OK)
      /\ IsrEnd /\ sem_alloc' = sem_alloc /\ asked' = asked
  BY <1>1, Zenon DEF SemPostIsr, Interrupt
<1>4. SemBase' /\ pendsv'
  BY <1>2, <1>3, BaseIsr, Zenon DEF SemBase
<1>5. \A v \in Int : Incremented(v) \in 0 .. SEM_RANGE - 1
  BY SemAssumption, ModRange DEF Incremented
<1>6. sem_val' \in [Sems -> 0 .. SEM_RANGE - 1]
  BY <1>1, <1>2, <1>5 DEF SemRest, SemPostIsr
<1>7. posts' \in [Sems -> {0, 1}]
  BY <1>1, <1>2 DEF SemRest, Posted
<1>8. handler' = handler
  BY <1>3 DEF IsrEnd
<1>9. SemRest'
  BY <1>3, <1>4, <1>6, <1>7, <1>8, Zenon DEF SemRest
<1> QED
  BY <1>4, <1>9

(* The calls that end at once, and those that begin. *)
LEMMA SwitchReplied ==
    ASSUME SemBase, SemRest, NEW self \in Threads, Entered(self),
           NEW v \in Int, Replied(self, v),
           sem_val' \in [Sems -> 0 .. SEM_RANGE - 1], sem_alloc' \in SUBSET Sems,
           asked' \in [Threads -> Sems \union {0}], UNCHANGED posts
    PROVE  SemBase' /\ SemRest'
<1>1. SemBase'
  BY BaseReplied DEF SemBase
<1>2. handler'.pc = "none"
  BY CallFacts DEF SemBase, Replied, handlerVars
<1>3. posts' \in [Sems -> {0, 1}]
  BY DEF SemRest
<1>4. SemRest'
  BY <1>2, <1>3, RestEnds DEF ParkedPoints
<1> QED
  BY <1>1, <1>4

LEMMA SwitchBegin ==
    ASSUME SemBase, SemRest, NEW self \in Threads, Entered(self), NEW v \in Int,
           Reply(self, v), NEW s \in Sems, NEW pc \in {"again", "post"},
           NEW ms \in Nat \union {FOREVER}, Begin(pc, self, s, ms, 0),
           UNCHANGED <<semVars, excl, posts>>,
           asked' \in [Threads -> Sems \union {0}]
    PROVE  SemBase' /\ SemRest' /\ handler'.pc = pc /\ handler'.self = self /\ handler'.wq = s
<1>1. /\ s \in ObjectQueues /\ pc \in SemPoints /\ 0 \in {0}
      /\ pc \notin TickPoints \union SuspendedPoints \union TakenPoints \union {"none"}
  BY ObjectIndices DEF SemPoints, WaitPoints, TickPoints, SuspendedPoints, TakenPoints,
     ParkedPoints, LimitPoints
<1>2. excl' = excl
  OBVIOUS
<1>3. SemBase' /\ handler'.pc = pc /\ handler'.self = self /\ handler'.wq = s
  BY <1>1, <1>2, BaseBegin DEF SemBase
<1>4. SemRest'
  BY <1>3, Zenon DEF SemRest, semVars, ParkedPoints
<1> QED
  BY <1>3, <1>4

(* The first free semaphore. *)
LEMMA AllocFacts ==
    ASSUME HeadsExist, NEW s, s = BmpAlloc(sem_alloc, Sems), s # ENOMEM
    PROVE  s \in Sems \ sem_alloc
<1>1. s = WqHead(Sems \ sem_alloc) /\ Sems \ sem_alloc # {}
  BY DEF BmpAlloc
<1>2. Sems \ sem_alloc \in SUBSET Nat
  BY ObjectIndices, Indices, Zenon
<1>3. IsHead(Sems \ sem_alloc, s)
  BY <1>1, <1>2, Zenon DEF HeadsExist
<1> QED
  BY <1>3 DEF IsHead

(* The calls come in five shapes: those that end at once and leave the     *)
(* values alone, a trywait, a wait, a post, and those that set a value.    *)
Ends(self) == \E v \in Int : Replied(self, v)

Begins(self, s, pc) ==
    \E v \in Int, ms \in Nat \union {FOREVER} :
       Reply(self, v) /\ Begin(pc, self, s, ms, 0) /\ UNCHANGED <<semVars, excl>>

Asks(self, s) == asked' = [asked EXCEPT ![self] = s]

Forgets(self) ==
    /\ Ends(self) /\ Asks(self, 0) /\ sem_val' = sem_val
    /\ sem_alloc' \subseteq sem_alloc
    /\ \A s \in sem_alloc \ sem_alloc' : wq[s] = {}

Tries(self, s) ==
    /\ Asks(self, s) /\ sem_alloc' = sem_alloc
    /\ \/ /\ sem_val[s] > 0 /\ Replied(self, OK)
          /\ sem_val' = [sem_val EXCEPT ![s] = @ - 1]
       \/ sem_val[s] = 0 /\ Replied(self, EAGAIN) /\ sem_val' = sem_val

Waits(self, s) == Begins(self, s, "again") /\ Asks(self, s)

Posts(self, s) == Begins(self, s, "post") /\ Asks(self, 0)

Sets(self, s, v) ==
    /\ Ends(self) /\ Asks(self, 0)
    /\ sem_val' = [sem_val EXCEPT ![s] = v]
    /\ sem_alloc' = sem_alloc \union {s}
    /\ wq[s] = {} \/ s \notin sem_alloc

Called(self) ==
    \/ Forgets(self)
    \/ \E s \in sem_alloc : Tries(self, s) \/ Waits(self, s) \/ Posts(self, s)
    \/ \E s \in Sems, v \in 0 .. SEM_RANGE - 1 : Sets(self, s, v)

LEMMA InvalidShape ==
    ASSUME NEW self, NEW s, SemInvalid(self, s),
           AskedNothing(self) \/ Asked(self, s)
    PROVE  Forgets(self)
<1>1. EINVAL \in Int
  BY DEF EINVAL
<1> QED
  BY <1>1 DEF SemInvalid, AskedNothing, Asked, Forgets, Ends, Asks, semVars

LEMMA WaitShape ==
    ASSUME SemRest, NEW self \in Threads, WaitCall(self)
    PROVE  Called(self)
<1>1. PICK s \in SemArgs :
         /\ SemTryWait(self, s) \/ \E ms \in Nat \union {FOREVER} : SemWaitCall(self, s, ms)
         /\ Asked(self, s)
  BY SemaphoresAssumption, Zenon DEF WaitCall, SemWait, SemTimedWait
<1>2. CASE SemInvalid(self, s)
  BY <1>1, <1>2, InvalidShape DEF Called
<1>3. CASE ValidSem(s)
  <2>1. s \in Sems /\ s \in sem_alloc /\ Asks(self, s) /\ ~SemInvalid(self, s)
    BY <1>1, <1>3 DEF ValidSem, Asked, Asks, SemInvalid
  <2>2. CASE SemTryWait(self, s)
    <3>1. Tries(self, s)
      BY <2>1, <2>2 DEF SemTryWait, Tries, SemRest
    <3> QED
      BY <2>1, <3>1 DEF Called
  <2>3. ASSUME NEW ms \in Nat \union {FOREVER}, SemWaitCall(self, s, ms)
        PROVE  Called(self)
    <3>1. Reply(self, s) /\ Begin("again", self, s, ms, 0) /\ UNCHANGED <<semVars, excl>>
      BY <2>1, <2>3 DEF SemWaitCall
    <3>2. s \in Int
      BY <2>1, ObjectIndices, Indices
    <3>3. Waits(self, s)
      BY <2>1, <3>1, <3>2, Zenon DEF Waits, Begins
    <3> QED
      BY <2>1, <3>3 DEF Called
  <2> QED
    BY <1>1, <2>2, <2>3
<1> QED
  BY <1>1, <1>2, <1>3, Zenon DEF SemTryWait, SemWaitCall

LEMMA PostShape ==
    ASSUME SemRest, NEW self \in Threads, PostCall(self)
    PROVE  Called(self)
<1>1. PICK s \in SemArgs : SemPost(self, s)
  BY DEF PostCall
<1>2. AskedNothing(self)
  BY DEF PostCall
<1>3. CASE SemInvalid(self, s)
  BY <1>2, <1>3, InvalidShape DEF Called
<1>4. CASE ~SemInvalid(self, s)
  <2>1. s \in sem_alloc /\ Begin("post", self, s, FOREVER, 0) /\ Reply(self, OK)
        /\ UNCHANGED <<semVars, excl>>
    BY <1>1, <1>4 DEF SemPost, ValidSem
  <2>2. OK \in Int /\ FOREVER \in Nat \union {FOREVER}
    BY DEF OK
  <2>3. Posts(self, s)
    BY <1>2, <2>1, <2>2, Zenon DEF Posts, Begins, AskedNothing, Asks
  <2> QED
    BY <2>1, <2>3 DEF Called
<1> QED
  BY <1>3, <1>4

LEMMA SetShape ==
    ASSUME HeadsExist, SemRest, NEW self \in Threads, SetCall(self)
    PROVE  Called(self)
<1>1. AskedNothing(self) /\ Asks(self, 0)
  BY DEF SetCall, AskedNothing, Asks
<1>2. ASSUME NEW s \in SemArgs, NEW v \in Values, Unused(s), SemSet(self, s, v)
      PROVE  Called(self)
  <2>1. CASE SemInvalid(self, s)
    BY <1>1, <2>1, InvalidShape DEF Called
  <2>2. CASE ~SemInvalid(self, s)
    <3>1. OK \in Int /\ v \in 0 .. SEM_RANGE - 1
      BY SemaphoresAssumption DEF OK
    <3>2. /\ s \in Sems /\ s \in sem_alloc /\ Replied(self, OK) /\ wq[s] = {}
          /\ sem_val' = [sem_val EXCEPT ![s] = v] /\ sem_alloc' = sem_alloc \union {s}
      BY <1>2, <2>2 DEF SemSet, ValidSem, Unused
    <3>3. Sets(self, s, v)
      BY <1>1, <3>1, <3>2, Zenon DEF Sets, Ends
    <3> QED
      BY <3>1, <3>2, <3>3 DEF Called
  <2> QED
    BY <2>1, <2>2
<1>3. ASSUME NEW v \in Values, SemAlloc(self, v)
      PROVE  Called(self)
  <2>1. PICK s : s = BmpAlloc(sem_alloc, Sems)
    OBVIOUS
  <2>2. Replied(self, s) /\ v \in 0 .. SEM_RANGE - 1
    BY <1>3, <2>1, SemaphoresAssumption, Zenon DEF SemAlloc
  <2>3. CASE s = ENOMEM
    <3>1. ENOMEM \in Int /\ UNCHANGED semVars
      BY <1>3, <2>1, <2>3 DEF SemAlloc, ENOMEM
    <3> QED
      BY <1>1, <2>2, <2>3, <3>1 DEF Called, Forgets, Ends, semVars
  <2>4. CASE s # ENOMEM
    <3>0. \A n \in Sems : n \in Int
      BY ObjectIndices, Indices
    <3>1. s \in Sems \ sem_alloc /\ s \in Int
      BY <2>1, <2>4, <3>0, AllocFacts, Zenon
    <3>2. sem_val' = [sem_val EXCEPT ![s] = v] /\ sem_alloc' = sem_alloc \union {s}
      BY <1>3, <2>1, <2>4 DEF SemAlloc
    <3>3. Sets(self, s, v)
      BY <1>1, <2>2, <3>1, <3>2, Zenon DEF Sets, Ends
    <3> QED
      BY <2>2, <3>1, <3>3 DEF Called
  <2> QED
    BY <2>3, <2>4
<1>4. ASSUME NEW s \in SemArgs, Unused(s), SemFree(self, s)
      PROVE  Called(self)
  <2>1. Ends(self)
    <3>1. EINVAL \in Int
      BY DEF EINVAL
    <3>2. \A n \in Sems : n \in Int
      BY ObjectIndices, Indices
    <3>3. PICK v : v = (IF s \in Sems THEN s ELSE EINVAL)
      OBVIOUS
    <3>4. v \in Int
      BY <3>1, <3>2, <3>3, Zenon
    <3> QED
      BY <1>4, <3>3, <3>4 DEF SemFree, Ends
  <2> QED
    BY <1>1, <1>4, <2>1, Zenon DEF Called, Forgets, SemFree, Unused, SemRest
<1> QED
  BY <1>2, <1>3, <1>4 DEF SetCall

LEMMA CallShapes ==
    ASSUME SemBase, SemRest, NEW self \in Threads,
           WaitCall(self) \/ PostCall(self) \/ SetCall(self)
    PROVE  Entered(self) /\ posts' = posts /\ Called(self)
<1>0. HeadsExist
  BY DEF SemBase, Base
<1>1. Entered(self) /\ posts' = posts
  BY Zenon DEF WaitCall, PostCall, SetCall, SemTryWait, SemWait, SemTimedWait, SemWaitCall,
         SemPost, SemSet, SemAlloc, SemFree
<1> QED
  BY <1>0, <1>1, WaitShape, PostShape, SetShape

LEMMA SwitchCall ==
    ASSUME SemBase, SemRest, NEW self \in Threads, Entered(self), posts' = posts,
           Called(self)
    PROVE  SemBase' /\ SemRest'
<1>1. \A s \in Sems \union {0} : Asks(self, s) => asked' \in [Threads -> Sems \union {0}]
  BY DEF Asks, SemRest
<1>2. /\ \A s \in sem_alloc : s \in Sems \union {0} /\ s \in Sems
      /\ 0 \in Sems \union {0}
  BY DEF SemRest
<1>3. CASE Forgets(self)
  <2>1. /\ sem_val' \in [Sems -> 0 .. SEM_RANGE - 1] /\ sem_alloc' \in SUBSET Sems
        /\ Ends(self) /\ asked' \in [Threads -> Sems \union {0}]
    BY <1>1, <1>2, <1>3, Zenon DEF Forgets, SemRest
  <2> QED
    BY <2>1, SwitchReplied DEF Ends
<1>4. ASSUME NEW s \in sem_alloc, Tries(self, s)
      PROVE  SemBase' /\ SemRest'
  <2>1. OK \in Int /\ EAGAIN \in Int
    BY DEF OK, EAGAIN
  <2>2. /\ sem_val' \in [Sems -> 0 .. SEM_RANGE - 1] /\ sem_alloc' \in SUBSET Sems
        /\ asked' \in [Threads -> Sems \union {0}]
    BY <1>1, <1>2, <1>4, SemAssumption DEF Tries, SemRest
  <2>3. Replied(self, OK) \/ Replied(self, EAGAIN)
    BY <1>4 DEF Tries
  <2> QED
    BY <2>1, <2>2, <2>3, SwitchReplied, Zenon
<1>5. ASSUME NEW s \in sem_alloc, Waits(self, s) \/ Posts(self, s)
      PROVE  SemBase' /\ SemRest'
  <2>1. PICK pc \in {"again", "post"}, v \in Int, ms \in Nat \union {FOREVER} :
           Reply(self, v) /\ Begin(pc, self, s, ms, 0) /\ UNCHANGED <<semVars, excl>>
    BY <1>5 DEF Waits, Posts, Begins
  <2>2. s \in Sems /\ asked' \in [Threads -> Sems \union {0}]
        /\ UNCHANGED <<semVars, excl, posts>>
    BY <1>1, <1>2, <1>5, <2>1, Zenon DEF Waits, Posts
  <2> QED
    BY <2>1, <2>2, SwitchBegin, Zenon
<1>6. ASSUME NEW s \in Sems, NEW v \in 0 .. SEM_RANGE - 1, Sets(self, s, v)
      PROVE  SemBase' /\ SemRest'
  <2>1. /\ sem_val' \in [Sems -> 0 .. SEM_RANGE - 1] /\ sem_alloc' \in SUBSET Sems
        /\ Ends(self) /\ asked' \in [Threads -> Sems \union {0}]
    BY <1>1, <1>2, <1>6, Zenon DEF Sets, SemRest
  <2> QED
    BY <2>1, SwitchReplied, Zenon DEF Ends
<1> QED
  BY <1>3, <1>4, <1>5, <1>6, Zenon DEF Called

LEMMA SwitchNext ==
    ASSUME SemBase, SemRest, [Next]_vars
    PROVE  SemBase' /\ SemRest'
<1>1. CASE Step
  <2>1. asked' = asked /\ posts' \in [Sems -> {0, 1}]
        /\ (~PostCounts => posts' = posts)
    BY <1>1 DEF Step, Posted, SemRest
  <2>2. At("post") \/ At("count") \/ ~PostCounts
    BY DEF PostCounts
  <2>3. CASE WaitStep(PostedMeanwhile(handler.wq)) /\ UNCHANGED semVars
    <3>1. ~At("post") /\ ~At("count")
      BY <2>3, Zenon DEF WaitStep, WaitSuspend, WaitQueue, WaitCheck, WaitInsert, WaitClockSet,
                  WaitClockQueue, WaitTimeout, At
    <3>2. UNCHANGED <<semVars, asked, posts>>
      BY <2>1, <2>2, <2>3, <3>1
    <3> QED
      BY <2>3, <3>2, SwitchWait
  <2>4. CASE (Defer \/ TickStep) /\ UNCHANGED semVars
    <3>1. ~At("post") /\ ~At("count")
      BY <2>4, Zenon DEF Defer, TickStep, TickScan, TickExpired, TickShare, At
    <3>2. UNCHANGED <<semVars, asked, posts>>
      BY <2>1, <2>2, <2>4, <3>1
    <3> QED
      BY <2>4, <3>2, SwitchTick
  <2>5. CASE WaitAgain
    <3>1. ~At("post") /\ ~At("count")
      BY <2>5 DEF WaitAgain, At
    <3> QED
      BY <2>1, <2>2, <2>5, <3>1, SwitchAgain
  <2>6. CASE PostTake \/ PostCount \/ PostWakeup
    BY <2>1, <2>6, SwitchPost, SwitchCount
  <2> QED
    BY <1>1, <2>3, <2>4, <2>5, <2>6, Zenon DEF Step, SemStep
<1>2. CASE Tick
  BY <1>2, SwitchTick DEF Tick
<1>3. CASE Switch
  <2>1. SemBase'
    BY <1>3, BaseSwitch DEF Switch, SemBase
  <2>2. handler'.pc = "none" /\ UNCHANGED <<semVars, asked, posts>>
    BY <1>3 DEF Switch, handlerVars, Idling, NoHandler
  <2> QED
    BY <2>1, <2>2, RestGoes DEF ParkedPoints
<1>4. CASE UNCHANGED vars
  <2>1. UNCHANGED <<handler, ticks, critical_cnt, schedVars>> /\ UNCHANGED <<semVars, asked, posts>>
        /\ UNCHANGED <<wq, th_stat, clock, active, pendsv, r0, excl>>
    BY <1>4 DEF vars, rtVars, handlerVars
  <2>2. SemRest'
    BY <2>1, RestGoes, Zenon DEF SemRest
  <2>3. SemBase'
    BY <2>1 DEF SemBase, Base, RtTypeOK, SchedTypeOK, HandlerTypeOK, SwitchInv, schedVars,
                Idling, At
  <2> QED
    BY <2>2, <2>3
<1>5. ASSUME NEW self \in Threads, WaitCall(self) \/ PostCall(self) \/ SetCall(self)
      PROVE  SemBase' /\ SemRest'
  BY <1>5, CallShapes, SwitchCall
<1> QED
  BY <1>1, <1>2, <1>3, <1>4, <1>5, SwitchIsr, Zenon DEF Next

-----------------------------------------------------------------------------
(* The requests.  A thread that a post has taken out of the queue. *)
Taken(t) == At("wakeup") /\ handler.th = t

(* A step does not touch the request of a thread. *)
Steady(t) ==
    /\ asked'[t] = asked[t] /\ r0'[t] = r0[t]
    /\ \A w \in ObjectQueues : t \in wq'[w] <=> t \in wq[w]
    /\ Calling(t)' <=> Calling(t)
    /\ Taken(t)' <=> Taken(t)

LEMMA SteadyOutcome ==
    ASSUME SemRest, NEW t \in Threads, Steady(t)
    PROVE  Outcome(t)' = Outcome(t)
<1>1. asked[t] = 0 \/ asked[t] \in ObjectQueues
  BY ObjectIndices DEF SemRest
<1>2. Given(t)' <=> Given(t)
  BY DEF Steady, Given, Taken
<1> QED
  BY <1>1, <1>2, Zenon DEF Outcome, Steady

CallPoints == {"again", "suspend"} \union ParkedPoints

(* The handler goes on and no thread's part in it changes. *)
SameRoles ==
    /\ handler.pc # "wakeup" /\ handler'.pc # "wakeup"
    /\ handler.pc \in CallPoints <=> handler'.pc \in CallPoints
    /\ handler.pc \in CallPoints => handler'.self = handler.self

LEMMA RolesKept ==
    ASSUME SameRoles, NEW t
    PROVE  (Calling(t)' <=> Calling(t)) /\ (Taken(t)' <=> Taken(t))
BY DEF SameRoles, Calling, Taken, CallPoints, At

(* The part of RequestInv that is about the point of the handler. *)
PointInv ==
    /\ handler.pc \in WaitPoints =>
          handler.wq \in sem_alloc /\ asked[handler.self] = handler.wq
    /\ At("insert") /\ excl => ~PostedMeanwhile(handler.wq)
    /\ At("timeout") => handler.self \in wq[handler.wq]
    /\ At("count") => wq[handler.wq] = {}

LEMMA PointFree ==
    ASSUME handler'.pc \notin WaitPoints \union {"count"}
    PROVE  PointInv'
BY DEF PointInv, WaitPoints, At

(* A step that touches at most the request of x. *)
LEMMA RequestOne ==
    ASSUME SemBase', SemRest, SemRest', RequestInv, PointInv', NEW x \in Threads,
           \A t \in Threads \ {x} : Steady(t),
           Outcome(x)' \in Counting!Outcomes,
           \A w \in ObjectQueues : x \in wq'[w] =>
              asked'[x] = w /\ (w \in Sems => w \in sem_alloc'),
           \A s \in sem_alloc \ sem_alloc' : wq[s] = {}
    PROVE  RequestInv'
<1>1. \A t \in Threads : Outcome(t)' \in Counting!Outcomes
  BY SteadyOutcome DEF RequestInv
<1>2. \A t \in Threads, w \in ObjectQueues : t \in wq'[w] => asked'[t] = w
  BY DEF RequestInv, Steady
<1>3. ASSUME NEW s \in Sems \ sem_alloc'
      PROVE  wq'[s] = {}
  <2>1. s \in ObjectQueues /\ s \in Queues /\ s # WQ_READY
    BY ObjectIndices
  <2>2. wq[s] = {}
    BY <1>3, Zenon DEF RequestInv
  <2>3. \A t \in Threads : t \notin wq'[s]
    BY <1>3, <2>1, <2>2 DEF Steady
  <2>4. wq' \in QMap /\ IdleReady(wq')
    BY Zenon DEF SemBase, Base, RtTypeOK, SwitchInv, QMap, IdleReady, Slots
  <2>5. wq'[s] \subseteq Threads
    BY <2>1, <2>4, SlotNumbers, Zenon DEF QMap, IdleReady
  <2> QED
    BY <2>3, <2>5
<1> QED
  BY <1>1, <1>2, <1>3, Zenon DEF RequestInv, PointInv

(* A step that touches none. *)
LEMMA RequestNone ==
    ASSUME SemRest, RequestInv, PointInv', SameRoles, UNCHANGED <<asked, r0, sem_alloc>>,
           \A w \in ObjectQueues : wq'[w] = wq[w]
    PROVE  RequestInv' /\ \A t \in Threads : Outcome(t)' = Outcome(t)
<1>1. \A t \in Threads : Steady(t)
  BY RolesKept DEF Steady
<1>2. \A t \in Threads : Outcome(t)' = Outcome(t)
  BY <1>1, SteadyOutcome
<1>3. \A t \in Threads : Outcome(t)' \in Counting!Outcomes
  BY <1>2 DEF RequestInv
<1>4. \A t \in Threads, w \in ObjectQueues : t \in wq'[w] => asked'[t] = w
  BY DEF RequestInv
<1>5. \A s \in Sems \ sem_alloc' : wq'[s] = {}
  BY ObjectIndices, Zenon DEF RequestInv
<1> QED
  BY <1>2, <1>3, <1>4, <1>5, Zenon DEF RequestInv, PointInv

-----------------------------------------------------------------------------
(* The steps of the abstract semaphores. *)
AbstractStep == Counting!Next \/ UNCHANGED Counting!vars

LEMMA MapOne ==
    ASSUME SemRest, NEW x \in Threads, \A t \in Threads \ {x} : Steady(t)
    PROVE  [th \in Threads |-> Outcome(th)]'
              = [[th \in Threads |-> Outcome(th)] EXCEPT ![x] = Outcome(x)']
<1>1. \A t \in Threads : t # x => Outcome(t)' = Outcome(t)
  BY SteadyOutcome
<1> QED
  BY <1>1, Zenon

LEMMA MapNone ==
    ASSUME \A t \in Threads : Outcome(t)' = Outcome(t)
    PROVE  [th \in Threads |-> Outcome(th)]' = [th \in Threads |-> Outcome(th)]
OBVIOUS

LEMMA AbstractStill ==
    ASSUME \A t \in Threads : Outcome(t)' = Outcome(t), UNCHANGED <<sem_val, asked, posts>>
    PROVE  AbstractStep
BY MapNone DEF AbstractStep, Counting!vars

(* The threads that wait for a semaphore are those of its queue. *)
LEMMA WaitingIs ==
    ASSUME SemBase, SemRest, RequestInv, NEW s \in Sems
    PROVE  Counting!Waiting(s) = wq[s]
<1>1. s \in ObjectQueues /\ s \in Queues /\ s # WQ_READY /\ s # 0
  BY ObjectIndices
<1>2. wq \in QMap /\ IdleReady(wq)
  BY BaseTypes DEF SemBase, StepTypes
<1>3. wq[s] \subseteq Threads
  BY <1>1, <1>2, SlotNumbers DEF QMap, IdleReady
<1>4. \A t \in Threads : t \in wq[s] => asked[t] = s
  BY <1>1, Zenon DEF RequestInv
<1>5. \A t \in Threads : asked[t] = s => (Outcome(t) = "waiting" <=> t \in wq[s])
  BY <1>1 DEF Outcome
<1> QED
  BY <1>3, <1>4, <1>5 DEF Counting!Waiting

(* A thread gets its answer, or begins to wait. *)
LEMMA AbstractAnswer ==
    ASSUME SemRest, NEW x \in Threads, \A t \in Threads \ {x} : Steady(t),
           UNCHANGED <<asked, posts>>,
           \/ /\ Outcome(x) = "calling" /\ Outcome(x)' = "ok" /\ sem_val[asked[x]] > 0
              /\ sem_val' = [sem_val EXCEPT ![asked[x]] = @ - 1]
           \/ /\ Outcome(x) = "calling" /\ Outcome(x)' = "waiting" /\ sem_val[asked[x]] = 0
              /\ sem_val' = sem_val
           \/ Outcome(x) = "waiting" /\ Outcome(x)' = "timeout" /\ sem_val' = sem_val
    PROVE  AbstractStep
<1>1. [th \in Threads |-> Outcome(th)]'
         = [[th \in Threads |-> Outcome(th)] EXCEPT ![x] = Outcome(x)']
  BY MapOne, Zenon
<1>2. Counting!Take(x) \/ Counting!Block(x) \/ Counting!Timeout(x)
  BY <1>1, Zenon DEF Counting!Take, Counting!Block, Counting!Timeout, Counting!Answer
<1> QED
  BY <1>2, Zenon DEF AbstractStep, Counting!Next

(* A post is kept, or given to the first waiting thread. *)
LEMMA AbstractPost ==
    ASSUME SemBase, SemRest, RequestInv, NEW s \in Sems, Posted(s), UNCHANGED asked,
           \/ /\ wq[s] = {} /\ \A t \in Threads : Outcome(t)' = Outcome(t)
              /\ sem_val' = [sem_val EXCEPT ![s] = Incremented(@)]
           \/ \E h \in Threads :
                 /\ h \in wq[s] /\ \A t \in wq[s] : h <= t
                 /\ Outcome(h)' = "ok" /\ \A t \in Threads \ {h} : Steady(t)
                 /\ sem_val' = sem_val
    PROVE  AbstractStep
<1>1. Counting!Waiting(s) = wq[s]
  BY WaitingIs
<1>2. Counting!Post(s)
  <2>1. CASE /\ wq[s] = {} /\ \A t \in Threads : Outcome(t)' = Outcome(t)
             /\ sem_val' = [sem_val EXCEPT ![s] = Incremented(@)]
    BY <1>1, <2>1, MapNone, Zenon DEF Counting!Post, Posted, Incremented
  <2>2. ASSUME NEW h \in Threads, h \in wq[s], \A t \in wq[s] : h <= t,
               Outcome(h)' = "ok", \A t \in Threads \ {h} : Steady(t), sem_val' = sem_val
        PROVE  Counting!Post(s)
    <3>1. [th \in Threads |-> Outcome(th)]'
             = [[th \in Threads |-> Outcome(th)] EXCEPT ![h] = "ok"]
      BY <2>2, MapOne, Zenon
    <3>2. Counting!Answer(h, "ok")
      BY <3>1, Zenon DEF Counting!Answer
    <3> QED
      BY <1>1, <2>2, <3>2, Zenon DEF Counting!Post, Posted
  <2> QED
    BY <2>1, <2>2, Zenon
<1> QED
  BY <1>2, Zenon DEF AbstractStep, Counting!Next

(* A call of a thread that has no request open. *)
LEMMA AbstractCall ==
    ASSUME SemBase, SemRest, RequestInv, NEW x \in Threads,
           Outcome(x) \notin {"calling", "waiting"},
           \A t \in Threads \ {x} : Steady(t), posts' = posts,
           \/ Asks(x, 0) /\ Outcome(x)' = "none" /\ sem_val' = sem_val
           \/ \E s \in Sems :
                 /\ Asks(x, s)
                 /\ \/ Outcome(x)' = "calling" /\ sem_val' = sem_val
                    \/ /\ Outcome(x)' = "ok" /\ sem_val[s] > 0
                       /\ sem_val' = [sem_val EXCEPT ![s] = @ - 1]
                    \/ Outcome(x)' = "again" /\ sem_val[s] = 0 /\ sem_val' = sem_val
           \/ \E s \in Sems, v \in 0 .. SEM_RANGE - 1 :
                 /\ Asks(x, 0) /\ Outcome(x)' = "none" /\ wq[s] = {}
                 /\ sem_val' = [sem_val EXCEPT ![s] = v]
    PROVE  AbstractStep
<1>1. [th \in Threads |-> Outcome(th)]'
         = [[th \in Threads |-> Outcome(th)] EXCEPT ![x] = Outcome(x)']
  BY MapOne, Zenon
<1>2. Counting!Free(x)
  BY DEF Counting!Free
<1>3. CASE Asks(x, 0) /\ Outcome(x)' = "none" /\ sem_val' = sem_val
  <2>1. Counting!Forget(x)
    BY <1>1, <1>2, <1>3, Zenon DEF Counting!Forget, Asks
  <2> QED
    BY <2>1, Zenon DEF AbstractStep, Counting!Next
<1>4. ASSUME NEW s \in Sems, Asks(x, s),
             \/ Outcome(x)' = "calling" /\ sem_val' = sem_val
             \/ /\ Outcome(x)' = "ok" /\ sem_val[s] > 0
                /\ sem_val' = [sem_val EXCEPT ![s] = @ - 1]
             \/ Outcome(x)' = "again" /\ sem_val[s] = 0 /\ sem_val' = sem_val
      PROVE  AbstractStep
  <2>1. Counting!Ask(x, s) \/ Counting!Try(x, s)
    BY <1>1, <1>2, <1>4, Zenon DEF Counting!Ask, Counting!Try, Asks
  <2> QED
    BY <2>1, Zenon DEF AbstractStep, Counting!Next
<1>5. ASSUME NEW s \in Sems, NEW v \in 0 .. SEM_RANGE - 1,
             Asks(x, 0), Outcome(x)' = "none", wq[s] = {},
             sem_val' = [sem_val EXCEPT ![s] = v]
      PROVE  AbstractStep
  <2>1. Counting!Set(x, s, v)
    BY <1>1, <1>2, <1>5, WaitingIs, Zenon DEF Counting!Set, Asks
  <2> QED
    BY <2>1, Zenon DEF AbstractStep, Counting!Next
<1> QED
  BY <1>3, <1>4, <1>5, Zenon

-----------------------------------------------------------------------------
(* Every step answers the requests as the abstract semaphores do. *)
CInv == SemBase /\ SemRest /\ PlaceInv /\ RequestInv

(* Other threads have no part in a wait, a post or a tick. *)
LEMMA OtherRoles ==
    ASSUME NEW x, NEW t, t # x,
           handler.pc \in CallPoints => handler.self = x,
           handler.pc = "wakeup" => handler.th = x,
           handler'.pc \in CallPoints => handler'.self = x,
           handler'.pc = "wakeup" => handler'.th = x
    PROVE  (Calling(t)' <=> Calling(t)) /\ (Taken(t)' <=> Taken(t))
BY DEF Calling, Taken, CallPoints, At

(* A thread makes a call. *)
LEMMA RequestCall ==
    ASSUME CInv, SemBase', SemRest', NEW x \in Threads, Entered(x), posts' = posts, Called(x)
    PROVE  RequestInv' /\ AbstractStep
<1>1. handler = NoHandler /\ handler.pc = "none" /\ x \in wq[WQ_READY]
      /\ asked \in [Threads -> Sems \union {0}] /\ r0 \in [Threads -> Int]
  BY CallFacts, BaseTypes, Zenon DEF CInv, SemBase, SemRest, StepTypes
<1>2. In(x, {WQ_READY})
  BY <1>1, AllSettled, ReadySettled DEF CInv, Quietly, ParkedPoints, LimitPoints, TakenPoints
<1>3. \A v \in ObjectQueues : x \notin wq[v]
  BY <1>2, ObjectIndices DEF In
<1>4. Outcome(x) \notin {"calling", "waiting"}
  <2>1. ~Calling(x)
    BY <1>1 DEF Calling, ParkedPoints
  <2>2. asked[x] = 0 \/ asked[x] \in ObjectQueues
    BY ObjectIndices, Zenon DEF CInv, SemRest
  <2> QED
    BY <1>3, <2>1, <2>2 DEF Outcome
<1>5. ASSUME NEW v \in Int, Reply(x, v), NEW s, Asks(x, s),
             handler'.pc \in {"none", "again", "post"},
             handler'.pc = "again" => handler'.self = x
      PROVE  /\ wq' = wq /\ r0'[x] = v /\ asked'[x] = s
             /\ \A t \in Threads \ {x} : Steady(t)
  <2>1. wq' = wq /\ r0'[x] = v /\ \A t \in Threads \ {x} : r0'[t] = r0[t]
    BY <1>1, <1>5, Zenon DEF Reply, Return
  <2>2. asked'[x] = s /\ \A t \in Threads \ {x} : asked'[t] = asked[t]
    BY <1>1, <1>5 DEF Asks
  <2> QED
    BY <1>1, <1>5, <2>1, <2>2, OtherRoles, Zenon DEF Steady, CallPoints, ParkedPoints
<1>6. ASSUME wq' = wq, PointInv', \A t \in Threads \ {x} : Steady(t),
             Outcome(x)' \in Counting!Outcomes,
             \A s \in sem_alloc \ sem_alloc' : wq[s] = {}
      PROVE  RequestInv'
  BY <1>3, <1>6, RequestOne, Zenon DEF CInv
<1>7. ASSUME NEW v \in Int, Replied(x, v)
      PROVE  Reply(x, v) /\ handler'.pc = "none" /\ PointInv' /\ ~Calling(x)'
             /\ (Given(x)' <=> r0'[x] = OK)
  <2>1. Reply(x, v) /\ handler'.pc = "none"
    BY <1>1, <1>7 DEF Replied, handlerVars
  <2> QED
    BY <2>1, PointFree DEF WaitPoints, Calling, Given, ParkedPoints, At
<1>8. ASSUME NEW s \in Sems, asked'[x] = s, wq' = wq
      PROVE  asked'[x] # 0 /\ x \notin wq'[asked'[x]]
  BY <1>3, <1>8, ObjectIndices
<1>9. CASE Forgets(x)
  <2>1. PICK v \in Int : Replied(x, v)
    BY <1>9 DEF Forgets, Ends
  <2>2. wq' = wq /\ asked'[x] = 0 /\ \A t \in Threads \ {x} : Steady(t)
    BY <1>5, <1>7, <1>9, <2>1, Zenon DEF Forgets
  <2>3. Outcome(x)' = "none" /\ PointInv'
    BY <1>7, <2>1, <2>2 DEF Outcome
  <2>4. RequestInv'
    BY <1>6, <1>9, <2>2, <2>3, Zenon DEF Forgets, Counting!Outcomes
  <2> QED
    BY <1>4, <1>9, <2>2, <2>3, <2>4, AbstractCall, Zenon DEF CInv, Forgets
<1>10. ASSUME NEW s \in Sems, NEW v \in Int, Replied(x, v), Asks(x, s), sem_alloc' = sem_alloc,
              \/ /\ v = OK /\ sem_val[s] > 0
                 /\ sem_val' = [sem_val EXCEPT ![s] = @ - 1]
              \/ v = EAGAIN /\ sem_val[s] = 0 /\ sem_val' = sem_val
       PROVE  RequestInv' /\ AbstractStep
  <2>1. wq' = wq /\ r0'[x] = v /\ asked'[x] = s /\ \A t \in Threads \ {x} : Steady(t)
    BY <1>5, <1>7, <1>10, Zenon
  <2>2. PointInv' /\ ~Calling(x)' /\ (Given(x)' <=> v = OK) /\ OK # EAGAIN
    BY <1>7, <1>10, <2>1 DEF OK, EAGAIN
  <2>3. Outcome(x)' = IF v = OK THEN "ok" ELSE "again"
    BY <1>8, <1>10, <2>1, <2>2, Zenon DEF Outcome
  <2>4. RequestInv'
    BY <1>6, <1>10, <2>1, <2>2, <2>3, Zenon DEF Counting!Outcomes
  <2> QED
    BY <1>4, <1>10, <2>1, <2>2, <2>3, <2>4, AbstractCall, Zenon DEF CInv
<1>11. ASSUME NEW s \in sem_alloc, s \in Sems, Waits(x, s) \/ Posts(x, s)
       PROVE  RequestInv' /\ AbstractStep
  <2>1. PICK pc \in {"again", "post"}, v \in Int, ms \in Nat \union {FOREVER} :
           /\ Reply(x, v) /\ Begin(pc, x, s, ms, 0) /\ UNCHANGED semVars
           /\ Asks(x, IF pc = "again" THEN s ELSE 0)
    BY <1>11 DEF Waits, Posts, Begins
  <2>2. handler'.pc = pc /\ handler'.self = x /\ handler'.wq = s
    BY <2>1 DEF Begin, NoHandler
  <2>3. /\ wq' = wq /\ asked'[x] = (IF pc = "again" THEN s ELSE 0)
        /\ \A t \in Threads \ {x} : Steady(t)
    BY <1>5, <2>1, <2>2, Zenon
  <2>4. PointInv' /\ (pc = "again" => Calling(x)') /\ sem_val' = sem_val /\ sem_alloc' = sem_alloc
    BY <1>11, <2>1, <2>2, <2>3, Zenon DEF PointInv, At, WaitPoints, Calling, semVars
  <2>5. Outcome(x)' = IF pc = "again" THEN "calling" ELSE "none"
    BY <1>8, <1>11, <2>3, <2>4, Zenon DEF Outcome
  <2>6. RequestInv'
    BY <1>6, <2>3, <2>4, <2>5, Zenon DEF Counting!Outcomes
  <2> QED
    BY <1>4, <1>11, <2>1, <2>3, <2>4, <2>5, <2>6, AbstractCall, Zenon DEF CInv
<1>12. ASSUME NEW s \in Sems, NEW v \in 0 .. SEM_RANGE - 1, Sets(x, s, v)
       PROVE  RequestInv' /\ AbstractStep
  <2>1. PICK y \in Int : Replied(x, y)
    BY <1>12 DEF Sets, Ends
  <2>2. wq' = wq /\ asked'[x] = 0 /\ \A t \in Threads \ {x} : Steady(t)
    BY <1>5, <1>7, <1>12, <2>1, Zenon DEF Sets
  <2>3. Outcome(x)' = "none" /\ PointInv'
    BY <1>7, <2>1, <2>2, Zenon DEF Outcome
  <2>4. RequestInv'
    BY <1>6, <1>12, <2>2, <2>3, Zenon DEF Sets, Counting!Outcomes
  <2>5. wq[s] = {}
    BY <1>12, Zenon DEF Sets, CInv, RequestInv
  <2> QED
    BY <1>4, <1>12, <2>2, <2>3, <2>4, <2>5, AbstractCall, Zenon DEF CInv, Sets
<1>13. ASSUME NEW s \in sem_alloc, Tries(x, s)
       PROVE  RequestInv' /\ AbstractStep
  <2>1. s \in Sems /\ OK \in Int /\ EAGAIN \in Int
    BY DEF CInv, SemRest, OK, EAGAIN
  <2> QED
    BY <1>10, <1>13, <2>1, Zenon DEF Tries
<1>14. \A s \in sem_alloc : s \in Sems
  BY Zenon DEF CInv, SemRest
<1> QED
  BY <1>9, <1>11, <1>12, <1>13, <1>14, Zenon DEF Called
=============================================================================
