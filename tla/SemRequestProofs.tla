-------------------------- MODULE SemRequestProofs --------------------------
(***************************************************************************)
(* Each step of Semaphores answers the requests of the threads as counting *)
(* semaphores do, provided that the threads are in their places.           *)
(***************************************************************************)
EXTENDS SemStepProofs

USE DEF WQ_READY, WQ_TMSHARE, WQ_CLOCK, NoStat, Stat

LEMMA NothingAnswered ==
    ASSUME CInv, PointInv', SameRoles, UNCHANGED <<asked, r0, sem_alloc, sem_val, posts>>,
           \A w \in ObjectQueues : wq'[w] = wq[w]
    PROVE  RequestInv' /\ AbstractStep
<1>1. RequestInv' /\ \A t \in Threads : Outcome(t)' = Outcome(t)
  BY RequestNone DEF CInv
<1> QED
  BY <1>1, AbstractStill

(* The caller of a wait and its semaphore. *)
LEMMA WaitCaller ==
    ASSUME CInv, handler.pc \in WaitPoints
    PROVE  \E x \in Threads, w \in Sems :
              /\ x = handler.self /\ w = handler.wq /\ w \in sem_alloc /\ asked[x] = w
              /\ w \in ObjectQueues /\ w \in Queues /\ w # 0
<1>1. handler.self \in Threads
  BY CallerFacts DEF CInv, SemBase, WaitPoints, TickPoints
<1>2. handler.wq \in sem_alloc /\ asked[handler.self] = handler.wq
  BY DEF CInv, RequestInv
<1>3. handler.wq \in Sems
  BY <1>2 DEF CInv, SemRest
<1>4. handler.wq \in ObjectQueues /\ handler.wq \in Queues /\ handler.wq # 0
  BY <1>3, ObjectIndices
<1> QED
  BY <1>1, <1>2, <1>3, <1>4

(* A wait enters the queue. *)
LEMMA RequestEnter ==
    ASSUME CInv, SemBase', SemRest', WaitInsert, excl, UNCHANGED <<semVars, asked, posts>>
    PROVE  RequestInv' /\ AbstractStep
<1>1. handler.pc = "insert" /\ handler.pc \in WaitPoints
  BY DEF WaitInsert, At, WaitPoints
<1>2. PICK x \in Threads, w \in Sems :
         /\ x = handler.self /\ w = handler.wq /\ w \in sem_alloc /\ asked[x] = w
         /\ w \in ObjectQueues /\ w \in Queues /\ w # 0
  BY <1>1, WaitCaller
<1>3. wq' = Insert(wq, w, x) /\ r0' = r0
      /\ Goto(IF handler.ms = FOREVER THEN "defer" ELSE "clock")
  BY <1>2, Zenon DEF WaitInsert, Stored
<1>4. handler'.pc \in {"defer", "clock"} /\ handler'.self = x /\ handler'.wq = w
  BY <1>2, <1>3, GotoFacts, Zenon DEF CInv, SemBase, Base, SemPoints, WaitPoints
<1>5. sem_val[w] = 0
  BY <1>1, <1>2 DEF CInv, RequestInv, At, PostedMeanwhile, SemRest
<1>6. In(x, {})
  BY <1>1, <1>2, Zenon DEF CInv, PlaceInv, CallerPlace, ParkedPoints
<1>7. \A v \in Queues, t \in Slots : t \in wq'[v] <=> t \in wq[v] \/ (t = x /\ v = w)
  BY <1>2, <1>3, InsertFacts, BaseTypes DEF CInv, SemBase, StepTypes
<1>8. ASSUME NEW t \in Threads \ {x}
      PROVE  Steady(t)
  <2>1. \A v \in ObjectQueues : t \in wq'[v] <=> t \in wq[v]
    BY <1>7, ObjectIndices, SlotNumbers, Zenon
  <2>2. (Calling(t)' <=> Calling(t)) /\ (Taken(t)' <=> Taken(t))
    BY <1>1, <1>2, <1>4, <1>8, OtherRoles, Zenon
  <2> QED
    BY <1>3, <2>1, <2>2, Zenon DEF Steady
<1>9. Outcome(x) = "calling"
  BY <1>1, <1>2, <1>6 DEF Outcome, Calling, In, ParkedPoints
<1>10. x \in wq'[w] /\ \A v \in ObjectQueues : x \in wq'[v] => v = w
  BY <1>2, <1>6, <1>7, SlotNumbers, ObjectIndices, Zenon DEF In
<1>11. asked'[x] = w
  BY <1>2
<1>12. Outcome(x)' = "waiting"
  BY <1>2, <1>10, <1>11, Zenon DEF Outcome
<1>13. PointInv'
  BY <1>2, <1>4, <1>11, Zenon DEF PointInv, At, semVars
<1>14. RequestInv'
  BY <1>2, <1>8, <1>10, <1>11, <1>12, <1>13, RequestOne, Zenon DEF CInv, semVars, Counting!Outcomes
<1> QED
  BY <1>2, <1>5, <1>8, <1>9, <1>12, <1>14, AbstractAnswer, Zenon DEF CInv, semVars

(* The default result of a thread that is in the queue. *)
LEMMA RequestTimeout ==
    ASSUME CInv, SemBase', SemRest', WaitTimeout, UNCHANGED <<semVars, asked, posts>>
    PROVE  RequestInv' /\ AbstractStep
<1>1. handler.pc = "timeout" /\ handler.pc \in WaitPoints
  BY DEF WaitTimeout, At, WaitPoints
<1>2. PICK x \in Threads, w \in Sems :
         /\ x = handler.self /\ w = handler.wq /\ w \in sem_alloc /\ asked[x] = w
         /\ w \in ObjectQueues /\ w \in Queues /\ w # 0
  BY <1>1, WaitCaller
<1>3. x \in wq[w] /\ wq' = wq /\ asked'[x] = w
  BY <1>1, <1>2, Zenon DEF CInv, RequestInv, At, WaitTimeout
<1>4. handler'.pc = "defer"
  BY GotoFacts, Zenon DEF WaitTimeout, CInv, SemBase, Base, SemPoints
<1>5. \A t \in Threads \ {x} : r0'[t] = r0[t]
  BY <1>2, BaseTypes, Zenon DEF WaitTimeout, Return, CInv, SemBase, StepTypes
<1>6. \A t \in Threads \ {x} : Steady(t)
  BY <1>1, <1>3, <1>4, <1>5, RolesKept, Zenon DEF Steady, SameRoles, CallPoints, ParkedPoints
<1>7. Outcome(x)' = "waiting" /\ Outcome(x) = "waiting"
  BY <1>2, <1>3, Zenon DEF Outcome
<1>8. PointInv'
  BY <1>4, PointFree DEF WaitPoints
<1>9. RequestInv'
  BY <1>2, <1>3, <1>6, <1>7, <1>8, RequestOne, Zenon DEF CInv, RequestInv, semVars, Counting!Outcomes
<1>10. \A t \in Threads : Outcome(t)' = Outcome(t)
  BY <1>6, <1>7, SteadyOutcome DEF CInv
<1> QED
  BY <1>9, <1>10, AbstractStill DEF semVars

(* The other steps of a wait. *)
LEMMA RequestWait ==
    ASSUME CInv, SemBase', SemRest', WaitStep(PostedMeanwhile(handler.wq)),
           UNCHANGED <<semVars, asked, posts>>
    PROVE  RequestInv' /\ AbstractStep
<1>m. /\ handler'.self = handler.self /\ handler'.wq = handler.wq
      /\ \/ WaitSuspend /\ handler.pc = "suspend" /\ handler'.pc = "queue"
         \/ WaitQueue /\ handler.pc = "queue" /\ handler'.pc = "check"
         \/ /\ WaitCheck(PostedMeanwhile(handler.wq)) /\ handler.pc = "check"
            /\ \/ handler'.pc = "again" /\ RollBack
               \/ /\ handler'.pc = "insert" /\ ~PostedMeanwhile(handler.wq)
                  /\ UNCHANGED <<wq, th_stat>>
         \/ /\ WaitInsert /\ handler.pc = "insert"
            /\ \/ handler'.pc = "again" /\ RollBack
               \/ handler'.pc \in {"defer", "clock"} /\ excl
         \/ WaitClockSet /\ handler.pc = "clock" /\ handler'.pc = "wq_clock"
         \/ WaitClockQueue /\ handler.pc = "wq_clock" /\ handler'.pc = "timeout"
         \/ WaitTimeout /\ handler.pc = "timeout" /\ handler'.pc = "defer"
  BY WaitMoves, Zenon DEF CInv
<1>1. PICK x \in Threads, w \in Sems :
         /\ x = handler.self /\ w = handler.wq /\ w \in sem_alloc /\ asked[x] = w
         /\ w \in ObjectQueues /\ w \in Queues /\ w # 0
  BY <1>m, WaitCaller, Zenon DEF WaitPoints
<1>2. handler'.self = x /\ handler'.wq = w /\ w \in sem_alloc' /\ asked'[x] = w
  BY <1>m, <1>1, Zenon DEF semVars
<1>3. wq \in QMap /\ IdleReady(wq)
  BY BaseTypes DEF CInv, SemBase, StepTypes
<1>4. UNCHANGED <<asked, sem_alloc, sem_val, posts>>
  BY DEF semVars
<1>5. ASSUME SameRoles, r0' = r0, \A v \in ObjectQueues : wq'[v] = wq[v],
             handler'.pc \notin {"insert", "timeout", "count"}
      PROVE  RequestInv' /\ AbstractStep
  <2>1. PointInv'
    BY <1>2, <1>5 DEF PointInv, At
  <2> QED
    BY <1>4, <1>5, <2>1, NothingAnswered
<1>6. CASE WaitSuspend
  <2>1. wq' = Suspend(wq, x) /\ r0' = r0
    BY <1>1, <1>6, Zenon DEF WaitSuspend
  <2>2. \A v \in ObjectQueues : wq'[v] = wq[v]
    BY <1>3, <2>1, LeaveReady, ObjectIndices
  <2>3. SameRoles /\ handler'.pc \notin {"insert", "timeout", "count"}
    BY <1>m, <1>6, Zenon DEF WaitSuspend, At, SameRoles, CallPoints, ParkedPoints
  <2> QED
    BY <1>5, <2>1, <2>2, <2>3
<1>7. CASE WaitQueue \/ WaitClockSet
  <2>1. wq' = wq /\ r0' = r0
    BY <1>7, Zenon DEF WaitQueue, WaitClockSet, rtVars
  <2>2. SameRoles /\ handler'.pc \notin {"insert", "timeout", "count"}
    BY <1>m, <1>7, Zenon DEF WaitQueue, WaitClockSet, At, SameRoles, CallPoints, ParkedPoints
  <2> QED
    BY <1>5, <2>1, <2>2
<1>8. CASE handler.pc \in {"check", "insert"} /\ RollBack
  <2>1. wq' = Insert(wq, WQ_READY, x) /\ r0' = r0
    BY <1>m, <1>1, <1>8, Zenon DEF RollBack, WaitCheck, WaitInsert
  <2>2. \A v \in ObjectQueues : wq'[v] = wq[v]
    BY <1>3, <2>1, ObjectIndices DEF Insert, QMap
  <2>3. handler'.pc = "again"
    BY <1>8, GotoFacts, Zenon DEF RollBack, RestartPoint, CInv, SemBase, Base, SemPoints, WaitPoints
  <2>4. SameRoles
    BY <1>m, <1>8, <2>3, Zenon DEF SameRoles, CallPoints, ParkedPoints
  <2> QED
    BY <1>5, <2>1, <2>2, <2>3, <2>4
<1>9. CASE /\ WaitCheck(PostedMeanwhile(handler.wq)) /\ handler.pc = "check"
           /\ handler'.pc = "insert" /\ ~PostedMeanwhile(handler.wq)
           /\ UNCHANGED <<wq, th_stat>>
  <2>1. r0' = r0
    BY <1>9 DEF WaitCheck
  <2>2. SameRoles
    BY <1>m, <1>9, Zenon DEF SameRoles, CallPoints, ParkedPoints
  <2>3. PointInv'
    BY <1>1, <1>2, <1>4, <1>9, Zenon DEF PointInv, At, PostedMeanwhile
  <2> QED
    BY <1>4, <1>9, <2>1, <2>2, <2>3, NothingAnswered, Zenon
<1>10. CASE WaitClockQueue
  <2>1. wq' = Insert(wq, WQ_CLOCK, x) /\ r0' = r0
    BY <1>1, <1>10 DEF WaitClockQueue
  <2>2. \A v \in ObjectQueues : wq'[v] = wq[v]
    BY <1>3, <2>1, ObjectIndices DEF Insert, QMap
  <2>3. SameRoles /\ handler'.pc = "timeout"
    BY <1>m, <1>10, Zenon DEF WaitClockQueue, At, SameRoles, CallPoints, ParkedPoints
  <2>4. x \in wq[w]
    BY <1>1, <1>10, Zenon DEF CInv, PlaceInv, CallerPlace, LimitPoints, WaitClockQueue, At, In
  <2>5. PointInv'
    BY <1>1, <1>2, <2>2, <2>3, <2>4, Zenon DEF PointInv, At
  <2> QED
    BY <1>4, <2>1, <2>2, <2>3, <2>5, NothingAnswered, Zenon
<1> QED
  BY <1>m, <1>6, <1>7, <1>8, <1>9, <1>10, RequestEnter, RequestTimeout, Zenon

(* The end of a call, the tick, but for time limits that are over, and the *)
(* scheduler.                                                              *)
LEMMA RequestTick ==
    ASSUME CInv, UNCHANGED <<semVars, asked, posts>>,
           \/ Defer \/ TickScan \/ TickShare \/ TickStart
           \/ Idling /\ PendSV /\ UNCHANGED handlerVars
    PROVE  RequestInv' /\ AbstractStep
<1>1. HandlerTypeOK(SemPoints, {0}) /\ "share" \in SemPoints
  BY DEF CInv, SemBase, Base, SemPoints, TickPoints
<1>2. /\ handler.pc \in TickPoints \union {"defer", "none"}
      /\ handler'.pc \in TickPoints \union {"none"}
  <2>1. CASE Defer \/ TickShare
    BY <2>1 DEF Defer, TickShare, Done, NoHandler, At, TickPoints
  <2>2. CASE TickStart
    BY <2>2, SemCommon, BaseTickStart, Zenon DEF CInv, SemBase, TickPoints, TickStart, Idling, NoHandler
  <2>3. CASE TickScan
    <3>1. CASE Goto("share")
      BY <1>1, <2>3, <3>1, GotoFacts, Zenon DEF TickPoints, TickScan, At
    <3>2. CASE ~Goto("share")
      BY <1>1, <2>3, <3>2, Zenon DEF TickScan, HandlerTypeOK, TickPoints, At
    <3> QED
      BY <3>1, <3>2
  <2>4. CASE Idling /\ UNCHANGED handlerVars
    BY <2>4, Zenon DEF Idling, handlerVars, NoHandler
  <2> QED
    BY <2>1, <2>2, <2>3, <2>4
<1>3. r0' = r0 /\ \A v \in ObjectQueues : wq'[v] = wq[v]
  <2>1. CASE Defer \/ TickScan \/ TickStart \/ PendSV
    BY <2>1, Zenon DEF Defer, TickScan, TickStart, PendSV
  <2>2. CASE TickShare
    <3>1. r0' = r0 /\ wq' = Timeshare(wq)
      BY <2>2, Zenon DEF TickShare
    <3>2. CASE Shared(wq)
      <4>1. active \in Threads /\ active \in wq[WQ_READY]
        BY <3>2, ChargeFacts DEF CInv, SemBase
      <4>2. wq' = Suspend(Insert(wq, WQ_TMSHARE, active), active)
        BY <3>1, <3>2 DEF Timeshare
      <4>3. wq \in QMap /\ IdleReady(wq)
        BY BaseTypes DEF CInv, SemBase, StepTypes
      <4> QED
        BY <3>1, <4>1, <4>2, <4>3, ShareFacts, ObjectIndices
    <3>3. CASE ~Shared(wq)
      BY <3>1, <3>3 DEF Timeshare
    <3> QED
      BY <3>2, <3>3
  <2> QED
    BY <2>1, <2>2
<1>4. SameRoles
  BY <1>2 DEF SameRoles, CallPoints, ParkedPoints, TickPoints
<1>5. PointInv'
  BY <1>2, PointFree DEF TickPoints, WaitPoints
<1> QED
  BY <1>3, <1>4, <1>5, NothingAnswered DEF semVars

(* The time limit of a thread is over, or it has been posted to since the  *)
(* tick read its status.                                                   *)
LEMMA RequestExpired ==
    ASSUME CInv, SemBase', SemRest', TickExpired, UNCHANGED <<semVars, asked, posts>>
    PROVE  RequestInv' /\ AbstractStep
<1>1. handler.pc = "expired" /\ HandlerTypeOK(SemPoints, {0}) /\ "scan" \in SemPoints
      /\ wq \in QMap /\ IdleReady(wq)
  BY BaseTypes, Zenon DEF TickExpired, At, CInv, SemBase, Base, SemPoints, TickPoints, StepTypes
<1>2. PICK x \in Threads, u \in Queues : x = handler.th /\ u = handler.wq
  BY <1>1, Zenon DEF CInv, SemBase, Base, SwitchInv, HandlerTypeOK
<1>3. wq' = TimedOut(wq, u, x) /\ r0' = r0 /\ handler'.pc = "scan"
  <2>1. Goto("scan")
    BY DEF TickExpired
  <2> QED
    BY <1>1, <1>2, <2>1, GotoFacts, Zenon DEF TickExpired, TimedOut, Removed
<1>4. \A v \in Queues, t \in Slots :
         t \in wq'[v] <=> \/ t = x /\ v = WQ_READY
                          \/ t \in wq[v] /\ (t = x => v # u /\ v # WQ_CLOCK)
  BY <1>1, <1>2, <1>3, ExpireFacts
<1>5. \A t \in Threads : (Calling(t)' <=> Calling(t)) /\ (Taken(t)' <=> Taken(t))
  BY <1>1, <1>3, RolesKept, Zenon DEF SameRoles, CallPoints, ParkedPoints
<1>6. ASSUME NEW t \in Threads,
             t = x => \A v \in ObjectQueues : x \notin wq[v]
      PROVE  Steady(t)
  <2>1. \A v \in ObjectQueues : t \in wq'[v] <=> t \in wq[v]
    BY <1>4, <1>6, ObjectIndices, SlotNumbers, Zenon
  <2> QED
    BY <1>3, <1>5, <2>1, Zenon DEF Steady
<1>7. PointInv' /\ sem_alloc' = sem_alloc /\ sem_val' = sem_val
  BY <1>3, PointFree DEF WaitPoints, semVars
<1>8. \A v \in ObjectQueues : x \notin wq'[v]
         \/ (x \in wq[v] /\ asked'[x] = v /\ (v \in Sems => v \in sem_alloc'))
  BY <1>4, <1>7, ObjectIndices, SlotNumbers, Zenon DEF CInv, RequestInv
<1>9. CASE In(x, {WQ_READY})
  <2>1. \A v \in ObjectQueues : x \notin wq[v]
    BY <1>9, ObjectIndices DEF In
  <2>2. \A t \in Threads : Steady(t)
    BY <1>6, <2>1
  <2>3. \A t \in Threads : Outcome(t)' = Outcome(t)
    BY <2>2, SteadyOutcome DEF CInv
  <2>4. RequestInv'
    <3>1. Outcome(x)' \in Counting!Outcomes
      BY <2>3, Zenon DEF CInv, RequestInv
    <3> QED
      BY <1>7, <1>8, <2>2, <3>1, RequestOne DEF CInv
  <2> QED
    BY <1>7, <2>3, <2>4, AbstractStill
<1>10. CASE u \in ObjectQueues /\ In(x, {u, WQ_CLOCK})
  <2>1. x \in wq[u] /\ x \in wq[WQ_CLOCK] /\ u # 0
    BY <1>2, <1>10, ObjectIndices DEF In
  <2>2. asked[x] = u /\ r0[x] = ETIMEDOUT
    BY <1>1, <1>10, <2>1, Zenon DEF CInv, RequestInv, PlaceInv, LimitResult, At
  <2>3. Outcome(x) = "waiting"
    BY <2>1, <2>2 DEF Outcome
  <2>4. x \notin wq'[u] /\ asked'[x] = u /\ r0'[x] = ETIMEDOUT
    BY <1>3, <1>4, <1>10, <2>2, ObjectIndices, SlotNumbers, Zenon
  <2>5. ~Calling(x)' /\ ~Given(x)'
    BY <1>3, <2>4 DEF Calling, Given, At, ParkedPoints, ETIMEDOUT, OK
  <2>6. Outcome(x)' = "timeout"
    BY <2>1, <2>4, <2>5 DEF Outcome, ETIMEDOUT, EAGAIN
  <2>7. \A t \in Threads \ {x} : Steady(t)
    BY <1>6
  <2>8. RequestInv'
    BY <1>7, <1>8, <2>6, <2>7, RequestOne, Zenon DEF CInv, Counting!Outcomes
  <2> QED
    BY <1>7, <2>3, <2>6, <2>7, <2>8, AbstractAnswer, Zenon DEF CInv
<1> QED
  BY <1>1, <1>2, <1>9, <1>10, Zenon DEF CInv, PlaceInv, ExpiredPlace, At

(* A wait takes a unit, or goes on. *)
LEMMA RequestAgain ==
    ASSUME CInv, SemBase', SemRest', WaitAgain, UNCHANGED <<asked, posts>>
    PROVE  RequestInv' /\ AbstractStep
<1>1. handler.pc = "again" /\ handler.pc \in WaitPoints
      /\ UNCHANGED <<wq, th_stat, sem_alloc>>
  BY DEF WaitAgain, At, WaitPoints
<1>2. PICK x \in Threads, w \in Sems :
         /\ x = handler.self /\ w = handler.wq /\ w \in sem_alloc /\ asked[x] = w
         /\ w \in ObjectQueues /\ w \in Queues /\ w # 0
  BY <1>1, WaitCaller
<1>3. CASE /\ sem_val[w] > 0 /\ sem_val' = [sem_val EXCEPT ![w] = @ - 1]
           /\ Return(x, OK) /\ Done
  <2>1. handler'.pc = "none"
    BY <1>3, Zenon DEF Done, NoHandler
  <2>2. r0'[x] = OK /\ \A t \in Threads \ {x} : r0'[t] = r0[t]
    BY <1>3, BaseTypes, Zenon DEF Return, CInv, SemBase, StepTypes
  <2>3. \A t \in Threads \ {x} : Steady(t)
    BY <1>1, <1>2, <2>1, <2>2, OtherRoles, Zenon DEF Steady, CallPoints, ParkedPoints
  <2>4. In(x, {WQ_READY})
    BY <1>1, <1>2, AllSettled, ReadySettled, Zenon DEF CInv, PlaceInv, CallerPlace, Quietly,
       ParkedPoints, LimitPoints, TakenPoints
  <2>5. \A v \in ObjectQueues : x \notin wq[v] /\ x \notin wq'[v]
    BY <1>1, <2>4, ObjectIndices DEF In
  <2>6. Outcome(x) = "calling"
    BY <1>1, <1>2, <2>5, Zenon DEF Outcome, Calling
  <2>7. asked'[x] = w /\ ~Calling(x)' /\ Given(x)'
    BY <1>2, <2>1, <2>2 DEF Calling, Given, ParkedPoints
  <2>8. Outcome(x)' = "ok"
    BY <1>2, <2>5, <2>7, Zenon DEF Outcome
  <2>9. PointInv'
    BY <2>1, PointFree DEF WaitPoints
  <2>10. RequestInv'
    BY <1>1, <2>3, <2>5, <2>8, <2>9, RequestOne, Zenon DEF CInv, Counting!Outcomes
  <2> QED
    BY <1>2, <1>3, <2>3, <2>6, <2>8, <2>10, AbstractAnswer, Zenon DEF CInv
<1>4. CASE Goto("suspend") /\ UNCHANGED <<sem_val, r0>>
  <2>1. handler'.pc = "suspend" /\ handler'.self = x /\ handler'.wq = w
    BY <1>2, <1>4, GotoFacts, Zenon DEF CInv, SemBase, Base, SemPoints, WaitPoints
  <2>2. SameRoles
    BY <1>1, <1>2, <2>1 DEF SameRoles, CallPoints
  <2>3. PointInv'
    BY <1>1, <1>2, <2>1, Zenon DEF PointInv, At
  <2> QED
    BY <1>1, <1>4, <2>2, <2>3, NothingAnswered
<1> QED
  BY <1>2, <1>3, <1>4, Zenon DEF WaitAgain

(* A post takes the first thread out of the queue, or finds none. *)
LEMMA RequestTake ==
    ASSUME CInv, SemBase', SemRest', PostTake, UNCHANGED asked,
           IF PostCounts THEN Posted(handler.wq) ELSE UNCHANGED posts
    PROVE  RequestInv' /\ AbstractStep
<1>1. handler.pc = "post" /\ HandlerTypeOK(SemPoints, {0}) /\ "count" \in SemPoints
      /\ UNCHANGED <<r0, sem_val, sem_alloc>>
  BY Zenon DEF PostTake, TakeThread, At, CInv, SemBase, Base, SemPoints, semVars
<1>2. PICK w \in Sems : w = handler.wq
  BY <1>1, Zenon DEF CInv, SemRest
<1>3. w \in ObjectQueues /\ w \in Queues /\ w # 0
  BY ObjectIndices
<1>4. CASE wq[w] = {}
  <2>1. Goto("count") /\ wq' = wq
    BY <1>2, <1>4 DEF PostTake, TakeThread
  <2>2. handler'.pc = "count" /\ handler'.wq = w
    BY <1>1, <1>2, <2>1, GotoFacts, Zenon
  <2>3. posts' = posts
    BY <1>1, <2>2 DEF PostCounts, At
  <2>4. SameRoles
    BY <1>1, <2>2 DEF SameRoles, CallPoints, ParkedPoints
  <2>5. PointInv'
    BY <1>4, <2>1, <2>2 DEF PointInv, At, WaitPoints
  <2> QED
    BY <1>1, <2>1, <2>3, <2>4, <2>5, NothingAnswered
<1>5. CASE wq[w] # {}
  <2>1. wq \in QMap /\ IdleReady(wq) /\ HeadsExist
    BY BaseTypes, Zenon DEF CInv, SemBase, StepTypes, Base
  <2>2. PICK h \in Threads : h = WqHead(wq[w]) /\ h \in wq[w] /\ \A t \in wq[w] : h <= t
    BY <1>3, <1>5, <2>1, ObjectHead, Zenon
  <2>3. /\ wq' = [wq EXCEPT ![w] = @ \ {h}]
        /\ handler' = [handler EXCEPT !.pc = "wakeup", !.th = h]
    BY <1>2, <1>5, <2>2, Zenon DEF PostTake, TakeThread
  <2>4. handler'.pc = "wakeup" /\ handler'.th = h
    BY <1>1, <2>3 DEF HandlerTypeOK
  <2>5. Posted(w)
    BY <1>1, <1>2, <2>4 DEF PostCounts, At
  <2>6. \A v \in ObjectQueues, t \in Threads :
           t \in wq'[v] <=> t \in wq[v] /\ ~(t = h /\ v = w)
    BY <1>3, <2>1, <2>3, ObjectIndices DEF QMap
  <2>7. \A t \in Threads \ {h} : Steady(t)
    BY <1>1, <2>4, <2>6, OtherRoles, Zenon DEF Steady, CallPoints, ParkedPoints
  <2>8. asked[h] = w /\ asked'[h] = w
    BY <1>3, <2>2, Zenon DEF CInv, RequestInv
  <2>9. ~Calling(h)' /\ Given(h)'
    BY <2>4 DEF Calling, Given, At, ParkedPoints
  <2>10. Outcome(h)' = "ok"
    BY <1>3, <2>6, <2>8, <2>9 DEF Outcome
  <2>11. PointInv'
    BY <2>4, PointFree DEF WaitPoints
  <2>12. RequestInv'
    <3>1. \A v \in ObjectQueues : h \in wq'[v] =>
             asked'[h] = v /\ (v \in Sems => v \in sem_alloc')
      BY <1>1, <2>6, Zenon DEF CInv, RequestInv
    <3>2. Outcome(h)' \in Counting!Outcomes
      BY <2>10 DEF Counting!Outcomes
    <3> QED
      BY <1>1, <2>7, <2>11, <3>1, <3>2, RequestOne DEF CInv
  <2> QED
    BY <1>1, <2>2, <2>5, <2>7, <2>10, <2>12, AbstractPost, Zenon DEF CInv
<1> QED
  BY <1>4, <1>5

(* A post that has found none is kept. *)
LEMMA RequestCount ==
    ASSUME CInv, PostCount, UNCHANGED asked, Posted(handler.wq)
    PROVE  RequestInv' /\ AbstractStep
<1>1. handler.pc = "count" /\ UNCHANGED <<wq, r0, sem_alloc>>
  BY DEF PostCount, At, rtVars
<1>2. PICK w \in Sems : w = handler.wq
  BY <1>1 DEF CInv, SemRest
<1>3. handler'.pc = "defer"
  BY GotoFacts, Zenon DEF PostCount, CInv, SemBase, Base, SemPoints
<1>4. wq[w] = {} /\ sem_val' = [sem_val EXCEPT ![w] = Incremented(@)]
  BY <1>1, <1>2, Zenon DEF CInv, RequestInv, At, PostCount
<1>5. SameRoles
  BY <1>1, <1>3 DEF SameRoles, CallPoints, ParkedPoints
<1>6. PointInv'
  BY <1>3, PointFree DEF WaitPoints
<1>7. RequestInv' /\ \A t \in Threads : Outcome(t)' = Outcome(t)
  BY <1>1, <1>5, <1>6, RequestNone DEF CInv
<1> QED
  BY <1>2, <1>4, <1>7, AbstractPost, Zenon DEF CInv

(* The thread that a post has taken out of the queue is made ready. *)
LEMMA RequestWake ==
    ASSUME CInv, SemBase', SemRest', PostWakeup, UNCHANGED <<asked, posts>>
    PROVE  RequestInv' /\ AbstractStep
<1>1. handler.pc = "wakeup" /\ UNCHANGED <<sem_val, sem_alloc>>
      /\ wq \in QMap /\ IdleReady(wq) /\ r0 \in [Threads -> Int]
  BY BaseTypes DEF PostWakeup, At, semVars, CInv, SemBase, StepTypes
<1>2. PICK h \in Threads, w \in ObjectQueues : h = handler.th /\ w = handler.wq
  BY <1>1, Zenon DEF CInv, SemBase, Base, SwitchInv, TakenPoints, TickPoints, At
<1>3. wq' = Wakeup(wq, w, h) /\ r0' = [r0 EXCEPT ![h] = OK] /\ Goto("defer")
  BY <1>2, Zenon DEF PostWakeup, WakeThread
<1>4. handler'.pc = "defer"
  BY <1>3, GotoFacts, Zenon DEF CInv, SemBase, Base, SemPoints
<1>5. \A v \in Queues, t \in Slots :
         t \in wq'[v] <=> \/ t = h /\ v = WQ_READY
                          \/ t \in wq[v] /\ (t = h => v # w /\ v # WQ_CLOCK)
  BY <1>1, <1>2, <1>3, WakeupFacts
<1>6. \A v \in ObjectQueues : h \notin wq[v]
  BY <1>1, <1>2, ObjectIndices, Zenon DEF CInv, PlaceInv, TakenPlace, TakenPoints, In
<1>7. \A v \in ObjectQueues : h \notin wq'[v]
  BY <1>5, <1>6, ObjectIndices, SlotNumbers, Zenon
<1>8. \A v \in ObjectQueues : \A t \in Threads \ {h} : t \in wq'[v] <=> t \in wq[v]
  BY <1>5, ObjectIndices, SlotNumbers, Zenon
<1>9. r0'[h] = OK /\ \A t \in Threads \ {h} : r0'[t] = r0[t]
  BY <1>1, <1>3
<1>10. \A t \in Threads \ {h} : Steady(t)
  BY <1>1, <1>2, <1>4, <1>8, <1>9, OtherRoles, Zenon DEF Steady, CallPoints, ParkedPoints
<1>11. Outcome(h)' = Outcome(h)
  <2>1. /\ ~Calling(h) /\ ~Calling(h)' /\ Given(h) /\ Given(h)'
    BY <1>1, <1>2, <1>4, <1>9 DEF Calling, Given, At, ParkedPoints
  <2>2. asked[h] = 0 \/ asked[h] \in ObjectQueues
    BY ObjectIndices, Zenon DEF CInv, SemRest
  <2> QED
    BY <1>6, <1>7, <2>1, <2>2, Zenon DEF Outcome
<1>12. PointInv'
  BY <1>4, PointFree DEF WaitPoints
<1>13. RequestInv'
  <2>1. Outcome(h)' \in Counting!Outcomes
    BY <1>11, Zenon DEF CInv, RequestInv
  <2> QED
    BY <1>1, <1>7, <1>10, <1>12, <2>1, RequestOne DEF CInv
<1>14. \A t \in Threads : Outcome(t)' = Outcome(t)
  BY <1>10, <1>11, SteadyOutcome DEF CInv
<1> QED
  BY <1>1, <1>13, <1>14, AbstractStill

(* An interrupt handler posts outside of the window. *)
LEMMA RequestIsr ==
    ASSUME WaitWindow \subseteq Quiet, CInv, SemBase', SemRest', Interrupt
    PROVE  RequestInv' /\ AbstractStep
<1>1. PICK s \in sem_alloc : SemPostIsr(s) /\ Posted(s)
  BY DEF Interrupt
<1>2. s \in Sems /\ s \in ObjectQueues /\ s \in Queues /\ s # 0
  BY <1>1, ObjectIndices, Zenon DEF CInv, SemRest
<1>3. handler' = handler /\ excl' = FALSE /\ UNCHANGED <<asked, sem_alloc>>
  BY <1>1, Zenon DEF SemPostIsr, IsrEnd, Interrupt
<1>4. handler.pc \notin LimitPoints \union {"timeout"}
  BY DEF Interrupt, WaitWindow, LimitPoints
<1>5. \A t : (Calling(t)' <=> Calling(t)) /\ (Taken(t)' <=> Taken(t))
  BY <1>3 DEF Calling, Taken, At
<1>6. PointInv /\ wq \in QMap /\ IdleReady(wq) /\ HeadsExist /\ r0 \in [Threads -> Int]
  BY BaseTypes, Zenon DEF CInv, RequestInv, PointInv, SemBase, StepTypes, Base
<1>7. ASSUME \A v \in ObjectQueues : wq'[v] \subseteq wq[v]
      PROVE  PointInv'
  <2>1. handler.pc = "count" => handler.wq \in ObjectQueues
    BY ObjectIndices, Zenon DEF CInv, SemRest
  <2> QED
    BY <1>3, <1>4, <1>6, <1>7, <2>1, Zenon DEF PointInv, At
<1>8. CASE wq[s] = {}
  <2>1. UNCHANGED <<wq, r0>> /\ sem_val' = [sem_val EXCEPT ![s] = Incremented(@)]
    BY <1>1, <1>8 DEF SemPostIsr
  <2>2. \A t \in Threads : Steady(t)
    BY <1>3, <1>5, <2>1 DEF Steady
  <2>3. \A t \in Threads : Outcome(t)' = Outcome(t)
    BY <2>2, SteadyOutcome DEF CInv
  <2>4. PointInv'
    BY <1>7, <2>1
  <2>5. RequestInv'
    BY <1>3, <2>1, <2>3, <2>4, Zenon DEF CInv, RequestInv, PointInv
  <2> QED
    BY <1>1, <1>2, <1>3, <1>8, <2>1, <2>3, <2>5, AbstractPost, Zenon DEF CInv
<1>9. CASE wq[s] # {}
  <2>1. PICK h \in Threads : h = WqHead(wq[s]) /\ h \in wq[s] /\ \A t \in wq[s] : h <= t
    BY <1>2, <1>6, <1>9, ObjectHead, Zenon
  <2>2. wq' = Wakeup(wq, s, h) /\ r0' = [r0 EXCEPT ![h] = OK] /\ sem_val' = sem_val
    BY <1>1, <1>9, <2>1, Zenon DEF SemPostIsr, IsrWake
  <2>3. \A v \in Queues, t \in Slots :
           t \in wq'[v] <=> \/ t = h /\ v = WQ_READY
                            \/ t \in wq[v] /\ (t = h => v # s /\ v # WQ_CLOCK)
    BY <1>2, <1>6, <2>2, WakeupFacts
  <2>4. In(h, {s}) \/ In(h, {s, WQ_CLOCK})
    BY <1>2, <1>4, <2>1, WaiterPlace, Zenon DEF CInv
  <2>5. \A v \in ObjectQueues : h \notin wq'[v]
    BY <1>2, <2>3, <2>4, ObjectIndices, SlotNumbers, Zenon DEF In
  <2>6. \A v \in ObjectQueues : \A t \in Threads \ {h} : t \in wq'[v] <=> t \in wq[v]
    BY <2>3, ObjectIndices, SlotNumbers, Zenon
  <2>7. r0'[h] = OK /\ \A t \in Threads \ {h} : r0'[t] = r0[t]
    BY <1>6, <2>2
  <2>8. \A t \in Threads \ {h} : Steady(t)
    BY <1>3, <1>5, <2>6, <2>7, Zenon DEF Steady
  <2>9. ~Calling(h)
    <3>1. CASE handler.pc \in {"again", "suspend"}
      <4>1. handler.self \in wq[WQ_READY]
        BY <3>1, Zenon DEF CInv, PlaceInv, CallerPlace
      <4>2. h \notin wq[WQ_READY]
        BY <1>2, <2>4, ObjectIndices DEF In
      <4> QED
        BY <4>1, <4>2 DEF Calling
    <3>2. CASE handler.pc \in ParkedPoints
      <4>1. In(handler.self, {})
        BY <3>2, Zenon DEF CInv, PlaceInv, CallerPlace
      <4> QED
        BY <1>2, <2>1, <4>1 DEF Calling, In
    <3> QED
      BY <3>1, <3>2 DEF Calling
  <2>10. asked[h] = s /\ asked'[h] = s /\ ~Calling(h)' /\ Given(h)'
    BY <1>2, <1>3, <1>5, <2>1, <2>7, <2>9, Zenon DEF CInv, RequestInv, Given
  <2>11. Outcome(h)' = "ok"
    BY <1>2, <2>5, <2>10 DEF Outcome
  <2>12. \A v \in ObjectQueues : wq'[v] \subseteq wq[v]
    <3>1. wq' \in QMap
      BY <1>2, <1>6, <2>2, WakeupFacts, Zenon
    <3> QED
      BY <2>3, <3>1, ObjectIndices DEF QMap
  <2>13. RequestInv'
    BY <1>3, <1>7, <2>5, <2>8, <2>11, <2>12, RequestOne, Zenon DEF CInv, Counting!Outcomes
  <2> QED
    BY <1>1, <1>2, <1>3, <2>1, <2>2, <2>8, <2>11, <2>13, AbstractPost, Zenon DEF CInv
<1> QED
  BY <1>8, <1>9

LEMMA RequestNext ==
    ASSUME WaitWindow \subseteq Quiet, CInv, [Next]_vars, PlaceInv'
    PROVE  CInv' /\ AbstractStep
<1>0. SemBase' /\ SemRest' /\ PlaceInv'
  BY SwitchNext DEF CInv
<1>1. CASE Step
  <2>1. asked' = asked /\ IF PostCounts THEN Posted(handler.wq) ELSE UNCHANGED posts
    BY <1>1 DEF Step
  <2>2. ASSUME ~At("post"), ~At("count") PROVE posts' = posts
    BY <2>1, <2>2 DEF PostCounts
  <2>3. CASE WaitStep(PostedMeanwhile(handler.wq)) /\ UNCHANGED semVars
    <3>1. ~At("post") /\ ~At("count")
      BY <2>3, WaitMoves, Zenon DEF At, CInv
    <3> QED
      BY <1>0, <2>1, <2>2, <2>3, <3>1, RequestWait, Zenon DEF CInv
  <2>4. CASE (Defer \/ TickStep) /\ UNCHANGED semVars
    <3>1. ~At("post") /\ ~At("count")
      BY <2>4, Zenon DEF Defer, TickStep, TickScan, TickExpired, TickShare, At
    <3> QED
      BY <1>0, <2>1, <2>2, <2>4, <3>1, RequestTick, RequestExpired, Zenon DEF TickStep, CInv
  <2>5. CASE WaitAgain
    <3>1. ~At("post") /\ ~At("count")
      BY <2>5 DEF WaitAgain, At
    <3> QED
      BY <1>0, <2>1, <2>2, <2>5, <3>1, RequestAgain DEF CInv
  <2>6. CASE PostTake
    BY <1>0, <2>1, <2>6, RequestTake DEF CInv
  <2>7. CASE PostCount
    BY <1>0, <2>1, <2>7, RequestCount, Zenon DEF CInv, PostCounts, PostCount
  <2>8. CASE PostWakeup
    <3>1. ~At("post") /\ ~At("count")
      BY <2>8 DEF PostWakeup, At
    <3> QED
      BY <1>0, <2>1, <2>2, <2>8, <3>1, RequestWake DEF CInv
  <2> QED
    BY <1>1, <2>3, <2>4, <2>5, <2>6, <2>7, <2>8, Zenon DEF Step, SemStep
<1>2. CASE Tick \/ Switch
  BY <1>0, <1>2, RequestTick, Zenon DEF Tick, Switch, CInv
<1>3. CASE Interrupt
  BY <1>0, <1>3, RequestIsr DEF CInv
<1>4. ASSUME NEW self \in Threads, WaitCall(self) \/ PostCall(self) \/ SetCall(self)
      PROVE  RequestInv' /\ AbstractStep
  BY <1>0, <1>4, CallShapes, RequestCall, Zenon DEF CInv
<1>5. CASE UNCHANGED vars
  <2>1. UNCHANGED <<asked, r0, sem_alloc, sem_val, posts, wq, handler, excl>>
    BY <1>5 DEF vars, rtVars, handlerVars, semVars
  <2>2. \A t \in Threads : Outcome(t)' = Outcome(t)
    BY <2>1 DEF Outcome, Calling, Given, At
  <2>3. RequestInv'
    BY <2>1, <2>2, Zenon DEF CInv, RequestInv, At, PostedMeanwhile
  <2> QED
    BY <1>0, <2>1, <2>2, <2>3, AbstractStill DEF CInv
<1> QED
  BY <1>0, <1>1, <1>2, <1>3, <1>4, <1>5, Zenon DEF Next, CInv
=============================================================================
