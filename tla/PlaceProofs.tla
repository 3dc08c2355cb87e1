----------------------------- MODULE PlaceProofs -----------------------------
(***************************************************************************)
(* The steps of ThinkosHandler keep track of every thread: PlaceInv says   *)
(* at each point of a handler in which queues each thread is.              *)
(***************************************************************************)
EXTENDS HandlerProofs

USE DEF WQ_READY, WQ_TMSHARE, WQ_CLOCK, NoStat, Stat

-----------------------------------------------------------------------------
(* Thread t is where it was, ... *)
SameRow(t) == \A w \in Queues : t \in wq'[w] <=> t \in wq[w]

(* ... and nothing else is changed of it. *)
Untouched(t) == SameRow(t) /\ th_stat'[t] = th_stat[t] /\ r0'[t] = r0[t]

LEMMA RowIn ==
    ASSUME NEW t, SameRow(t), NEW S
    PROVE  In(t, S)' <=> In(t, S)
BY Zenon DEF SameRow, In

LEMMA UntouchedSettled ==
    ASSUME NEW t, Untouched(t)
    PROVE  /\ Settled(t)' <=> Settled(t)
           /\ t \in wq'[WQ_CLOCK] <=> t \in wq[WQ_CLOCK]
<1>1. SameRow(t) /\ th_stat'[t] = th_stat[t]
  BY DEF Untouched
<1>2. \A S : In(t, S)' <=> In(t, S)
  BY <1>1, RowIn
<1>3. t \in wq'[WQ_CLOCK] <=> t \in wq[WQ_CLOCK]
  BY <1>1, ObjectIndices DEF SameRow
<1> QED
  BY <1>1, <1>2, <1>3, Zenon DEF Settled

(* The places of the others when one is moving. *)
LEMMA OthersSettled ==
    ASSUME PlaceInv, NEW x \in Threads,
           \/ handler.pc \in ParkedPoints \union LimitPoints \union {"timeout"} /\ x = handler.self
           \/ handler.pc \in TakenPoints \union {"expired"} /\ x = handler.th
    PROVE  \A t \in Threads \ {x} : Quietly(t)
BY DEF PlaceInv, LimitResult, Moving, Quietly, At, ParkedPoints, LimitPoints, TakenPoints

(* What is left to show when all threads but x are left alone: where x is  *)
(* and, at each point, what PlaceInv asks for there.                       *)
LEMMA PlaceMoved ==
    ASSUME NEW x \in Threads,
           \A t \in Threads \ {x} : Quietly(t) /\ Untouched(t)
    PROVE  \A t \in Threads \ {x} : Quietly(t)'
BY UntouchedSettled DEF Quietly, Untouched

(* A step after which no thread is moving. *)
LEMMA PlaceQuiet ==
    ASSUME \A t \in Threads : Quietly(t)',
           handler'.pc \notin {"again", "suspend", "scan", "expired"} \union ParkedPoints
                                  \union LimitPoints \union TakenPoints
    PROVE  PlaceInv'
BY DEF PlaceInv, Quietly, At, CallerPlace, TakenPlace, ExpiredPlace, TodoPlace, LimitResult

-----------------------------------------------------------------------------
LEMMA ClockSettled ==
    ASSUME NEW t, Settled(t), t \in wq[WQ_CLOCK]
    PROVE  /\ th_stat[t].wq \in ObjectQueues
           /\ In(t, {th_stat[t].wq, WQ_CLOCK})
<1>1. WQ_CLOCK \in Queues /\ WQ_CLOCK \notin ObjectQueues
  BY ObjectIndices
<1> QED
  BY <1>1 DEF Settled, In

(* The ready and the time share queue may exchange threads. *)
LEMMA ReadyMoves ==
    ASSUME NEW t, Quietly(t), th_stat'[t] = th_stat[t], r0'[t] = r0[t],
           \A v \in Queues \ {WQ_READY, WQ_TMSHARE} : wq'[v] = wq[v],
           t \in wq'[WQ_READY] \/ t \in wq'[WQ_TMSHARE]
              <=> t \in wq[WQ_READY] \/ t \in wq[WQ_TMSHARE],
           ~(t \in wq[WQ_READY] /\ t \in wq[WQ_TMSHARE]) =>
              ~(t \in wq'[WQ_READY] /\ t \in wq'[WQ_TMSHARE])
    PROVE  Quietly(t)'
<1>1. /\ WQ_READY \in Queues /\ WQ_TMSHARE \in Queues /\ WQ_CLOCK \in Queues
      /\ \A w \in ObjectQueues : w \in Queues /\ w \notin {WQ_READY, WQ_TMSHARE, WQ_CLOCK}
  BY ObjectIndices
<1>2. t \in wq'[WQ_CLOCK] => r0'[t] = ETIMEDOUT
  BY <1>1 DEF Quietly
<1>3. CASE th_stat[t] = NoStat /\ (In(t, {WQ_READY}) \/ In(t, {WQ_TMSHARE}))
  <2>1. \A v \in Queues : v \notin {WQ_READY, WQ_TMSHARE} => t \notin wq'[v]
    BY <1>3 DEF In
  <2>2. /\ t \in wq'[WQ_READY] \/ t \in wq'[WQ_TMSHARE]
        /\ ~(t \in wq'[WQ_READY] /\ t \in wq'[WQ_TMSHARE])
    BY <1>1, <1>3 DEF In
  <2>3. In(t, {WQ_READY})' \/ In(t, {WQ_TMSHARE})'
    BY <2>1, <2>2 DEF In
  <2> QED
    BY <1>2, <1>3, <2>3, Zenon DEF Quietly, Settled
<1>4. CASE /\ th_stat[t].wq \in ObjectQueues
           /\ In(t, {th_stat[t].wq}
                        \union (IF th_stat[t].timed THEN {WQ_CLOCK} ELSE {}))
  <2> DEFINE S == {th_stat[t].wq} \union (IF th_stat[t].timed THEN {WQ_CLOCK} ELSE {})
  <2>1. WQ_READY \notin S /\ WQ_TMSHARE \notin S
    BY <1>1, <1>4
  <2>2. t \notin wq[WQ_READY] /\ t \notin wq[WQ_TMSHARE]
    BY <1>1, <1>4, <2>1, Zenon DEF In
  <2>3. SameRow(t)
    BY <1>1, <2>2 DEF SameRow
  <2>4. Untouched(t)
    BY <2>3 DEF Untouched
  <2> QED
    BY <1>2, <2>4, UntouchedSettled, Zenon DEF Quietly
<1> QED
  BY <1>3, <1>4, Zenon DEF Quietly, Settled

-----------------------------------------------------------------------------
(* What is left to show of a step after which the caller x is in no queue, *)
(* in the object's only, or ready again.                                   *)
LEMMA PlaceParked ==
    ASSUME NEW x \in Threads, handler'.self = x, handler'.pc \in ParkedPoints,
           \A t \in Threads \ {x} : Quietly(t)',
           In(x, {})', th_stat'[x] = Stat(handler'.wq, handler'.ms # FOREVER)
    PROVE  PlaceInv'
<1>1. x \notin wq'[WQ_CLOCK]
  BY ObjectIndices DEF In
<1> QED
  BY <1>1, Zenon DEF PlaceInv, Quietly, Moving, At, ParkedPoints, LimitPoints, TakenPoints,
     CallerPlace, TakenPlace, ExpiredPlace, TodoPlace, LimitResult

LEMMA PlaceLimited ==
    ASSUME NEW x \in Threads, handler'.self = x, handler'.pc \in LimitPoints,
           \A t \in Threads \ {x} : Quietly(t)',
           handler'.wq \in ObjectQueues,
           In(x, {handler.wq})', th_stat'[x] = Stat(handler'.wq, TRUE)
    PROVE  PlaceInv'
<1>1. x \notin wq'[WQ_CLOCK]
  BY ObjectIndices DEF In
<1> QED
  BY <1>1, Zenon DEF PlaceInv, Quietly, Moving, At, ParkedPoints, LimitPoints, TakenPoints,
     CallerPlace, TakenPlace, ExpiredPlace, TodoPlace, LimitResult

LEMMA PlaceCalling ==
    ASSUME NEW x \in Threads, handler'.self = x, handler'.pc \in {"again", "suspend"},
           \A t \in Threads : Quietly(t)', x \in wq'[WQ_READY]
    PROVE  PlaceInv'
BY DEF PlaceInv, Quietly, At, ParkedPoints, LimitPoints, TakenPoints,
       CallerPlace, TakenPlace, ExpiredPlace, TodoPlace, LimitResult

(* The same when a thread x has been taken out of the object's queue, and  *)
(* when the tick goes on with the next thread.                             *)
LEMMA PlaceTaken ==
    ASSUME NEW x \in Threads, handler'.th = x, handler'.pc \in TakenPoints,
           \A t \in Threads \ {x} : Quietly(t)',
           In(x, {})' \/ In(x, {WQ_CLOCK})',
           x \in wq'[WQ_CLOCK] => r0'[x] = ETIMEDOUT
    PROVE  PlaceInv'
BY DEF PlaceInv, Quietly, Moving, At, ParkedPoints, LimitPoints, TakenPoints,
       CallerPlace, TakenPlace, ExpiredPlace, TodoPlace, LimitResult

LEMMA PlaceScanning ==
    ASSUME \A t \in Threads : Quietly(t)', handler'.pc = "scan",
           handler'.todo \subseteq wq'[WQ_CLOCK] \union wq'[WQ_READY]
    PROVE  PlaceInv'
BY DEF PlaceInv, Quietly, At, ParkedPoints, LimitPoints, TakenPoints,
       CallerPlace, TakenPlace, ExpiredPlace, TodoPlace, LimitResult

LEMMA PlaceSuspend ==
    ASSUME NEW points, NEW args, "queue" \in points, Base(points, args), PlaceInv, WaitSuspend
    PROVE  PlaceInv'
<1>0. StepTypes /\ HandlerTypeOK(points, args)
  BY BaseTypes DEF Base
<1>1. PICK x \in Threads : x = handler.self
  BY CallerFacts DEF WaitSuspend, At, TickPoints
<1>b. handler.pc = "suspend"
  BY DEF WaitSuspend, At
<1>2. /\ wq' = Suspend(wq, x)
      /\ th_stat' = [th_stat EXCEPT ![x] = Stat(handler.wq, handler.ms # FOREVER)]
      /\ Goto("queue") /\ r0' = r0
  BY <1>1 DEF WaitSuspend
<1>3. /\ handler'.pc = "queue" /\ handler'.self = x /\ handler'.wq = handler.wq
      /\ handler'.ms = handler.ms
  BY <1>0, <1>1, <1>2, GotoFacts, Zenon
<1>4. /\ th_stat'[x] = Stat(handler.wq, handler.ms # FOREVER)
      /\ \A t \in Threads \ {x} : th_stat'[t] = th_stat[t]
  BY <1>0, <1>1, <1>2, SlotNumbers, Zenon DEF StepTypes, SMap
<1>5. \A t \in Threads : Quietly(t)
  BY <1>b, AllSettled DEF ParkedPoints, LimitPoints, TakenPoints
<1>6. In(x, {WQ_READY})
  BY <1>1, <1>b, <1>5, ReadySettled, Zenon DEF PlaceInv, CallerPlace, Quietly
<1>a. wq \in QMap /\ IdleReady(wq)
  BY <1>0 DEF StepTypes
<1>7. /\ \A v \in Queues \ {WQ_READY, WQ_TMSHARE} : wq'[v] = wq[v]
      /\ x \notin wq[WQ_TMSHARE] => x \notin wq'[WQ_READY] /\ x \notin wq'[WQ_TMSHARE]
      /\ \A t \in Slots :
            /\ t # x => (t \in wq'[WQ_READY] \/ t \in wq'[WQ_TMSHARE]
                             <=> t \in wq[WQ_READY] \/ t \in wq[WQ_TMSHARE])
            /\ ~(t \in wq[WQ_READY] /\ t \in wq[WQ_TMSHARE]) =>
                  ~(t \in wq'[WQ_READY] /\ t \in wq'[WQ_TMSHARE])
  BY <1>a, <1>1, <1>2, LeaveReady
<1>8. In(x, {})'
  <2>1. x \notin wq[WQ_TMSHARE] /\ \A v \in Queues \ {WQ_READY} : x \notin wq[v]
    BY <1>6, ObjectIndices DEF In
  <2>2. \A v \in Queues : x \notin wq'[v]
    BY <1>7, <2>1
  <2> QED
    BY <2>2 DEF In
<1>9. ASSUME NEW t \in Threads \ {x}
      PROVE  Quietly(t)'
  <2>1. t \in Slots /\ t # x /\ Quietly(t) /\ th_stat'[t] = th_stat[t] /\ r0'[t] = r0[t]
    BY <1>2, <1>4, <1>5, SlotNumbers, Zenon
  <2> QED
    BY <2>1, <1>7, ReadyMoves, Zenon
<1>10. handler'.pc \in ParkedPoints
       /\ th_stat'[x] = Stat(handler'.wq, handler'.ms # FOREVER)
  BY <1>3, <1>4 DEF ParkedPoints
<1> QED
  BY <1>1, <1>3, <1>8, <1>9, <1>10, PlaceParked, Zenon

(* Inserting the caller into a queue leaves the other threads where they   *)
(* are.                                                                    *)
LEMMA InsertRows ==
    ASSUME StepTypes, NEW x \in Threads, NEW w \in Queues, wq' = Insert(wq, w, x)
    PROVE  /\ \A t \in Threads \ {x} : SameRow(t)
           /\ \A S : In(x, S) => In(x, S \union {w})'
<1>1. wq \in QMap /\ IdleReady(wq)
  BY DEF StepTypes
<1>2. \A v \in Queues, t \in Slots : t \in wq'[v] <=> t \in wq[v] \/ (t = x /\ v = w)
  BY <1>1, InsertFacts
<1>3. \A t \in Threads \ {x} : SameRow(t)
  BY <1>2, SlotNumbers DEF SameRow
<1>4. ASSUME NEW S, In(x, S)
      PROVE  In(x, S \union {w})'
  BY <1>2, <1>4, SlotNumbers DEF In
<1> QED
  BY <1>3, <1>4

(* The status of one thread is written. *)
LEMMA StatOf ==
    ASSUME StepTypes, NEW x \in Threads, NEW s, th_stat' = [th_stat EXCEPT ![x] = s]
    PROVE  /\ th_stat'[x] = s
           /\ \A t \in Threads \ {x} : th_stat'[t] = th_stat[t]
BY SlotNumbers DEF StepTypes, SMap

LEMMA PlaceRollBack ==
    ASSUME NEW points, NEW args, "again" \in points, Base(points, args), PlaceInv,
           handler.pc \in ParkedPoints, RollBack, r0' = r0
    PROVE  PlaceInv'
<1>0. StepTypes /\ HandlerTypeOK(points, args)
  BY BaseTypes DEF Base
<1>1. PICK x \in Threads : x = handler.self
  BY CallerFacts DEF ParkedPoints, TickPoints
<1>2. /\ wq' = Insert(wq, WQ_READY, x) /\ Goto("again")
      /\ th_stat' = [th_stat EXCEPT ![x] = NoStat]
  BY <1>1 DEF RollBack, RestartPoint
<1>3. handler'.pc = "again" /\ handler'.self = x
  BY <1>0, <1>1, <1>2, GotoFacts, Zenon
<1>4. In(x, {}) /\ \A t \in Threads \ {x} : Quietly(t)
  BY <1>1, OthersSettled, Zenon DEF PlaceInv, CallerPlace
<1>5. th_stat'[x] = NoStat /\ \A t \in Threads \ {x} : th_stat'[t] = th_stat[t]
  BY <1>0, <1>2, StatOf, Zenon
<1>6. (\A t \in Threads \ {x} : SameRow(t)) /\ In(x, {} \union {WQ_READY})'
  BY <1>0, <1>2, <1>4, ObjectIndices, InsertRows, Zenon
<1>7. \A t \in Threads \ {x} : Quietly(t)'
  BY <1>4, <1>5, <1>6, PlaceMoved, Zenon DEF Untouched
<1>8. In(x, {WQ_READY})'
  BY <1>6
<1>9. x \in wq'[WQ_READY] /\ x \notin wq'[WQ_CLOCK]
  BY <1>8, ObjectIndices DEF In
<1>10. Quietly(x)'
  BY <1>5, <1>8, <1>9 DEF Quietly, Settled
<1> QED
  BY <1>3, <1>7, <1>9, <1>10, PlaceCalling

(* A step that touches no thread. *)
LEMMA NoneTouched ==
    ASSUME UNCHANGED <<wq, th_stat, r0>>
    PROVE  /\ \A t : Untouched(t)
           /\ \A t : Quietly(t)' <=> Quietly(t)
           /\ \A t, S : In(t, S)' <=> In(t, S)
<1>1. \A t : Untouched(t)
  BY DEF Untouched, SameRow
<1> QED
  BY <1>1, UntouchedSettled, RowIn DEF Untouched, Quietly

(* WaitQueue and WaitCheck when the object is not signaled. *)
LEMMA PlaceParkedGoes ==
    ASSUME NEW points, NEW args, Base(points, args), PlaceInv,
           handler.pc \in ParkedPoints, NEW pc \in ParkedPoints \intersect points, Goto(pc),
           UNCHANGED <<wq, th_stat, r0>>
    PROVE  PlaceInv'
<1>0. HandlerTypeOK(points, args)
  BY DEF Base
<1>1. PICK x \in Threads : x = handler.self
  BY CallerFacts DEF ParkedPoints, TickPoints
<1>2. In(x, {}) /\ th_stat[x] = Stat(handler.wq, handler.ms # FOREVER)
      /\ \A t \in Threads \ {x} : Quietly(t)
  BY <1>1, OthersSettled, Zenon DEF PlaceInv, CallerPlace
<1>3. handler'.pc = pc /\ handler'.self = x /\ handler'.wq = handler.wq
      /\ handler'.ms = handler.ms
  BY <1>0, <1>1, GotoFacts
<1>4. In(x, {})' /\ \A t \in Threads \ {x} : Quietly(t)'
  BY <1>2, NoneTouched
<1> QED
  BY <1>2, <1>3, <1>4, PlaceParked, Zenon

LEMMA PlaceInsert ==
    ASSUME NEW points, NEW args, Common(points, args), Base(points, args), PlaceInv,
           WaitInsert
    PROVE  PlaceInv'
<1>0. StepTypes /\ HandlerTypeOK(points, args) /\ handler.pc = "insert"
  BY BaseTypes DEF Base, WaitInsert, At
<1>p. {"again", "defer", "clock"} \subseteq points
  BY DEF Common, WaitPoints
<1>1. PICK x \in Threads : x = handler.self
  BY <1>0, CallerFacts DEF TickPoints
<1>w. PICK w \in ObjectQueues : w = handler.wq
  BY <1>0, CallerFacts DEF TickPoints
<1>2. In(x, {}) /\ th_stat[x] = Stat(w, handler.ms # FOREVER)
      /\ \A t \in Threads \ {x} : Quietly(t)
  BY <1>0, <1>1, <1>w, OthersSettled, Zenon DEF PlaceInv, CallerPlace, ParkedPoints
<1>3. CASE RollBack
  BY <1>0, <1>p, <1>3, PlaceRollBack, Zenon DEF WaitInsert, ParkedPoints
<1>4. CASE /\ wq' = Insert(wq, handler.wq, handler.self)
           /\ Goto(IF handler.ms = FOREVER THEN "defer" ELSE "clock")
           /\ UNCHANGED th_stat
  <2>1. r0' = r0 /\ w \in Queues /\ w # WQ_CLOCK /\ WQ_CLOCK \in Queues
    BY ObjectIndices DEF WaitInsert
  <2>2. (\A t \in Threads \ {x} : SameRow(t)) /\ In(x, {} \union {w})'
    BY <1>0, <1>1, <1>w, <1>2, <1>4, <2>1, InsertRows, Zenon
  <2>3. In(x, {w})' /\ {w} \union {} = {w}
    BY <2>2
  <2>4. \A t \in Threads \ {x} : Quietly(t)'
    BY <1>2, <1>4, <2>1, <2>2, PlaceMoved, Zenon DEF Untouched
  <2>5. th_stat'[x] = [wq |-> w, timed |-> handler.ms # FOREVER]
    BY <1>2, <1>4
  <2>6. CASE handler.ms = FOREVER
    <3>1. handler'.pc = "defer"
      BY <1>0, <1>p, <1>4, <2>6, GotoFacts, Zenon
    <3>a. (handler.ms # FOREVER) = FALSE
      BY <2>6
    <3>b. th_stat'[x] = [wq |-> w, timed |-> FALSE]
      BY <2>5, <3>a, Zenon
    <3>2. th_stat'[x].wq = w /\ th_stat'[x].timed = FALSE
      BY <3>b
    <3>3. x \notin wq'[WQ_CLOCK]
      BY <2>1, <2>3 DEF In
    <3>4. Settled(x)'
      BY <2>3, <3>2, Zenon DEF Settled, In
    <3> QED
      BY <2>4, <3>1, <3>3, <3>4, PlaceQuiet
      DEF Quietly, ParkedPoints, LimitPoints, TakenPoints
  <2>7. CASE handler.ms # FOREVER
    <3>1. handler'.pc = "clock" /\ handler'.self = x /\ handler'.wq = w
      BY <1>0, <1>p, <1>1, <1>w, <1>4, <2>7, GotoFacts, Zenon
    <3>2. th_stat'[x] = Stat(handler'.wq, TRUE)
      BY <2>5, <2>7, <3>1, Zenon
    <3>3. In(x, {handler.wq})'
      BY <2>3, <3>1
    <3> QED
      BY <2>4, <3>1, <3>2, <3>3, PlaceLimited, Zenon DEF LimitPoints
  <2> QED
    BY <2>6, <2>7
<1> QED
  BY <1>3, <1>4 DEF WaitInsert

(* The time limit: the clock, the clock queue and the default result. *)
LEMMA PlaceLimit ==
    ASSUME NEW points, NEW args, Common(points, args), Base(points, args), PlaceInv,
           WaitClockSet \/ WaitClockQueue
    PROVE  PlaceInv'
<1>0. StepTypes /\ HandlerTypeOK(points, args) /\ handler.pc \in LimitPoints
  BY BaseTypes DEF Base, WaitClockSet, WaitClockQueue, At, LimitPoints
<1>p. {"wq_clock", "timeout"} \subseteq points
  BY DEF Common, WaitPoints
<1>1. PICK x \in Threads : x = handler.self
  BY <1>0, CallerFacts DEF TickPoints, LimitPoints
<1>w. PICK w \in ObjectQueues : w = handler.wq
  BY <1>0, CallerFacts DEF TickPoints, LimitPoints
<1>2. In(x, {w}) /\ th_stat[x] = Stat(w, TRUE) /\ \A t \in Threads \ {x} : Quietly(t)
  BY <1>0, <1>1, <1>w, OthersSettled, Zenon DEF PlaceInv, CallerPlace
<1>3. CASE WaitClockSet
  <2>1. UNCHANGED <<wq, th_stat, r0>> /\ Goto("wq_clock")
    BY <1>3 DEF WaitClockSet
  <2>2. handler'.pc = "wq_clock" /\ handler'.self = x /\ handler'.wq = w
    BY <1>0, <1>p, <1>1, <1>w, <2>1, GotoFacts, Zenon
  <2>3. In(x, {w})' /\ \A t \in Threads \ {x} : Quietly(t)'
    BY <1>2, <2>1, NoneTouched, Zenon
  <2>4. In(x, {handler.wq})'
    BY <2>2, <2>3
  <2> QED
    BY <1>2, <2>1, <2>2, <2>3, <2>4, PlaceLimited, Zenon DEF LimitPoints
<1>4. CASE WaitClockQueue
  <2>1. UNCHANGED <<th_stat, r0>> /\ Goto("timeout") /\ wq' = Insert(wq, WQ_CLOCK, x)
    BY <1>1, <1>4 DEF WaitClockQueue
  <2>2. handler'.pc = "timeout" /\ handler'.self = x
    BY <1>0, <1>p, <1>1, <1>w, <2>1, GotoFacts, Zenon
  <2>3. (\A t \in Threads \ {x} : SameRow(t)) /\ In(x, {w} \union {WQ_CLOCK})'
    BY <1>0, <1>2, <2>1, ObjectIndices, InsertRows, Zenon
  <2>4. \A t \in Threads \ {x} : Quietly(t)'
    BY <1>2, <2>1, <2>3, PlaceMoved, Zenon DEF Untouched
  <2>5. th_stat'[x].wq = w /\ th_stat'[x].timed = TRUE
    BY <1>2, <2>1
  <2>6. Settled(x)'
    BY <2>3, <2>5, Zenon DEF Settled, In
  <2> QED
    BY <2>2, <2>4, <2>6, Zenon
    DEF PlaceInv, Quietly, At, ParkedPoints, LimitPoints, TakenPoints,
        CallerPlace, TakenPlace, ExpiredPlace, TodoPlace, LimitResult
<1> QED
  BY <1>3, <1>4

LEMMA PlaceTimeout ==
    ASSUME NEW points, NEW args, Common(points, args), Base(points, args), PlaceInv,
           WaitTimeout
    PROVE  PlaceInv'
<1>0. StepTypes /\ HandlerTypeOK(points, args) /\ handler.pc = "timeout"
  BY BaseTypes DEF Base, WaitTimeout, At
<1>1. PICK x \in Threads : x = handler.self
  BY <1>0, CallerFacts DEF TickPoints
<1>2. r0' = [r0 EXCEPT ![x] = ETIMEDOUT] /\ UNCHANGED <<wq, th_stat>> /\ Goto("defer")
  BY <1>1 DEF WaitTimeout, Return
<1>3. handler'.pc = "defer"
  BY <1>0, <1>2, GotoFacts DEF Common
<1>4. Settled(x) /\ \A t \in Threads \ {x} : Quietly(t)
  BY <1>0, <1>1, OthersSettled
  DEF PlaceInv, Moving, ParkedPoints, LimitPoints, TakenPoints
<1>5. r0'[x] = ETIMEDOUT /\ \A t \in Threads \ {x} : r0'[t] = r0[t]
  BY <1>0, <1>2 DEF StepTypes
<1>6. \A t : Settled(t)' <=> Settled(t)
  BY <1>2, ZenonT(60) DEF Settled, In
<1>7. \A t \in Threads : Quietly(t)'
  BY <1>2, <1>4, <1>5, <1>6 DEF Quietly
<1> QED
  BY <1>3, <1>7, PlaceQuiet DEF ParkedPoints, LimitPoints, TakenPoints

(* The steps of the waits. *)
LEMMA PlaceWait ==
    ASSUME NEW points, NEW args, Common(points, args), Base(points, args), PlaceInv,
           NEW signaled, WaitStep(signaled)
    PROVE  PlaceInv'
<1>p. {"again", "queue", "check", "insert"} \subseteq points
  BY DEF Common, WaitPoints
<1>1. CASE WaitSuspend
  BY <1>p, <1>1, PlaceSuspend
<1>2. CASE WaitQueue
  BY <1>p, <1>2, PlaceParkedGoes DEF WaitQueue, At, ParkedPoints, rtVars
<1>3. CASE WaitCheck(signaled)
  BY <1>p, <1>3, PlaceParkedGoes, PlaceRollBack DEF WaitCheck, At, ParkedPoints
<1> QED
  BY <1>1, <1>2, <1>3, PlaceInsert, PlaceLimit, PlaceTimeout DEF WaitStep

-----------------------------------------------------------------------------
(* A step from a point at which no thread is moving to another one. *)
LEMMA PlaceStill ==
    ASSUME PlaceInv, UNCHANGED <<wq, th_stat, r0>>,
           handler.pc \notin ParkedPoints \union LimitPoints \union TakenPoints
                                \union {"expired", "timeout"},
           handler'.pc \notin {"again", "suspend", "scan", "expired"} \union ParkedPoints
                                  \union LimitPoints \union TakenPoints
    PROVE  PlaceInv'
<1>1. \A t \in Threads : Quietly(t)
  BY AllSettled
<1>2. \A t \in Threads : Quietly(t)'
  BY <1>1, NoneTouched
<1> QED
  BY <1>2, PlaceQuiet

LEMMA PlaceDefer ==
    ASSUME PlaceInv, Defer
    PROVE  PlaceInv'
<1>1. handler.pc = "defer" /\ UNCHANGED <<wq, th_stat, r0>> /\ handler'.pc = "none"
  BY DEF Defer, At, Done, NoHandler
<1> QED
  BY <1>1, PlaceStill DEF ParkedPoints, LimitPoints, TakenPoints

(* A thread is taken out of the queue of an object, ... *)
LEMMA PlaceTake ==
    ASSUME NEW points, NEW args, Base(points, args), PlaceInv,
           NEW found \in TakenPoints \intersect points, NEW empty \in points,
           handler.pc \notin TickPoints \union SuspendedPoints \union TakenPoints \union {"none"},
           empty \notin {"again", "suspend"} \union TickPoints \union SuspendedPoints
                            \union TakenPoints,
           TakeThread(found, empty)
    PROVE  PlaceInv'
<1> USE DEF TickPoints, SuspendedPoints
<1>0. StepTypes /\ HandlerTypeOK(points, args) /\ wq \in QMap /\ IdleReady(wq)
  BY BaseTypes DEF Base, StepTypes
<1>w. PICK w \in ObjectQueues : w = handler.wq
  BY CallerFacts
<1>1. UNCHANGED <<th_stat, r0>>
  BY DEF TakeThread
<1>2. \A t \in Threads : Quietly(t)
  BY AllSettled
<1>3. CASE Goto(empty) /\ UNCHANGED wq
  <2>1. handler'.pc = empty
    BY <1>0, <1>3, GotoFacts
  <2> QED
    BY <1>1, <1>3, <2>1, PlaceStill, Zenon
<1>4. CASE /\ wq[w] # {}
           /\ wq' = [wq EXCEPT ![w] = @ \ {WqHead(wq[w])}]
           /\ handler' = [handler EXCEPT !.pc = found, !.th = WqHead(wq[w])]
  <2>1. PICK x \in Threads : x = WqHead(wq[w]) /\ x \in wq[w]
    BY <1>0, <1>4, ObjectHead, Zenon DEF Base
  <2>2. handler'.pc = found /\ handler'.th = x
    BY <1>0, <1>4, <2>1 DEF HandlerTypeOK
  <2>3. w \in Queues /\ WQ_CLOCK \in Queues
    BY ObjectIndices
  <2>4. \A v \in Queues, t \in Slots : t \in wq'[v] <=> t \in wq[v] /\ ~(t = x /\ v = w)
    <3>1. wq' = Removed(wq, w, x)
      BY <1>4, <2>1 DEF Removed
    <3> QED
      BY <1>0, <2>3, <3>1, RemoveFacts
  <2>5. \A t \in Threads \ {x} : Quietly(t)'
    <3>1. \A t \in Threads \ {x} : SameRow(t)
      BY <2>4, SlotNumbers, Zenon DEF SameRow
    <3> QED
      BY <1>1, <1>2, <3>1, PlaceMoved, Zenon DEF Untouched
  <2>6. In(x, {w}) \/ In(x, {w, WQ_CLOCK})
    <3>1. In(x, {w} \union (IF th_stat[x].timed THEN {WQ_CLOCK} ELSE {}))
      BY <1>2, <2>1, ObjectSettled, Zenon DEF Quietly
    <3> QED
      BY <3>1 DEF In
  <2>7. In(x, {})' \/ In(x, {WQ_CLOCK})'
    BY <2>4, <2>6, SlotNumbers, ObjectIndices DEF In
  <2>8. x \in wq'[WQ_CLOCK] => r0'[x] = ETIMEDOUT
    BY <1>1, <1>2, <2>3, <2>4, SlotNumbers, Zenon DEF Quietly
  <2> QED
    BY <2>2, <2>5, <2>7, <2>8, PlaceTaken, Zenon
<1> QED
  BY <1>w, <1>3, <1>4, Zenon DEF TakeThread

(* Waking a thread leaves the others where they are. *)
LEMMA WakeRows ==
    ASSUME StepTypes, NEW x \in Threads, NEW w \in ObjectQueues, wq' = Wakeup(wq, w, x)
    PROVE  /\ \A t \in Threads \ {x} : SameRow(t)
           /\ \A S : S \subseteq {w, WQ_CLOCK, WQ_READY} /\ In(x, S) => In(x, {WQ_READY})'
           /\ wq[WQ_READY] \subseteq wq'[WQ_READY]
<1>1. wq \in QMap /\ IdleReady(wq)
  BY DEF StepTypes
<1>2. /\ wq' \in QMap
      /\ \A v \in Queues, t \in Slots :
            t \in wq'[v] <=> \/ t = x /\ v = WQ_READY
                             \/ t \in wq[v] /\ (t = x => v # w /\ v # WQ_CLOCK)
  BY <1>1, WakeupFacts
<1>3. \A t \in Threads \ {x} : SameRow(t)
  BY <1>2, SlotNumbers DEF SameRow
<1>4. ASSUME NEW S, S \subseteq {w, WQ_CLOCK, WQ_READY}, In(x, S)
      PROVE  In(x, {WQ_READY})'
  BY <1>2, <1>4, SlotNumbers DEF In
<1>5. wq[WQ_READY] \subseteq wq'[WQ_READY]
  BY <1>1, <1>2, ObjectIndices DEF QMap
<1> QED
  BY <1>3, <1>4, <1>5

(* ... and made ready. *)
LEMMA PlaceWake ==
    ASSUME NEW points, NEW args, Common(points, args), Base(points, args), PlaceInv,
           At("wakeup"), NEW v \in Int, WakeThread(v)
    PROVE  PlaceInv'
<1>0. StepTypes /\ HandlerTypeOK(points, args)
  BY BaseTypes DEF Base
<1>1. PICK x \in Threads : x = handler.th
  BY DEF Base, SwitchInv, At, TakenPoints
<1>w. PICK w \in ObjectQueues : w = handler.wq
  BY CallerFacts DEF At, TickPoints
<1>2. /\ wq' = Wakeup(wq, w, x) /\ Goto("defer")
      /\ r0' = [r0 EXCEPT ![x] = v] /\ th_stat' = [th_stat EXCEPT ![x] = NoStat]
  BY <1>1, <1>w, Zenon DEF WakeThread
<1>3. handler'.pc = "defer"
  BY <1>0, <1>2, GotoFacts, Zenon DEF Common
<1>4. (In(x, {}) \/ In(x, {WQ_CLOCK})) /\ \A t \in Threads \ {x} : Quietly(t)
  BY <1>1, OthersSettled, Zenon DEF PlaceInv, TakenPlace, At, TakenPoints
<1>5. (\A t \in Threads \ {x} : SameRow(t)) /\ In(x, {WQ_READY})'
  BY <1>0, <1>2, <1>4, WakeRows, Zenon
<1>6. th_stat'[x] = NoStat /\ \A t \in Threads \ {x} : th_stat'[t] = th_stat[t]
  BY <1>0, <1>2, StatOf, Zenon
<1>7. \A t \in Threads \ {x} : r0'[t] = r0[t]
  BY <1>0, <1>2, Zenon DEF StepTypes
<1>8. \A t \in Threads \ {x} : Quietly(t)'
  BY <1>4, <1>5, <1>6, <1>7, PlaceMoved, Zenon DEF Untouched
<1>9. Quietly(x)'
  BY <1>5, <1>6, ObjectIndices DEF Quietly, Settled, In
<1> QED
  BY <1>3, <1>8, <1>9, PlaceQuiet DEF ParkedPoints, LimitPoints, TakenPoints

(* An interrupt handler has woken x, which was in the queue w, and has not *)
(* touched the others.                                                     *)
Woken(x, w) ==
    /\ x \in wq[w]
    /\ In(x, {WQ_READY})' /\ th_stat'[x] = NoStat
    /\ \A t \in Threads \ {x} : Untouched(t)
    /\ UNCHANGED handler

LEMMA IsrWoken ==
    ASSUME NEW points, NEW args, Base(points, args), PlaceInv,
           handler.pc \notin LimitPoints,
           NEW w \in ObjectQueues, wq[w] # {}, NEW v \in Int,
           IsrWake(w, WqHead(wq[w]), v), UNCHANGED handler
    PROVE  \E x \in Threads : Woken(x, w)
<1>0. StepTypes /\ wq \in QMap /\ IdleReady(wq)
  BY BaseTypes DEF StepTypes
<1>1. PICK x \in Threads : x = WqHead(wq[w]) /\ x \in wq[w]
  BY <1>0, ObjectHead DEF Base
<1>2. /\ wq' = Wakeup(wq, w, x)
      /\ r0' = [r0 EXCEPT ![x] = v] /\ th_stat' = [th_stat EXCEPT ![x] = NoStat]
  BY <1>1, Zenon DEF IsrWake
<1>3. In(x, {w}) \/ In(x, {w, WQ_CLOCK})
  BY <1>1, WaiterPlace
<1>4. In(x, {WQ_READY})' /\ \A t \in Threads \ {x} : SameRow(t)
  BY <1>0, <1>2, <1>3, WakeRows, Zenon
<1>5. th_stat'[x] = NoStat /\ \A t \in Threads \ {x} : th_stat'[t] = th_stat[t]
  BY <1>0, <1>2, StatOf, ZenonT(60)
<1>6. \A t \in Threads \ {x} : r0'[t] = r0[t]
  BY <1>0, <1>2, Zenon DEF StepTypes
<1>7. \A t \in Threads \ {x} : Untouched(t)
  BY <1>4, <1>5, <1>6, Zenon DEF Untouched
<1> QED
  BY <1>1, <1>4, <1>5, <1>7, Zenon DEF Woken

(* All threads are where PlaceInv says. *)
LEMMA WokenSettled ==
    ASSUME PlaceInv, handler.pc \notin LimitPoints \union {"timeout"},
           NEW x \in Threads, NEW w \in ObjectQueues, Woken(x, w)
    PROVE  (\A t \in Threads : Moving(t) \/ Settled(t))' /\ LimitResult'
<1>1. Settled(x)' /\ x \notin wq'[WQ_CLOCK]
  BY ObjectIndices DEF Woken, Settled, In
<1>2. ASSUME NEW t \in Threads \ {x}
      PROVE  /\ Settled(t)' <=> Settled(t)
             /\ t \in wq'[WQ_CLOCK] <=> t \in wq[WQ_CLOCK]
             /\ r0'[t] = r0[t]
  <2>1. Untouched(t)
    BY DEF Woken
  <2> QED
    BY <2>1, UntouchedSettled DEF Untouched
<1>3. (\A t \in Threads : Moving(t) \/ Settled(t))'
  BY <1>1, <1>2, Zenon DEF PlaceInv, Moving, Woken
<1>4. LimitResult'
  BY <1>1, <1>2 DEF PlaceInv, LimitResult, At
<1> QED
  BY <1>3, <1>4

(* A thread that was ready, or in no queue but the clock's, is not the one *)
(* woken.                                                                  *)
LEMMA WokenOther ==
    ASSUME NEW x \in Threads, NEW w \in ObjectQueues, Woken(x, w),
           NEW y \in Threads, NEW S, w \notin S, In(y, S)
    PROVE  In(y, S)' /\ th_stat'[y] = th_stat[y]
<1>1. y # x
  BY ObjectIndices DEF Woken, In
<1>2. SameRow(y) /\ th_stat'[y] = th_stat[y]
  BY <1>1 DEF Woken, Untouched
<1> QED
  BY <1>2, RowIn

LEMMA WokenCaller ==
    ASSUME PlaceInv, handler.pc \notin LimitPoints,
           handler.pc \in {"again", "suspend"} \union ParkedPoints => handler.self \in Threads,
           NEW x \in Threads, NEW w \in ObjectQueues, Woken(x, w)
    PROVE  CallerPlace'
<1>h. UNCHANGED handler
  BY DEF Woken
<1>1. ASSUME handler.pc \in {"again", "suspend"}
      PROVE  handler.self \in wq'[WQ_READY]
  <2>1. PICK y \in Threads : y = handler.self /\ y \in wq[WQ_READY]
    BY <1>1, Zenon DEF PlaceInv, CallerPlace
  <2>2. y = x \/ SameRow(y)
    BY DEF Woken, Untouched
  <2>3. y \in wq'[WQ_READY]
    BY <2>1, <2>2, ObjectIndices, Zenon DEF Woken, In, SameRow
  <2> QED
    BY <2>1, <2>3
<1>2. ASSUME handler.pc \in ParkedPoints
      PROVE  /\ th_stat'[handler.self] = Stat(handler.wq, handler.ms # FOREVER)
             /\ In(handler.self, {})'
  <2>1. PICK y \in Threads : y = handler.self
    BY <1>2
  <2>2. In(y, {}) /\ th_stat[y] = Stat(handler.wq, handler.ms # FOREVER)
    BY <1>2, <2>1, Zenon DEF PlaceInv, CallerPlace
  <2>3. In(y, {})' /\ th_stat'[y] = th_stat[y]
    BY <2>2, WokenOther
  <2> QED
    BY <1>h, <2>1, <2>2, <2>3, Zenon
<1> QED
  BY <1>h, <1>1, <1>2, Zenon DEF CallerPlace

LEMMA WokenTaken ==
    ASSUME PlaceInv,
           handler.pc \in TakenPoints \union {"expired"} => handler.th \in Threads,
           NEW x \in Threads, NEW w \in ObjectQueues, Woken(x, w)
    PROVE  TakenPlace' /\ ExpiredPlace'
<1>h. UNCHANGED handler
  BY DEF Woken
<1>i. w \notin {} /\ w \notin {WQ_CLOCK} /\ w \notin {WQ_READY}
  BY ObjectIndices
<1>1. ASSUME handler.pc \in TakenPoints
      PROVE  In(handler.th, {})' \/ In(handler.th, {WQ_CLOCK})'
  <2>1. PICK y \in Threads : y = handler.th
    BY <1>1
  <2>2. In(y, {}) \/ In(y, {WQ_CLOCK})
    BY <1>1, <2>1 DEF PlaceInv, TakenPlace
  <2>3. In(y, {})' \/ In(y, {WQ_CLOCK})'
    BY <1>i, <2>2, WokenOther
  <2> QED
    BY <1>h, <2>1, <2>3
<1>2. ASSUME handler.pc = "expired"
      PROVE  /\ th_stat'[handler.th] = NoStat
             /\ \/ In(handler.th, {WQ_READY})'
                \/ /\ handler.wq \in ObjectQueues
                   /\ In(handler.th, {handler.wq, WQ_CLOCK})'
  <2>1. PICK y \in Threads : y = handler.th
    BY <1>2
  <2>2. PICK u : u = handler.wq
    BY SMTT(60)
  <2>3. /\ th_stat[y] = NoStat
        /\ In(y, {WQ_READY}) \/ (u \in ObjectQueues /\ In(y, {u, WQ_CLOCK}))
    BY <1>2, <2>1, <2>2, Zenon DEF PlaceInv, ExpiredPlace, At
  <2>4. CASE y = x
    BY <1>h, <2>1, <2>4 DEF Woken
  <2>5. CASE y # x
    <3>1. SameRow(y) /\ th_stat'[y] = th_stat[y]
      BY <2>5 DEF Woken, Untouched
    <3>2. In(y, {WQ_READY})' \/ (u \in ObjectQueues /\ In(y, {u, WQ_CLOCK})')
      BY <2>3, <3>1, RowIn
    <3> QED
      BY <1>h, <2>1, <2>2, <2>3, <3>1, <3>2, Zenon
  <2> QED
    BY <2>4, <2>5, Zenon
<1> QED
  BY <1>h, <1>1, <1>2, Zenon DEF TakenPlace, ExpiredPlace, At

LEMMA WokenTodo ==
    ASSUME PlaceInv, handler.todo \subseteq Threads,
           NEW x \in Threads, NEW w \in ObjectQueues, Woken(x, w)
    PROVE  TodoPlace'
<1>1. ASSUME NEW t \in Threads, t \in wq[WQ_CLOCK] \union wq[WQ_READY]
      PROVE  t \in wq'[WQ_CLOCK] \union wq'[WQ_READY]
  <2>1. t = x \/ SameRow(t)
    BY DEF Woken, Untouched
  <2> QED
    BY <1>1, <2>1, ObjectIndices, Zenon DEF Woken, In, SameRow
<1> QED
  BY <1>1 DEF PlaceInv, TodoPlace, Woken

(* An interrupt handler wakes the first thread of the queue of an object,  *)
(* when no wait is setting a time limit.                                   *)
LEMMA PlaceIsrWake ==
    ASSUME NEW points, NEW args, Base(points, args), PlaceInv,
           handler.pc \notin LimitPoints \union {"timeout"},
           NEW w \in ObjectQueues, wq[w] # {}, NEW v \in Int,
           IsrWake(w, WqHead(wq[w]), v), UNCHANGED handler
    PROVE  PlaceInv'
<1>1. PICK x \in Threads : Woken(x, w)
  BY IsrWoken
<1>2. /\ handler.pc \in {"again", "suspend"} \union ParkedPoints => handler.self \in Threads
      /\ handler.pc \in TakenPoints \union {"expired"} => handler.th \in Threads
  BY CallerFacts, ZenonT(60) DEF Base, SwitchInv, ParkedPoints, TickPoints
<1>3. handler.todo \subseteq Threads
  BY Zenon DEF Base, HandlerTypeOK
<1> QED
  BY <1>1, <1>2, <1>3, WokenSettled, WokenCaller, WokenTaken, WokenTodo, Zenon DEF PlaceInv

(* ... or finds nobody. *)
LEMMA PlaceIsr ==
    ASSUME NEW points, NEW args, Base(points, args), PlaceInv,
           handler.pc \notin LimitPoints \union {"timeout"},
           NEW w \in ObjectQueues, NEW v \in Int, IsrEnd,
           \/ UNCHANGED <<wq, r0, th_stat>>
           \/ wq[w] # {} /\ IsrWake(w, WqHead(wq[w]), v)
    PROVE  PlaceInv'
<1>1. UNCHANGED handler
  BY DEF IsrEnd
<1>2. CASE UNCHANGED <<wq, r0, th_stat>>
  BY <1>1, <1>2, ZenonT(60) DEF PlaceInv, Moving, Settled, In, At, CallerPlace, TakenPlace,
     ExpiredPlace, TodoPlace, LimitResult
<1> QED
  BY <1>1, <1>2, PlaceIsrWake

-----------------------------------------------------------------------------
(* The tick. *)
LEMMA PlaceTickStart ==
    ASSUME NEW points, NEW args, Common(points, args), Base(points, args), PlaceInv, TickStart
    PROVE  PlaceInv'
<1>1. handler'.pc = "scan" /\ handler'.todo = wq[WQ_CLOCK] /\ UNCHANGED <<wq, th_stat, r0>>
  BY BaseTickStart
<1>2. \A t \in Threads : Quietly(t)
  BY AllSettled DEF TickStart, Idling, NoHandler, ParkedPoints, LimitPoints, TakenPoints
<1>3. \A t \in Threads : Quietly(t)'
  BY <1>1, <1>2, NoneTouched
<1> QED
  BY <1>1, <1>3, PlaceScanning

(* The thread looked at is waiting with a time limit, or has been woken by *)
(* an interrupt since the clock queue was copied.                          *)
LEMMA PlaceTickScan ==
    ASSUME NEW points, NEW args, Common(points, args), Base(points, args), PlaceInv, TickScan
    PROVE  PlaceInv'
<1>0. StepTypes /\ HandlerTypeOK(points, args) /\ handler.pc = "scan"
  BY BaseTypes DEF Base, TickScan, At
<1>1. UNCHANGED <<wq, r0>>
  BY DEF TickScan
<1>2. \A t \in Threads : Quietly(t)
  BY <1>0, AllSettled DEF ParkedPoints, LimitPoints, TakenPoints
<1>3. CASE Goto("share") /\ UNCHANGED th_stat
  <2>1. handler'.pc = "share"
    BY <1>0, <1>3, GotoFacts DEF Common, TickPoints
  <2> QED
    BY <1>0, <1>1, <1>3, <2>1, PlaceStill DEF ParkedPoints, LimitPoints, TakenPoints
<1>t. handler.todo \subseteq wq[WQ_CLOCK] \union wq[WQ_READY] /\ handler.todo \subseteq Threads
  BY <1>0 DEF PlaceInv, TodoPlace, HandlerTypeOK
<1>4. CASE \E th : UNCHANGED th_stat /\ handler' = [handler EXCEPT !.todo = @ \ {th}]
  <2>1. handler'.pc = "scan" /\ handler'.todo \subseteq handler.todo
    BY <1>0, <1>4 DEF HandlerTypeOK
  <2>2. \A t \in Threads : Quietly(t)'
    BY <1>1, <1>2, <1>4, NoneTouched
  <2> QED
    BY <1>1, <1>t, <2>1, <2>2, PlaceScanning
<1>5. CASE /\ handler.todo # {}
           /\ handler' = [handler EXCEPT !.pc = "expired", !.th = WqHead(handler.todo),
                             !.wq = th_stat[WqHead(handler.todo)].wq,
                             !.todo = @ \ {WqHead(handler.todo)}]
           /\ th_stat' = [th_stat EXCEPT ![WqHead(handler.todo)] = NoStat]
  <2>1. PICK x \in Threads : x = WqHead(handler.todo) /\ x \in handler.todo
    <3>1. handler.todo \in SUBSET Slots
      BY <1>t, SlotNumbers
    <3>2. IsHead(handler.todo, WqHead(handler.todo))
      BY <1>5, <3>1, HeadExists DEF Base
    <3> QED
      BY <1>t, <3>2 DEF IsHead
  <2>2. /\ handler'.pc = "expired" /\ handler'.th = x /\ handler'.wq = th_stat[x].wq
        /\ handler'.todo \subseteq handler.todo
    BY <1>0, <1>5, <2>1 DEF HandlerTypeOK
  <2>3. th_stat'[x] = NoStat /\ \A t \in Threads \ {x} : th_stat'[t] = th_stat[t]
    BY <1>0, <1>5, <2>1, StatOf, ZenonT(60)
  <2>4. \A t \in Threads \ {x} : Quietly(t)'
    <3>1. \A t \in Threads \ {x} : SameRow(t)
      BY <1>1 DEF SameRow
    <3> QED
      BY <1>1, <1>2, <2>3, <3>1, PlaceMoved, Zenon DEF Untouched
  <2>5. PICK u : u = th_stat[x].wq
    OBVIOUS
  <2>6. In(x, {WQ_READY}) \/ (u \in ObjectQueues /\ In(x, {u, WQ_CLOCK}))
    BY <1>2, <1>t, <2>1, <2>5, ReadySettled, ClockSettled, Zenon DEF Quietly
  <2>7. In(x, {WQ_READY})' \/ (u \in ObjectQueues /\ In(x, {u, WQ_CLOCK})')
    BY <1>1, <2>6 DEF In
  <2>8. ExpiredPlace'
    BY <2>2, <2>3, <2>5, <2>7, Zenon DEF ExpiredPlace
  <2>9. (\A t \in Threads : Moving(t) \/ Settled(t))'
    BY <2>2, <2>4 DEF Moving, Quietly
  <2>10. LimitResult'
    BY <1>1, <1>2 DEF Quietly, LimitResult
  <2>11. CallerPlace' /\ TakenPlace' /\ TodoPlace'
    BY <1>1, <1>t, <2>2, Zenon
    DEF CallerPlace, TakenPlace, TodoPlace, ParkedPoints, LimitPoints, TakenPoints
  <2> QED
    BY <2>8, <2>9, <2>10, <2>11 DEF PlaceInv
<1> QED
  BY <1>3, <1>4, <1>5, Zenon DEF TickScan

LEMMA PlaceTickExpired ==
    ASSUME NEW points, NEW args, Common(points, args), Base(points, args), PlaceInv,
           TickExpired
    PROVE  PlaceInv'
<1>0. StepTypes /\ HandlerTypeOK(points, args) /\ handler.pc = "expired"
      /\ wq \in QMap /\ IdleReady(wq)
  BY BaseTypes, Zenon DEF Base, TickExpired, At, StepTypes
<1>1. PICK x \in Threads : x = handler.th
  BY <1>0, Zenon DEF Base, SwitchInv
<1>w. PICK w \in Queues : w = handler.wq
  BY <1>0 DEF HandlerTypeOK
<1>2. wq' = TimedOut(wq, w, x) /\ Goto("scan") /\ UNCHANGED <<th_stat, r0>>
  BY <1>1, <1>w, Zenon DEF TickExpired, TimedOut, Removed
<1>3. handler'.pc = "scan" /\ handler'.todo = handler.todo
  BY <1>0, <1>2, GotoFacts, Zenon DEF Common, TickPoints
<1>4. \A v \in Queues, t \in Slots :
         t \in wq'[v] <=> \/ t = x /\ v = WQ_READY
                          \/ t \in wq[v] /\ (t = x => v # w /\ v # WQ_CLOCK)
  BY <1>0, <1>2, ExpireFacts
<1>5. th_stat[x] = NoStat /\ (In(x, {WQ_READY}) \/ In(x, {w, WQ_CLOCK}))
      /\ \A t \in Threads \ {x} : Quietly(t)
  BY <1>0, <1>1, <1>w, OthersSettled, Zenon DEF PlaceInv, ExpiredPlace, At
<1>6. \A t \in Threads \ {x} : SameRow(t)
  BY <1>4, SlotNumbers, Zenon DEF SameRow
<1>7. \A t \in Threads \ {x} : Quietly(t)'
  BY <1>2, <1>5, <1>6, PlaceMoved, Zenon DEF Untouched
<1>8. In(x, {WQ_READY})'
  BY <1>4, <1>5, SlotNumbers, ObjectIndices, Zenon DEF In
<1>9. x \in wq'[WQ_READY] /\ x \notin wq'[WQ_CLOCK]
  BY <1>8, ObjectIndices DEF In
<1>10. Quietly(x)'
  BY <1>2, <1>5, <1>8, <1>9, Zenon DEF Quietly, Settled
<1>11. handler'.todo \subseteq wq'[WQ_CLOCK] \union wq'[WQ_READY]
  <2>1. handler.todo \subseteq wq[WQ_CLOCK] \union wq[WQ_READY] /\ handler.todo \subseteq Threads
    BY <1>0 DEF PlaceInv, TodoPlace, HandlerTypeOK
  <2>2. \A t \in Threads \ {x} : /\ t \in wq'[WQ_CLOCK] <=> t \in wq[WQ_CLOCK]
                                 /\ t \in wq'[WQ_READY] <=> t \in wq[WQ_READY]
    BY <1>6, ObjectIndices DEF SameRow
  <2> QED
    BY <1>3, <1>9, <2>1, <2>2
<1> QED
  BY <1>3, <1>7, <1>10, <1>11, PlaceScanning

LEMMA PlaceTickShare ==
    ASSUME NEW points, NEW args, Base(points, args), PlaceInv, TickShare
    PROVE  PlaceInv'
<1>0. wq \in QMap /\ IdleReady(wq) /\ handler.pc = "share"
  BY BaseTypes DEF StepTypes, TickShare, At
<1>1. wq' = Timeshare(wq) /\ handler'.pc = "none" /\ UNCHANGED <<th_stat, r0>>
  BY DEF TickShare, Done, NoHandler
<1>2. CASE ~Shared(wq)
  BY <1>0, <1>1, <1>2, PlaceStill DEF Timeshare, ParkedPoints, LimitPoints, TakenPoints
<1>3. CASE Shared(wq)
  <2>1. active \in Threads /\ active \in wq[WQ_READY]
    BY <1>3, ChargeFacts
  <2>2. wq' = Suspend(Insert(wq, WQ_TMSHARE, active), active)
    BY <1>1, <1>3 DEF Timeshare
  <2>3. /\ \A v \in Queues \ {WQ_READY, WQ_TMSHARE} : wq'[v] = wq[v]
        /\ \A t \in Slots :
              /\ t \in wq'[WQ_READY] \/ t \in wq'[WQ_TMSHARE]
                    <=> t \in wq[WQ_READY] \/ t \in wq[WQ_TMSHARE]
              /\ ~(t \in wq[WQ_READY] /\ t \in wq[WQ_TMSHARE]) =>
                    ~(t \in wq'[WQ_READY] /\ t \in wq'[WQ_TMSHARE])
    BY <1>0, <2>1, <2>2, ShareFacts
  <2>4. \A t \in Threads : Quietly(t)
    BY <1>0, AllSettled DEF ParkedPoints, LimitPoints, TakenPoints
  <2>5. ASSUME NEW t \in Threads
        PROVE  Quietly(t)'
    BY <1>1, <2>3, <2>4, SlotNumbers, ReadyMoves, Zenon
  <2> QED
    BY <1>1, <2>5, PlaceQuiet DEF ParkedPoints, LimitPoints, TakenPoints
<1> QED
  BY <1>2, <1>3

(* The context switch, and the calls. *)
LEMMA PlaceSwitch ==
    ASSUME PlaceInv, Idling, PendSV, UNCHANGED handlerVars
    PROVE  PlaceInv'
<1>1. UNCHANGED <<wq, th_stat, r0, handler>> /\ handler.pc = "none"
  BY DEF PendSV, handlerVars, Idling, NoHandler
<1> QED
  BY <1>1, PlaceStill DEF ParkedPoints, LimitPoints, TakenPoints

LEMMA PlaceReply ==
    ASSUME NEW points, NEW args, Base(points, args), PlaceInv,
           NEW self \in Threads, Entered(self), NEW v \in Int, Reply(self, v),
           handler'.pc \in {"again", "suspend"} => handler'.self = self,
           handler'.pc \notin {"scan", "expired"} \union ParkedPoints
                                  \union LimitPoints \union TakenPoints
    PROVE  PlaceInv'
<1>0. StepTypes
  BY BaseTypes
<1>1. handler.pc = "none" /\ self \in wq[WQ_READY]
  BY CallFacts
<1>2. r0' = [r0 EXCEPT ![self] = v] /\ UNCHANGED <<wq, th_stat>>
  BY DEF Reply, Return
<1>3. \A t \in Threads : Quietly(t)
  BY <1>1, AllSettled DEF ParkedPoints, LimitPoints, TakenPoints
<1>4. self \notin wq[WQ_CLOCK]
  <2>1. Settled(self)
    BY <1>3 DEF Quietly
  <2>2. In(self, {WQ_READY})
    BY <1>1, <2>1, ReadySettled
  <2>3. WQ_CLOCK \in Queues \ {WQ_READY}
    BY ObjectIndices
  <2> QED
    BY <2>2, <2>3 DEF In
<1>5. \A t : Settled(t)' <=> Settled(t)
  BY <1>2, ZenonT(60) DEF Settled, In
<1>6. \A t \in Threads \ {self} : r0'[t] = r0[t]
  BY <1>0, <1>2 DEF StepTypes
<1>7. \A t \in Threads : Quietly(t)'
  BY <1>2, <1>3, <1>4, <1>5, <1>6 DEF Quietly
<1>8. CASE handler'.pc \in {"again", "suspend"}
  BY <1>1, <1>2, <1>7, <1>8, PlaceCalling
<1>9. CASE handler'.pc \notin {"again", "suspend"}
  BY <1>7, <1>9, PlaceQuiet
<1> QED
  BY <1>8, <1>9
=============================================================================
