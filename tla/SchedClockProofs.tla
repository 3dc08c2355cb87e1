--------------------------- MODULE SchedClockProofs ---------------------------
(***************************************************************************)
(* The scheduler and the clock of SchedClock, for every number of threads, *)
(* every width of the tick counter and any nesting of critical sections.   *)
(***************************************************************************)
EXTENDS SchedClock, TLAPS, WellFoundedInduction

USE DEF WQ_READY, WQ_TMSHARE, WQ_CLOCK, NoStat, Stat

-----------------------------------------------------------------------------
(* The indices of the ready, time share and clock queues. *)
LEMMA Indices == {0, 1, 2} \subseteq Queues /\ Queues \subseteq Nat
BY RtAssumption
   DEF Queues, MUTEX_BASE, COND_BASE, SEM_BASE, EVENT_BASE, FLAG_BASE, GATE_BASE,
       JOIN_BASE, WQ_PAUSED, WQ_CANCELED, WQ_LST_END

(* Threads and slots are numbers, and the idle thread is not a thread. *)
LEMMA SlotNumbers ==
    /\ Threads \subseteq Slots
    /\ Slots \subseteq Nat
    /\ IDLE \in Slots \ Threads
    /\ Slots = Threads \union {IDLE}
    /\ \A th \in Threads : th < IDLE
    /\ Slots \subseteq 0 .. VOID
    /\ VOID \notin Slots
BY RtAssumption DEF Threads, Slots, IDLE, VOID

(* __thinkos_wq_head() finds the lowest thread of a queue that is not empty *)
LEMMA HeadExists ==
    ASSUME HeadsExist, NEW S \in SUBSET Slots, S # {}
    PROVE  IsHead(S, WqHead(S))
<1>1. S \in SUBSET Nat
  BY SlotNumbers
<1> QED
  BY <1>1 DEF HeadsExist

(* Everything __thinkos_suspend() does to the queues. *)
LEMMA SuspendFacts ==
    ASSUME NEW q \in QMap, NEW th \in Threads, NEW s, s = Suspend(q, th),
           IDLE \in q[WQ_READY], IDLE \notin q[WQ_TMSHARE]
    PROVE  /\ s \in QMap
           /\ \A w \in Queues \ {WQ_READY, WQ_TMSHARE} : s[w] = q[w]
           /\ s[WQ_READY] = {IDLE} => s[WQ_TMSHARE] = {}
           /\ IDLE \in s[WQ_READY] /\ IDLE \notin s[WQ_TMSHARE]
           /\ \A t \in Slots : t \in s[WQ_READY] =>
                                  \/ t \in q[WQ_READY] /\ t # th
                                  \/ t \in q[WQ_TMSHARE] /\ s[WQ_TMSHARE] = {}
           /\ \A t \in Slots : t \in s[WQ_TMSHARE] => t \in q[WQ_TMSHARE]
           /\ \A t \in Slots : t \in q[WQ_READY] /\ t # th => t \in s[WQ_READY]
           /\ \A t \in q[WQ_TMSHARE] : t \in s[WQ_READY] \union s[WQ_TMSHARE]
           /\ th \in s[WQ_READY] => th \notin s[WQ_TMSHARE]
BY Indices, SlotNumbers DEF Suspend, QMap

(* Remainders of what is less than a range away from 0. *)
LEMMA ModRange ==
    ASSUME NEW N \in Nat \ {0}
    PROVE  /\ \A x \in Int : x % N \in 0 .. N - 1
           /\ \A x \in 0 .. N - 1 : x % N = x
           /\ \A x \in (-N) .. -1 : x % N = x + N
           /\ \A x \in N .. 2 * N - 1 : x % N = x - N
<1>1. \A x \in Int : x % N \in 0 .. N - 1
  OBVIOUS
<1>2. \A x \in 0 .. N - 1 : x % N = x
  OBVIOUS
<1>3. \A x \in (-N) .. -1 : x % N = x + N
  OBVIOUS
<1>4. \A x \in N .. 2 * N - 1 : x % N = x - N
  OBVIOUS
<1> QED
  BY <1>1, <1>2, <1>3, <1>4

(* The tick counter wraps around within its type. *)
LEMMA TickAddType ==
    ASSUME NEW t \in Ticks, NEW ms \in Nat
    PROVE  TickAdd(t, ms) \in Ticks
<1>1. t + ms \in Nat /\ 2 * CLOCK_HALF \in Nat \ {0}
  BY RtAssumption DEF Ticks
<1>2. \A a \in Nat, b \in Nat \ {0} : a % b \in 0 .. b - 1
  OBVIOUS
<1> QED
  BY <1>1, <1>2 DEF TickAdd, Ticks

(* The types of the queues and of the status words. *)
LEMMA RtTypes ==
    ASSUME RtTypeOK
    PROVE  wq \in QMap /\ th_stat \in SMap
BY DEF RtTypeOK, QMap, SMap, Slots

-----------------------------------------------------------------------------
(* The lowest bit of a bitmap that is not 0. *)
LEMMA LowestBit ==
    ASSUME NEW S \in SUBSET Nat, S # {}
    PROVE  IsHead(S, WqHead(S))
<1>1. S \subseteq Nat
  OBVIOUS
<1>2. \E x \in S : \A y \in S : ~(<<y, x>> \in OpToRel(<, Nat))
  BY <1>1, WFMin, NatLessThanWellFounded, Zenon
<1>3. \A x, y \in Nat : y < x => <<y, x>> \in OpToRel(<, Nat)
  BY DEF OpToRel
<1>4. \E x \in S : \A y \in S : ~(y < x)
  BY <1>1, <1>2, <1>3, Zenon
<1>5. \E x \in S : \A y \in S : x <= y
  BY <1>1, <1>4
<1> QED
  BY <1>5, Zenon DEF IsHead, WqHead

LEMMA HeadsAlways == HeadsExist
BY LowestBit, Zenon DEF HeadsExist

(* The queues. *)

(* The threads whose time is up at the next tick, and the queues then. *)
Woken == {th \in wq[WQ_CLOCK] : Expired(clock[th], TickAdd(ticks, 1))}
Awake == TimeWakeup(wq, Woken)

(* The wake ups of a tick. *)
LEMMA AwakeFacts ==
    ASSUME wq \in QMap, IdleReady(wq)
    PROVE  /\ Woken \subseteq Threads
           /\ Woken \subseteq wq[WQ_CLOCK]
           /\ Awake \in QMap
           /\ IdleReady(Awake)
           /\ Awake[WQ_READY] = wq[WQ_READY] \union Woken
           /\ Awake[WQ_CLOCK] = wq[WQ_CLOCK] \ Woken
           /\ Awake[WQ_TMSHARE] \subseteq wq[WQ_TMSHARE]
           /\ Apart(wq) => Apart(Awake)
<1>1. Woken \subseteq wq[WQ_CLOCK]
  BY DEF Woken
<1>2. Woken \subseteq Threads
  BY <1>1, Indices, SlotNumbers DEF QMap, IdleReady
<1> HIDE DEF Woken
<1>3. /\ Awake[WQ_READY] = wq[WQ_READY] \union Woken
      /\ Awake[WQ_CLOCK] = wq[WQ_CLOCK] \ Woken
      /\ Awake[WQ_TMSHARE] \subseteq wq[WQ_TMSHARE]
  BY Indices DEF Awake, TimeWakeup
<1>4. Awake \in QMap
  <2>1. ASSUME NEW w \in Queues
        PROVE  Awake[w] \in SUBSET Slots
    <3>1. Awake[w] \subseteq wq[w] \union Woken
      BY DEF Awake, TimeWakeup
    <3> QED
      BY <1>2, <3>1, SlotNumbers, Zenon DEF QMap
  <2> QED
    BY <2>1, Zenon DEF Awake, TimeWakeup, QMap
<1>5. IdleReady(Awake)
  <2>1. ASSUME NEW w \in Queues
        PROVE  IDLE \in Awake[w] <=> w = WQ_READY
    <3>1. IDLE \notin Woken
      BY <1>2, SlotNumbers
    <3>2. IDLE \in Awake[w] <=> IDLE \in wq[w]
      BY <1>2, <3>1, SlotNumbers DEF Awake, TimeWakeup
    <3> QED
      BY <3>2 DEF IdleReady
  <2> QED
    BY <2>1 DEF IdleReady
<1>6. Apart(wq) => Apart(Awake)
  BY <1>1, <1>3 DEF Apart
<1> QED
  BY <1>1, <1>2, <1>3, <1>4, <1>5, <1>6

(* The current thread is suspended after it has entered the queue w. *)
LEMMA LeaveFacts ==
    ASSUME NEW q \in QMap, IdleReady(q), NEW th \in Threads,
           NEW w \in {WQ_TMSHARE, WQ_CLOCK},
           NEW s, s = Suspend(Insert(q, w, th), th)
    PROVE  /\ s \in QMap
           /\ IdleReady(s)
           /\ s[WQ_CLOCK] = IF w = WQ_CLOCK THEN q[WQ_CLOCK] \union {th} ELSE q[WQ_CLOCK]
           /\ Apart(q) /\ th \in q[WQ_READY] => Apart(s)
<1> DEFINE q1 == Insert(q, w, th)
<1>1. /\ q1 \in QMap
      /\ q1[w] = q[w] \union {th}
      /\ \A v \in Queues \ {w} : q1[v] = q[v]
  BY Indices, SlotNumbers DEF Insert, QMap
<1>2. /\ w \in Queues /\ WQ_READY \in Queues /\ WQ_TMSHARE \in Queues /\ WQ_CLOCK \in Queues
      /\ IDLE # th
  BY Indices, SlotNumbers
<1>3. IDLE \in q1[WQ_READY] /\ IDLE \notin q1[WQ_TMSHARE]
  BY <1>1, <1>2 DEF IdleReady
<1>4. \A v \in Queues \ {WQ_READY, WQ_TMSHARE} : IDLE \notin q1[v]
  BY <1>1, <1>2 DEF IdleReady
<1>5. s = Suspend(q1, th)
  OBVIOUS
<1> HIDE DEF q1
<1>6. /\ s \in QMap
      /\ \A v \in Queues \ {WQ_READY, WQ_TMSHARE} : s[v] = q1[v]
      /\ IDLE \in s[WQ_READY] /\ IDLE \notin s[WQ_TMSHARE]
      /\ \A t \in Slots : t \in s[WQ_READY] =>
                              \/ t \in q1[WQ_READY] /\ t # th
                              \/ t \in q1[WQ_TMSHARE] /\ s[WQ_TMSHARE] = {}
      /\ \A t \in Slots : t \in s[WQ_TMSHARE] => t \in q1[WQ_TMSHARE]
      /\ th \in s[WQ_READY] => th \notin s[WQ_TMSHARE]
  BY <1>1, <1>3, <1>5, SuspendFacts
<1>7. IdleReady(s)
  BY <1>4, <1>6 DEF IdleReady
<1>8. s[WQ_CLOCK] = IF w = WQ_CLOCK THEN q[WQ_CLOCK] \union {th} ELSE q[WQ_CLOCK]
  BY <1>1, <1>2, <1>6
<1>9. ASSUME Apart(q), th \in q[WQ_READY]
      PROVE  Apart(s)
  <2> SUFFICES ASSUME NEW t \in Threads
               PROVE  /\ t \in s[WQ_READY] => t \notin s[WQ_TMSHARE] /\ t \notin s[WQ_CLOCK]
                      /\ t \in s[WQ_TMSHARE] => t \notin s[WQ_CLOCK]
    BY DEF Apart
  <2>1. t \in Slots
    BY SlotNumbers
  <2>2. /\ t \in q[WQ_READY] => t \notin q[WQ_TMSHARE] /\ t \notin q[WQ_CLOCK]
        /\ t \in q[WQ_TMSHARE] => t \notin q[WQ_CLOCK]
        /\ th \notin q[WQ_TMSHARE] /\ th \notin q[WQ_CLOCK]
    BY <1>9 DEF Apart
  <2>3. CASE w = WQ_CLOCK
    <3>1. q1[WQ_READY] = q[WQ_READY] /\ q1[WQ_TMSHARE] = q[WQ_TMSHARE]
      BY <1>1, <1>2, <2>3
    <3> QED
      BY <1>6, <1>8, <2>1, <2>2, <2>3, <3>1
  <2>4. CASE w = WQ_TMSHARE
    <3>1. q1[WQ_READY] = q[WQ_READY] /\ q1[WQ_TMSHARE] = q[WQ_TMSHARE] \union {th}
      BY <1>1, <1>2, <2>4
    <3> QED
      BY <1>6, <1>8, <2>1, <2>2, <2>4, <3>1
  <2> QED
    BY <2>3, <2>4
<1> QED
  BY <1>6, <1>7, <1>8, <1>9

-----------------------------------------------------------------------------
(* The scheduler. *)

(* The invariant in terms of the lemmas above. *)
LEMMA InvFacts ==
    ASSUME SchedInv
    PROVE  /\ wq \in QMap /\ th_stat \in SMap
           /\ IdleReady(wq)
           /\ WQ_READY \in Queues /\ wq[WQ_READY] # {}
BY RtTypes, Indices DEF SchedInv, TypeOK, IdleReady

(* The clock tick. *)
LEMMA TickSched ==
    ASSUME SchedInv, Tick
    PROVE  /\ SchedInv'
           /\ wq'[WQ_CLOCK] = wq[WQ_CLOCK] \ Woken
           /\ Apart(wq) => Apart(wq')
<1>1. wq \in QMap /\ th_stat \in SMap /\ IdleReady(wq)
  BY InvFacts
<1>2. /\ wq' = Timeshare(Awake)
      /\ pendsv' = IF Woken # {} \/ Shared(Awake) THEN Preempt ELSE pendsv
      /\ ticks' = TickAdd(ticks, 1)
      /\ th_stat' = [th \in Threads |-> IF th \in Woken THEN NoStat ELSE th_stat[th]]
      /\ sched_val' = IF ~Charged THEN sched_val
                      ELSE [sched_val EXCEPT ![active] = Refilled(Remaining)]
      /\ UNCHANGED <<clock, active, critical_cnt, r0, sched_pri, sched_limit, asked>>
      /\ due' = [th \in Threads |-> IF due[th] > 0 THEN due[th] - 1 ELSE 0]
  BY Zenon DEF Tick, SysTick, Woken, Awake
<1>3. /\ Woken \subseteq Threads
      /\ Awake \in QMap
      /\ IdleReady(Awake)
      /\ Awake[WQ_READY] = wq[WQ_READY] \union Woken
      /\ Awake[WQ_CLOCK] = wq[WQ_CLOCK] \ Woken
      /\ Apart(wq) => Apart(Awake)
  BY <1>1, AwakeFacts
<1>4. /\ active \in Slots /\ pendsv \in BOOLEAN /\ critical_cnt \in 0 .. CRITICAL_MAX
      /\ clock \in [Threads -> Ticks] /\ ticks \in Ticks /\ r0 \in [Threads -> Int]
      /\ SchedTypeOK /\ due \in [Threads -> Nat]
      /\ sched_pri[IDLE] = 0
      /\ \A s \in Slots : sched_pri[s] <= sched_limit
  BY DEF SchedInv, TypeOK, RtTypeOK
<1>5. ticks' \in Ticks /\ due' \in [Threads -> Nat]
  BY <1>2, <1>4, TickAddType
<1>6. th_stat' \in SMap
  <2>1. NoStat \in [wq : Queues, timed : BOOLEAN]
    BY Indices
  <2> HIDE DEF NoStat
  <2> QED
    BY <1>1, <1>2, <2>1 DEF SMap
<1>7. SchedTypeOK'
  <2>1. Refilled(Remaining) \in 0 .. SCHED_LIMIT_MAX
    BY <1>4, SchedAssumption DEF SchedTypeOK, Refilled, Remaining
  <2> QED
    BY <1>2, <1>4, <2>1, Zenon DEF SchedTypeOK
<1>8. pendsv' \in BOOLEAN
  BY <1>2, <1>4, Zenon DEF Preempt
<1>9. critical_cnt > 0 => pendsv' = pendsv
  <2>1. critical_cnt > 0 => critical_cnt # 0
    BY <1>4
  <2>2. critical_cnt # 0 => Preempt = pendsv
    BY <1>4, Zenon DEF Preempt
  <2> QED
    BY <1>2, <2>1, <2>2, Zenon
<1>10. /\ wq' \in QMap /\ IdleReady(wq')
       /\ wq'[WQ_CLOCK] = wq[WQ_CLOCK] \ Woken
       /\ Apart(wq) => Apart(wq')
  <2>1. CASE Shared(Awake)
    <3>1. Remaining < 0 /\ active \in Awake[WQ_READY]
      BY <2>1 DEF Shared
    <3>2. active # IDLE
      BY <1>4, <3>1, SlotNumbers DEF SchedTypeOK, Remaining
    <3>3. active \in Threads
      BY <1>4, <3>2, SlotNumbers
    <3>4. wq' = Suspend(Insert(Awake, WQ_TMSHARE, active), active)
      BY <1>2, <2>1 DEF Timeshare
    <3> QED
      BY <1>3, <3>1, <3>3, <3>4, LeaveFacts
  <2>2. CASE ~Shared(Awake)
    BY <1>2, <1>3, <2>2 DEF Timeshare
  <2> QED
    BY <2>1, <2>2
<1>11. FirstReadyRuns'
  <2>1. SUFFICES ASSUME ~pendsv', critical_cnt = 0
                 PROVE  IsHead(wq'[WQ_READY], active)
    BY <1>2 DEF FirstReadyRuns
  <2>2. Preempt
    BY <2>1, Zenon DEF Preempt
  <2>3. Woken = {} /\ ~Shared(Awake) /\ ~pendsv
    BY <1>2, <2>1, <2>2, Zenon
  <2>4. wq'[WQ_READY] = wq[WQ_READY]
    BY <1>2, <1>3, <2>3 DEF Timeshare
  <2> QED
    BY <2>1, <2>3, <2>4 DEF SchedInv, FirstReadyRuns
<1>12. RtTypeOK'
  BY <1>2, <1>4, <1>5, <1>6, <1>8, <1>10, SlotNumbers, Zenon DEF RtTypeOK, QMap, SMap, SchedInv, TypeOK, Slots
<1>13. TypeOK'
  BY <1>2, <1>5, <1>7, <1>12 DEF SchedInv, TypeOK
<1>14. critical_cnt' > 0 /\ pendsv' => asked' # "no"
  BY <1>2, <1>9, Zenon DEF SchedInv
<1>15. SchedInv'
  BY <1>2, <1>4, <1>10, <1>11, <1>13, <1>14 DEF SchedInv, IdleReady
<1> QED
  BY <1>10, <1>15

(* The current thread goes to sleep.  It is ready, unless a slice that     *)
(* ended in a critical section has taken it out of the ready queue.        *)
LEMMA WaitSched ==
    ASSUME SchedInv, NEW self \in Threads, Running(self),
           NEW clk \in Ticks, WaitClock(self, clk),
           due' \in [Threads -> Nat], asked' = "block"
    PROVE  /\ SchedInv'
           /\ wq'[WQ_CLOCK] = wq[WQ_CLOCK] \union {self}
           /\ critical_cnt = 0 /\ Apart(wq) => Apart(wq')
<1>1. wq \in QMap /\ th_stat \in SMap /\ IdleReady(wq)
  BY InvFacts
<1>2. /\ wq' = Suspend(Insert(wq, WQ_CLOCK, self), self)
      /\ clock' = [clock EXCEPT ![self] = clk]
      /\ th_stat' = [th_stat EXCEPT ![self] = Stat(WQ_CLOCK, TRUE)]
      /\ pendsv' = TRUE
      /\ UNCHANGED <<ticks, active, critical_cnt, r0, sched_val, sched_pri, sched_limit>>
  BY Zenon DEF WaitClock, schedVars
<1>3. /\ wq' \in QMap /\ IdleReady(wq')
      /\ wq'[WQ_CLOCK] = wq[WQ_CLOCK] \union {self}
      /\ Apart(wq) /\ self \in wq[WQ_READY] => Apart(wq')
  BY <1>1, <1>2, LeaveFacts
<1>4. critical_cnt = 0 => self \in wq[WQ_READY]
  BY DEF SchedInv, FirstReadyRuns, Running, IsHead
<1>5. th_stat' \in SMap
  <2>1. Stat(WQ_CLOCK, TRUE) \in [wq : Queues, timed : BOOLEAN]
    BY Indices
  <2> HIDE DEF Stat
  <2> QED
    BY <1>1, <1>2, <2>1, Zenon DEF SMap
<1>6. clock' \in [Threads -> Ticks]
  BY <1>2 DEF SchedInv, TypeOK, RtTypeOK
<1>7. RtTypeOK'
  BY <1>2, <1>3, <1>5, <1>6, Zenon DEF RtTypeOK, QMap, SMap, SchedInv, TypeOK, Slots
<1>8. TypeOK'
  BY <1>2, <1>7 DEF SchedInv, TypeOK, SchedTypeOK
<1>9. SchedInv'
  BY <1>2, <1>3, <1>8 DEF SchedInv, IdleReady, FirstReadyRuns
<1> QED
  BY <1>3, <1>4, <1>9

(* The scheduler is asked for: yield and the idle loop. *)
LEMMA DeferSched ==
    ASSUME SchedInv, pendsv' = TRUE, asked' \in {"yield", "block"},
           UNCHANGED <<wq, th_stat, clock, ticks, active, critical_cnt, r0, schedVars, due>>
    PROVE  SchedInv'
BY DEF SchedInv, TypeOK, RtTypeOK, SchedTypeOK, FirstReadyRuns, schedVars

(* The context switch. *)
LEMMA SwitchSched ==
    ASSUME SchedInv, Switch
    PROVE  SchedInv'
<1>1. /\ pendsv' = FALSE /\ active' = WqHead(wq[WQ_READY]) /\ asked' = "no"
      /\ UNCHANGED <<wq, th_stat, clock, ticks, critical_cnt, r0, due>>
      /\ UNCHANGED <<sched_val, sched_pri, sched_limit>>
  BY DEF Switch, PendSV, schedVars
<1>2. wq[WQ_READY] \in SUBSET Slots /\ wq[WQ_READY] # {}
  BY InvFacts DEF QMap
<1>3. IsHead(wq[WQ_READY], active')
  BY <1>1, <1>2, HeadsAlways, HeadExists
<1>4. active' \in Slots /\ active' \in 0 .. VOID
  BY <1>2, <1>3, SlotNumbers, Zenon DEF IsHead
<1>5. TypeOK'
  BY <1>1, <1>4, Zenon DEF SchedInv, TypeOK, RtTypeOK, SchedTypeOK
<1> QED
  BY <1>1, <1>3, <1>4, <1>5 DEF SchedInv, FirstReadyRuns

(* Critical sections. *)
LEMMA EnterSched ==
    ASSUME SchedInv, NEW self \in Threads, EnterCall(self)
    PROVE  SchedInv'
<1>1. /\ pendsv' = FALSE /\ critical_cnt < CRITICAL_MAX /\ critical_cnt' = critical_cnt + 1
      /\ UNCHANGED <<wq, th_stat, clock, ticks, active, r0, due, asked>>
      /\ UNCHANGED <<sched_val, sched_pri, sched_limit>>
  BY DEF EnterCall, CriticalEnter, schedVars
<1>2. critical_cnt' \in 0 .. CRITICAL_MAX /\ critical_cnt' # 0
  BY <1>1, RtAssumption DEF SchedInv, TypeOK, RtTypeOK
<1> QED
  BY <1>1, <1>2, Zenon DEF SchedInv, TypeOK, RtTypeOK, SchedTypeOK, FirstReadyRuns

LEMMA ExitSched ==
    ASSUME SchedInv, NEW self \in Threads, ExitCall(self)
    PROVE  SchedInv'
<1>1. /\ asked' = IF pendsv' THEN "exit" ELSE asked
      /\ UNCHANGED <<wq, th_stat, clock, ticks, active, due>>
      /\ UNCHANGED <<sched_val, sched_pri, sched_limit>>
      /\ ~pendsv
  BY DEF ExitCall, CriticalExit, schedVars, Running
<1>2. CASE critical_cnt = 0 /\ Return(self, EFAULT) /\ UNCHANGED <<critical_cnt, pendsv>>
  <2>1. r0' \in [Threads -> Int]
    BY <1>2 DEF SchedInv, TypeOK, RtTypeOK, Return, EFAULT
  <2> QED
    BY <1>1, <1>2, <2>1 DEF SchedInv, TypeOK, RtTypeOK, SchedTypeOK, FirstReadyRuns
<1>3. CASE /\ critical_cnt > 0 /\ critical_cnt' = critical_cnt - 1
           /\ pendsv' = DeferAtExit(critical_cnt - 1)
           /\ UNCHANGED r0
  <2>1. critical_cnt' \in 0 .. CRITICAL_MAX
    BY <1>3, RtAssumption DEF SchedInv, TypeOK, RtTypeOK
  <2>2. pendsv' = (critical_cnt' = 0) /\ pendsv' \in BOOLEAN
    BY <1>3 DEF DeferAtExit
  <2>3. asked' \in {"no", "yield", "block", "exit"}
    BY <1>1 DEF SchedInv, TypeOK
  <2>4. TypeOK'
    BY <1>1, <1>3, <2>1, <2>2, <2>3 DEF SchedInv, TypeOK, RtTypeOK, SchedTypeOK
  <2>5. FirstReadyRuns'
    BY <2>2, Zenon DEF FirstReadyRuns
  <2>6. ~(critical_cnt' > 0 /\ pendsv')
    <3>1. critical_cnt' > 0 => critical_cnt' # 0
      BY <2>1
    <3> QED
      BY <2>2, <3>1, Zenon
  <2> QED
    BY <1>1, <1>3, <2>4, <2>5, <2>6 DEF SchedInv
<1> QED
  BY <1>2, <1>3 DEF ExitCall, CriticalExit

LEMMA InitSched == Init => SchedInv /\ Apart(wq) /\ ClockInv
<1> SUFFICES ASSUME Init
             PROVE  SchedInv /\ Apart(wq) /\ ClockInv
  OBVIOUS
<1>1. /\ wq = [w \in Queues |-> IF w = WQ_READY THEN Threads \union {IDLE} ELSE {}]
      /\ th_stat = [th \in Threads |-> NoStat]
      /\ clock = [th \in Threads |-> 0]
      /\ ticks = 0 /\ active = WqHead(Threads) /\ pendsv = FALSE
      /\ critical_cnt = 0 /\ r0 = [th \in Threads |-> OK]
      /\ due = [th \in Threads |-> 0] /\ asked = "no"
  BY DEF Init, RtInit
<1>2. wq[WQ_READY] = Slots /\ wq[WQ_TMSHARE] = {} /\ wq[WQ_CLOCK] = {}
  BY <1>1, Indices, SlotNumbers
<1>3. IsHead(Threads, active)
  <2>1. 0 \in Threads /\ Threads \in SUBSET Slots
    BY RtAssumption, SlotNumbers DEF Threads
  <2> QED
    BY <1>1, <2>1, HeadsAlways, HeadExists
<1>4. /\ active \in Slots /\ active \in 0 .. VOID
      /\ IsHead(wq[WQ_READY], active)
  <2>1. active \in Threads /\ active \in Slots
    BY <1>3, SlotNumbers DEF IsHead
  <2>2. \A t \in Slots : active <= t
    <3>1. IDLE \in Nat /\ active \in Nat /\ active < IDLE
      BY <2>1, SlotNumbers
    <3>2. active <= IDLE
      BY <3>1
    <3> QED
      BY <1>3, <3>2, SlotNumbers DEF IsHead
  <2>3. active \in 0 .. VOID
    BY <2>1, SlotNumbers
  <2> QED
    BY <1>2, <2>1, <2>2, <2>3, Zenon DEF IsHead
<1>5. RtTypeOK
  <2>1. NoStat \in [wq : Queues, timed : BOOLEAN]
    BY Indices
  <2>2. 0 \in Ticks /\ 0 \in 0 .. CRITICAL_MAX /\ OK \in Int
    BY RtAssumption DEF Ticks, OK
  <2> HIDE DEF NoStat
  <2> QED
    BY <1>1, <1>4, <2>1, <2>2, Zenon DEF RtTypeOK
<1>6. SchedTypeOK /\ sched_pri[IDLE] = 0 /\ \A s \in Slots : sched_pri[s] <= sched_limit
  <2>1. PICK pri \in [Threads -> Priorities] : SchedInit(pri)
    BY DEF Init
  <2>2. pri \in [Threads -> 0 .. SCHED_LIMIT_MAX]
    BY SchedClockAssumption, Zenon
  <2> QED
    BY <2>1, <2>2, SchedAssumption, SlotNumbers DEF SchedInit, SchedTypeOK
<1>7. IdleReady(wq) /\ Apart(wq)
  BY <1>1, <1>2, SlotNumbers DEF IdleReady, Apart
<1>8. ClockInv
  BY <1>1, <1>2 DEF ClockInv, Punctual
<1>9. TypeOK
  BY <1>1, <1>5, <1>6 DEF TypeOK
<1> QED
  BY <1>1, <1>4, <1>6, <1>7, <1>8, <1>9, Zenon DEF SchedInv, IdleReady, FirstReadyRuns

(* The parts of a sleep that the lemmas above speak about. *)
LEMMA SleepParts ==
    ASSUME SchedInv, NEW self \in Threads, SleepCall(self)
    PROVE  \E clk \in Ticks, n \in Nat :
              /\ Running(self) /\ WaitClock(self, clk)
              /\ due' = [due EXCEPT ![self] = IF n = 0 THEN 1 ELSE n]
              /\ due' \in [Threads -> Nat]
              /\ asked' = "block"
              /\ \/ n \in Delays /\ clk = TickAdd(ticks, n)
                 \/ n = Ahead(clk)
<1>1. ticks \in Ticks /\ due \in [Threads -> Nat]
  BY DEF SchedInv, TypeOK, RtTypeOK
<1>2. \A n \in Nat : [due EXCEPT ![self] = IF n = 0 THEN 1 ELSE n] \in [Threads -> Nat]
  BY <1>1
<1>3. CASE \E ms \in Delays : Sleep(self, ms) /\ Request(self, ms)
  <2>1. PICK ms \in Delays : Sleep(self, ms) /\ Request(self, ms)
    BY <1>3
  <2>2. ms \in Nat /\ TickAdd(ticks, ms) \in Ticks
    BY <1>1, SchedClockAssumption, TickAddType
  <2>3. /\ Running(self) /\ WaitClock(self, TickAdd(ticks, ms))
        /\ due' = [due EXCEPT ![self] = IF ms = 0 THEN 1 ELSE ms]
    BY <2>1, Zenon DEF Sleep, Request
  <2> QED
    BY <1>2, <2>2, <2>3, Zenon DEF SleepCall
<1>4. CASE \E clk \in Ticks : Alarm(self, clk) /\ Request(self, Ahead(clk))
  <2>1. PICK clk \in Ticks : Alarm(self, clk) /\ Request(self, Ahead(clk))
    BY <1>4
  <2>2. Ahead(clk) \in Nat
    <3>1. clk - ticks \in Int /\ 2 * CLOCK_HALF \in Nat \ {0}
      BY <1>1, RtAssumption DEF Ticks
    <3>2. (clk - ticks) % (2 * CLOCK_HALF) \in 0 .. 2 * CLOCK_HALF - 1
      BY <3>1, ModRange, Zenon
    <3> QED
      BY <3>1, <3>2, RtAssumption DEF Ahead
  <2>3. /\ Running(self) /\ WaitClock(self, clk)
        /\ due' = [due EXCEPT ![self] = IF Ahead(clk) = 0 THEN 1 ELSE Ahead(clk)]
    BY <2>1, Zenon DEF Alarm, Request
  <2> QED
    BY <1>2, <2>2, <2>3, Zenon DEF SleepCall
<1> QED
  BY <1>3, <1>4 DEF SleepCall

(* Every step keeps the scheduler's invariant and, as long as nobody is in *)
(* a critical section, the queues apart.                                   *)
LEMMA NextSched ==
    ASSUME SchedInv, [Next]_vars
    PROVE  SchedInv' /\ (critical_cnt = 0 /\ Apart(wq) => Apart(wq'))
<1>1. CASE Tick
  BY <1>1, TickSched
<1>2. CASE Switch
  BY <1>2, SwitchSched, Zenon DEF Switch, PendSV
<1>3. CASE IdleLoop
  <2>1. /\ pendsv' = TRUE /\ asked' \in {"yield", "block"}
        /\ UNCHANGED <<wq, th_stat, clock, ticks, active, critical_cnt, r0, schedVars, due>>
    BY <1>3 DEF IdleLoop, Idle
  <2> QED
    BY <2>1, DeferSched
<1>4. ASSUME NEW self \in Threads, SleepCall(self)
      PROVE  SchedInv' /\ (critical_cnt = 0 /\ Apart(wq) => Apart(wq'))
  BY <1>4, SleepParts, WaitSched
<1>5. ASSUME NEW self \in Threads, YieldCall(self)
      PROVE  SchedInv' /\ wq' = wq
  <2>1. /\ pendsv' = TRUE /\ asked' \in {"yield", "block"}
        /\ UNCHANGED <<wq, th_stat, clock, ticks, active, critical_cnt, r0, schedVars, due>>
    BY <1>5 DEF YieldCall, Yield
  <2> QED
    BY <2>1, DeferSched
<1>6. ASSUME NEW self \in Threads, EnterCall(self)
      PROVE  SchedInv' /\ wq' = wq
  BY <1>6, EnterSched, Zenon DEF EnterCall, CriticalEnter
<1>7. ASSUME NEW self \in Threads, ExitCall(self)
      PROVE  SchedInv' /\ wq' = wq
  BY <1>7, ExitSched DEF ExitCall, CriticalExit
<1>8. CASE UNCHANGED vars
  BY <1>8 DEF vars, rtVars, schedVars, SchedInv, TypeOK, RtTypeOK, SchedTypeOK, FirstReadyRuns
<1> QED
  BY <1>1, <1>2, <1>3, <1>4, <1>5, <1>6, <1>7, <1>8, Zenon DEF Next

-----------------------------------------------------------------------------
(* The clock. *)

(* The distance d from the counter to a wake up time shrinks by one at a   *)
(* tick.                                                                   *)
LEMMA Distance ==
    ASSUME NEW c \in Ticks, NEW t \in Ticks,
           NEW d, d = (c - t) % (2 * CLOCK_HALF),
           NEW e, e = (c - TickAdd(t, 1)) % (2 * CLOCK_HALF)
    PROVE  /\ d \in 0 .. 2 * CLOCK_HALF - 1
           /\ e = IF d = 0 THEN 2 * CLOCK_HALF - 1 ELSE d - 1
<1> DEFINE N == 2 * CLOCK_HALF
<1>1. N \in Nat \ {0} /\ N >= 2 /\ c \in 0 .. N - 1 /\ t \in 0 .. N - 1
  BY RtAssumption DEF Ticks
<1>2. d = (c - t) % N /\ e = (c - TickAdd(t, 1)) % N /\ TickAdd(t, 1) = (t + 1) % N
  BY DEF TickAdd
<1> SUFFICES d \in 0 .. N - 1 /\ e = IF d = 0 THEN N - 1 ELSE d - 1
  OBVIOUS
<1> HIDE DEF N
<1>3. d = IF c >= t THEN c - t ELSE c - t + N
  <2>1. CASE c >= t
    <3>1. c - t \in 0 .. N - 1
      BY <1>1, <2>1
    <3> QED
      BY <1>1, <1>2, <2>1, <3>1, ModRange, Zenon
  <2>2. CASE c < t
    <3>1. c - t \in (-N) .. -1
      BY <1>1, <2>2
    <3>2. (c - t) % N = (c - t) + N
      BY <1>1, <3>1, ModRange, Zenon
    <3> QED
      BY <1>1, <1>2, <2>2, <3>2
  <2> QED
    BY <1>1, <2>1, <2>2
<1>4. TickAdd(t, 1) = IF t = N - 1 THEN 0 ELSE t + 1
  <2>1. CASE t = N - 1
    <3>1. t + 1 \in N .. 2 * N - 1
      BY <1>1, <2>1
    <3> QED
      BY <1>1, <1>2, <2>1, <3>1, ModRange
  <2>2. CASE t # N - 1
    <3>1. t + 1 \in 0 .. N - 1
      BY <1>1, <2>2
    <3> QED
      BY <1>1, <1>2, <2>2, <3>1, ModRange, Zenon
  <2> QED
    BY <2>1, <2>2
<1> DEFINE u == IF t = N - 1 THEN 0 ELSE t + 1
<1>5. u \in 0 .. N - 1 /\ e = (c - u) % N
  BY <1>1, <1>2, <1>4
<1>6. e = IF c >= u THEN c - u ELSE c - u + N
  <2> HIDE DEF u
  <2>1. CASE c >= u
    <3>1. c - u \in 0 .. N - 1
      BY <1>1, <1>5, <2>1
    <3> QED
      BY <1>1, <1>5, <2>1, <3>1, ModRange, Zenon
  <2>2. CASE c < u
    <3>1. c - u \in (-N) .. -1
      BY <1>1, <1>5, <2>2
    <3>2. (c - u) % N = (c - u) + N
      BY <1>1, <3>1, ModRange, Zenon
    <3> QED
      BY <1>1, <1>5, <2>2, <3>2
  <2> QED
    BY <1>1, <1>5, <2>1, <2>2
<1> QED
  BY <1>1, <1>3, <1>6

(* A sleep of n ticks, no longer than half the range, leaves a distance of *)
(* n.                                                                      *)
LEMMA SetDistance ==
    ASSUME NEW t \in Ticks, NEW n \in 0 .. CLOCK_HALF
    PROVE  (TickAdd(t, n) - t) % (2 * CLOCK_HALF) = n
<1> DEFINE N == 2 * CLOCK_HALF
           u == TickAdd(t, n)
<1>1. N \in Nat \ {0} /\ t \in 0 .. N - 1 /\ n \in 0 .. N - 1
  BY RtAssumption DEF Ticks
<1>2. u = (t + n) % N
  BY DEF TickAdd
<1> SUFFICES (u - t) % N = n
  OBVIOUS
<1> HIDE DEF N, u
<1>3. CASE t + n < N
  <2>1. t + n \in 0 .. N - 1
    BY <1>1, <1>3
  <2>2. u = t + n
    BY <1>1, <1>2, <2>1, ModRange, Zenon
  <2>3. u - t = n
    BY <1>1, <2>2
  <2> QED
    BY <1>1, <2>3, ModRange
<1>4. CASE t + n >= N
  <2>1. t + n \in N .. 2 * N - 1
    BY <1>1, <1>4
  <2>2. u = (t + n) - N
    BY <1>1, <1>2, <2>1, ModRange, Zenon
  <2>3. u - t = n - N /\ n - N \in (-N) .. -1 /\ n - N + N = n
    BY <1>1, <1>4, <2>2
  <2>4. (n - N) % N = (n - N) + N
    BY <1>1, <2>3, ModRange, Zenon
  <2> QED
    BY <2>3, <2>4
<1> QED
  BY <1>1, <1>3, <1>4

(* A tick takes one from the time that is left, and wakes the threads that *)
(* have none left then.                                                    *)
LEMMA TickLeft ==
    ASSUME SchedInv, NEW th \in wq[WQ_CLOCK], NEW n, n = ClockLeft(th), Tick
    PROVE  /\ th \in Woken <=> n = 1
           /\ n # 1 => ClockLeft(th)' = n - 1
           /\ n \in Nat \ {0}
<1>1. ticks' = TickAdd(ticks, 1) /\ clock' = clock
  BY Zenon DEF Tick, SysTick
<1>2. clock[th] \in Ticks /\ ticks \in Ticks
  <2>1. WQ_CLOCK \in Queues /\ th \in Slots /\ th # IDLE
    BY InvFacts, Indices DEF QMap, IdleReady
  <2> QED
    BY <2>1, SlotNumbers DEF SchedInv, TypeOK, RtTypeOK
<1> DEFINE d == (clock[th] - ticks) % (2 * CLOCK_HALF)
           e == (clock[th] - TickAdd(ticks, 1)) % (2 * CLOCK_HALF)
<1>3. /\ d \in 0 .. 2 * CLOCK_HALF - 1
      /\ e = IF d = 0 THEN 2 * CLOCK_HALF - 1 ELSE d - 1
  BY <1>2, Distance
<1>4. n = IF d \in 1 .. CLOCK_HALF THEN d ELSE 1
  BY DEF ClockLeft
<1>5. ClockLeft(th)' = IF e \in 1 .. CLOCK_HALF THEN e ELSE 1
  BY <1>1 DEF ClockLeft
<1>6. th \in Woken <=> e = 0 \/ e >= CLOCK_HALF
  BY DEF Woken, Expired
<1> HIDE DEF d, e
<1> QED
  BY <1>3, <1>4, <1>5, <1>6, RtAssumption

LEMMA TickClock ==
    ASSUME SchedInv, ClockInv, Tick
    PROVE  ClockInv'
<1>1. wq'[WQ_CLOCK] = wq[WQ_CLOCK] \ Woken
  BY TickSched
<1>2. due' = [th \in Threads |-> IF due[th] > 0 THEN due[th] - 1 ELSE 0]
  BY DEF Tick
<1>3. wq[WQ_CLOCK] \subseteq Threads
  BY InvFacts, Indices, SlotNumbers DEF QMap, IdleReady
<1>4. due \in [Threads -> Nat]
  BY DEF SchedInv, TypeOK
<1>5. ASSUME NEW th \in wq[WQ_CLOCK]
      PROVE  /\ due'[th] = due[th] - 1 /\ due[th] \in Nat \ {0}
             /\ th \in Woken <=> due[th] = 1
             /\ due[th] # 1 => ClockLeft(th)' = due[th] - 1
  <2>1. due[th] = ClockLeft(th) /\ th \in Threads
    BY <1>3 DEF ClockInv
  <2>2. /\ th \in Woken <=> due[th] = 1
        /\ due[th] # 1 => ClockLeft(th)' = due[th] - 1
        /\ due[th] \in Nat \ {0}
    BY <2>1, TickLeft
  <2>3. due'[th] = due[th] - 1
    BY <1>2, <2>1, <2>2
  <2> QED
    BY <2>2, <2>3
<1>6. ASSUME NEW th \in Threads, th \notin wq[WQ_CLOCK]
      PROVE  due'[th] = 0
  BY <1>2, <1>4, <1>6 DEF ClockInv, Punctual
<1>7. Punctual'
  <2> SUFFICES ASSUME NEW th \in Threads
               PROVE  th \in wq'[WQ_CLOCK] <=> due'[th] > 0
    BY DEF Punctual
  <2>1. CASE th \in wq[WQ_CLOCK]
    BY <1>1, <1>5, <2>1
  <2>2. CASE th \notin wq[WQ_CLOCK]
    BY <1>1, <1>6, <2>2
  <2> QED
    BY <2>1, <2>2
<1>8. \A th \in wq'[WQ_CLOCK] : due'[th] = ClockLeft(th)'
  BY <1>1, <1>5
<1> QED
  BY <1>7, <1>8 DEF ClockInv

(* A sleep no longer than half the range, or an alarm. *)
LEMMA SleepClock ==
    ASSUME SchedInv, ClockInv, Delays \subseteq 0 .. CLOCK_HALF,
           NEW self \in Threads, SleepCall(self)
    PROVE  ClockInv'
<1>1. PICK clk \in Ticks, n \in Nat :
              /\ Running(self) /\ WaitClock(self, clk)
              /\ due' = [due EXCEPT ![self] = IF n = 0 THEN 1 ELSE n]
              /\ due' \in [Threads -> Nat]
              /\ asked' = "block"
              /\ \/ n \in Delays /\ clk = TickAdd(ticks, n)
                 \/ n = Ahead(clk)
  BY SleepParts
<1>2. wq'[WQ_CLOCK] = wq[WQ_CLOCK] \union {self}
  BY <1>1, WaitSched
<1>3. ticks' = ticks /\ clock' = [clock EXCEPT ![self] = clk]
  BY <1>1 DEF WaitClock
<1>4. ticks \in Ticks /\ clock \in [Threads -> Ticks] /\ due \in [Threads -> Nat]
  BY DEF SchedInv, TypeOK, RtTypeOK
<1>5. wq[WQ_CLOCK] \subseteq Threads
  BY InvFacts, Indices, SlotNumbers DEF QMap, IdleReady
<1> DEFINE d == (clk - ticks) % (2 * CLOCK_HALF)
<1>6. d \in 0 .. 2 * CLOCK_HALF - 1
  BY <1>4, Distance
<1>7. n = IF d <= CLOCK_HALF THEN d ELSE 0
  <2>1. CASE n \in Delays /\ clk = TickAdd(ticks, n)
    <3>1. n \in 0 .. CLOCK_HALF
      BY <2>1
    <3>2. d = n
      BY <1>4, <2>1, <3>1, SetDistance
    <3> QED
      BY <3>1, <3>2, RtAssumption
  <2>2. CASE n = Ahead(clk)
    BY <2>2 DEF Ahead
  <2> QED
    BY <1>1, <2>1, <2>2
<1>8. ClockLeft(self)' = IF d \in 1 .. CLOCK_HALF THEN d ELSE 1
  <2>1. clock'[self] = clk
    BY <1>3, <1>4
  <2> QED
    BY <1>3, <2>1 DEF ClockLeft
<1> HIDE DEF d
<1>9. due'[self] = ClockLeft(self)' /\ due'[self] > 0
  <2>1. due'[self] = IF n = 0 THEN 1 ELSE n
    BY <1>1, <1>4
  <2> QED
    BY <1>6, <1>7, <1>8, <2>1, RtAssumption
<1>10. ASSUME NEW th \in Threads \ {self}
       PROVE  due'[th] = due[th] /\ ClockLeft(th)' = ClockLeft(th)
  <2>1. due'[th] = due[th] /\ clock'[th] = clock[th]
    BY <1>1, <1>3, <1>4
  <2> QED
    BY <1>3, <2>1 DEF ClockLeft
<1>11. Punctual'
  BY <1>2, <1>9, <1>10 DEF ClockInv, Punctual
<1>12. \A th \in wq'[WQ_CLOCK] : due'[th] = ClockLeft(th)'
  BY <1>2, <1>5, <1>9, <1>10 DEF ClockInv
<1> QED
  BY <1>11, <1>12 DEF ClockInv

(* Every step keeps the clock's invariant. *)
LEMMA NextClock ==
    ASSUME SchedInv, ClockInv, Delays \subseteq 0 .. CLOCK_HALF, [Next]_vars
    PROVE  ClockInv'
<1>1. CASE Tick
  BY <1>1, TickClock
<1>2. ASSUME NEW self \in Threads, SleepCall(self)
      PROVE  ClockInv'
  BY <1>2, SleepClock
<1>3. ASSUME UNCHANGED <<wq, clock, ticks, due>>
      PROVE  ClockInv'
  BY <1>3 DEF ClockInv, Punctual, ClockLeft
<1>4. CASE Switch
  BY <1>3, <1>4 DEF Switch, PendSV
<1>5. CASE IdleLoop
  BY <1>3, <1>5 DEF IdleLoop, Idle
<1>6. ASSUME NEW self \in Threads, YieldCall(self)
      PROVE  ClockInv'
  BY <1>3, <1>6 DEF YieldCall, Yield
<1>7. ASSUME NEW self \in Threads, EnterCall(self)
      PROVE  ClockInv'
  BY <1>3, <1>7 DEF EnterCall, CriticalEnter
<1>8. ASSUME NEW self \in Threads, ExitCall(self)
      PROVE  ClockInv'
  BY <1>3, <1>8 DEF ExitCall, CriticalExit
<1>9. CASE UNCHANGED vars
  BY <1>3, <1>9 DEF vars, rtVars
<1> QED
  BY <1>1, <1>2, <1>4, <1>5, <1>6, <1>7, <1>8, <1>9, Zenon DEF Next

-----------------------------------------------------------------------------
(* The theorems. *)

(* The scheduler's invariant holds whatever the threads do. *)
LEMMA SchedInvariance == Spec => []SchedInv
<1>1. Init => SchedInv
  BY InitSched
<1>2. SchedInv /\ [Next]_vars => SchedInv'
  BY NextSched
<1> QED
  BY <1>1, <1>2, PTL DEF Spec

(* The type invariant, for the queues, the clocks and the time slices,     *)
(* which thinkos_timeshare() never leaves negative.                        *)
THEOREM SchedTypes == Spec => []TypeOK
<1>1. SchedInv => TypeOK
  BY DEF SchedInv
<1> QED
  BY <1>1, SchedInvariance, PTL

(* Outside of critical sections the first ready thread runs, unless a      *)
(* context switch is pending: every tick, sleep and thinkos_critical_exit()*)
(* that changes the first ready thread asks for the scheduler.             *)
THEOREM FirstRuns == Spec => []FirstReadyRuns
<1>1. SchedInv => FirstReadyRuns
  BY DEF SchedInv
<1> QED
  BY <1>1, SchedInvariance, PTL

(* A thread in a critical section loses the processor only when it has     *)
(* asked for the scheduler itself: thinkos_critical_enter() drops a switch *)
(* that is pending and the tick, while critical_cnt is not 0, asks for     *)
(* none.                                                                   *)
THEOREM CriticalSections == Spec => CriticalKept
<1>1. SchedInv /\ [Next]_vars =>
          [critical_cnt > 0 /\ active' # active => asked # "no"]_vars
  <2> SUFFICES ASSUME SchedInv, [Next]_vars, critical_cnt > 0, active' # active
               PROVE  asked # "no"
    OBVIOUS
  <2>1. CASE Switch
    BY <2>1 DEF Switch, PendSV, SchedInv
  <2>2. CASE UNCHANGED vars
    BY <2>2 DEF vars, rtVars
  <2>3. CASE Tick \/ IdleLoop
    BY <2>3, Zenon DEF Tick, SysTick, IdleLoop, Idle
  <2>4. ASSUME NEW self \in Threads,
               \/ SleepCall(self) \/ YieldCall(self)
               \/ EnterCall(self) \/ ExitCall(self)
        PROVE  active' = active
    BY <2>4, Zenon DEF SleepCall, Sleep, Alarm, WaitClock, YieldCall, Yield,
                       EnterCall, CriticalEnter, ExitCall, CriticalExit
  <2> QED
    BY <2>1, <2>2, <2>3, <2>4, Zenon DEF Next
<1> QED
  BY <1>1, SchedInvariance, PTL DEF Spec, CriticalKept

(* thinkos_time_wakeup() ends every sleep at its tick, however wide the    *)
(* tick counter is and however often it wraps around, as long as no sleep  *)
(* is longer than half its range.                                          *)
THEOREM Punctuality ==
    ASSUME Delays \subseteq 0 .. CLOCK_HALF
    PROVE  Spec => []Punctual
<1>1. Init => ClockInv
  BY InitSched
<1>2. SchedInv /\ ClockInv /\ [Next]_vars => ClockInv'
  BY NextClock
<1>3. ClockInv => Punctual
  BY DEF ClockInv
<1> QED
  BY <1>1, <1>2, <1>3, SchedInvariance, PTL DEF Spec

(* Threads that use no critical section do not execute before their sleep  *)
(* is over: thinkos_sleep() takes them out of the ready queue, and nothing *)
(* but the clock brings them back.                                         *)
THEOREM Sleeping ==
    ASSUME Delays \subseteq 0 .. CLOCK_HALF, CRITICAL_MAX = 0
    PROVE  Spec => []SleepLasts
<1>1. SchedInv => critical_cnt = 0
  BY DEF SchedInv, TypeOK, RtTypeOK
<1>2. Init => Apart(wq)
  BY InitSched
<1>3. SchedInv /\ Apart(wq) /\ [Next]_vars => Apart(wq)'
  <2> SUFFICES ASSUME SchedInv, Apart(wq), [Next]_vars
               PROVE  Apart(wq')
    BY DEF Apart
  <2> QED
    BY <1>1, NextSched
<1>4. SchedInv /\ Apart(wq) /\ Punctual => SleepLasts
  <2> SUFFICES ASSUME SchedInv, Apart(wq), Punctual, NEW th \in Threads, Running(th)
               PROVE  due[th] = 0
    BY DEF SleepLasts
  <2>1. th \in wq[WQ_READY]
    BY <1>1 DEF SchedInv, FirstReadyRuns, Running, IsHead
  <2>2. ~(due[th] > 0) /\ due[th] \in Nat
    BY <2>1 DEF Apart, Punctual, SchedInv, TypeOK
  <2> QED
    BY <2>2
<1> QED
  BY <1>2, <1>3, <1>4, SchedInvariance, Punctuality, PTL DEF Spec
=============================================================================
