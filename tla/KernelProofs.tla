---------------------------- MODULE KernelProofs -----------------------------
(***************************************************************************)
(* What the steps of the kernel preserve in MutexCond: the agreement of the*)
(* wait queues with the status words, and the rules of the scheduler; and  *)
(* what locking a mutex preserves besides.                                 *)
(***************************************************************************)
EXTENDS MutexCond, TLAPS

USE DEF WQ_READY, WQ_TMSHARE, WQ_CLOCK, NoStat, Stat

-----------------------------------------------------------------------------
(* The queue indices: the object queues are apart from the ready, time     *)
(* share and clock queues and from each other.                             *)
LEMMA Indices ==
    /\ {0, 1, 2} \subseteq Queues
    /\ Mutexes \subseteq Queues \ {0, 1, 2}
    /\ Conds \subseteq Queues \ {0, 1, 2}
    /\ Mutexes \cap Conds = {}
    /\ Queues \subseteq Nat
BY RtAssumption
   DEF Queues, Mutexes, Conds, MUTEX_BASE, COND_BASE, SEM_BASE, EVENT_BASE,
       FLAG_BASE, GATE_BASE, JOIN_BASE, WQ_PAUSED, WQ_CANCELED, WQ_LST_END

(* Threads and slots are numbers, and the idle thread is not a thread. *)
LEMMA SlotNumbers ==
    /\ Threads \subseteq Slots
    /\ Slots \subseteq Nat
    /\ IDLE \in Slots \ Threads
    /\ Slots = Threads \union {IDLE}
    /\ \A th \in Threads : th < IDLE
    /\ Slots \subseteq 0 .. VOID
    /\ VOID \notin Slots
BY RtAssumption DEF Threads, Slots, IDLE, VOID

(* __thinkos_wq_head() finds the lowest thread of a queue that is not empty *)
LEMMA HeadExists ==
    ASSUME HeadsExist, NEW S \in SUBSET Slots, S # {}
    PROVE  IsHead(S, WqHead(S))
<1>1. S \in SUBSET Nat
  BY SlotNumbers
<1> QED
  BY <1>1 DEF HeadsExist

(* Everything __thinkos_suspend() does to the queues. *)
LEMMA SuspendFacts ==
    ASSUME NEW q \in QMap, NEW th \in Threads, NEW s, s = Suspend(q, th),
           IDLE \in q[WQ_READY], IDLE \notin q[WQ_TMSHARE]
    PROVE  /\ s \in QMap
           /\ \A w \in Queues \ {WQ_READY, WQ_TMSHARE} : s[w] = q[w]
           /\ s[WQ_READY] = {IDLE} => s[WQ_TMSHARE] = {}
           /\ IDLE \in s[WQ_READY] /\ IDLE \notin s[WQ_TMSHARE]
           /\ \A t \in Slots : t \in s[WQ_READY] =>
                                  \/ t \in q[WQ_READY] /\ t # th
                                  \/ t \in q[WQ_TMSHARE] /\ s[WQ_TMSHARE] = {}
           /\ \A t \in Slots : t \in s[WQ_TMSHARE] => t \in q[WQ_TMSHARE]
           /\ \A t \in Slots : t \in q[WQ_READY] /\ t # th => t \in s[WQ_READY]
           /\ \A t \in q[WQ_TMSHARE] : t \in s[WQ_READY] \union s[WQ_TMSHARE]
           /\ th \in s[WQ_READY] => th \notin s[WQ_TMSHARE]
BY Indices, SlotNumbers DEF Suspend, QMap

(* The tick counter wraps around within its type. *)
LEMMA TickAddType ==
    ASSUME NEW t \in Ticks, NEW ms \in Nat
    PROVE  TickAdd(t, ms) \in Ticks
<1>1. t + ms \in Nat /\ 2 * CLOCK_HALF \in Nat \ {0}
  BY RtAssumption DEF Ticks
<1>2. \A a \in Nat, b \in Nat \ {0} : a % b \in 0 .. b - 1
  OBVIOUS
<1> QED
  BY <1>1, <1>2 DEF TickAdd, Ticks

(* The types of the queues and of the status words. *)
LEMMA RtTypes ==
    ASSUME RtTypeOK
    PROVE  wq \in QMap /\ th_stat \in SMap
BY DEF RtTypeOK, QMap, SMap, Slots

-----------------------------------------------------------------------------
(* The queue primitives preserve the agreement of queues and status words. *)

(* Thread th has entered the queues that its new status x names. *)
EntersQueues(q, q1, th, x) ==
    \A v \in Queues : q1[v] = IF v = x.wq \/ (v = WQ_CLOCK /\ x.timed)
                             THEN q[v] \union {th} ELSE q[v]

(* Thread th is ready, and x is the status of a blocked thread. *)
CanBlock(q, st, th, x) ==
    /\ q \in QMap /\ st \in SMap /\ Agree(q, st)
    /\ th \in Threads /\ st[th] = NoStat /\ th \in q[WQ_READY]
    /\ x \in [wq : Queues, timed : BOOLEAN]
    /\ x.wq \notin {WQ_READY, WQ_TMSHARE}

(* The status of th becomes x. *)
Assigned(st, st2, th, x) == st2 = [st EXCEPT ![th] = x]

(* What the step to queues q2 and status words st2 guarantees. *)
Blocked(q1, q2, st2) ==
    /\ q2 \in QMap
    /\ Agree(q2, st2)
    /\ q2[WQ_READY] = {IDLE} => q2[WQ_TMSHARE] = {}
    /\ \A v \in Queues \ {WQ_READY, WQ_TMSHARE} : q2[v] = q1[v]

(* A thread that blocks: it enters the queues and is suspended. *)
LEMMA AgreeBlock ==
    ASSUME NEW q, NEW st, NEW th, NEW x, CanBlock(q, st, th, x),
           NEW q1 \in QMap, EntersQueues(q, q1, th, x),
           NEW q2, q2 = Suspend(q1, th),
           NEW st2, Assigned(st, st2, th, x)
    PROVE  Blocked(q1, q2, st2)
<1> USE DEF CanBlock, Assigned
<1> DEFINE W == {v \in Queues : v = x.wq \/ (v = WQ_CLOCK /\ x.timed)}
<1>a. \A v \in Queues : q1[v] = IF v \in W THEN q[v] \union {th} ELSE q[v]
  BY DEF EntersQueues
<1>b. \A v \in Queues : v \in W <=> \/ v = x.wq
                                  \/ (v = WQ_CLOCK /\ x.timed)
  OBVIOUS
<1> HIDE DEF W
<1>0. WQ_READY \notin W /\ WQ_TMSHARE \notin W
  BY <1>b, Indices
<1>1. /\ q1[WQ_READY] = q[WQ_READY] /\ q1[WQ_TMSHARE] = q[WQ_TMSHARE]
      /\ IDLE \in q1[WQ_READY] /\ IDLE \notin q1[WQ_TMSHARE]
      /\ th \notin q1[WQ_TMSHARE]
  <2>1. q1[WQ_READY] = q[WQ_READY] /\ q1[WQ_TMSHARE] = q[WQ_TMSHARE]
    BY <1>0, <1>a, Indices, Zenon
  <2>2. IDLE \in q[WQ_READY] /\ IDLE \notin q[WQ_TMSHARE] /\ th \notin q[WQ_TMSHARE]
    BY Indices DEF Agree
  <2> QED
    BY <2>1, <2>2
<1>2. \A t \in Threads :
         /\ st[t] = NoStat => (t \in q1[WQ_READY] <=> t \notin q1[WQ_TMSHARE])
         /\ st[t] # NoStat => t \notin q1[WQ_READY] /\ t \notin q1[WQ_TMSHARE]
  BY <1>1, Indices DEF Agree
<1>3. /\ q2 \in QMap
      /\ \A v \in Queues \ {WQ_READY, WQ_TMSHARE} : q2[v] = q1[v]
      /\ q2[WQ_READY] = {IDLE} => q2[WQ_TMSHARE] = {}
      /\ IDLE \in q2[WQ_READY] /\ IDLE \notin q2[WQ_TMSHARE]
      /\ \A t \in Slots : t \in q2[WQ_READY] =>
                             \/ t \in q1[WQ_READY] /\ t # th
                             \/ t \in q1[WQ_TMSHARE] /\ q2[WQ_TMSHARE] = {}
      /\ \A t \in Slots : t \in q2[WQ_TMSHARE] => t \in q1[WQ_TMSHARE]
      /\ \A t \in Slots : t \in q1[WQ_READY] /\ t # th => t \in q2[WQ_READY]
      /\ \A t \in q1[WQ_TMSHARE] : t \in q2[WQ_READY] \union q2[WQ_TMSHARE]
  BY <1>1, SuspendFacts
<1>4. /\ th \notin q2[WQ_READY] /\ th \notin q2[WQ_TMSHARE]
      /\ \A t \in Threads :
           /\ st[t] = NoStat /\ t # th =>
                 (t \in q2[WQ_READY] <=> t \notin q2[WQ_TMSHARE])
           /\ st[t] # NoStat => t \notin q2[WQ_READY] /\ t \notin q2[WQ_TMSHARE]
  BY <1>1, <1>2, <1>3, SlotNumbers, Zenon
<1>5. \A v \in Queues : IDLE \in q2[v] <=> v = WQ_READY
  <2>0. IDLE # th
    BY SlotNumbers
  <2>1. \A v \in Queues : IDLE \in q1[v] <=> IDLE \in q[v]
    BY <1>a, <2>0, Zenon
  <2>2. \A v \in Queues : IDLE \in q[v] <=> v = WQ_READY
    BY DEF Agree
  <2> QED
    BY <1>3, <2>1, <2>2
<1>6. ASSUME NEW t \in Threads
      PROVE  IF st2[t] = NoStat
             THEN /\ \A v \in Queues \ {WQ_READY, WQ_TMSHARE} : t \notin q2[v]
                  /\ t \in q2[WQ_READY] <=> t \notin q2[WQ_TMSHARE]
             ELSE /\ st2[t].wq \notin {WQ_READY, WQ_TMSHARE}
                  /\ \A v \in Queues :
                       t \in q2[v] <=> \/ v = st2[t].wq
                                      \/ (v = WQ_CLOCK /\ st2[t].timed)
  <2>1. CASE t = th
    <3>1. st2[t] = x /\ x # NoStat
      BY <2>1 DEF SMap
    <3>2. \A v \in Queues \ {WQ_READY, WQ_TMSHARE} : t \in q1[v] <=> v \in W
      BY <1>a, <2>1, ZenonT(60) DEF Agree
    <3>3. \A v \in Queues : t \in q2[v] <=> v \in W
      BY <1>0, <1>3, <1>4, <2>1, <3>2
    <3> QED
      BY <1>b, <3>1, <3>3
  <2>2. CASE t # th
    <3>1. st2[t] = st[t] /\ \A v \in Queues : t \in q1[v] <=> t \in q[v]
      BY <1>a, <2>2, Zenon DEF SMap
    <3>2. CASE st[t] = NoStat
      BY <1>3, <1>4, <2>2, <3>1, <3>2 DEF Agree
    <3>3. CASE st[t] # NoStat
      BY <1>3, <1>4, <2>2, <3>1, <3>3 DEF Agree
    <3> QED
      BY <3>2, <3>3, Zenon
  <2> QED
    BY <2>1, <2>2, Zenon
<1>7. Agree(q2, st2)
  BY <1>5, <1>6, Zenon DEF Agree
<1> QED
  BY <1>3, <1>7, Zenon DEF Blocked

(* A thread that is woken: it leaves queue w and the clock queue. *)
LEMMA AgreeWakeup ==
    ASSUME NEW q \in QMap, NEW st \in SMap, Agree(q, st),
           NEW w \in Mutexes \union Conds, NEW th \in q[w],
           NEW q2, q2 = Wakeup(q, w, th)
    PROVE  /\ th \in Threads
           /\ st[th] # NoStat /\ st[th].wq = w
           /\ q2 \in QMap
           /\ Agree(q2, [st EXCEPT ![th] = NoStat])
           /\ q2[WQ_READY] = q[WQ_READY] \union {th}
           /\ q2[WQ_TMSHARE] = q[WQ_TMSHARE]
           /\ q2[w] = q[w] \ {th}
           /\ \A v \in Mutexes \union Conds : v # w => q2[v] = q[v]
<1>1. w \in Queues \ {0, 1, 2}
  BY Indices
<1>2. th \in Threads
  BY <1>1, SlotNumbers DEF Agree, QMap
<1>3. st[th] # NoStat /\ st[th].wq = w
  BY <1>1, <1>2 DEF Agree
<1>4. /\ q2 \in QMap
      /\ q2[WQ_READY] = q[WQ_READY] \union {th}
      /\ q2[w] = q[w] \ {th}
      /\ q2[WQ_CLOCK] = q[WQ_CLOCK] \ {th}
      /\ \A v \in Queues \ {WQ_READY, WQ_CLOCK, w} : q2[v] = q[v]
  BY <1>1, <1>2, Indices, SlotNumbers DEF Wakeup, QMap
<1>5. \A v \in Queues \ {WQ_READY} : th \notin q2[v]
  BY <1>1, <1>2, <1>3, <1>4 DEF Agree
<1>6. \A v \in Queues, t \in Slots \ {th} : t \in q2[v] <=> t \in q[v]
  BY <1>4, Indices
<1>7. Agree(q2, [st EXCEPT ![th] = NoStat])
  <2>1. \A v \in Queues : IDLE \in q2[v] <=> v = WQ_READY
    BY <1>2, <1>6, SlotNumbers DEF Agree
  <2>2. \A t \in Threads : [st EXCEPT ![th] = NoStat][t] = IF t = th THEN NoStat ELSE st[t]
    BY DEF SMap
  <2> QED
    BY <1>4, <1>5, <1>6, <2>1, <2>2, SlotNumbers, Indices DEF Agree
<1>8. \A v \in Mutexes \union Conds : v # w => q2[v] = q[v]
  BY <1>4, Indices, Zenon
<1>9. q2[WQ_TMSHARE] = q[WQ_TMSHARE]
  BY <1>1, <1>4, Indices
<1> QED
  BY <1>2, <1>3, <1>4, <1>7, <1>8, <1>9, Zenon

(* All threads of queue w are woken. *)
LEMMA AgreeWakeupAll ==
    ASSUME NEW q \in QMap, NEW st \in SMap, Agree(q, st),
           NEW w \in Mutexes \union Conds,
           NEW q2, q2 = WakeupAll(q, w),
           NEW st2 \in SMap,
           \A t \in Threads : st2[t] = IF t \in q[w] THEN NoStat ELSE st[t]
    PROVE  /\ q[w] \subseteq Threads
           /\ q2 \in QMap
           /\ Agree(q2, st2)
           /\ q2[WQ_READY] = q[WQ_READY] \union q[w]
           /\ q2[WQ_TMSHARE] = q[WQ_TMSHARE]
           /\ q2[w] = {}
           /\ \A v \in Mutexes \union Conds : v # w => q2[v] = q[v]
<1>1. w \in Queues \ {0, 1, 2}
  BY Indices
<1>2. q[w] \subseteq Threads
  BY <1>1, SlotNumbers DEF Agree, QMap
<1>3. \A t \in q[w] : st[t] # NoStat /\ st[t].wq = w
  BY <1>1, <1>2 DEF Agree
<1>4. /\ q2 \in QMap
      /\ q2[WQ_READY] = q[WQ_READY] \union q[w]
      /\ q2[w] = {}
      /\ q2[WQ_CLOCK] = q[WQ_CLOCK] \ q[w]
      /\ \A v \in Queues \ {WQ_READY, WQ_CLOCK, w} : q2[v] = q[v]
  BY <1>1, <1>2, Indices, SlotNumbers DEF WakeupAll, QMap
<1>5. \A t \in q[w], v \in Queues \ {WQ_READY} : t \notin q2[v]
  BY <1>1, <1>2, <1>3, <1>4 DEF Agree
<1>6. \A v \in Queues, t \in Slots \ q[w] : t \in q2[v] <=> t \in q[v]
  BY <1>4, Indices, Zenon
<1>7. Agree(q2, st2)
  <2>1. \A v \in Queues : IDLE \in q2[v] <=> v = WQ_READY
    BY <1>2, <1>6, SlotNumbers DEF Agree
  <2> QED
    BY <1>4, <1>5, <1>6, <2>1, SlotNumbers, Indices DEF Agree
<1>8. \A v \in Mutexes \union Conds : v # w => q2[v] = q[v]
  BY <1>4, Indices
<1>9. q2[WQ_TMSHARE] = q[WQ_TMSHARE]
  BY <1>1, <1>4, Indices
<1> QED
  BY <1>2, <1>4, <1>7, <1>8, <1>9, Zenon

(* The threads of S, whose time is up, are woken by the clock tick. *)
LEMMA AgreeTimeWakeup ==
    ASSUME wq \in QMap, th_stat \in SMap, Agree(wq, th_stat),
           NEW S \in SUBSET wq[WQ_CLOCK],
           NEW q2, q2 = TimeWakeup(wq, S),
           NEW st2 \in SMap,
           \A t \in Threads : st2[t] = IF t \in S THEN NoStat ELSE th_stat[t]
    PROVE  /\ S \subseteq Threads
           /\ q2 \in QMap
           /\ Agree(q2, st2)
           /\ q2[WQ_READY] = wq[WQ_READY] \union S
           /\ q2[WQ_TMSHARE] = wq[WQ_TMSHARE]
           /\ \A v \in Mutexes \union Conds : q2[v] = wq[v] \ S
<1>1. S \subseteq Threads
  BY Indices, SlotNumbers DEF Agree, QMap
<1>2. \A t \in S : th_stat[t] # NoStat /\ th_stat[t].wq \notin {WQ_READY, WQ_TMSHARE}
  BY <1>1, Indices DEF Agree
<1>3. /\ q2 \in QMap
      /\ q2[WQ_READY] = wq[WQ_READY] \union S
      /\ q2[WQ_CLOCK] = wq[WQ_CLOCK] \ S
      /\ \A v \in Queues \ {WQ_READY, WQ_CLOCK} :
            q2[v] = wq[v] \ {t \in S : th_stat[t].wq = v}
  <2>1. q2[WQ_READY] = wq[WQ_READY] \union S /\ q2[WQ_CLOCK] = wq[WQ_CLOCK] \ S
    BY Indices DEF TimeWakeup
  <2>2. \A v \in Queues \ {WQ_READY, WQ_CLOCK} :
            q2[v] = wq[v] \ {t \in S : th_stat[t].wq = v}
    BY Indices DEF TimeWakeup
  <2>3. \A v \in Queues : q2[v] \subseteq Slots
    <3>1. S \subseteq Slots /\ \A v \in Queues : wq[v] \subseteq Slots
      BY <1>1, SlotNumbers DEF QMap
    <3> QED
      BY <2>1, <2>2, <3>1
  <2>4. q2 = [v \in Queues |-> q2[v]]
    BY DEF TimeWakeup
  <2> QED
    BY <2>1, <2>2, <2>3, <2>4 DEF QMap
<1>4. \A t \in S, v \in Queues \ {WQ_READY} : t \notin q2[v]
  <2>1. \A t \in S, v \in Queues \ {WQ_READY, WQ_CLOCK} : t \in wq[v] => v = th_stat[t].wq
    BY <1>1, <1>2 DEF Agree
  <2> QED
    BY <1>3, <2>1
<1>5. \A v \in Queues, t \in Slots \ S : t \in q2[v] <=> t \in wq[v]
  BY <1>3, Indices
<1>6. Agree(q2, st2)
  <2>1. \A v \in Queues : IDLE \in q2[v] <=> v = WQ_READY
    BY <1>1, <1>5, SlotNumbers, Zenon DEF Agree
  <2>2. \A t \in S : /\ st2[t] = NoStat
                     /\ t \in q2[WQ_READY] /\ t \notin q2[WQ_TMSHARE]
    BY <1>1, <1>3, <1>4, Indices
  <2>3. \A t \in Threads \ S : /\ st2[t] = th_stat[t]
                               /\ \A v \in Queues : t \in q2[v] <=> t \in wq[v]
    BY <1>5, SlotNumbers
  <2> QED
    BY <1>4, <2>1, <2>2, <2>3, Indices DEF Agree
<1>7. q2[WQ_TMSHARE] = wq[WQ_TMSHARE]
  <2>1. {t \in S : th_stat[t].wq = WQ_TMSHARE} = {}
    BY <1>2
  <2>2. WQ_TMSHARE \in Queues \ {WQ_READY, WQ_CLOCK}
    BY Indices
  <2>3. q2[WQ_TMSHARE] = wq[WQ_TMSHARE] \ {t \in S : th_stat[t].wq = WQ_TMSHARE}
    BY <1>3, <2>2
  <2> QED
    BY <2>1, <2>3, Zenon
<1>8. \A v \in Mutexes \union Conds : q2[v] = wq[v] \ S
  BY <1>3, <1>4, <1>5, Indices DEF QMap
<1> QED
  BY <1>1, <1>3, <1>6, <1>7, <1>8, Zenon

(* A ready thread that has used its slice up waits for its time share. *)
LEMMA AgreeTimeshare ==
    ASSUME NEW q \in QMap, NEW st \in SMap, Agree(q, st),
           NEW th \in Threads, th \in q[WQ_READY],
           NEW q2, q2 = Suspend(Insert(q, WQ_TMSHARE, th), th)
    PROVE  /\ q2 \in QMap
           /\ Agree(q2, st)
           /\ q2[WQ_READY] = {IDLE} => q2[WQ_TMSHARE] = {}
           /\ \A v \in Mutexes \union Conds : q2[v] = q[v]
<1> DEFINE q1 == Insert(q, WQ_TMSHARE, th)
<1>1. /\ q1 \in QMap
      /\ q1[WQ_TMSHARE] = q[WQ_TMSHARE] \union {th}
      /\ \A v \in Queues \ {WQ_TMSHARE} : q1[v] = q[v]
  BY Indices, SlotNumbers DEF Insert, QMap
<1>2. st[th] = NoStat /\ th \notin q[WQ_TMSHARE]
  BY Indices DEF Agree
<1>3. IDLE \in q1[WQ_READY] /\ IDLE \notin q1[WQ_TMSHARE]
  <2>1. IDLE \in q[WQ_READY] /\ IDLE \notin q[WQ_TMSHARE] /\ IDLE # th
    BY Indices, SlotNumbers DEF Agree
  <2> QED
    BY <1>1, <2>1, Indices
<1> HIDE DEF q1
<1>4. /\ q2 \in QMap
      /\ \A v \in Queues \ {WQ_READY, WQ_TMSHARE} : q2[v] = q1[v]
      /\ q2[WQ_READY] = {IDLE} => q2[WQ_TMSHARE] = {}
      /\ IDLE \in q2[WQ_READY] /\ IDLE \notin q2[WQ_TMSHARE]
      /\ \A t \in Slots : t \in q2[WQ_READY] =>
                             \/ t \in q1[WQ_READY] /\ t # th
                             \/ t \in q1[WQ_TMSHARE] /\ q2[WQ_TMSHARE] = {}
      /\ \A t \in Slots : t \in q2[WQ_TMSHARE] => t \in q1[WQ_TMSHARE]
      /\ \A t \in Slots : t \in q1[WQ_READY] /\ t # th => t \in q2[WQ_READY]
      /\ \A t \in q1[WQ_TMSHARE] : t \in q2[WQ_READY] \union q2[WQ_TMSHARE]
      /\ th \in q2[WQ_READY] => th \notin q2[WQ_TMSHARE]
  BY <1>1, <1>3, SuspendFacts DEF q1
<1>5. \A t \in Threads :
         /\ st[t] = NoStat => (t \in q2[WQ_READY] <=> t \notin q2[WQ_TMSHARE])
         /\ st[t] # NoStat => t \notin q2[WQ_READY] /\ t \notin q2[WQ_TMSHARE]
  <2>1. \A t \in Threads \ {th} :
           /\ st[t] = NoStat => (t \in q1[WQ_READY] <=> t \notin q1[WQ_TMSHARE])
           /\ st[t] # NoStat => t \notin q1[WQ_READY] /\ t \notin q1[WQ_TMSHARE]
    BY <1>1, Indices DEF Agree
  <2>2. \A t \in Threads \ {th} :
           /\ st[t] = NoStat => (t \in q2[WQ_READY] <=> t \notin q2[WQ_TMSHARE])
           /\ st[t] # NoStat => t \notin q2[WQ_READY] /\ t \notin q2[WQ_TMSHARE]
    BY <1>4, <2>1, SlotNumbers, Zenon
  <2>3. th \in q2[WQ_READY] <=> th \notin q2[WQ_TMSHARE]
    BY <1>1, <1>4
  <2> QED
    BY <1>2, <2>2, <2>3
<1>6. Agree(q2, st)
  <2>1. \A v \in Queues : IDLE \in q2[v] <=> v = WQ_READY
    BY <1>1, <1>4 DEF Agree
  <2>2. \A v \in Queues \ {WQ_READY, WQ_TMSHARE} : q2[v] = q[v]
    BY <1>1, <1>4
  <2> QED
    BY <1>5, <2>1, <2>2, Indices DEF Agree
<1> QED
  BY <1>1, <1>4, <1>6, Indices, Zenon

-----------------------------------------------------------------------------
(* Threads and slots, and the mark of a mutex without an owner. *)
LEMMA SlotFacts ==
    /\ Threads \subseteq Slots
    /\ Slots \subseteq Nat
    /\ IDLE \in Slots \ Threads
    /\ Slots = Threads \union {IDLE}
    /\ \A th \in Threads : th < IDLE
    /\ Slots \subseteq 0 .. VOID
    /\ FREE \notin Threads
    /\ VOID \notin Slots
BY SlotNumbers, RtAssumption DEF Threads, FREE

-----------------------------------------------------------------------------
(* The part of the invariant that concerns threads and queues, whatever    *)
(* the objects the threads wait for.                                       *)
KInv ==
    /\ RtTypeOK
    /\ SchedTypeOK
    /\ \A s \in Slots : sched_pri[s] <= sched_limit
    /\ sched_pri[IDLE] = 0
    /\ critical_cnt = 0
    /\ QueueInv
    /\ WorkConserving
    /\ RunsFirstReady
    /\ HeadsExist

(* The types that the lemmas about queues and status words ask for. *)
LEMMA KTypes ==
    ASSUME KInv
    PROVE  /\ wq \in QMap /\ th_stat \in SMap /\ Agree(wq, th_stat)
           /\ r0 \in [Threads -> Int]
BY RtTypes DEF KInv, QueueInv, RtTypeOK

LEMMA CodeTypes == OK \in Int /\ ETIMEDOUT \in Int
BY DEF OK, ETIMEDOUT

(* A thread that executes has returned from its last call and is ready. *)
LEMMA RunningFacts ==
    ASSUME KInv, NEW self \in Threads, Running(self)
    PROVE  /\ ~pendsv
           /\ self \in wq[WQ_READY] /\ self \notin wq[WQ_TMSHARE]
           /\ th_stat[self] = NoStat
           /\ \A w \in Queues \ {WQ_READY} : self \notin wq[w]
<1>1. ~pendsv /\ self \in wq[WQ_READY]
  BY DEF KInv, Running, RunsFirstReady, IsHead
<1>2. wq \in QMap /\ th_stat \in SMap /\ Agree(wq, th_stat)
  BY RtTypes DEF KInv, QueueInv
<1>3. th_stat[self] = NoStat
  BY <1>1, <1>2, Indices DEF Agree
<1>4. \A w \in Queues \ {WQ_READY, WQ_TMSHARE} : self \notin wq[w]
  BY <1>2, <1>3 DEF Agree
<1>5. self \notin wq[WQ_TMSHARE]
  BY <1>1, <1>2, <1>3 DEF Agree
<1> QED
  BY <1>1, <1>3, <1>4, <1>5

(* A call that sets results and no queue. *)
LEMMA KReply ==
    ASSUME KInv, NEW self \in Threads, NEW v \in Int, Reply(self, v)
    PROVE  KInv'
BY DEF KInv, Reply, Return, RtTypeOK, SchedTypeOK, QueueInv, WorkConserving,
       RunsFirstReady, schedVars, Agree, IsHead

(* A step that changes no variable of the kernel but pendsv, which it sets. *)
LEMMA KDefer ==
    ASSUME KInv, pendsv' = TRUE,
           UNCHANGED <<wq, th_stat, clock, ticks, active, critical_cnt, r0, schedVars>>
    PROVE  KInv'
BY Zenon DEF KInv, RtTypeOK, SchedTypeOK, QueueInv, WorkConserving,
       RunsFirstReady, schedVars, Agree, IsHead

(* The context switch. *)
LEMMA KPendSV ==
    ASSUME KInv, PendSV
    PROVE  KInv'
<1>1. wq[WQ_READY] \in SUBSET Slots /\ wq[WQ_READY] # {}
  BY RtTypes, Indices DEF KInv, QMap, QueueInv, Agree
<1>2. IsHead(wq[WQ_READY], WqHead(wq[WQ_READY]))
  BY <1>1, HeadExists DEF KInv
<1>3. WqHead(wq[WQ_READY]) \in 0 .. VOID
  BY <1>1, <1>2, SlotFacts, Zenon DEF IsHead
<1>4. RtTypeOK'
  BY <1>3, Zenon DEF KInv, PendSV, RtTypeOK
<1>5. RunsFirstReady'
  BY <1>2 DEF PendSV, RunsFirstReady, IsHead
<1> QED
  BY <1>4, <1>5 DEF KInv, PendSV, SchedTypeOK, QueueInv, WorkConserving,
       schedVars, Agree

(* A step that suspends the current thread and asks for the scheduler. *)
LEMMA KSuspend ==
    ASSUME KInv, wq' \in QMap, th_stat' \in SMap, Agree(wq', th_stat'),
           wq'[WQ_READY] = {IDLE} => wq'[WQ_TMSHARE] = {},
           clock' \in [Threads -> Ticks], r0' \in [Threads -> Int],
           pendsv' = TRUE,
           UNCHANGED <<ticks, active, critical_cnt, schedVars>>
    PROVE  KInv'
<1>1. RtTypeOK'
  BY DEF KInv, RtTypeOK, QMap, SMap, Slots
<1> QED
  BY <1>1, Zenon DEF KInv, SchedTypeOK, QueueInv, WorkConserving, RunsFirstReady, schedVars, Agree

(* Thread self is ready and may leave for queue w; afterwards it is there. *)
CanLeave(q, st, self, w) ==
    /\ q \in QMap /\ st \in SMap /\ Agree(q, st)
    /\ st[self] = NoStat /\ self \in q[WQ_READY]
    /\ w \in Mutexes \union Conds

Left(q, self, w) ==
    /\ wq'[w] = q[w] \union {self}
    /\ \A v \in (Mutexes \union Conds) \ {w} : wq'[v] = q[v]

(* The current thread blocks in the queue of an object. *)
LEMMA KBlock ==
    ASSUME KInv, NEW self \in Threads,
           NEW q, NEW st, NEW w, CanLeave(q, st, self, w), Block(q, self, w),
           Assigned(st, th_stat', self, Stat(w, FALSE)),
           r0' \in [Threads -> Int]
    PROVE  KInv' /\ Left(q, self, w)
<1>1. /\ w \in Queues \ {0, 1, 2}
      /\ q \in QMap /\ st \in SMap /\ Agree(q, st)
      /\ st[self] = NoStat /\ self \in q[WQ_READY]
  BY Indices DEF CanLeave
<1> DEFINE q1 == Insert(q, w, self)
           x == Stat(w, FALSE)
<1>2. q1 \in QMap /\ EntersQueues(q, q1, self, x)
  BY <1>1, SlotFacts, Zenon DEF Insert, QMap, EntersQueues
<1>3. wq' = Suspend(q1, self) /\ th_stat' = [st EXCEPT ![self] = x]
  BY DEF Block, Assigned
<1>4. x \in [wq : Queues, timed : BOOLEAN] /\ x.wq \notin {WQ_READY, WQ_TMSHARE}
  BY <1>1
<1>5. q1[w] = q[w] \union {self} /\ \A v \in Queues \ {w} : q1[v] = q[v]
  BY <1>1 DEF QMap, Insert
<1> HIDE DEF q1, x
<1>6. Blocked(q1, wq', th_stat')
  <2>1. CanBlock(q, st, self, x)
    BY <1>1, <1>4 DEF CanBlock
  <2>2. Assigned(st, th_stat', self, x)
    BY <1>3, ZenonT(60) DEF Assigned
  <2> QED
    BY <1>2, <1>3, <2>1, <2>2, AgreeBlock, Zenon
<1>7. KInv'
  <2>1. th_stat' \in SMap
    BY <1>1, <1>3, <1>4 DEF SMap
  <2> QED
    BY <1>6, <2>1, KSuspend, Zenon DEF Blocked, Block, KInv, RtTypeOK
<1> QED
  BY <1>1, <1>5, <1>6, <1>7, Indices, Zenon DEF Blocked, Left

(* The same with a time limit. *)
LEMMA KTmdBlock ==
    ASSUME KInv, NEW self \in Threads, NEW ms \in Nat,
           NEW q, NEW st, NEW w, CanLeave(q, st, self, w), TmdBlock(q, self, w, ms),
           Assigned(st, th_stat', self, Stat(w, TRUE)),
           r0' \in [Threads -> Int]
    PROVE  KInv' /\ Left(q, self, w)
<1>1. /\ w \in Queues \ {0, 1, 2}
      /\ q \in QMap /\ st \in SMap /\ Agree(q, st)
      /\ st[self] = NoStat /\ self \in q[WQ_READY]
  BY Indices DEF CanLeave
<1> DEFINE q1 == TmdInsert(q, w, self)
           x == Stat(w, TRUE)
<1>2. q1 \in QMap /\ EntersQueues(q, q1, self, x)
  BY <1>1, SlotFacts, Indices, ZenonT(60) DEF TmdInsert, Insert, QMap, EntersQueues
<1>3. wq' = Suspend(q1, self) /\ th_stat' = [st EXCEPT ![self] = x]
  BY DEF TmdBlock, Assigned
<1>4. x \in [wq : Queues, timed : BOOLEAN] /\ x.wq \notin {WQ_READY, WQ_TMSHARE}
  BY <1>1
<1>5. /\ q1[w] = q[w] \union {self}
      /\ \A v \in Queues \ {w, WQ_CLOCK} : q1[v] = q[v]
  BY <1>1, Indices DEF QMap, TmdInsert, Insert
<1> HIDE DEF q1, x
<1>6. Blocked(q1, wq', th_stat')
  <2>1. CanBlock(q, st, self, x)
    BY <1>1, <1>4 DEF CanBlock
  <2>2. Assigned(st, th_stat', self, x)
    BY <1>3, Zenon DEF Assigned
  <2> QED
    BY <1>2, <1>3, <2>1, <2>2, AgreeBlock, Zenon
<1>7. KInv'
  <2>1. th_stat' \in SMap
    BY <1>1, <1>3, <1>4 DEF SMap
  <2>2. clock' \in [Threads -> Ticks]
    BY TickAddType DEF TmdBlock, KInv, RtTypeOK
  <2> QED
    BY <1>6, <2>1, <2>2, KSuspend, Zenon DEF TmdBlock, Blocked
<1> QED
  BY <1>1, <1>5, <1>6, <1>7, Indices, Zenon DEF Blocked, Left

(* Both together: the thread leaves for queue w, with a time limit or not. *)
BlockOn(q, self, w, timed) ==
    IF timed THEN \E ms \in Delays : TmdBlock(q, self, w, ms) ELSE Block(q, self, w)

LEMMA KBlockOn ==
    ASSUME KInv, NEW self \in Threads, NEW timed \in BOOLEAN,
           NEW q, NEW st, NEW w, CanLeave(q, st, self, w), BlockOn(q, self, w, timed),
           Assigned(st, th_stat', self, Stat(w, timed)),
           r0' \in [Threads -> Int]
    PROVE  KInv' /\ Left(q, self, w)
<1> HIDE DEF Stat, NoStat
<1>1. CASE timed = TRUE
  <2>1. PICK ms \in Delays : TmdBlock(q, self, w, ms)
    BY <1>1 DEF BlockOn
  <2>2. ms \in Nat
    BY MutexCondAssumption
  <2>3. Assigned(st, th_stat', self, Stat(w, TRUE))
    BY <1>1, Zenon
  <2> QED
    BY <2>1, <2>2, <2>3, KTmdBlock, Zenon
<1>2. CASE timed = FALSE
  <2>1. Block(q, self, w) /\ Assigned(st, th_stat', self, Stat(w, FALSE))
    BY <1>2, Zenon DEF BlockOn
  <2> QED
    BY <2>1, KBlock, Zenon
<1> QED
  BY <1>1, <1>2, Zenon

(* The current thread sleeps. *)
LEMMA KWaitClock ==
    ASSUME KInv, NEW self \in Threads, Running(self),
           NEW clk \in Ticks, WaitClock(self, clk)
    PROVE  /\ KInv'
           /\ \A v \in Mutexes \union Conds : wq'[v] = wq[v]
<1>1. WQ_CLOCK \in Queues
  BY Indices
<1> DEFINE q1 == Insert(wq, WQ_CLOCK, self)
           x == Stat(WQ_CLOCK, TRUE)
<1>2. wq \in QMap /\ th_stat \in SMap
  BY RtTypes DEF KInv
<1>3. q1 \in QMap /\ EntersQueues(wq, q1, self, x)
  BY <1>1, <1>2, SlotFacts DEF Insert, QMap, EntersQueues
<1>4. CanBlock(wq, th_stat, self, x)
  BY <1>1, <1>2, RunningFacts DEF CanBlock, KInv, QueueInv
<1>5. wq' = Suspend(q1, self) /\ Assigned(th_stat, th_stat', self, x)
  BY DEF WaitClock, Assigned
<1>6. \A v \in Queues \ {WQ_CLOCK} : q1[v] = wq[v]
  BY <1>2 DEF Insert, QMap
<1>7. th_stat' \in SMap
  BY <1>1, <1>2, <1>5 DEF Assigned, SMap
<1> HIDE DEF q1, x
<1>8. Blocked(q1, wq', th_stat')
  BY <1>3, <1>4, <1>5, AgreeBlock, Zenon
<1>9. KInv'
  <2>1. clock' \in [Threads -> Ticks] /\ r0' \in [Threads -> Int]
    BY Zenon DEF WaitClock, KInv, RtTypeOK
  <2> QED
    BY <1>7, <1>8, <2>1, KSuspend, Zenon DEF WaitClock, Blocked
<1> QED
  BY <1>6, <1>8, <1>9, Indices, Zenon DEF Blocked

(* A step that wakes threads and asks for the scheduler. *)
LEMMA KWake ==
    ASSUME KInv, wq' \in QMap, th_stat' \in SMap, Agree(wq', th_stat'),
           wq[WQ_READY] \subseteq wq'[WQ_READY], wq'[WQ_TMSHARE] = wq[WQ_TMSHARE],
           r0' \in [Threads -> Int], pendsv' = TRUE,
           UNCHANGED <<clock, ticks, active, critical_cnt, schedVars>>
    PROVE  KInv'
<1>1. RtTypeOK'
  BY DEF KInv, RtTypeOK, QMap, SMap, Slots
<1>2. WorkConserving'
  <2>1. IDLE \in wq[WQ_READY]
    BY Indices, Zenon DEF KInv, QueueInv, Agree
  <2>2. CASE wq'[WQ_READY] = {IDLE}
    <3>1. wq[WQ_READY] = {IDLE}
      BY <2>1, <2>2
    <3> QED
      BY <3>1 DEF KInv, WorkConserving
  <2> QED
    BY <2>2 DEF WorkConserving
<1> QED
  BY <1>1, <1>2, Zenon DEF KInv, SchedTypeOK, QueueInv, RunsFirstReady, schedVars, Agree

(* A thread in the queue of an object or in the clock queue is blocked. *)
LEMMA InQueue ==
    ASSUME KInv, NEW th \in Threads, NEW w \in Queues \ {WQ_READY, WQ_TMSHARE}, th \in wq[w]
    PROVE  /\ th_stat[th] # NoStat
           /\ w = th_stat[th].wq \/ (w = WQ_CLOCK /\ th_stat[th].timed)
           /\ th_stat[th].wq \in Queues => th \in wq[th_stat[th].wq]
<1>1. wq \in QMap /\ th_stat \in SMap /\ Agree(wq, th_stat)
  BY RtTypes DEF KInv, QueueInv
<1>2. th_stat[th] # NoStat
  BY <1>1 DEF Agree
<1>3. \A v \in Queues : th \in wq[v] <=> \/ v = th_stat[th].wq
                                       \/ (v = WQ_CLOCK /\ th_stat[th].timed)
  BY <1>1, <1>2 DEF Agree
<1> QED
  BY <1>2, <1>3

(* The head of an object's queue is a blocked thread. *)
LEMMA HeadFacts ==
    ASSUME KInv, NEW w \in Mutexes \union Conds, wq[w] # {}
    PROVE  /\ WqHead(wq[w]) \in wq[w]
           /\ WqHead(wq[w]) \in Threads
           /\ th_stat[WqHead(wq[w])] # NoStat
           /\ th_stat[WqHead(wq[w])].wq = w
<1>1. wq \in QMap /\ th_stat \in SMap /\ Agree(wq, th_stat)
  BY RtTypes DEF KInv, QueueInv
<1>2. w \in Queues \ {0, 1, 2}
  BY Indices
<1>3. wq[w] \in SUBSET Slots
  BY <1>1, <1>2 DEF QMap
<1>4. WqHead(wq[w]) \in wq[w]
  BY <1>3, HeadExists DEF KInv, IsHead
<1>5. WqHead(wq[w]) \in Threads
  BY <1>1, <1>2, <1>3, <1>4, SlotFacts, SMTT(60) DEF Agree
<1> QED
  BY <1>1, <1>2, <1>4, <1>5 DEF Agree

(* The first thread of queue w, if any, is woken: unlock, signal, and the  *)
(* release of the mutex in a wait.                                         *)
LEMMA ReleaseFacts ==
    ASSUME KInv, NEW w \in Mutexes \union Conds,
           NEW q1, q1 = Released(wq, w), NEW st1, st1 = Handed(th_stat, w, NoStat)
    PROVE  /\ q1 \in QMap /\ st1 \in SMap /\ Agree(q1, st1)
           /\ wq[WQ_READY] \subseteq q1[WQ_READY]
           /\ q1[WQ_TMSHARE] = wq[WQ_TMSHARE]
           /\ q1[w] = wq[w] \ {WqHead(wq[w])}
           /\ \A v \in (Mutexes \union Conds) \ {w} : q1[v] = wq[v]
           /\ \A t \in Threads : st1[t] = IF wq[w] # {} /\ t = WqHead(wq[w])
                                         THEN NoStat ELSE th_stat[t]
<1>1. wq \in QMap /\ th_stat \in SMap /\ Agree(wq, th_stat)
  BY RtTypes, Zenon DEF KInv, QueueInv
<1>2. CASE wq[w] = {}
  BY <1>1, <1>2, Zenon DEF Released, Handed
<1>3. CASE wq[w] # {}
  <2> DEFINE th == WqHead(wq[w])
  <2>1. th \in wq[w] /\ th \in Threads
    BY <1>3, HeadFacts
  <2>2. q1 = Wakeup(wq, w, th) /\ st1 = [th_stat EXCEPT ![th] = NoStat]
    BY <1>3 DEF Released, Handed
  <2> HIDE DEF th
  <2>3. /\ q1 \in QMap
        /\ q1[WQ_READY] = wq[WQ_READY] \union {th}
        /\ q1[WQ_TMSHARE] = wq[WQ_TMSHARE]
        /\ q1[w] = wq[w] \ {th}
        /\ \A v \in Mutexes \union Conds : v # w => q1[v] = wq[v]
    BY <1>1, <2>1, <2>2, AgreeWakeup
  <2>4. Agree(q1, st1)
    BY <1>1, <2>1, <2>2, AgreeWakeup
  <2>5. /\ st1 \in SMap
        /\ \A t \in Threads : st1[t] = IF t = th THEN NoStat ELSE th_stat[t]
    <3>1. NoStat \in [wq : Queues, timed : BOOLEAN]
      BY Indices, Zenon
    <3> HIDE DEF NoStat
    <3> QED
      BY <1>1, <2>1, <2>2, <3>1 DEF SMap
  <2> QED
    BY <1>3, <2>3, <2>4, <2>5, Zenon DEF th
<1> QED
  BY <1>2, <1>3, Zenon

(* The kernel's part of unlock and signal. *)
LEMMA KRelease ==
    ASSUME KInv, NEW w \in Mutexes \union Conds, ~pendsv,
           wq' = Released(wq, w), th_stat' = Handed(th_stat, w, NoStat),
           r0' \in [Threads -> Int], pendsv' = DeferIfWoken(w),
           UNCHANGED <<clock, ticks, active, critical_cnt, schedVars>>
    PROVE  KInv'
<1>1. CASE wq[w] = {}
  <2>1. UNCHANGED <<wq, th_stat>>
    BY <1>1 DEF Released, Handed
  <2>2. pendsv' = FALSE
    BY <1>1, Zenon DEF DeferIfWoken
  <2>3. RtTypeOK'
    BY <2>1, <2>2, ZenonT(60) DEF KInv, RtTypeOK
  <2>4. RunsFirstReady'
    BY <2>1, Zenon DEF KInv, RunsFirstReady, IsHead
  <2> QED
    BY <2>1, <2>3, <2>4, SMTT(60) DEF KInv, SchedTypeOK, QueueInv, WorkConserving,
                schedVars, Agree
<1>2. CASE wq[w] # {}
  <2>1. pendsv' = TRUE
    BY <1>2, Zenon DEF DeferIfWoken
  <2>2. /\ wq' \in QMap /\ th_stat' \in SMap /\ Agree(wq', th_stat')
        /\ wq[WQ_READY] \subseteq wq'[WQ_READY]
        /\ wq'[WQ_TMSHARE] = wq[WQ_TMSHARE]
    BY ReleaseFacts, SMTT(60)
  <2> QED
    BY <2>1, <2>2, KWake, ZenonT(60)
<1> QED
  BY <1>1, <1>2, Zenon

(* The kernel's part of broadcast. *)
LEMMA KReleaseAll ==
    ASSUME KInv, NEW w \in Mutexes \union Conds, ~pendsv,
           wq' = WakeupAll(wq, w),
           th_stat' = [th \in Threads |-> IF th \in wq[w] THEN NoStat ELSE th_stat[th]],
           r0' \in [Threads -> Int], pendsv' = DeferIfWoken(w),
           UNCHANGED <<clock, ticks, active, critical_cnt, schedVars>>
    PROVE  /\ KInv'
           /\ wq[w] \subseteq Threads
           /\ wq'[w] = {}
           /\ \A v \in (Mutexes \union Conds) \ {w} : wq'[v] = wq[v]
<1>1. wq \in QMap /\ th_stat \in SMap /\ Agree(wq, th_stat)
  BY RtTypes DEF KInv, QueueInv
<1>2. th_stat' \in SMap
  BY <1>1, Indices, Zenon DEF SMap
<1>3. /\ wq[w] \subseteq Threads
      /\ wq' \in QMap
      /\ Agree(wq', th_stat')
      /\ wq'[WQ_READY] = wq[WQ_READY] \union wq[w]
      /\ wq'[WQ_TMSHARE] = wq[WQ_TMSHARE]
      /\ wq'[w] = {}
      /\ \A v \in Mutexes \union Conds : v # w => wq'[v] = wq[v]
  <2>1. \A t \in Threads : th_stat'[t] = IF t \in wq[w] THEN NoStat ELSE th_stat[t]
    BY Zenon
  <2> HIDE DEF NoStat
  <2> QED
    BY <1>1, <1>2, <2>1, AgreeWakeupAll, SMTT(60)
<1>4. CASE wq[w] # {}
  <2>1. pendsv' = TRUE /\ wq[WQ_READY] \subseteq wq'[WQ_READY]
    BY <1>3, <1>4, ZenonT(60) DEF DeferIfWoken
  <2> QED
    BY <1>2, <1>3, <2>1, KWake, Zenon
<1>5. CASE wq[w] = {}
  <2>1. pendsv' = FALSE
    BY <1>5, ZenonT(60) DEF DeferIfWoken
  <2>3. wq'[WQ_READY] = wq[WQ_READY]
    BY <1>3, <1>5
  <2>2. RtTypeOK'
    BY <1>2, <1>3, <2>1, ZenonT(60) DEF KInv, RtTypeOK, QMap, SMap, Slots
  <2> QED
    BY <1>3, <2>1, <2>2, <2>3, Zenon DEF KInv, SchedTypeOK, QueueInv, WorkConserving,
                RunsFirstReady, schedVars, Agree, IsHead
<1> QED
  BY <1>3, <1>4, <1>5, Zenon

(* The threads whose time is up at the next tick. *)
Woken == {th \in wq[WQ_CLOCK] : Expired(clock[th], TickAdd(ticks, 1))}

(* The clock tick. *)
LEMMA KSysTick ==
    ASSUME KInv, SysTick
    PROVE  /\ KInv'
           /\ Woken \subseteq Threads
           /\ \A v \in Mutexes \union Conds : wq'[v] = wq[v] \ Woken
           /\ \A t \in Threads : th_stat'[t] = IF t \in Woken THEN NoStat ELSE th_stat[t]
<1> DEFINE awake == TimeWakeup(wq, Woken)
<1>1. wq \in QMap /\ th_stat \in SMap /\ Agree(wq, th_stat)
  BY RtTypes DEF KInv, QueueInv
<1>2. /\ th_stat' \in SMap
      /\ \A t \in Threads : th_stat'[t] = IF t \in Woken THEN NoStat ELSE th_stat[t]
  <2>1. NoStat \in [wq : Queues, timed : BOOLEAN]
    BY Indices, SMTT(60)
  <2> HIDE DEF NoStat
  <2>2. th_stat' = [th \in Threads |-> IF th \in Woken THEN NoStat ELSE th_stat[th]]
    BY Zenon DEF SysTick, Woken
  <2> QED
    BY <1>1, <2>1, <2>2 DEF SMap
<1>3. /\ Woken \subseteq Threads
      /\ awake \in QMap
      /\ Agree(awake, th_stat')
      /\ awake[WQ_READY] = wq[WQ_READY] \union Woken
      /\ awake[WQ_TMSHARE] = wq[WQ_TMSHARE]
      /\ \A v \in Mutexes \union Conds : awake[v] = wq[v] \ Woken
  <2>1. Woken \in SUBSET wq[WQ_CLOCK]
    BY SMTT(60) DEF Woken
  <2> HIDE DEF NoStat
  <2> QED
    BY <1>1, <1>2, <2>1, AgreeTimeWakeup
<1>4. /\ wq' = Timeshare(awake)
      /\ pendsv' = IF Woken # {} \/ Shared(awake) THEN Preempt ELSE pendsv
      /\ ticks' = TickAdd(ticks, 1)
      /\ sched_val' = IF ~Charged THEN sched_val
                      ELSE [sched_val EXCEPT ![active] = Refilled(Remaining)]
      /\ UNCHANGED <<clock, active, critical_cnt, r0, sched_pri, sched_limit>>
  BY Zenon DEF SysTick, Woken
<1>5. Preempt = TRUE
  BY DEF KInv, Preempt
<1>6. ticks' \in Ticks
  BY <1>4, TickAddType DEF KInv, RtTypeOK
<1>7. Charged => active \in Slots
  BY RtAssumption DEF KInv, RtTypeOK, Charged, Slots, Threads, IDLE, VOID
<1>8. SchedTypeOK'
  <2>1. CASE ~Charged
    BY <1>4, <2>1 DEF KInv, SchedTypeOK
  <2>2. CASE Charged
    <3>1. Refilled(Remaining) \in 0 .. SCHED_LIMIT_MAX
      BY <1>7, <2>2, SchedAssumption DEF KInv, SchedTypeOK, Refilled, Remaining
    <3> QED
      BY <1>4, <2>2, <3>1, Zenon DEF KInv, SchedTypeOK
  <2> QED
    BY <2>1, <2>2
<1> HIDE DEF awake
<1>9. CASE Shared(awake)
  <2>1. active \in Threads
    <3>1. active \in Slots /\ Remaining < 0
      BY <1>7, <1>9 DEF Shared
    <3>2. active # IDLE
      BY <3>1, SlotFacts DEF KInv, SchedTypeOK, Remaining
    <3> QED
      BY <3>1, <3>2, SlotFacts
  <2>2. active \in awake[WQ_READY] /\ wq' = Suspend(Insert(awake, WQ_TMSHARE, active), active)
    BY <1>4, <1>9, Zenon DEF Shared, Timeshare
  <2>3. /\ wq' \in QMap
        /\ Agree(wq', th_stat')
        /\ wq'[WQ_READY] = {IDLE} => wq'[WQ_TMSHARE] = {}
        /\ \A v \in Mutexes \union Conds : wq'[v] = awake[v]
    BY <1>2, <1>3, <2>1, <2>2, AgreeTimeshare
  <2>4. pendsv' = TRUE
    BY <1>4, <1>5, <1>9, Zenon
  <2>5. RtTypeOK'
    BY <1>2, <1>4, <1>6, <2>3, <2>4, ZenonT(60) DEF KInv, RtTypeOK, QMap, SMap, Slots
  <2>6. KInv'
    BY <1>4, <1>8, <2>3, <2>4, <2>5, Zenon DEF KInv, QueueInv, WorkConserving, RunsFirstReady, Agree
  <2> QED
    BY <1>2, <1>3, <2>3, <2>6, Zenon
<1>10. CASE ~Shared(awake)
  <2>1. wq' = awake
    BY <1>4, <1>10 DEF Timeshare
  <2>2. pendsv' \in BOOLEAN
    BY <1>4, <1>5, Zenon DEF KInv, RtTypeOK
  <2>3. RtTypeOK'
    BY <1>2, <1>3, <1>4, <1>6, <2>1, <2>2, Zenon DEF KInv, RtTypeOK, QMap, SMap, Slots
  <2>4. WorkConserving'
    <3>1. IDLE \in wq[WQ_READY]
      BY <1>1, Indices DEF Agree
    <3> QED
      BY <1>3, <2>1, <3>1 DEF KInv, WorkConserving
  <2>5. RunsFirstReady'
    <3>1. CASE Woken = {}
      <4>1. wq'[WQ_READY] = wq[WQ_READY] /\ pendsv' = pendsv /\ active' = active
        BY <1>3, <1>4, <1>10, <2>1, <3>1, Zenon
      <4> QED
        BY <4>1, Zenon DEF KInv, RunsFirstReady, IsHead
    <3>2. CASE Woken # {}
      BY <1>4, <1>5, <3>2, Zenon DEF RunsFirstReady
    <3> QED
      BY <3>1, <3>2
  <2>6. KInv'
    BY <1>3, <1>4, <1>8, <2>1, <2>3, <2>4, <2>5 DEF KInv, QueueInv, Agree
  <2> QED
    BY <1>2, <1>3, <2>1, <2>6, Zenon
<1> QED
  BY <1>9, <1>10

-----------------------------------------------------------------------------
(* The part of the invariant about mutexes, and about the last call of     *)
(* each thread.                                                            *)
ObjInv ==
    /\ MutexTypeOK
    /\ CondTypeOK
    /\ call \in [Threads -> [op : Ops, mutex : Nat]]
    /\ \A m \in Mutexes : wq[m] # {} => lock[m] \in Threads /\ lock[m] \notin wq[m]
    /\ \A m \in Mutexes \ mutex_alloc : lock[m] = FREE /\ wq[m] = {}

BlockedOK(th) ==
    th_stat[th] # NoStat =>
       \/ th_stat[th] = Stat(WQ_CLOCK, TRUE) /\ call[th].op = "none"
       \/ /\ r0[th] = (IF th_stat[th].timed THEN ETIMEDOUT ELSE OK)
          /\ \/ th_stat[th].wq \in Conds /\ call[th].op = "cond_wait"
             \/ /\ th_stat[th].wq \in Mutexes
                /\ call[th].mutex = th_stat[th].wq
                /\ \/ call[th].op = "lock"
                   \/ call[th].op = "relock" /\ ~th_stat[th].timed

RelockOK(th) ==
    /\ call[th].op = "relock" => call[th].mutex \in mutex_alloc
    /\ call[th].op = "cond_wait" /\ r0[th] >= ETIMEDOUT =>
          call[th].mutex \in mutex_alloc /\ lock[call[th].mutex] # th
    /\ call[th].op = "relock" /\ th_stat[th] = NoStat => lock[call[th].mutex] = th

LockOK(th) ==
    th_stat[th] = NoStat /\ call[th].op = "lock" /\ call[th].mutex \in Mutexes =>
       (r0[th] \in {OK, EDEADLK} <=> lock[call[th].mutex] = th)

ThInv(th) == BlockedOK(th) /\ RelockOK(th) /\ LockOK(th)

(* The inductive invariant of MutexCond is the conjunction of these parts. *)
HInv == IInv /\ HeadsExist

LEMMA InvParts ==
    HInv <=> KInv /\ ObjInv /\ \A th \in Threads : ThInv(th)
<1>1. HInv => KInv /\ ObjInv
  BY Zenon DEF HInv, IInv, KInv, ObjInv, TypeOK, WaitersHaveOwner, CallInv
<1>2. ASSUME HInv, NEW th \in Threads
      PROVE  ThInv(th)
  <2>1. BlockedOK(th)
    BY <1>2, Zenon DEF HInv, IInv, CallInv, BlockedOK, Returned
  <2>2. RelockOK(th)
    BY <1>2, Zenon DEF HInv, IInv, CallInv, RelockOK, Returned, MustRelock, CondWaitOwnsMutex
  <2>3. LockOK(th)
    BY <1>2 DEF HInv, IInv, LockOK, LockResult, Returned
  <2> QED
    BY <2>1, <2>2, <2>3 DEF ThInv
<1>3. ASSUME KInv, ObjInv, \A th \in Threads : ThInv(th)
      PROVE  HInv
  <2>1. TypeOK /\ WaitersHaveOwner
    BY <1>3 DEF KInv, ObjInv, TypeOK, WaitersHaveOwner
  <2>2. CallInv
    BY <1>3, Zenon DEF ThInv, BlockedOK, RelockOK, ObjInv, CallInv, Returned, MustRelock
  <2>3. LockResult
    BY <1>3 DEF ThInv, LockOK, LockResult, Returned
  <2>4. CondWaitOwnsMutex
    <3>1. \A th \in Threads : r0[th] \in {OK, ETIMEDOUT} => r0[th] >= ETIMEDOUT
      BY DEF OK, ETIMEDOUT
    <3> QED
      BY <1>3, <3>1, Zenon DEF ThInv, RelockOK, CondWaitOwnsMutex, Returned, MustRelock
  <2> QED
    BY <1>3, <2>1, <2>2, <2>3, <2>4 DEF KInv, HInv, IInv
<1> QED
  BY <1>1, <1>2, <1>3

-----------------------------------------------------------------------------
AllThInv == \A th \in Threads : ThInv(th)

(* The same after a step. *)
LEMMA InvPartsPrimed == KInv' /\ ObjInv' /\ AllThInv' => HInv'
<1>1. KInv /\ ObjInv /\ AllThInv => HInv
  BY InvParts DEF AllThInv
<1> QED
  BY <1>1, PTL

LEMMA InvPartsNext ==
    ASSUME KInv', ObjInv', \A th \in Threads : ThInv(th)'
    PROVE  HInv'
BY InvPartsPrimed DEF AllThInv

(* A thread that a step does not concern keeps its part of the invariant. *)
LEMMA ThFrame ==
    ASSUME NEW th \in Threads, ThInv(th), MutexTypeOK,
           th_stat'[th] = th_stat[th], r0'[th] = r0[th], call'[th] = call[th],
           \A m \in Mutexes : lock'[m] = th <=> lock[m] = th,
           call[th].op \in {"relock", "cond_wait"} /\ call[th].mutex \in mutex_alloc
              => call[th].mutex \in mutex_alloc'
    PROVE  ThInv(th)'
<1>1. mutex_alloc \subseteq Mutexes
  BY DEF MutexTypeOK
<1>2. BlockedOK(th)'
  BY Zenon DEF ThInv, BlockedOK
<1>3. RelockOK(th)'
  BY <1>1, Zenon DEF ThInv, RelockOK
<1>4. LockOK(th)'
  BY ZenonT(60) DEF ThInv, LockOK
<1> QED
  BY <1>2, <1>3, <1>4 DEF ThInv

(* The last call of the current thread becomes op on mutex m; the last     *)
(* calls of the other threads stay.                                        *)
LEMMA CalledFacts ==
    ASSUME ObjInv, NEW self \in Threads, NEW op \in Ops, NEW m \in Nat,
           Called(self, op, m)
    PROVE  /\ call' \in [Threads -> [op : Ops, mutex : Nat]]
           /\ call'[self].op = op /\ call'[self].mutex = m
           /\ \A th \in Threads \ {self} : call'[th] = call[th]
BY DEF ObjInv, Called

(* A call that returns at once and leaves the mutexes alone. *)
LEMMA AReply ==
    ASSUME HInv, NEW self \in Threads, Running(self), NEW v \in Int, Reply(self, v),
           UNCHANGED mutexVars, CondTypeOK',
           NEW op \in Ops, NEW m \in Nat, Called(self, op, m),
           op # "relock", op = "cond_wait" => v < ETIMEDOUT,
           op = "lock" /\ m \in Mutexes => (v \in {OK, EDEADLK} <=> lock[m] = self)
    PROVE  HInv'
<1>1. KInv /\ ObjInv /\ \A th \in Threads : ThInv(th)
  BY InvParts
<1>2. KInv'
  BY <1>1, KReply
<1>3. /\ call' \in [Threads -> [op : Ops, mutex : Nat]]
      /\ call'[self].op = op /\ call'[self].mutex = m
      /\ \A th \in Threads \ {self} : call'[th] = call[th]
  BY <1>1, CalledFacts
<1>4. /\ r0'[self] = v /\ \A th \in Threads \ {self} : r0'[th] = r0[th]
      /\ UNCHANGED <<wq, th_stat, lock, mutex_alloc>>
  BY <1>1, KTypes DEF Reply, Return, mutexVars
<1>5. ObjInv'
  BY <1>1, <1>3, <1>4, Zenon DEF ObjInv, MutexTypeOK
<1>6. ASSUME NEW th \in Threads
      PROVE  ThInv(th)'
  <2>1. CASE th # self
    BY <1>1, <1>3, <1>4, <2>1, ThFrame, Zenon DEF ObjInv
  <2>2. CASE th = self
    <3>1. th_stat'[self] = NoStat
      BY <1>1, <1>4, RunningFacts, Zenon
    <3> QED
      BY <1>3, <1>4, <2>2, <3>1 DEF ThInv, BlockedOK, RelockOK, LockOK, ETIMEDOUT
  <2> QED
    BY <2>1, <2>2, Zenon
<1> QED
  BY <1>2, <1>5, <1>6, InvPartsNext

(* The current thread takes a free mutex. *)
LEMMA ATake ==
    ASSUME HInv, NEW self \in Threads, Running(self), Reply(self, OK),
           NEW m \in mutex_alloc, lock[m] = FREE,
           lock' = [lock EXCEPT ![m] = self], UNCHANGED <<mutex_alloc, cond_alloc>>,
           NEW op \in {"lock", "relock"}, Called(self, op, m)
    PROVE  HInv'
<1>1. KInv /\ ObjInv /\ \A th \in Threads : ThInv(th)
  BY InvParts
<1>2. KInv'
  BY <1>1, KReply DEF OK
<1>3. m \in Mutexes /\ m \in Nat /\ op \in Ops
  BY <1>1, Indices DEF ObjInv, MutexTypeOK, Ops
<1>4. /\ call' \in [Threads -> [op : Ops, mutex : Nat]]
      /\ call'[self].op = op /\ call'[self].mutex = m
      /\ \A th \in Threads \ {self} : call'[th] = call[th]
  BY <1>1, <1>3, CalledFacts, Zenon
<1>5. /\ r0'[self] = OK /\ \A th \in Threads \ {self} : r0'[th] = r0[th]
      /\ UNCHANGED <<wq, th_stat>>
  BY <1>1, KTypes DEF Reply, Return
<1>6. /\ lock' \in [Mutexes -> Threads \union {FREE}] /\ lock'[m] = self
      /\ \A n \in Mutexes \ {m} : lock'[n] = lock[n]
  BY <1>1, <1>3 DEF ObjInv, MutexTypeOK
<1>7. wq[m] = {}
  BY <1>1, <1>3, SlotFacts, Zenon DEF ObjInv
<1>8. ObjInv'
  BY <1>1, <1>3, <1>4, <1>5, <1>6, <1>7 DEF ObjInv, MutexTypeOK, CondTypeOK
<1>9. ASSUME NEW th \in Threads
      PROVE  ThInv(th)'
  <2>1. CASE th # self
    <3>1. \A n \in Mutexes : lock'[n] = th <=> lock[n] = th
      BY <1>6, <2>1, SlotFacts, Zenon
    <3> QED
      BY <1>1, <1>4, <1>5, <2>1, <3>1, ThFrame, Zenon DEF ObjInv
  <2>2. CASE th = self
    <3>1. th_stat'[self] = NoStat
      BY <1>1, <1>5, RunningFacts, Zenon
    <3> QED
      BY <1>3, <1>4, <1>5, <1>6, <2>2, <3>1, Zenon DEF ThInv, BlockedOK, RelockOK, LockOK
  <2> QED
    BY <2>1, <2>2, Zenon
<1> QED
  BY <1>2, <1>8, <1>9, InvPartsNext

-----------------------------------------------------------------------------
(* The current thread sleeps. *)
LEMMA ASleep ==
    ASSUME HInv, NEW self \in Threads, NEW ms \in Delays, Sleep(self, ms),
           Called(self, "none", 0), UNCHANGED <<mutexVars, cond_alloc>>
    PROVE  HInv'
<1>1. KInv /\ ObjInv /\ \A th \in Threads : ThInv(th)
  BY InvParts
<1>2. Running(self) /\ WaitClock(self, TickAdd(ticks, ms)) /\ TickAdd(ticks, ms) \in Ticks
  BY <1>1, TickAddType, MutexCondAssumption, Zenon DEF Sleep, KInv, RtTypeOK
<1>3. KInv' /\ \A v \in Mutexes \union Conds : wq'[v] = wq[v]
  BY <1>1, <1>2, KWaitClock, ZenonT(60)
<1>4. /\ call' \in [Threads -> [op : Ops, mutex : Nat]]
      /\ call'[self].op = "none"
      /\ \A th \in Threads \ {self} : call'[th] = call[th]
  BY <1>1, CalledFacts, Zenon DEF Ops
<1>5. UNCHANGED <<lock, mutex_alloc, cond_alloc, r0>>
  BY <1>2, Zenon DEF mutexVars, WaitClock
<1>6. ObjInv'
  BY <1>1, <1>3, <1>4, <1>5, Zenon DEF ObjInv, MutexTypeOK, CondTypeOK
<1>7. /\ th_stat'[self] = Stat(WQ_CLOCK, TRUE)
      /\ \A th \in Threads \ {self} : th_stat'[th] = th_stat[th]
  BY <1>1, <1>2, RtTypes, Zenon DEF WaitClock, KInv, SMap
<1>8. ASSUME NEW th \in Threads
      PROVE  ThInv(th)'
  <2>1. CASE th # self
    BY <1>1, <1>4, <1>5, <1>7, <2>1, ThFrame, Zenon DEF ObjInv
  <2>2. CASE th = self
    BY <1>4, <1>7, <2>2, Zenon DEF ThInv, BlockedOK, RelockOK, LockOK
  <2> QED
    BY <2>1, <2>2
<1> QED
  BY <1>3, <1>6, <1>8, InvPartsNext

(* The clock tick ends the waits whose time is up. *)
LEMMA ASysTick ==
    ASSUME HInv, SysTick, UNCHANGED <<mutexVars, cond_alloc, call>>
    PROVE  HInv'
<1>1. KInv /\ ObjInv /\ \A th \in Threads : ThInv(th)
  BY InvParts
<1>2. /\ KInv' /\ Woken \subseteq Threads
      /\ \A v \in Mutexes \union Conds : wq'[v] = wq[v] \ Woken
      /\ \A t \in Threads : th_stat'[t] = IF t \in Woken THEN NoStat ELSE th_stat[t]
  BY <1>1, KSysTick
<1>3. UNCHANGED <<lock, mutex_alloc, cond_alloc, r0, call>>
  BY DEF mutexVars, SysTick
<1>4. ObjInv'
  BY <1>1, <1>2, <1>3, Zenon DEF ObjInv, MutexTypeOK, CondTypeOK
<1>5. ASSUME NEW th \in Threads
      PROVE  ThInv(th)'
  <2>1. CASE th \notin Woken
    BY <1>1, <1>2, <1>3, <2>1, ThFrame, Zenon DEF ObjInv
  <2>2. CASE th \in Woken
    <3>1. th \in wq[WQ_CLOCK]
      BY <2>2 DEF Woken
    <3>3. /\ th_stat[th] # NoStat
          /\ th_stat[th].wq = WQ_CLOCK \/ th_stat[th].timed
          /\ th_stat[th].wq \in Queues => th \in wq[th_stat[th].wq]
      BY <1>1, <3>1, InQueue, Indices
    <3>4. th_stat'[th] = NoStat /\ UNCHANGED <<lock, mutex_alloc, r0, call>>
      BY <1>2, <1>3, <2>2
    <3>5. \/ call[th].op = "none"
          \/ call[th].op = "cond_wait"
          \/ /\ call[th].op = "lock" /\ r0[th] = ETIMEDOUT
             /\ th \in wq[call[th].mutex] /\ call[th].mutex \in Mutexes
      BY <1>1, <3>3, Indices, ZenonT(60) DEF ThInv, BlockedOK
    <3>6. call[th].op = "lock" => lock[call[th].mutex] # th
      BY <1>1, <3>5 DEF ObjInv
    <3>7. BlockedOK(th)'
      BY <3>4 DEF BlockedOK
    <3>8. RelockOK(th)'
      BY <1>1, <3>4, <3>5, Zenon DEF ThInv, RelockOK
    <3>9. LockOK(th)'
      <4>1. call'[th] = call[th] /\ r0'[th] = r0[th] /\ lock' = lock
        BY <3>4
      <4>2. call[th].op = "lock" => r0[th] = ETIMEDOUT
        BY <3>5
      <4>3. ETIMEDOUT \notin {OK, EDEADLK}
        BY DEF OK, ETIMEDOUT, EDEADLK
      <4> QED
        BY <3>6, <4>1, <4>2, <4>3, Zenon DEF LockOK
    <3> QED
      BY <3>7, <3>8, <3>9 DEF ThInv
  <2> QED
    BY <2>1, <2>2, SMTT(60)
<1> QED
  BY <1>2, <1>4, <1>5, InvPartsNext, Zenon

(* A step that touches neither queues nor objects. *)
LEMMA ASwitch ==
    ASSUME HInv, PendSV \/ Idle \/ (\E self \in Threads : Yield(self)),
           UNCHANGED <<mutexVars, cond_alloc, call>>
    PROVE  HInv'
<1>1. KInv /\ ObjInv /\ \A th \in Threads : ThInv(th)
  BY InvParts
<1>2. UNCHANGED <<wq, th_stat, r0, lock, mutex_alloc, cond_alloc, call>>
  BY DEF PendSV, Idle, Yield, mutexVars
<1>3. KInv'
  <2>1. CASE PendSV
    BY <1>1, <2>1, KPendSV
  <2>2. CASE Idle \/ (\E self \in Threads : Yield(self))
    <3>1. /\ pendsv' = TRUE
          /\ UNCHANGED <<wq, th_stat, clock, ticks, active, critical_cnt, r0, schedVars>>
      BY <2>2 DEF Idle, Yield
    <3> QED
      BY <1>1, <3>1, KDefer
  <2> QED
    BY <2>1, <2>2
<1>4. ObjInv'
  BY <1>1, <1>2, Zenon DEF ObjInv, MutexTypeOK, CondTypeOK
<1>5. \A th \in Threads : ThInv(th)'
  BY <1>1, <1>2, ThFrame, Zenon DEF ObjInv
<1> QED
  BY <1>3, <1>4, <1>5, InvPartsNext
=============================================================================
