--------------------------- MODULE MutexCondProofs ---------------------------
(***************************************************************************)
(* MutexCond is correct for every number of threads, mutexes and condition *)
(* variables: the inductive invariant, and what follows from it.           *)
(***************************************************************************)
EXTENDS KernelProofs

USE DEF WQ_READY, WQ_TMSHARE, WQ_CLOCK, NoStat, Stat

-----------------------------------------------------------------------------
(* A thread that has blocked in queue w with a time limit or not. *)
LEMMA BlockedSelf ==
    ASSUME NEW self \in Threads, NEW w \in Mutexes \union Conds, NEW timed \in BOOLEAN,
           th_stat'[self] = Stat(w, timed), ThInv(self), MutexTypeOK,
           r0'[self] = (IF timed THEN ETIMEDOUT ELSE OK),
           \/ /\ w \in Mutexes /\ w \in mutex_alloc' /\ call'[self].mutex = w
              /\ call'[self].op = "lock" \/ (call'[self].op = "relock" /\ ~timed)
           \/ /\ w \in Conds /\ call'[self].op = "cond_wait"
              /\ call'[self].mutex \in mutex_alloc'
              /\ lock'[call'[self].mutex] # self
    PROVE  ThInv(self)'
<1>1. th_stat'[self] # NoStat /\ th_stat'[self].wq = w /\ th_stat'[self].timed = timed
  BY Indices
<1>2. BlockedOK(self)'
  BY <1>1, Zenon DEF BlockedOK
<1>3. RelockOK(self)'
  BY <1>1, Zenon DEF RelockOK
<1>4. LockOK(self)'
  BY <1>1 DEF LockOK
<1> QED
  BY <1>2, <1>3, <1>4, Zenon DEF ThInv

(* The current thread waits for a busy mutex, with a time limit or not. *)
LEMMA ABlock ==
    ASSUME HInv, NEW self \in Threads, Running(self),
           NEW m \in MutexArgs, MutexBusy(self, m), UNCHANGED <<mutexVars, cond_alloc>>,
           NEW op \in {"lock", "relock"}, Called(self, op, m),
           NEW timed \in BOOLEAN, timed => op = "lock",
           BlockOn(wq, self, m, timed),
           Assigned(th_stat, th_stat', self, Stat(m, timed)),
           Return(self, IF timed THEN ETIMEDOUT ELSE OK)
    PROVE  HInv'
<1>1. KInv /\ ObjInv /\ \A th \in Threads : ThInv(th)
  BY InvParts
<1>2. /\ m \in Mutexes /\ m \in mutex_alloc /\ m \in Nat /\ op \in Ops
      /\ lock[m] \in Threads /\ lock[m] # self
  BY <1>1, Indices, Zenon DEF ObjInv, MutexTypeOK, Ops, MutexBusy, ValidMutex
<1>3. /\ call' \in [Threads -> [op : Ops, mutex : Nat]]
      /\ call'[self].op = op /\ call'[self].mutex = m
      /\ \A th \in Threads \ {self} : call'[th] = call[th]
  BY <1>1, <1>2, CalledFacts, Zenon
<1>4. UNCHANGED <<lock, mutex_alloc, cond_alloc>>
  BY Zenon DEF mutexVars
<1>5. /\ wq \in QMap /\ th_stat \in SMap /\ Agree(wq, th_stat)
      /\ th_stat[self] = NoStat /\ self \in wq[WQ_READY]
  BY <1>1, RtTypes, RunningFacts, Zenon DEF KInv, QueueInv
<1>6. /\ r0' \in [Threads -> Int]
      /\ r0'[self] = (IF timed THEN ETIMEDOUT ELSE OK)
      /\ \A th \in Threads \ {self} : r0'[th] = r0[th]
  BY <1>1, KTypes, CodeTypes, Zenon DEF Return
<1>7. /\ th_stat'[self] = Stat(m, timed)
      /\ \A th \in Threads \ {self} : th_stat'[th] = th_stat[th]
  BY <1>5 DEF SMap, Assigned
<1>8. /\ KInv' /\ wq'[m] = wq[m] \union {self}
      /\ \A v \in Mutexes \ {m} : wq'[v] = wq[v]
  <2> HIDE DEF Stat, NoStat
  <2>1. CanLeave(wq, th_stat, self, m)
    BY <1>2, <1>5, Zenon DEF CanLeave
  <2>2. KInv' /\ Left(wq, self, m)
    BY <1>1, <1>6, <2>1, KBlockOn, Zenon
  <2> QED
    BY <2>2 DEF Left
<1>9. ObjInv'
  <2>1. MutexTypeOK' /\ CondTypeOK' /\ (call \in [Threads -> [op : Ops, mutex : Nat]])'
    BY <1>1, <1>3, <1>4, Zenon DEF ObjInv, MutexTypeOK, CondTypeOK
  <2>2. ASSUME NEW n \in Mutexes, wq'[n] # {}
        PROVE  lock'[n] \in Threads /\ lock'[n] \notin wq'[n]
    <3>1. wq[m] = {} \/ lock[m] \notin wq[m]
      BY <1>1, <1>2, Zenon DEF ObjInv
    <3> QED
      BY <1>1, <1>2, <1>4, <1>8, <2>2, <3>1, Zenon DEF ObjInv
  <2>3. ASSUME NEW n \in Mutexes, n \notin mutex_alloc'
        PROVE  lock'[n] = FREE /\ wq'[n] = {}
    BY <1>1, <1>2, <1>4, <1>8, <2>3, Zenon DEF ObjInv
  <2> QED
    BY <2>1, <2>2, <2>3, Zenon DEF ObjInv
<1>10. ASSUME NEW th \in Threads
       PROVE  ThInv(th)'
  <2>1. CASE th # self
    BY <1>1, <1>3, <1>4, <1>6, <1>7, <2>1, ThFrame, Zenon DEF ObjInv
  <2>2. CASE th = self
    <3> HIDE DEF Stat
    <3>2. ThInv(self)'
      BY <1>1, <1>2, <1>3, <1>4, <1>6, <1>7, BlockedSelf, ZenonT(60) DEF ObjInv
    <3> QED
      BY <2>2, <3>2, Zenon
  <2> QED
    BY <2>1, <2>2, Zenon
<1> QED
  BY <1>8, <1>9, <1>10, InvPartsNext, Zenon

-----------------------------------------------------------------------------
(* The thread that receives mutex m from the thread that unlocks it. *)
LEMMA NewOwner ==
    ASSUME NEW th \in Threads, ThInv(th), NEW m \in Mutexes,
           th_stat[th] # NoStat, th_stat[th].wq = m,
           th_stat'[th] = NoStat, r0'[th] = OK, call'[th] = call[th],
           lock'[m] = th, mutex_alloc' = mutex_alloc
    PROVE  ThInv(th)'
<1>1. call[th].mutex = m /\ call[th].op \in {"lock", "relock"}
  BY Indices DEF ThInv, BlockedOK
<1>2. BlockedOK(th)' /\ LockOK(th)'
  BY <1>1 DEF BlockedOK, LockOK
<1>3. RelockOK(th)'
  BY <1>1, Zenon DEF ThInv, RelockOK
<1> QED
  BY <1>2, <1>3, Zenon DEF ThInv

(* A thread that is woken from condition variable c by a signal. *)
LEMMA Signaled ==
    ASSUME NEW th \in Threads, ThInv(th), NEW c \in Conds, MutexTypeOK,
           th_stat[th] # NoStat, th_stat[th].wq = c,
           th_stat'[th] = NoStat, r0'[th] = OK, call'[th] = call[th],
           UNCHANGED mutexVars
    PROVE  ThInv(th)'
<1>1. call[th].op = "cond_wait" /\ r0[th] >= ETIMEDOUT
  BY Indices DEF ThInv, BlockedOK, OK, ETIMEDOUT
<1>2. BlockedOK(th)' /\ LockOK(th)'
  BY <1>1, Zenon DEF BlockedOK, LockOK
<1>3. RelockOK(th)'
  BY <1>1, Zenon DEF ThInv, RelockOK, mutexVars
<1> QED
  BY <1>2, <1>3 DEF ThInv

(* The current thread self gives mutex m to the first thread that waits    *)
(* for it, or makes it free.                                               *)
LEMMA Handover ==
    ASSUME KInv, ObjInv, NEW self \in Threads, NEW m \in Mutexes, Running(self),
           lock[m] = self, lock' = [lock EXCEPT ![m] = NextOwner(m)]
    PROVE  /\ lock' \in [Mutexes -> Threads \union {FREE}]
           /\ lock'[m] # self
           /\ wq[m] = {} => lock'[m] = FREE
           /\ wq[m] # {} => /\ lock'[m] = WqHead(wq[m])
                            /\ WqHead(wq[m]) \in Threads \ {self}
           /\ \A n \in Mutexes \ {m} : lock'[n] = lock[n]
<1>1. wq[m] # {} => WqHead(wq[m]) \in Threads /\ th_stat[WqHead(wq[m])] # NoStat
  BY HeadFacts
<1>2. th_stat[self] = NoStat
  BY RunningFacts
<1>3. NextOwner(m) \in Threads \union {FREE} /\ NextOwner(m) # self
  BY <1>1, <1>2, SlotFacts, Zenon DEF NextOwner
<1> QED
  BY <1>1, <1>2, <1>3, Zenon DEF ObjInv, MutexTypeOK, NextOwner

(* The invariant of the mutexes after a handover. *)
LEMMA HandoverObjInv ==
    ASSUME KInv, ObjInv, NEW self \in Threads, NEW m \in Mutexes, Running(self),
           m \in mutex_alloc, lock[m] = self, lock' = [lock EXCEPT ![m] = NextOwner(m)],
           wq'[m] = wq[m] \ {WqHead(wq[m])},
           \A n \in Mutexes \ {m} : wq'[n] = wq[n],
           UNCHANGED <<mutex_alloc, cond_alloc>>,
           call' \in [Threads -> [op : Ops, mutex : Nat]]
    PROVE  ObjInv'
<1>1. /\ lock' \in [Mutexes -> Threads \union {FREE}]
      /\ wq[m] # {} => lock'[m] = WqHead(wq[m]) /\ WqHead(wq[m]) \in Threads
      /\ \A n \in Mutexes \ {m} : lock'[n] = lock[n]
  BY Handover, Zenon
<1>2. MutexTypeOK' /\ CondTypeOK'
  BY <1>1, Zenon DEF ObjInv, MutexTypeOK, CondTypeOK
<1>3. ASSUME NEW n \in Mutexes, wq'[n] # {}
      PROVE  lock'[n] \in Threads /\ lock'[n] \notin wq'[n]
  <2>1. CASE n = m
    BY <1>1, <1>3, <2>1, Zenon
  <2>2. CASE n # m
    BY <1>1, <1>3, <2>2, Zenon DEF ObjInv
  <2> QED
    BY <2>1, <2>2, Zenon
<1>4. ASSUME NEW n \in Mutexes, n \notin mutex_alloc'
      PROVE  lock'[n] = FREE /\ wq'[n] = {}
  BY <1>1, <1>4, SMTT(60) DEF ObjInv
<1> QED
  BY <1>2, <1>3, <1>4, Zenon DEF ObjInv

(* The other threads after a handover. *)
LEMMA HandoverThInv ==
    ASSUME KInv, ObjInv, NEW self \in Threads, NEW m \in Mutexes, Running(self),
           lock[m] = self, lock' = [lock EXCEPT ![m] = NextOwner(m)],
           NEW th \in Threads \ {self}, ThInv(th), call'[th] = call[th],
           th_stat'[th] = (IF wq[m] # {} /\ th = WqHead(wq[m]) THEN NoStat ELSE th_stat[th]),
           r0'[th] = (IF wq[m] # {} /\ th = WqHead(wq[m]) THEN OK ELSE r0[th]),
           mutex_alloc' = mutex_alloc
    PROVE  ThInv(th)'
<1>1. /\ wq[m] = {} => lock'[m] = FREE
      /\ wq[m] # {} => lock'[m] = WqHead(wq[m])
      /\ \A n \in Mutexes \ {m} : lock'[n] = lock[n]
  BY Handover, Zenon
<1>2. CASE wq[m] # {} /\ th = WqHead(wq[m])
  <2>1. th_stat[th] # NoStat /\ th_stat[th].wq = m
    BY <1>2, HeadFacts, Zenon
  <2>2. th_stat'[th] = NoStat /\ r0'[th] = OK /\ lock'[m] = th
    BY <1>1, <1>2, Zenon
  <2> HIDE DEF NoStat
  <2> QED
    BY <2>1, <2>2, NewOwner, Zenon
<1>3. CASE ~(wq[m] # {} /\ th = WqHead(wq[m]))
  <2>1. th_stat'[th] = th_stat[th] /\ r0'[th] = r0[th]
    BY <1>3, Zenon
  <2>2. \A n \in Mutexes : lock'[n] = th <=> lock[n] = th
    BY <1>1, <1>3, SlotFacts, Zenon
  <2> QED
    BY <2>1, <2>2, ThFrame, Zenon DEF ObjInv
<1> QED
  BY <1>2, <1>3, Zenon

(* What the release of a mutex does to the queues and the status words. *)
LEMMA ReleaseMutex ==
    ASSUME KInv, NEW m \in Mutexes
    PROVE  /\ Released(wq, m) \in QMap
           /\ Handed(th_stat, m, NoStat) \in SMap
           /\ Agree(Released(wq, m), Handed(th_stat, m, NoStat))
           /\ wq[WQ_READY] \subseteq Released(wq, m)[WQ_READY]
           /\ Released(wq, m)[m] = wq[m] \ {WqHead(wq[m])}
           /\ \A v \in (Mutexes \union Conds) \ {m} : Released(wq, m)[v] = wq[v]
           /\ \A n \in Mutexes \ {m} : Released(wq, m)[n] = wq[n]
           /\ \A t \in Threads :
                 Handed(th_stat, m, NoStat)[t] = IF wq[m] # {} /\ t = WqHead(wq[m])
                                                 THEN NoStat ELSE th_stat[t]
<1> DEFINE q1 == Released(wq, m)
           st1 == Handed(th_stat, m, NoStat)
<1>1. m \in Mutexes \union Conds
  OBVIOUS
<1>2. /\ q1 \in QMap /\ st1 \in SMap /\ Agree(q1, st1)
      /\ wq[WQ_READY] \subseteq q1[WQ_READY]
      /\ q1[m] = wq[m] \ {WqHead(wq[m])}
      /\ \A v \in (Mutexes \union Conds) \ {m} : q1[v] = wq[v]
      /\ \A t \in Threads : st1[t] = IF wq[m] # {} /\ t = WqHead(wq[m])
                                    THEN NoStat ELSE th_stat[t]
  BY <1>1, ReleaseFacts
<1>3. \A n \in Mutexes \ {m} : n \in (Mutexes \union Conds) \ {m}
  OBVIOUS
<1> HIDE DEF NoStat
<1> QED
  BY <1>2, <1>3, Zenon

(* The current thread unlocks a mutex it owns. *)
LEMMA AUnlock ==
    ASSUME HInv, NEW self \in Threads, Running(self),
           NEW m \in MutexArgs, ValidMutex(m), lock[m] = self,
           lock' = [lock EXCEPT ![m] = NextOwner(m)],
           wq' = Released(wq, m), th_stat' = Handed(th_stat, m, NoStat),
           r0' = Handed([r0 EXCEPT ![self] = OK], m, OK),
           pendsv' = DeferIfWoken(m),
           UNCHANGED <<clock, ticks, active, critical_cnt, schedVars, mutex_alloc, cond_alloc>>,
           Called(self, "none", 0)
    PROVE  HInv'
<1>1. KInv /\ ObjInv /\ \A th \in Threads : ThInv(th)
  BY InvParts
<1>2. m \in Mutexes /\ m \in Mutexes \union Conds /\ m \in mutex_alloc
  BY Zenon DEF ValidMutex
<1>3. /\ call' \in [Threads -> [op : Ops, mutex : Nat]]
      /\ call'[self].op = "none"
      /\ \A th \in Threads \ {self} : call'[th] = call[th]
  BY <1>1, CalledFacts, Zenon DEF Ops
<1>4. /\ r0' \in [Threads -> Int]
      /\ \A t \in Threads \ {self} : r0'[t] = IF wq[m] # {} /\ t = WqHead(wq[m])
                                            THEN OK ELSE r0[t]
  <2>1. wq[m] # {} => WqHead(wq[m]) \in Threads \ {self}
    BY <1>1, <1>2, Handover, Zenon
  <2>2. r0 \in [Threads -> Int] /\ OK \in Int
    BY <1>1, KTypes, CodeTypes, ZenonT(60)
  <2>3. CASE wq[m] = {}
    BY <2>2, <2>3, Zenon DEF Handed
  <2>4. CASE wq[m] # {}
    BY <2>1, <2>2, <2>4, Zenon DEF Handed
  <2> QED
    BY <2>3, <2>4, Zenon
<1>5. /\ wq'[m] = wq[m] \ {WqHead(wq[m])}
      /\ \A n \in Mutexes \ {m} : wq'[n] = wq[n]
      /\ \A t \in Threads : th_stat'[t] = IF wq[m] # {} /\ t = WqHead(wq[m])
                                           THEN NoStat ELSE th_stat[t]
  <2> HIDE DEF NoStat
  <2> QED
    BY <1>1, <1>2, ReleaseMutex, ZenonT(60)
<1>6. KInv'
  BY <1>1, <1>2, <1>4, RunningFacts, KRelease, Zenon
<1>7. ObjInv'
  BY <1>1, <1>2, <1>3, <1>5, HandoverObjInv, Zenon
<1>8. ASSUME NEW th \in Threads
      PROVE  ThInv(th)'
  <2>1. CASE th # self
    BY <1>1, <1>2, <1>3, <1>4, <1>5, <2>1, HandoverThInv, ZenonT(60)
  <2>2. CASE th = self
    <3>1. th_stat'[self] = NoStat
      BY <1>1, <1>5, RunningFacts, ZenonT(60)
    <3> QED
      BY <1>3, <2>2, <3>1, Zenon DEF ThInv, BlockedOK, RelockOK, LockOK
  <2> QED
    BY <2>1, <2>2, Zenon
<1> QED
  BY <1>6, <1>7, <1>8, InvPartsNext, Zenon

(* The current thread waits for condition variable c: it gives the mutex   *)
(* away and blocks in one step.                                            *)
LEMMA ACondWait ==
    ASSUME HInv, NEW self \in Threads, Running(self), NEW timed \in BOOLEAN,
           NEW c \in CondArgs, NEW m \in MutexArgs, CondWaitRelease(self, c, m),
           BlockOn(Released(wq, m), self, c, timed),
           th_stat' = Handed([th_stat EXCEPT ![self] = Stat(c, timed)], m, NoStat),
           r0' = Handed([r0 EXCEPT ![self] = IF timed THEN ETIMEDOUT ELSE OK], m, OK),
           UNCHANGED cond_alloc, Called(self, "cond_wait", m)
    PROVE  HInv'
<1>1. KInv /\ ObjInv /\ \A th \in Threads : ThInv(th)
  BY InvParts
<1>2. /\ m \in Mutexes /\ m \in Mutexes \union Conds /\ m \in mutex_alloc /\ m \in Nat
      /\ c \in Conds /\ c \in Mutexes \union Conds /\ c \notin Mutexes
      /\ c \in Queues \ {0, 1, 2}
      /\ lock[m] = self /\ lock' = [lock EXCEPT ![m] = NextOwner(m)]
      /\ mutex_alloc' = mutex_alloc
  BY Indices, ZenonT(60) DEF CondWaitRelease, ValidMutex, ValidCond
<1>3. /\ call' \in [Threads -> [op : Ops, mutex : Nat]]
      /\ call'[self].op = "cond_wait" /\ call'[self].mutex = m
      /\ \A th \in Threads \ {self} : call'[th] = call[th]
  BY <1>1, <1>2, CalledFacts, SMTT(60) DEF Ops
<1> DEFINE q1 == Released(wq, m)
           st1 == Handed(th_stat, m, NoStat)
<1>4. /\ q1 \in QMap /\ st1 \in SMap /\ Agree(q1, st1)
      /\ wq[WQ_READY] \subseteq q1[WQ_READY]
      /\ q1[m] = wq[m] \ {WqHead(wq[m])}
      /\ \A v \in (Mutexes \union Conds) \ {m} : q1[v] = wq[v]
      /\ \A t \in Threads : st1[t] = IF wq[m] # {} /\ t = WqHead(wq[m])
                                    THEN NoStat ELSE th_stat[t]
  <2> HIDE DEF NoStat
  <2> QED
    BY <1>1, <1>2, ReleaseMutex, ZenonT(60)
<1>5. wq[m] # {} => WqHead(wq[m]) \in Threads \ {self} /\ lock'[m] = WqHead(wq[m])
  BY <1>1, <1>2, Handover, Zenon
<1>6. lock'[m] # self
  BY <1>1, <1>2, Handover, ZenonT(60)
<1>7. th_stat \in SMap /\ th_stat[self] = NoStat /\ self \in wq[WQ_READY]
  BY <1>1, RunningFacts, RtTypes, Zenon DEF KInv
<1>8. /\ r0' \in [Threads -> Int]
      /\ r0'[self] = (IF timed THEN ETIMEDOUT ELSE OK)
      /\ \A t \in Threads \ {self} : r0'[t] = IF wq[m] # {} /\ t = WqHead(wq[m])
                                            THEN OK ELSE r0[t]
  <2>1. r0 \in [Threads -> Int] /\ OK \in Int /\ ETIMEDOUT \in Int
    BY <1>1, KTypes, CodeTypes, Zenon
  <2>2. CASE wq[m] = {}
    BY <2>1, <2>2, Zenon DEF Handed
  <2>3. CASE wq[m] # {}
    BY <1>5, <2>1, <2>3, ZenonT(60) DEF Handed
  <2> QED
    BY <2>2, <2>3, ZenonT(60)
<1>9. /\ th_stat' \in SMap
      /\ \A t \in Threads : th_stat'[t] = IF t = self THEN Stat(c, timed) ELSE st1[t]
  <2>1. Stat(c, timed) \in [wq : Queues, timed : BOOLEAN]
    BY <1>2, Zenon
  <2>2. NoStat \in [wq : Queues, timed : BOOLEAN]
    BY Indices, Zenon
  <2>3. CASE wq[m] = {}
    <3>1. st1 = th_stat /\ th_stat' = [th_stat EXCEPT ![self] = Stat(c, timed)]
      BY <2>3, Zenon DEF Handed
    <3> HIDE DEF NoStat, Stat, st1
    <3> QED
      BY <1>7, <2>1, <3>1, ZenonT(60) DEF SMap
  <2>4. CASE wq[m] # {}
    <3> HIDE DEF NoStat, Stat
    <3> QED
      BY <1>5, <1>7, <2>1, <2>2, <2>4, ZenonT(60) DEF Handed, SMap
  <2> QED
    BY <2>3, <2>4, ZenonT(60)
<1> HIDE DEF st1
<1>10. Assigned(st1, th_stat', self, Stat(c, timed))
  <2> HIDE DEF Stat
  <2> QED
    BY <1>4, <1>9, ZenonT(60) DEF Assigned, SMap
<1>11. KInv' /\ Left(q1, self, c)
  <2>1. CanLeave(q1, st1, self, c)
    BY <1>2, <1>4, <1>5, <1>7, Zenon DEF CanLeave
  <2> HIDE DEF Stat
  <2>2. BlockOn(q1, self, c, timed)
    BY Zenon
  <2> HIDE DEF q1
  <2> QED
    BY <1>1, <1>8, <1>10, <2>1, <2>2, KBlockOn, Zenon
<1> HIDE DEF q1
<1>12. /\ wq'[m] = wq[m] \ {WqHead(wq[m])}
       /\ \A n \in Mutexes \ {m} : wq'[n] = wq[n]
  BY <1>2, <1>4, <1>11, ZenonT(60) DEF Left
<1>13. ObjInv'
  BY <1>1, <1>2, <1>3, <1>12, HandoverObjInv, ZenonT(60)
<1>14. ASSUME NEW th \in Threads
       PROVE  ThInv(th)'
  <2>1. CASE th # self
    <3>1. th_stat'[th] = (IF wq[m] # {} /\ th = WqHead(wq[m]) THEN NoStat ELSE th_stat[th])
      BY <1>4, <1>9, <2>1, ZenonT(60)
    <3>2. th \in Threads \ {self}
      BY <2>1, Zenon
    <3> HIDE DEF NoStat
    <3> QED
      BY <1>1, <1>2, <1>3, <1>8, <3>1, <3>2, HandoverThInv, ZenonT(60)
  <2>2. CASE th = self
    <3>1. th_stat'[self] = Stat(c, timed)
      BY <1>9, Zenon
    <3> HIDE DEF Stat
    <3>2. ThInv(self)'
      BY <1>1, <1>2, <1>3, <1>6, <1>8, <3>1, BlockedSelf, ZenonT(60) DEF ObjInv
    <3> QED
      BY <2>2, <3>2, Zenon
  <2> QED
    BY <2>1, <2>2, Zenon
<1> QED
  BY <1>11, <1>13, <1>14, InvPartsNext, Zenon

-----------------------------------------------------------------------------
(* The threads woken by a signal or a broadcast: woken is the set of them. *)
LEMMA Notified ==
    ASSUME KInv', KInv, ObjInv, \A th \in Threads : ThInv(th),
           NEW self \in Threads, Running(self),
           NEW c \in Conds, NEW woken \in SUBSET wq[c], woken \subseteq Threads,
           \A t \in Threads : th_stat'[t] = IF t \in woken THEN NoStat ELSE th_stat[t],
           \A t \in Threads \ {self} : r0'[t] = IF t \in woken THEN OK ELSE r0[t],
           \A m \in Mutexes : wq'[m] = wq[m],
           UNCHANGED <<mutexVars, cond_alloc>>, Called(self, "none", 0)
    PROVE  HInv'
<1>1. /\ call' \in [Threads -> [op : Ops, mutex : Nat]]
      /\ call'[self].op = "none"
      /\ \A th \in Threads \ {self} : call'[th] = call[th]
  BY CalledFacts, Zenon DEF Ops
<1>2. UNCHANGED <<lock, mutex_alloc, cond_alloc>>
  BY Zenon DEF mutexVars
<1>3. ObjInv'
  BY <1>1, <1>2, Zenon DEF ObjInv, MutexTypeOK, CondTypeOK
<1>4. ASSUME NEW th \in Threads
      PROVE  ThInv(th)'
  <2>1. CASE th = self
    <3>1. th_stat'[self] = NoStat
      BY RunningFacts, Zenon
    <3> QED
      BY <1>1, <2>1, <3>1, Zenon DEF ThInv, BlockedOK, RelockOK, LockOK
  <2>2. CASE th # self /\ th \notin woken
    BY <1>1, <1>2, <2>2, ThFrame, Zenon DEF ObjInv
  <2>3. CASE th # self /\ th \in woken
    <3>1. th_stat'[th] = NoStat /\ r0'[th] = OK
      BY <2>3
    <3>2. th_stat[th] # NoStat /\ th_stat[th].wq = c
      BY <2>3, InQueue, Indices, Zenon
    <3> HIDE DEF NoStat
    <3> QED
      BY <1>1, <2>3, <3>1, <3>2, Signaled, Zenon DEF ObjInv
  <2> QED
    BY <2>1, <2>2, <2>3, Zenon
<1> QED
  BY <1>3, <1>4, InvPartsNext, Zenon

LEMMA ASignal ==
    ASSUME HInv, NEW self \in Threads, Running(self), NEW c \in CondArgs, ValidCond(c),
           wq' = Released(wq, c), th_stat' = Handed(th_stat, c, NoStat),
           r0' = [Handed(r0, c, OK) EXCEPT ![self] = OK], pendsv' = DeferIfWoken(c),
           UNCHANGED <<clock, ticks, active, critical_cnt, schedVars>>,
           UNCHANGED <<mutexVars, cond_alloc>>, Called(self, "none", 0)
    PROVE  HInv'
<1>1. KInv /\ ObjInv /\ \A th \in Threads : ThInv(th)
  BY InvParts
<1>2. c \in Conds /\ c \in Mutexes \union Conds /\ c \notin Mutexes
  BY Indices DEF ValidCond
<1> DEFINE woken == IF wq[c] = {} THEN {} ELSE {WqHead(wq[c])}
<1>3. woken \in SUBSET wq[c] /\ woken \subseteq Threads
  BY <1>1, <1>2, HeadFacts, Zenon
<1>4. r0' \in [Threads -> Int] /\ \A t \in Threads \ {self} :
                                     r0'[t] = IF t \in woken THEN OK ELSE r0[t]
  <2>1. r0 \in [Threads -> Int] /\ OK \in Int
    BY <1>1, KTypes, CodeTypes, ZenonT(60)
  <2>2. CASE wq[c] = {}
    BY <2>1, <2>2, Zenon DEF Handed
  <2>3. CASE wq[c] # {}
    BY <1>3, <2>1, <2>3, Zenon DEF Handed
  <2> QED
    BY <2>2, <2>3, Zenon
<1>5. /\ \A m \in Mutexes : wq'[m] = wq[m]
      /\ \A t \in Threads : th_stat'[t] = IF t \in woken THEN NoStat ELSE th_stat[t]
  <2>1. /\ \A v \in (Mutexes \union Conds) \ {c} : wq'[v] = wq[v]
        /\ \A t \in Threads : th_stat'[t] = IF wq[c] # {} /\ t = WqHead(wq[c])
                                             THEN NoStat ELSE th_stat[t]
    BY <1>1, <1>2, ReleaseFacts
  <2> QED
    BY <1>2, <2>1, ZenonT(60)
<1>6. KInv'
  BY <1>1, <1>2, <1>4, RunningFacts, KRelease, Zenon
<1> HIDE DEF woken, NoStat
<1> QED
  BY <1>1, <1>2, <1>3, <1>4, <1>5, <1>6, Notified

LEMMA ABroadcast ==
    ASSUME HInv, NEW self \in Threads, Running(self), NEW c \in CondArgs, ValidCond(c),
           wq' = WakeupAll(wq, c),
           th_stat' = [th \in Threads |-> IF th \in wq[c] THEN NoStat ELSE th_stat[th]],
           r0' = [th \in Threads |-> IF th \in wq[c] \union {self} THEN OK ELSE r0[th]],
           pendsv' = DeferIfWoken(c),
           UNCHANGED <<clock, ticks, active, critical_cnt, schedVars>>,
           UNCHANGED <<mutexVars, cond_alloc>>, Called(self, "none", 0)
    PROVE  HInv'
<1>1. KInv /\ ObjInv /\ \A th \in Threads : ThInv(th)
  BY InvParts, Zenon
<1>2. c \in Conds /\ c \in Mutexes \union Conds /\ c \notin Mutexes
  BY Indices, Zenon DEF ValidCond
<1>3. r0' \in [Threads -> Int]
  BY <1>1, KTypes, CodeTypes, Zenon
<1>4. /\ KInv' /\ wq[c] \subseteq Threads
      /\ \A v \in (Mutexes \union Conds) \ {c} : wq'[v] = wq[v]
  BY <1>1, <1>2, <1>3, RunningFacts, KReleaseAll, Zenon
<1>5. /\ \A t \in Threads : th_stat'[t] = IF t \in wq[c] THEN NoStat ELSE th_stat[t]
      /\ \A t \in Threads \ {self} : r0'[t] = IF t \in wq[c] THEN OK ELSE r0[t]
      /\ \A m \in Mutexes : wq'[m] = wq[m]
  BY <1>2, <1>4, Zenon
<1> HIDE DEF NoStat
<1> QED
  BY <1>1, <1>2, <1>4, <1>5, Notified, Zenon

-----------------------------------------------------------------------------
(* A mutex is allocated or, when nobody uses it, freed. *)
LEMMA AMutexAlloc ==
    ASSUME HInv, NEW self \in Threads, Running(self), NEW v \in Int, Reply(self, v),
           NEW m \in Mutexes,
           \/ m \notin mutex_alloc /\ mutex_alloc' = mutex_alloc \union {m}
           \/ Unused(m) /\ mutex_alloc' = mutex_alloc \ {m},
           lock' = lock, UNCHANGED cond_alloc, Called(self, "none", 0)
    PROVE  HInv'
<1>1. KInv /\ ObjInv /\ \A th \in Threads : ThInv(th)
  BY InvParts
<1>2. KInv'
  BY <1>1, KReply
<1>3. /\ call' \in [Threads -> [op : Ops, mutex : Nat]]
      /\ call'[self].op = "none"
      /\ \A th \in Threads \ {self} : call'[th] = call[th]
  BY <1>1, CalledFacts, Zenon DEF Ops
<1>4. /\ \A th \in Threads \ {self} : r0'[th] = r0[th]
      /\ UNCHANGED <<wq, th_stat>>
  BY <1>1, KTypes, Zenon DEF Reply, Return
<1>5. ObjInv'
  BY <1>1, <1>3, <1>4, Zenon DEF ObjInv, MutexTypeOK, CondTypeOK, Unused
<1>6. ASSUME NEW th \in Threads
      PROVE  ThInv(th)'
  <2>1. CASE th # self
    <3>1. call[th].op \in {"relock", "cond_wait"} /\ call[th].mutex \in mutex_alloc
             => call[th].mutex \in mutex_alloc'
      BY DEF Unused
    <3> QED
      BY <1>1, <1>3, <1>4, <2>1, <3>1, ThFrame, Zenon DEF ObjInv
  <2>2. CASE th = self
    <3>1. th_stat'[self] = NoStat
      BY <1>1, <1>4, RunningFacts, Zenon
    <3> QED
      BY <1>3, <2>2, <3>1, Zenon DEF ThInv, BlockedOK, RelockOK, LockOK
  <2> QED
    BY <2>1, <2>2, Zenon
<1> QED
  BY <1>2, <1>5, <1>6, InvPartsNext

-----------------------------------------------------------------------------
(* The steps of a thread, call by call. *)

LEMMA STake ==
    ASSUME HInv, NEW self \in Threads, Running(self), NEW m \in MutexArgs,
           MutexTake(self, m), UNCHANGED cond_alloc,
           NEW op \in {"lock", "relock"}, Called(self, op, m),
           op = "relock" => m \in mutex_alloc /\ lock[m] # self
    PROVE  HInv'
<1>1. ObjInv
  BY InvParts
<1>2. mutex_alloc \subseteq Mutexes /\ m \in Nat /\ CondTypeOK'
  BY <1>1, Indices, Zenon DEF ObjInv, MutexTypeOK, MutexArgs, CondTypeOK
<1>3. CASE ~ValidMutex(m) /\ Reply(self, EINVAL) /\ UNCHANGED mutexVars
  <2>1. op = "lock" /\ (m \in Mutexes => lock[m] = FREE)
    BY <1>1, <1>2, <1>3, Zenon DEF ValidMutex, ObjInv
  <2>2. m \in Mutexes => (EINVAL \in {OK, EDEADLK} <=> lock[m] = self)
    BY <2>1, SlotFacts DEF EINVAL, OK, EDEADLK
  <2> QED
    BY <1>2, <1>3, <2>1, <2>2, AReply, SMTT(60) DEF EINVAL, Ops
<1>4. CASE /\ ValidMutex(m) /\ lock[m] = FREE
           /\ lock' = [lock EXCEPT ![m] = self]
           /\ Reply(self, OK) /\ UNCHANGED mutex_alloc
  BY <1>4, ATake, Zenon DEF ValidMutex
<1>5. CASE ValidMutex(m) /\ lock[m] = self /\ Reply(self, EDEADLK) /\ UNCHANGED mutexVars
  <2>1. op = "lock" /\ (m \in Mutexes => (EDEADLK \in {OK, EDEADLK} <=> lock[m] = self))
    BY <1>5 DEF ValidMutex
  <2> QED
    BY <1>2, <1>5, <2>1, AReply DEF EDEADLK, Ops
<1> QED
  BY <1>3, <1>4, <1>5, Zenon DEF MutexTake

LEMMA SLock ==
    ASSUME HInv, NEW self \in Threads, NEW m \in MutexArgs,
           MutexLock(self, m), UNCHANGED cond_alloc,
           NEW op \in {"lock", "relock"}, Called(self, op, m),
           op = "relock" => m \in mutex_alloc /\ lock[m] # self
    PROVE  HInv'
<1>1. Running(self)
  BY DEF MutexLock
<1>2. CASE MutexTake(self, m)
  BY <1>1, <1>2, STake
<1>3. CASE /\ MutexBusy(self, m) /\ Block(wq, self, m)
           /\ th_stat' = [th_stat EXCEPT ![self] = Stat(m, FALSE)]
           /\ Return(self, OK) /\ UNCHANGED mutexVars
  <2>1. BlockOn(wq, self, m, FALSE) /\ Assigned(th_stat, th_stat', self, Stat(m, FALSE))
    BY <1>3 DEF BlockOn, Assigned
  <2>2. Return(self, IF FALSE THEN ETIMEDOUT ELSE OK)
    BY <1>3
  <2>3. UNCHANGED <<mutexVars, cond_alloc>>
    BY <1>3
  <2> HIDE DEF Stat
  <2> QED
    BY <1>1, <1>3, <2>1, <2>2, <2>3, ABlock, ZenonT(60)
<1> QED
  BY <1>2, <1>3, Zenon DEF MutexLock

LEMMA SRelock ==
    ASSUME HInv, NEW self \in Threads, Relock(self)
    PROVE  HInv'
<1> DEFINE m == call[self].mutex
<1>1. ObjInv /\ ThInv(self)
  BY InvParts, SMTT(60)
<1>2. m \in mutex_alloc /\ lock[m] # self /\ m \in MutexArgs
  BY <1>1, Zenon DEF Relock, MustRelock, ThInv, RelockOK, ObjInv, MutexTypeOK, MutexArgs
<1>3. MutexLock(self, m) /\ Called(self, "relock", m) /\ UNCHANGED cond_alloc
  BY DEF Relock
<1> HIDE DEF m
<1> QED
  BY <1>2, <1>3, SLock

LEMMA SLockCall ==
    ASSUME HInv, NEW self \in Threads, LockCall(self)
    PROVE  HInv'
<1>1. PICK m \in MutexArgs :
         /\ \/ MutexLock(self, m)
            \/ MutexTryLock(self, m)
            \/ \E ms \in Delays : MutexTimedLock(self, m, ms)
         /\ Called(self, "lock", m)
         /\ UNCHANGED cond_alloc
  BY DEF LockCall
<1>2. CASE MutexLock(self, m)
  BY <1>1, <1>2, SLock
<1>3. CASE MutexTryLock(self, m)
  <2>1. Running(self)
    BY <1>3 DEF MutexTryLock
  <2>2. CASE MutexTake(self, m)
    BY <1>1, <2>1, <2>2, STake, Zenon
  <2>3. CASE MutexBusy(self, m) /\ Reply(self, EAGAIN) /\ UNCHANGED mutexVars
    <3>1. EAGAIN \in Int /\ (EAGAIN \in {OK, EDEADLK} <=> lock[m] = self)
      BY <2>3, SMTT(60) DEF EAGAIN, OK, EDEADLK, MutexBusy
    <3>2. m \in Nat /\ CondTypeOK'
      BY <1>1, Indices, InvParts, ZenonT(60) DEF MutexArgs, ObjInv, CondTypeOK
    <3> QED
      BY <1>1, <2>1, <2>3, <3>1, <3>2, AReply, Zenon DEF Ops
  <2> QED
    BY <1>3, <2>2, <2>3 DEF MutexTryLock
<1>4. CASE \E ms \in Delays : MutexTimedLock(self, m, ms)
  <2>1. Running(self)
    BY <1>4 DEF MutexTimedLock
  <2>2. CASE MutexTake(self, m)
    BY <1>1, <2>1, <2>2, STake, SMTT(60)
  <2>3. CASE /\ MutexBusy(self, m) /\ \E ms \in Delays : TmdBlock(wq, self, m, ms)
             /\ th_stat' = [th_stat EXCEPT ![self] = Stat(m, TRUE)]
             /\ Return(self, ETIMEDOUT) /\ UNCHANGED mutexVars
    <3>1. BlockOn(wq, self, m, TRUE) /\ Assigned(th_stat, th_stat', self, Stat(m, TRUE))
      BY <2>3 DEF BlockOn, Assigned
    <3>2. Return(self, IF TRUE THEN ETIMEDOUT ELSE OK)
      BY <2>3
    <3>3. UNCHANGED <<mutexVars, cond_alloc>>
      BY <1>1, <2>3
    <3> HIDE DEF Stat
    <3> QED
      BY <1>1, <2>1, <2>3, <3>1, <3>2, <3>3, ABlock, ZenonT(60)
  <2> QED
    BY <1>4, <2>2, <2>3, Zenon DEF MutexTimedLock
<1> QED
  BY <1>1, <1>2, <1>3, <1>4

(* Error codes are numbers, and those of a refused wait differ from the    *)
(* codes of a wait that has taken place.                                   *)
LEMMA Codes ==
    /\ EINVAL \in Int /\ EPERM \in Int /\ ENOMEM \in Int /\ 0 \in Nat
    /\ EINVAL < ETIMEDOUT /\ EPERM < ETIMEDOUT
BY DEF EINVAL, EPERM, ENOMEM, ETIMEDOUT

(* A call that is refused, or that only sets a result. *)
LEMMA SReply ==
    ASSUME HInv, NEW self \in Threads, Running(self), NEW v \in Int, Reply(self, v),
           UNCHANGED mutexVars, CondTypeOK', Called(self, "none", 0)
    PROVE  HInv'
BY AReply DEF Ops

LEMMA SRefused ==
    ASSUME HInv, NEW self \in Threads, Running(self), NEW v \in Int, Reply(self, v),
           UNCHANGED mutexVars, CondTypeOK',
           NEW m \in Nat, Called(self, "cond_wait", m), v < ETIMEDOUT
    PROVE  HInv'
BY AReply DEF Ops

LEMMA SUnlockCall ==
    ASSUME HInv, NEW self \in Threads, UnlockCall(self)
    PROVE  HInv'
<1>1. PICK m \in MutexArgs : MutexUnlock(self, m)
  BY DEF UnlockCall
<1>2. Running(self) /\ Called(self, "none", 0) /\ UNCHANGED cond_alloc
  BY <1>1, Zenon DEF UnlockCall, MutexUnlock
<1>3. CondTypeOK'
  BY <1>2, InvParts DEF ObjInv, CondTypeOK
<1>4. CASE (Reply(self, EINVAL) \/ Reply(self, EPERM)) /\ UNCHANGED mutexVars
  BY <1>2, <1>3, <1>4, SReply, Codes, ZenonT(60)
<1>5. CASE /\ ValidMutex(m) /\ lock[m] = self
           /\ lock' = [lock EXCEPT ![m] = NextOwner(m)]
           /\ wq' = Released(wq, m)
           /\ th_stat' = Handed(th_stat, m, NoStat)
           /\ r0' = Handed([r0 EXCEPT ![self] = OK], m, OK)
           /\ pendsv' = DeferIfWoken(m)
           /\ UNCHANGED <<clock, ticks, active, critical_cnt, schedVars, mutex_alloc>>
  <2> HIDE DEF NoStat
  <2> QED
    BY <1>2, <1>5, AUnlock, ZenonT(60)
<1> QED
  BY <1>1, <1>4, <1>5, Zenon DEF MutexUnlock

LEMMA SWaitCall ==
    ASSUME HInv, NEW self \in Threads, WaitCall(self)
    PROVE  HInv'
<1>1. PICK c \in CondArgs, m \in MutexArgs :
         /\ CondWait(self, c, m) \/ \E ms \in Delays : CondTimedWait(self, c, m, ms)
         /\ Called(self, "cond_wait", m)
  BY Zenon DEF WaitCall
<1>2. Running(self) /\ UNCHANGED cond_alloc /\ m \in Nat
  BY <1>1, Indices, Zenon DEF CondWait, CondTimedWait, MutexArgs
<1>3. CondTypeOK'
  BY <1>2, InvParts DEF ObjInv, CondTypeOK
<1>4. CASE CondWaitRefused(self, c, m)
  <2>1. (Reply(self, EINVAL) \/ Reply(self, EPERM)) /\ UNCHANGED mutexVars
    BY <1>4 DEF CondWaitRefused
  <2> QED
    BY <1>1, <1>2, <1>3, <2>1, SRefused, Codes, ZenonT(60)
<1>5. CASE /\ CondWaitRelease(self, c, m)
           /\ Block(Released(wq, m), self, c)
           /\ th_stat' = Handed([th_stat EXCEPT ![self] = Stat(c, FALSE)], m, NoStat)
           /\ r0' = Handed([r0 EXCEPT ![self] = OK], m, OK)
  <2> HIDE DEF Stat, NoStat
  <2>1. BlockOn(Released(wq, m), self, c, FALSE)
    BY <1>5 DEF BlockOn
  <2>2. r0' = Handed([r0 EXCEPT ![self] = IF FALSE THEN ETIMEDOUT ELSE OK], m, OK)
    BY <1>5
  <2> QED
    BY <1>1, <1>2, <1>5, <2>1, <2>2, ACondWait, ZenonT(60)
<1>6. CASE /\ CondWaitRelease(self, c, m)
           /\ \E ms \in Delays : TmdBlock(Released(wq, m), self, c, ms)
           /\ th_stat' = Handed([th_stat EXCEPT ![self] = Stat(c, TRUE)], m, NoStat)
           /\ r0' = Handed([r0 EXCEPT ![self] = ETIMEDOUT], m, OK)
  <2> HIDE DEF Stat, NoStat
  <2>1. BlockOn(Released(wq, m), self, c, TRUE)
    BY <1>6 DEF BlockOn
  <2>2. r0' = Handed([r0 EXCEPT ![self] = IF TRUE THEN ETIMEDOUT ELSE OK], m, OK)
    BY <1>6
  <2> QED
    BY <1>1, <1>2, <1>6, <2>1, <2>2, ACondWait, ZenonT(60)
<1> HIDE DEF Stat, NoStat
<1> QED
  BY <1>1, <1>4, <1>5, <1>6, Zenon DEF CondWait, CondTimedWait

LEMMA SNotifyCall ==
    ASSUME HInv, NEW self \in Threads, NotifyCall(self)
    PROVE  HInv'
<1>1. PICK c \in CondArgs : CondSignal(self, c) \/ CondBroadcast(self, c)
  BY SMTT(60) DEF NotifyCall
<1>2. Running(self) /\ Called(self, "none", 0) /\ UNCHANGED <<mutexVars, cond_alloc>>
  BY <1>1, ZenonT(60) DEF NotifyCall, CondSignal, CondBroadcast
<1>3. CondTypeOK'
  BY <1>2, InvParts DEF ObjInv, CondTypeOK
<1> HIDE DEF NoStat
<1>4. CASE CondInvalid(self, c)
  <2>1. Reply(self, EINVAL)
    BY <1>4 DEF CondInvalid
  <2> QED
    BY <1>2, <1>3, <2>1, SReply, Codes, ZenonT(60)
<1>5. CASE CondSignal(self, c) /\ ~CondInvalid(self, c)
  BY <1>2, <1>5, ASignal, Zenon DEF CondSignal
<1>6. CASE CondBroadcast(self, c) /\ ~CondInvalid(self, c)
  BY <1>2, <1>6, ABroadcast, Zenon DEF CondBroadcast
<1> QED
  BY <1>1, <1>4, <1>5, <1>6

(* thinkos_bmp_alloc() returns a bit that was clear. *)
LEMMA BmpAllocFacts ==
    ASSUME HeadsExist, NEW all \in SUBSET Nat, NEW used
    PROVE  /\ BmpAlloc(used, all) \in Int
           /\ BmpAlloc(used, all) # ENOMEM => BmpAlloc(used, all) \in all \ used
<1>1. CASE all \ used = {}
  BY <1>1 DEF BmpAlloc, ENOMEM
<1>2. CASE all \ used # {}
  <2>1. WqHead(all \ used) \in all \ used
    BY <1>2 DEF HeadsExist, IsHead
  <2>2. BmpAlloc(used, all) = WqHead(all \ used)
    BY <1>2 DEF BmpAlloc
  <2>3. \A x \in all \ used : x \in Int
    OBVIOUS
  <2> QED
    BY <2>1, <2>2, <2>3, Zenon
<1> QED
  BY <1>1, <1>2

LEMMA SAllocCall ==
    ASSUME HInv, NEW self \in Threads, AllocCall(self)
    PROVE  HInv'
<1>1. Called(self, "none", 0)
  BY DEF AllocCall
<1>2. ObjInv
  BY InvParts
<1>3. CASE MutexAlloc(self) /\ UNCHANGED cond_alloc
  <2> DEFINE m == BmpAlloc(mutex_alloc, Mutexes)
  <2>1. m \in Int /\ (m # ENOMEM => m \in Mutexes \ mutex_alloc)
    BY BmpAllocFacts, Indices DEF HInv
  <2>2. /\ Running(self) /\ Reply(self, m)
        /\ IF m = ENOMEM THEN UNCHANGED mutexVars
           ELSE /\ lock' = [lock EXCEPT ![m] = FREE]
                /\ mutex_alloc' = mutex_alloc \union {m}
    BY <1>3, Zenon DEF MutexAlloc
  <2>3. CondTypeOK'
    BY <1>2, <1>3 DEF ObjInv, CondTypeOK
  <2> HIDE DEF m
  <2>4. CASE m = ENOMEM
    BY <1>1, <2>1, <2>2, <2>3, <2>4, SReply, ZenonT(60)
  <2>5. CASE m # ENOMEM
    <3>1. lock' = lock
      BY <1>2, <2>1, <2>2, <2>5 DEF ObjInv, MutexTypeOK
    <3> QED
      BY <1>1, <1>3, <2>1, <2>2, <2>5, <3>1, AMutexAlloc, Zenon
  <2> QED
    BY <2>4, <2>5
<1>4. CASE (\E m \in MutexArgs : Unused(m) /\ MutexFree(self, m)) /\ UNCHANGED cond_alloc
  <2>1. PICK m \in MutexArgs : Unused(m) /\ MutexFree(self, m)
    BY <1>4
  <2>2. CASE m \in Mutexes
    <3>1. m \in Int /\ Reply(self, m) /\ Running(self)
      BY <2>1, <2>2, Indices DEF MutexFree
    <3> QED
      BY <1>1, <1>4, <2>1, <2>2, <3>1, AMutexAlloc, Zenon DEF MutexFree
  <2>3. CASE m \notin Mutexes
    <3>1. UNCHANGED mutexVars /\ CondTypeOK' /\ Running(self) /\ Reply(self, EINVAL)
      BY <1>2, <1>4, <2>1, <2>3, Zenon DEF MutexFree, mutexVars, ObjInv, MutexTypeOK, CondTypeOK
    <3> QED
      BY <1>1, <3>1, SReply, Codes, ZenonT(60)
  <2> QED
    BY <2>2, <2>3
<1>5. CASE CondAlloc(self)
  <2> DEFINE c == BmpAlloc(cond_alloc, Conds)
  <2>1. c \in Int /\ (c # ENOMEM => c \in Conds)
    BY BmpAllocFacts, Indices DEF HInv
  <2>2. /\ Running(self) /\ Reply(self, c) /\ UNCHANGED mutexVars
        /\ cond_alloc' = IF c = ENOMEM THEN cond_alloc ELSE cond_alloc \union {c}
    BY <1>5 DEF CondAlloc
  <2> HIDE DEF c
  <2>3. CondTypeOK'
    BY <1>2, <2>1, <2>2 DEF ObjInv, CondTypeOK
  <2> QED
    BY <1>1, <2>1, <2>2, <2>3, SReply, ZenonT(60)
<1>6. CASE \E c \in CondArgs : CondFree(self, c)
  <2>1. PICK c \in CondArgs : CondFree(self, c)
    BY <1>6
  <2> DEFINE v == IF c \in Conds THEN c ELSE EINVAL
  <2>2. v \in Int
    <3>1. Conds \subseteq Int
      BY Indices, SMTT(60)
    <3> QED
      BY <3>1, Codes, Zenon
  <2>3. Running(self) /\ Reply(self, v) /\ UNCHANGED mutexVars /\ CondTypeOK'
    BY <1>2, <2>1 DEF CondFree, ObjInv, CondTypeOK
  <2> HIDE DEF v
  <2> QED
    BY <1>1, <2>2, <2>3, SReply, ZenonT(60)
<1> QED
  BY <1>3, <1>4, <1>5, <1>6 DEF AllocCall

-----------------------------------------------------------------------------
WellFounded == INSTANCE WellFoundedInduction

(* The lowest bit of a bitmap that is not 0. *)
LEMMA LowestBit ==
    ASSUME NEW S \in SUBSET Nat, S # {}
    PROVE  IsHead(S, WqHead(S))
<1>1. S \subseteq Nat
  OBVIOUS
<1>2. \E x \in S : \A y \in S : ~(<<y, x>> \in WellFounded!OpToRel(<, Nat))
  BY <1>1, WellFounded!WFMin, WellFounded!NatLessThanWellFounded, Zenon
<1>3. \A x, y \in Nat : y < x => <<y, x>> \in WellFounded!OpToRel(<, Nat)
  BY DEF WellFounded!OpToRel
<1>4. \E x \in S : \A y \in S : ~(y < x)
  BY <1>1, <1>2, <1>3, Zenon
<1>5. \E x \in S : \A y \in S : x <= y
  BY <1>1, <1>4
<1> QED
  BY <1>5, Zenon DEF IsHead, WqHead

LEMMA HeadsAlways == HeadsExist
BY LowestBit, Zenon DEF HeadsExist

(* The initial states satisfy the invariant. *)
LEMMA InitInv == Init => IInv
<1> SUFFICES ASSUME Init PROVE IInv
  OBVIOUS
<1>1. RtInit(Threads) /\ MutexInit(Mutexes) /\ CondInit(Conds)
      /\ call = [th \in Threads |-> NoCall]
  BY DEF Init
<1>2. Threads # {} /\ IsHead(Threads, WqHead(Threads))
  <2>1. Threads # {}
    BY RtAssumption DEF Threads
  <2> QED
    BY <2>1, HeadsAlways, HeadExists, SlotFacts
<1>3. RtTypeOK
  <2>1. wq \in [Queues -> SUBSET (Threads \union {IDLE})]
    BY <1>1 DEF RtInit
  <2>2. th_stat \in [Threads -> [wq : Queues, timed : BOOLEAN]]
    <3>1. NoStat \in [wq : Queues, timed : BOOLEAN]
      BY Indices
    <3> HIDE DEF NoStat
    <3> QED
      BY <1>1, <3>1 DEF RtInit
  <2>3. clock \in [Threads -> Ticks] /\ ticks \in Ticks
    BY <1>1, RtAssumption DEF RtInit, Ticks
  <2>4. active \in 0 .. VOID
    BY <1>1, <1>2, SlotFacts, Zenon DEF RtInit, IsHead
  <2>5. pendsv \in BOOLEAN
    BY <1>1, Zenon DEF RtInit
  <2>6. critical_cnt \in 0 .. CRITICAL_MAX /\ r0 \in [Threads -> Int]
    BY <1>1, RtAssumption DEF RtInit, OK
  <2> QED
    BY <2>1, <2>2, <2>3, <2>4, <2>5, <2>6 DEF RtTypeOK
<1>4. /\ SchedTypeOK /\ sched_pri[IDLE] = 0
      /\ \A s \in Slots : sched_pri[s] <= sched_limit
  <2>1. PICK pri \in [Threads -> Priorities] : SchedInit(pri)
    BY DEF Init
  <2>2. sched_limit \in 1 .. SCHED_LIMIT_MAX
    BY <2>1 DEF SchedInit
  <2>3. sched_limit \div 2 \in 0 .. SCHED_LIMIT_MAX
    BY <2>2, SchedAssumption
  <2>4. \A th \in Threads : pri[th] \in 0 .. SCHED_LIMIT_MAX /\ pri[th] <= sched_limit
    BY <2>1, MutexCondAssumption, ZenonT(60) DEF SchedInit
  <2>5. sched_pri \in [Slots -> 0 .. SCHED_LIMIT_MAX]
    BY <2>1, <2>4, SlotFacts, SchedAssumption DEF SchedInit
  <2>6. sched_val \in [Slots -> 0 .. SCHED_LIMIT_MAX]
    BY <2>1, <2>3, SchedAssumption DEF SchedInit
  <2>7. sched_pri[IDLE] = 0 /\ \A s \in Slots : sched_pri[s] <= sched_limit
    BY <2>1, <2>2, <2>4, SlotFacts DEF SchedInit
  <2> QED
    BY <2>2, <2>5, <2>6, <2>7 DEF SchedTypeOK
<1>5. /\ wq[WQ_READY] = Threads \union {IDLE}
      /\ \A w \in Queues \ {WQ_READY} : wq[w] = {}
      /\ \A th \in Threads : th_stat[th] = NoStat
  BY <1>1, Indices DEF RtInit
<1>6. QueueInv
  <2>1. \A w \in Queues : IDLE \in wq[w] <=> w = WQ_READY
    BY <1>5, Indices
  <2>2. ASSUME NEW th \in Threads
        PROVE  /\ \A w \in Queues \ {WQ_READY, WQ_TMSHARE} : th \notin wq[w]
               /\ th \in wq[WQ_READY] <=> th \notin wq[WQ_TMSHARE]
    <3>1. th \in wq[WQ_READY]
      BY <1>5, Zenon
    <3>2. \A w \in Queues \ {WQ_READY} : th \notin wq[w]
      BY <1>5, Zenon
    <3>3. WQ_TMSHARE \in Queues \ {WQ_READY}
      BY Indices
    <3>4. th \notin wq[WQ_TMSHARE]
      BY <3>2, <3>3, Zenon
    <3> QED
      BY <3>1, <3>2, <3>4, Zenon
  <2> QED
    BY <1>5, <2>1, <2>2, Zenon DEF QueueInv, Agree
<1>7. WorkConserving
  BY <1>5, Indices DEF WorkConserving
<1>8. RunsFirstReady
  <2>1. IsHead(Threads \union {IDLE}, WqHead(Threads))
    <3>1. \A th \in Threads : th <= IDLE
      BY SlotFacts, SMTT(60)
    <3> QED
      BY <1>2, <3>1, Zenon DEF IsHead
  <2> QED
    BY <1>1, <1>5, <2>1, Zenon DEF RtInit, RunsFirstReady
<1>9. KInv
  BY <1>1, <1>3, <1>4, <1>6, <1>7, <1>8, HeadsAlways, Zenon DEF KInv, RtInit
<1>10. ObjInv
  <2>1. MutexTypeOK /\ CondTypeOK
    BY <1>1 DEF MutexInit, CondInit, MutexTypeOK, CondTypeOK
  <2>2. call \in [Threads -> [op : Ops, mutex : Nat]]
    BY <1>1, Zenon DEF NoCall, Ops
  <2>3. \A m \in Mutexes : wq[m] = {} /\ lock[m] = FREE
    BY <1>1, <1>5, Indices, ZenonT(60) DEF MutexInit
  <2> QED
    BY <2>1, <2>2, <2>3 DEF ObjInv
<1>11. \A th \in Threads : ThInv(th)
  BY <1>1, <1>5, Zenon DEF NoCall, ThInv, BlockedOK, RelockOK, LockOK
<1> QED
  BY <1>9, <1>10, <1>11, InvParts DEF HInv

(* Every step preserves the invariant. *)
LEMMA NextInv == IInv /\ [Next]_vars => IInv'
<1> SUFFICES ASSUME IInv, [Next]_vars PROVE HInv'
  BY DEF HInv
<1>0. HInv
  BY HeadsAlways DEF HInv
<1>1. CASE Kernel
  <2>1. UNCHANGED <<mutexVars, cond_alloc, call>>
    BY <1>1 DEF Kernel
  <2>2. CASE SysTick
    BY <1>0, <2>1, <2>2, ASysTick
  <2>3. CASE PendSV \/ Idle
    BY <1>0, <2>1, <2>3, ASwitch
  <2> QED
    BY <1>1, <2>2, <2>3 DEF Kernel
<1>2. ASSUME NEW self \in Threads, Relock(self)
      PROVE  HInv'
  BY <1>0, <1>2, SRelock
<1>3. ASSUME NEW self \in Threads, UserCall(self)
      PROVE  HInv'
  <2>1. CASE LockCall(self)
    BY <1>0, <2>1, SLockCall
  <2>2. CASE UnlockCall(self)
    BY <1>0, <2>2, SUnlockCall
  <2>3. CASE WaitCall(self)
    BY <1>0, <2>3, SWaitCall
  <2>4. CASE NotifyCall(self)
    BY <1>0, <2>4, SNotifyCall
  <2>5. CASE AllocCall(self)
    BY <1>0, <2>5, SAllocCall
  <2>6. CASE ClockCall(self)
    BY <1>0, <2>6, ASleep DEF ClockCall
  <2>7. CASE YieldCall(self)
    BY <1>0, <2>7, ASwitch DEF YieldCall
  <2> QED
    BY <1>3, <2>1, <2>2, <2>3, <2>4, <2>5, <2>6, <2>7, Zenon DEF UserCall
<1>4. CASE UNCHANGED vars
  <2>1. /\ UNCHANGED <<wq, th_stat, clock, ticks, active, pendsv, critical_cnt, r0>>
        /\ UNCHANGED <<sched_val, sched_pri, sched_limit, lock, mutex_alloc, cond_alloc, call>>
    BY <1>4 DEF vars, rtVars, schedVars, mutexVars
  <2>2. KInv /\ ObjInv /\ \A th \in Threads : ThInv(th)
    BY <1>0, InvParts, SMTT(60)
  <2>3. KInv'
    BY <2>1, <2>2, Zenon DEF KInv, RtTypeOK, SchedTypeOK, QueueInv, WorkConserving,
       RunsFirstReady, Agree, IsHead
  <2>4. ObjInv'
    BY <2>1, <2>2, Zenon DEF ObjInv, MutexTypeOK, CondTypeOK
  <2>5. \A th \in Threads : ThInv(th)'
    BY <2>1, <2>2, ThFrame, Zenon DEF ObjInv
  <2> QED
    BY <2>3, <2>4, <2>5, InvPartsNext
<1> QED
  BY <1>1, <1>2, <1>3, <1>4 DEF Next

-----------------------------------------------------------------------------
(* The invariant holds in every reachable state, for any number of         *)
(* threads, mutexes and condition variables, any width of the clock and    *)
(* any priorities and time limits.                                         *)
THEOREM Invariance == Spec => []IInv
<1>1. Init => IInv
  BY InitInv
<1>2. IInv /\ [Next]_vars => IInv'
  BY NextInv
<1> QED
  BY <1>1, <1>2, PTL DEF Spec

(* Types, the range of the scheduler's values included. *)
THEOREM TypeCorrect == Spec => []TypeOK
<1>1. IInv => TypeOK
  BY DEF IInv
<1> QED
  BY <1>1, Invariance, PTL

(* th_stat[] always agrees with the wait queues. *)
THEOREM QueuesAgree == Spec => []QueueInv
<1>1. IInv => QueueInv
  BY DEF IInv
<1> QED
  BY <1>1, Invariance, PTL

(* The processor runs the first ready thread unless a switch is pending. *)
THEOREM Scheduling == Spec => []RunsFirstReady
<1>1. IInv => RunsFirstReady
  BY DEF IInv
<1> QED
  BY <1>1, Invariance, PTL

(* No thread is left in the time share queue while the idle thread is the  *)
(* only one ready.                                                         *)
THEOREM Collected == Spec => []WorkConserving
<1>1. IInv => WorkConserving
  BY DEF IInv
<1> QED
  BY <1>1, Invariance, PTL

(* Threads wait for a mutex only while another thread owns it. *)
THEOREM NoLostUnlock == Spec => []WaitersHaveOwner
<1>1. IInv => WaitersHaveOwner
  BY DEF IInv
<1> QED
  BY <1>1, Invariance, PTL

(* The result of the lock calls says whether the caller owns the mutex. *)
THEOREM LockCorrect == Spec => []LockResult
<1>1. IInv => LockResult
  BY DEF IInv
<1> QED
  BY <1>1, Invariance, PTL

(* A wait on a condition variable returns with the mutex locked. *)
THEOREM CondWaitCorrect == Spec => []CondWaitOwnsMutex
<1>1. IInv => CondWaitOwnsMutex
  BY DEF IInv
<1> QED
  BY <1>1, Invariance, PTL
=============================================================================
