---------------------------- MODULE ThinkosMutex ----------------------------
(***************************************************************************)
(* Mutexes (thinkos_mutex.c).  A mutex is named by its queue index, as in  *)
(* the system calls; lock[m] is the owning thread or FREE.                 *)
(***************************************************************************)
EXTENDS ThinkosSched

VARIABLES
    lock,           \* the owner of each mutex
    mutex_alloc     \* the allocated mutexes

mutexVars == <<lock, mutex_alloc>>

FREE == -1

(* Every number a thread may pass for a mutex: the mutexes themselves and  *)
(* the indices of other objects.                                           *)
MutexArgs == Mutexes \union Conds

MutexInit(alloc) ==
    /\ lock = [m \in Mutexes |-> FREE]
    /\ mutex_alloc = alloc

MutexTypeOK ==
    /\ lock \in [Mutexes -> Threads \union {FREE}]
    /\ mutex_alloc \in SUBSET Mutexes

ValidMutex(m) == m \in Mutexes /\ m \in mutex_alloc

(* The calling thread blocks: in queue w without a time limit, or with one *)
(* of ms ticks.  The queues are q before it does.                          *)
Block(q, self, w) ==
    /\ wq' = Suspend(Insert(q, w, self), self)
    /\ pendsv' = TRUE
    /\ UNCHANGED <<clock, ticks, active, critical_cnt, schedVars>>
TmdBlock(q, self, w, ms) ==
    /\ wq' = Suspend(TmdInsert(q, w, self), self)
    /\ clock' = [clock EXCEPT ![self] = TickAdd(ticks, ms)]
    /\ pendsv' = TRUE
    /\ UNCHANGED <<ticks, active, critical_cnt, schedVars>>

-----------------------------------------------------------------------------
(* thinkos_mutex_alloc_svc *)
MutexAlloc(self) ==
    LET m == BmpAlloc(mutex_alloc, Mutexes) IN
    /\ Running(self)
    /\ Reply(self, m)
    /\ IF m = ENOMEM THEN UNCHANGED mutexVars
       ELSE /\ lock' = [lock EXCEPT ![m] = FREE]
            /\ mutex_alloc' = mutex_alloc \union {m}

(* thinkos_mutex_free_svc: on success arg[0] keeps the mutex's number. *)
MutexFree(self, m) ==
    /\ Running(self)
    /\ Reply(self, IF m \in Mutexes THEN m ELSE EINVAL)
    /\ mutex_alloc' = mutex_alloc \ {m}
    /\ UNCHANGED lock

(* The part that lock, trylock and timedlock share: the mutex is taken, or *)
(* the call fails at once.                                                 *)
MutexTake(self, m) ==
    \/ /\ ~ValidMutex(m)
       /\ Reply(self, EINVAL)
       /\ UNCHANGED mutexVars
    \/ /\ ValidMutex(m)
       /\ lock[m] = FREE
       /\ lock' = [lock EXCEPT ![m] = self]
       /\ Reply(self, OK)
       /\ UNCHANGED mutex_alloc
    \/ /\ ValidMutex(m)
       /\ lock[m] = self
       /\ Reply(self, EDEADLK)
       /\ UNCHANGED mutexVars

MutexBusy(self, m) == ValidMutex(m) /\ lock[m] \notin {FREE, self}

(* thinkos_mutex_lock_svc *)
MutexLock(self, m) ==
    /\ Running(self)
    /\ \/ MutexTake(self, m)
       \/ /\ MutexBusy(self, m)
          /\ Block(wq, self, m)
          /\ th_stat' = [th_stat EXCEPT ![self] = Stat(m, FALSE)]
          /\ Return(self, OK)
          /\ UNCHANGED mutexVars

(* thinkos_mutex_trylock_svc *)
MutexTryLock(self, m) ==
    /\ Running(self)
    /\ \/ MutexTake(self, m)
       \/ /\ MutexBusy(self, m)
          /\ Reply(self, EAGAIN)
          /\ UNCHANGED mutexVars

(* thinkos_mutex_timedlock_svc *)
MutexTimedLock(self, m, ms) ==
    /\ Running(self)
    /\ \/ MutexTake(self, m)
       \/ /\ MutexBusy(self, m)
          /\ TmdBlock(wq, self, m, ms)
          /\ th_stat' = [th_stat EXCEPT ![self] = Stat(m, TRUE)]
          /\ Return(self, ETIMEDOUT)
          /\ UNCHANGED mutexVars

-----------------------------------------------------------------------------
(* Mutant: the mutex becomes free although a thread waits for it. *)
NextOwnerNone(m) == FREE

(* The owner gives mutex m up: the first waiting thread, if any, owns it   *)
(* and is woken.  Used by unlock and by the waits on a condition variable. *)
NextOwner(m) == IF wq[m] = {} THEN FREE ELSE WqHead(wq[m])
Released(q, m) == IF q[m] = {} THEN q ELSE Wakeup(q, m, WqHead(q[m]))

(* What the hand over does to a function on threads: the new owner gets v. *)
Handed(f, m, v) == IF wq[m] = {} THEN f ELSE [f EXCEPT ![WqHead(wq[m])] = v]

(* Mutant: the scheduler is not asked for after a wake up. *)
DeferNever(w) == FALSE

(* The scheduler is asked for when a thread of queue w has been woken. *)
DeferIfWoken(w) == wq[w] # {}

(* thinkos_mutex_unlock_svc *)
MutexUnlock(self, m) ==
    /\ Running(self)
    /\ \/ /\ ~ValidMutex(m)
          /\ Reply(self, EINVAL)
          /\ UNCHANGED mutexVars
       \/ /\ ValidMutex(m)
          /\ lock[m] # self
          /\ Reply(self, EPERM)
          /\ UNCHANGED mutexVars
       \/ /\ ValidMutex(m)
          /\ lock[m] = self
          /\ lock' = [lock EXCEPT ![m] = NextOwner(m)]
          /\ wq' = Released(wq, m)
          /\ th_stat' = Handed(th_stat, m, NoStat)
          /\ r0' = Handed([r0 EXCEPT ![self] = OK], m, OK)
          /\ pendsv' = DeferIfWoken(m)
          /\ UNCHANGED <<clock, ticks, active, critical_cnt, schedVars, mutex_alloc>>
=============================================================================
