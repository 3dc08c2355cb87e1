----------------------------- MODULE ThinkosCond -----------------------------
(***************************************************************************)
(* Condition variables (thinkos_cond.c).                                   *)
(***************************************************************************)
EXTENDS ThinkosMutex

VARIABLE cond_alloc     \* the allocated condition variables

CondArgs == Conds \union Mutexes

CondInit(alloc) == cond_alloc = alloc

CondTypeOK == cond_alloc \in SUBSET Conds

ValidCond(c) == c \in Conds /\ c \in cond_alloc

(* thinkos_cond_alloc_svc *)
CondAlloc(self) ==
    LET c == BmpAlloc(cond_alloc, Conds) IN
    /\ Running(self)
    /\ Reply(self, c)
    /\ cond_alloc' = IF c = ENOMEM THEN cond_alloc ELSE cond_alloc \union {c}
    /\ UNCHANGED mutexVars

(* thinkos_cond_free_svc *)
CondFree(self, c) ==
    /\ Running(self)
    /\ Reply(self, IF c \in Conds THEN c ELSE EINVAL)
    /\ cond_alloc' = cond_alloc \ {c}
    /\ UNCHANGED mutexVars

(* The checks at the start of both waits. *)
CondWaitRefused(self, c, m) ==
    /\ \/ /\ ~ValidCond(c) \/ ~ValidMutex(m)
          /\ Reply(self, EINVAL)
       \/ /\ ValidCond(c) /\ ValidMutex(m)
          /\ lock[m] # self
          /\ Reply(self, EPERM)
    /\ UNCHANGED mutexVars

(* The caller of a wait releases the mutex it owns. *)
CondWaitRelease(self, c, m) ==
    /\ ValidCond(c) /\ ValidMutex(m)
    /\ lock[m] = self
    /\ lock' = [lock EXCEPT ![m] = NextOwner(m)]
    /\ UNCHANGED mutex_alloc

(* thinkos_cond_wait_svc *)
CondWait(self, c, m) ==
    /\ Running(self)
    /\ \/ CondWaitRefused(self, c, m)
       \/ /\ CondWaitRelease(self, c, m)
          /\ Block(Released(wq, m), self, c)
          /\ th_stat' = Handed([th_stat EXCEPT ![self] = Stat(c, FALSE)], m, NoStat)
          /\ r0' = Handed([r0 EXCEPT ![self] = OK], m, OK)
    /\ UNCHANGED cond_alloc

(* thinkos_cond_timedwait_svc *)
CondTimedWait(self, c, m, ms) ==
    /\ Running(self)
    /\ \/ CondWaitRefused(self, c, m)
       \/ /\ CondWaitRelease(self, c, m)
          /\ TmdBlock(Released(wq, m), self, c, ms)
          /\ th_stat' = Handed([th_stat EXCEPT ![self] = Stat(c, TRUE)], m, NoStat)
          /\ r0' = Handed([r0 EXCEPT ![self] = ETIMEDOUT], m, OK)
    /\ UNCHANGED cond_alloc

CondInvalid(self, c) == ~ValidCond(c) /\ Reply(self, EINVAL)

(* thinkos_cond_signal_svc: the first waiting thread, if any, is woken. *)
CondSignal(self, c) ==
    /\ Running(self)
    /\ \/ CondInvalid(self, c)
       \/ /\ ValidCond(c)
          /\ wq' = Released(wq, c)
          /\ th_stat' = Handed(th_stat, c, NoStat)
          /\ r0' = [Handed(r0, c, OK) EXCEPT ![self] = OK]
          /\ pendsv' = DeferIfWoken(c)
          /\ UNCHANGED <<clock, ticks, active, critical_cnt, schedVars>>
    /\ UNCHANGED <<mutexVars, cond_alloc>>

(* thinkos_cond_broadcast_svc: every waiting thread is woken. *)
CondBroadcast(self, c) ==
    /\ Running(self)
    /\ \/ CondInvalid(self, c)
       \/ /\ ValidCond(c)
          /\ wq' = WakeupAll(wq, c)
          /\ th_stat' = [th \in Threads |-> IF th \in wq[c] THEN NoStat ELSE th_stat[th]]
          /\ r0' = [th \in Threads |-> IF th \in wq[c] \union {self} THEN OK ELSE r0[th]]
          /\ pendsv' = DeferIfWoken(c)
          /\ UNCHANGED <<clock, ticks, active, critical_cnt, schedVars>>
    /\ UNCHANGED <<mutexVars, cond_alloc>>
=============================================================================
