----------------------------- MODULE ThinkosSem -----------------------------
(***************************************************************************)
(* Semaphores (thinkos_semaphore.c), which interrupt handlers post to with *)
(* thinkos_sem_post_i() while a system call or the clock tick is at work.  *)
(***************************************************************************)
EXTENDS ThinkosHandler

CONSTANT SEM_RANGE      \* a semaphore's value is kept modulo 2^32

ASSUME SemAssumption == SEM_RANGE \in Nat \ {0, 1}

VARIABLES
    sem_val,        \* the value of each semaphore
    sem_alloc       \* the allocated semaphores

semVars == <<sem_val, sem_alloc>>

(* Every number a thread may pass for a semaphore. *)
SemArgs == Sems \union Conds
ValidSem(s) == s \in Sems /\ s \in sem_alloc

SemPoints == WaitPoints \union TickPoints
                \union {"none", "defer", "post", "count", "wakeup"}

SemInit(val) ==
    /\ HandlerInit
    /\ sem_val = val
    /\ sem_alloc = Sems

SemTypeOK ==
    /\ HandlerTypeOK(SemPoints, {0})
    /\ sem_val \in [Sems -> 0 .. SEM_RANGE - 1]
    /\ sem_alloc \in SUBSET Sems

-----------------------------------------------------------------------------
(* thinkos_sem_alloc_svc *)
SemAlloc(self, value) ==
    LET s == BmpAlloc(sem_alloc, Sems) IN
    /\ Entered(self)
    /\ Replied(self, s)
    /\ IF s = ENOMEM THEN UNCHANGED semVars
       ELSE /\ sem_val' = [sem_val EXCEPT ![s] = value]
            /\ sem_alloc' = sem_alloc \union {s}

(* thinkos_sem_free_svc *)
SemFree(self, s) ==
    /\ Entered(self)
    /\ Replied(self, IF s \in Sems THEN s ELSE EINVAL)
    /\ sem_alloc' = sem_alloc \ {s}
    /\ UNCHANGED sem_val

SemInvalid(self, s) ==
    /\ ~ValidSem(s)
    /\ Replied(self, EINVAL)
    /\ UNCHANGED semVars

(* thinkos_sem_init_svc *)
SemSet(self, s, value) ==
    /\ Entered(self)
    /\ \/ SemInvalid(self, s)
       \/ /\ ValidSem(s)
          /\ Replied(self, OK)
          /\ sem_val' = [sem_val EXCEPT ![s] = value]
          /\ UNCHANGED sem_alloc

(* thinkos_sem_trywait_svc *)
SemTryWait(self, s) ==
    /\ Entered(self)
    /\ \/ SemInvalid(self, s)
       \/ /\ ValidSem(s)
          /\ IF sem_val[s] > 0
             THEN /\ Replied(self, OK)
                  /\ sem_val' = [sem_val EXCEPT ![s] = @ - 1]
             ELSE Replied(self, EAGAIN) /\ UNCHANGED sem_val
          /\ UNCHANGED sem_alloc

(* The two waits check their argument and go on with the steps WaitAgain   *)
(* and WaitStep.                                                           *)
SemWaitCall(self, s, ms) ==
    /\ Entered(self)
    /\ \/ SemInvalid(self, s)
       \/ /\ ValidSem(s)
          /\ Begin("again", self, s, ms, 0)
          /\ Reply(self, s)
          /\ UNCHANGED <<semVars, excl>>

(* thinkos_sem_wait_svc and thinkos_sem_timedwait_svc *)
SemWait(self, s) == SemWaitCall(self, s, FOREVER)
SemTimedWait(self, s, ms) == SemWaitCall(self, s, ms)

(* thinkos_sem_post_svc *)
SemPost(self, s) ==
    /\ Entered(self)
    /\ \/ SemInvalid(self, s)
       \/ /\ ValidSem(s)
          /\ Reply(self, OK)
          /\ Begin("post", self, s, FOREVER, 0)
          /\ UNCHANGED <<semVars, excl>>

-----------------------------------------------------------------------------
(* The label again of the waits: take one unit, or go on. *)
WaitAgain ==
    /\ At("again")
    /\ \/ /\ sem_val[handler.wq] > 0
          /\ sem_val' = [sem_val EXCEPT ![handler.wq] = @ - 1]
          /\ Return(handler.self, OK)
          /\ Done
       \/ /\ sem_val[handler.wq] = 0
          /\ Goto("suspend")
          /\ UNCHANGED <<sem_val, r0>>
    /\ UNCHANGED <<wq, th_stat, clock, pendsv, schedState, sem_alloc, excl>>

(* Mutant: the value is not looked at again. *)
PostedMeanwhileNever(s) == FALSE

(* The semaphore has been signaled while suspending. *)
PostedMeanwhile(s) == sem_val[s] > 0

-----------------------------------------------------------------------------
Incremented(v) == (v + 1) % SEM_RANGE

(* The steps of __thinkos_sem_post_i() in a system call: take the first    *)
(* thread out of the queue, or find the queue empty ...                    *)
PostTake ==
    /\ At("post")
    /\ TakeThread("wakeup", "count")
    /\ UNCHANGED semVars

(* ... then increment the value ... *)
PostCount ==
    /\ At("count")
    /\ sem_val' = [sem_val EXCEPT ![handler.wq] = Incremented(@)]
    /\ Goto("defer")
    /\ UNCHANGED <<rtVars, schedVars, sem_alloc, excl>>

(* ... or make the thread ready. *)
PostWakeup ==
    /\ At("wakeup")
    /\ WakeThread(OK)
    /\ UNCHANGED semVars

(* cm3_except7_isr: the same from an interrupt handler, at any time. *)
SemPostIsr(s) ==
    /\ \/ /\ wq[s] = {}
          /\ sem_val' = [sem_val EXCEPT ![s] = Incremented(@)]
          /\ UNCHANGED <<wq, r0, th_stat>>
       \/ /\ wq[s] # {}
          /\ IsrWake(s, WqHead(wq[s]), OK)
          /\ UNCHANGED sem_val
    /\ IsrEnd
    /\ UNCHANGED sem_alloc

(* The next step of the system call or tick in progress. *)
SemStep ==
    \/ /\ WaitStep(PostedMeanwhile(handler.wq)) \/ Defer \/ TickStep
       /\ UNCHANGED semVars
    \/ WaitAgain
    \/ PostTake
    \/ PostCount
    \/ PostWakeup
=============================================================================
