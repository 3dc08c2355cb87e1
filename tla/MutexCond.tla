------------------------------ MODULE MutexCond ------------------------------
(***************************************************************************)
(* A kernel with THREADS_MAX running threads that share mutexes and        *)
(* condition variables, under the clock tick and the scheduler.            *)
(*                                                                         *)
(* The threads call the kernel through the functions of                    *)
(* thinkos/syscalls.h.  All are plain system calls, but for the waits on a *)
(* condition variable, which lock the mutex again once the kernel's part   *)
(* has returned.                                                           *)
(***************************************************************************)
EXTENDS ThinkosCond

CONSTANTS
    Delays,     \* the time limits threads ask for
    Priorities  \* the scheduling priorities a thread may have

ASSUME MutexCondAssumption ==
    /\ Delays \in SUBSET Nat
    /\ Priorities \in SUBSET (0 .. SCHED_LIMIT_MAX)

VARIABLE
    call        \* per thread: the last call it made and the mutex involved

vars == <<rtVars, schedVars, mutexVars, cond_alloc, call>>

Ops == {"none", "lock", "cond_wait", "relock"}

NoCall == [op |-> "none", mutex |-> 0]

Init ==
    /\ RtInit(Threads)
    /\ \E pri \in [Threads -> Priorities] : SchedInit(pri)
    /\ MutexInit(Mutexes)
    /\ CondInit(Conds)
    /\ call = [th \in Threads |-> NoCall]

Called(self, op, m) == call' = [call EXCEPT ![self] = [op |-> op, mutex |-> m]]

(* Mutant: the mutex is not locked again after a time out. *)
MustRelockSignaled(self) == call[self].op = "cond_wait" /\ r0[self] > ETIMEDOUT

(* thinkos_cond_wait() and thinkos_cond_timedwait() lock the mutex again   *)
(* unless the system call has been refused or interrupted.                 *)
MustRelock(self) == call[self].op = "cond_wait" /\ r0[self] >= ETIMEDOUT

Relock(self) ==
    /\ MustRelock(self)
    /\ MutexLock(self, call[self].mutex)
    /\ Called(self, "relock", call[self].mutex)
    /\ UNCHANGED cond_alloc

LockCall(self) ==
    \E m \in MutexArgs :
        /\ \/ MutexLock(self, m)
           \/ MutexTryLock(self, m)
           \/ \E ms \in Delays : MutexTimedLock(self, m, ms)
        /\ Called(self, "lock", m)
        /\ UNCHANGED cond_alloc

UnlockCall(self) ==
    /\ \E m \in MutexArgs : MutexUnlock(self, m)
    /\ Called(self, "none", 0)
    /\ UNCHANGED cond_alloc

WaitCall(self) ==
    \E c \in CondArgs, m \in MutexArgs :
        /\ CondWait(self, c, m) \/ \E ms \in Delays : CondTimedWait(self, c, m, ms)
        /\ Called(self, "cond_wait", m)

NotifyCall(self) ==
    /\ \E c \in CondArgs : CondSignal(self, c) \/ CondBroadcast(self, c)
    /\ Called(self, "none", 0)

(* Threads free a mutex only when nobody holds it, waits for it or is      *)
(* about to lock it again, and a condition variable when nobody waits.     *)
Unused(m) ==
    /\ m \in Mutexes => lock[m] = FREE /\ wq[m] = {}
    /\ \A th \in Threads : call[th].op \in {"cond_wait", "relock"} => call[th].mutex # m

AllocCall(self) ==
    /\ \/ MutexAlloc(self) /\ UNCHANGED cond_alloc
       \/ \E m \in MutexArgs : Unused(m) /\ MutexFree(self, m) /\ UNCHANGED cond_alloc
       \/ CondAlloc(self)
       \/ \E c \in CondArgs : (c \in Conds => wq[c] = {}) /\ CondFree(self, c)
    /\ Called(self, "none", 0)

ClockCall(self) ==
    /\ \E ms \in Delays : Sleep(self, ms)
    /\ Called(self, "none", 0)
    /\ UNCHANGED <<mutexVars, cond_alloc>>

YieldCall(self) ==
    /\ Yield(self)
    /\ UNCHANGED <<mutexVars, cond_alloc, call>>

UserCall(self) ==
    /\ ~MustRelock(self)
    /\ \/ LockCall(self)
       \/ UnlockCall(self)
       \/ WaitCall(self)
       \/ NotifyCall(self)
       \/ AllocCall(self)
       \/ ClockCall(self)
       \/ YieldCall(self)

Kernel ==
    /\ PendSV \/ SysTick \/ Idle
    /\ UNCHANGED <<mutexVars, cond_alloc, call>>

Next == Kernel \/ \E self \in Threads : Relock(self) \/ UserCall(self)

Spec == Init /\ [][Next]_vars

-----------------------------------------------------------------------------
(* Types; a time slice is never negative, no priority exceeds it, and the  *)
(* idle thread is never charged.                                           *)
TypeOK ==
    /\ RtTypeOK
    /\ SchedTypeOK
    /\ MutexTypeOK
    /\ CondTypeOK
    /\ \A s \in Slots : sched_pri[s] <= sched_limit
    /\ sched_pri[IDLE] = 0
    /\ call \in [Threads -> [op : Ops, mutex : Nat]]

(* A thread whose status is 0 has returned from its last call; any other   *)
(* is blocked in the queue its status names.                               *)
Returned(th) == th_stat[th] = NoStat

(* th_stat[] tells the truth about the queues.  thinkos_time_wakeup()      *)
(* relies on it to take a thread out of the queue it waits in.             *)
QueueInv == Agree(wq, th_stat)

(* __thinkos_suspend() never leaves a thread behind in the time share      *)
(* queue when the processor is idle.                                       *)
WorkConserving == wq[WQ_READY] = {IDLE} => wq[WQ_TMSHARE] = {}

(* Unless a context switch is pending, the processor runs the first ready  *)
(* thread: every call that makes a thread ready, or stops the current one, *)
(* has asked for the scheduler.                                            *)
RunsFirstReady == ~pendsv => IsHead(wq[WQ_READY], active)

(* A thread waits for a mutex only while another thread owns it: no unlock *)
(* loses a waiting thread, and no thread waits for itself.                 *)
WaitersHaveOwner ==
    \A m \in Mutexes : wq[m] # {} => lock[m] \in Threads \ wq[m]

(* The result of lock, trylock and timedlock tells the caller whether it   *)
(* owns the mutex, also when the time limit and an unlock race.            *)
LockResult ==
    \A th \in Threads :
        /\ Returned(th)
        /\ call[th].op = "lock"
        /\ call[th].mutex \in Mutexes
        => (r0[th] \in {OK, EDEADLK} <=> lock[call[th].mutex] = th)

(* When thinkos_cond_wait() or thinkos_cond_timedwait() has returned, be   *)
(* it by a signal or by the time limit, the caller owns the mutex.         *)
CondWaitOwnsMutex ==
    \A th \in Threads :
        /\ Returned(th)
        /\ \/ call[th].op = "relock"
           \/ /\ call[th].op = "cond_wait"
              /\ ~MustRelock(th)
              /\ r0[th] \in {OK, ETIMEDOUT}
        => lock[call[th].mutex] = th

-----------------------------------------------------------------------------
(* What a thread's last call says of its state.                            *)
(*  - It is blocked in the clock queue, by sleep, or in the queue of the   *)
(*    mutex or condition variable of its call; a time limit is the only    *)
(*    way to be woken with the result ETIMEDOUT.                           *)
(*  - The mutex of a wait, and of the lock that follows it, is allocated,  *)
(*    and not owned by the thread before that lock.                        *)
(* Mutexes that are not allocated are free and nobody waits for them.      *)
CallInv ==
    /\ \A m \in Mutexes \ mutex_alloc : lock[m] = FREE /\ wq[m] = {}
    /\ \A th \in Threads :
          /\ ~Returned(th) =>
                \/ th_stat[th] = Stat(WQ_CLOCK, TRUE) /\ call[th].op = "none"
                \/ /\ r0[th] = (IF th_stat[th].timed THEN ETIMEDOUT ELSE OK)
                   /\ \/ th_stat[th].wq \in Conds /\ call[th].op = "cond_wait"
                      \/ /\ th_stat[th].wq \in Mutexes
                         /\ call[th].mutex = th_stat[th].wq
                         /\ \/ call[th].op = "lock"
                            \/ call[th].op = "relock" /\ ~th_stat[th].timed
          /\ call[th].op = "relock" \/ MustRelock(th) =>
                call[th].mutex \in mutex_alloc
          /\ MustRelock(th) => lock[call[th].mutex] # th

(* The inductive invariant of MutexCond. *)
IInv ==
    /\ TypeOK
    /\ critical_cnt = 0
    /\ QueueInv
    /\ WorkConserving
    /\ RunsFirstReady
    /\ WaitersHaveOwner
    /\ CallInv
    /\ LockResult
    /\ CondWaitOwnsMutex
=============================================================================
