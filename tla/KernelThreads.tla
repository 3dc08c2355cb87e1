---------------------------- MODULE KernelThreads ----------------------------
(***************************************************************************)
(* A kernel whose threads create, end, join, pause and interrupt each      *)
(* other while they sleep and wait for mutexes, under the clock tick and   *)
(* the scheduler.                                                          *)
(***************************************************************************)
EXTENDS ThinkosThread

CONSTANTS
    Delays,     \* the time limits threads ask for
    Priorities, \* the scheduling priorities threads are created with
    Codes,      \* the codes threads end with
    Careless    \* what threads do although the kernel does not cope with it

(* To create a thread with too small a stack; to terminate one that waits  *)
(* with a time limit or is paused; to cancel oneself, a paused thread, or  *)
(* one that is waited for or about to end; to pause the last ready thread  *)
(* although others wait for their time share (share), or one that joins or *)
(* has finished; to break the ready queue, the clock queue while threads   *)
(* in it wait for something else as well, or a queue of threads that do    *)
(* not wait and whose results are still to be read.                        *)
Slips == {"stack", "terminate", "cancel", "share", "pause", "break"}

ASSUME KernelThreadsAssumption ==
    /\ Delays \in SUBSET Nat
    /\ Priorities \in SUBSET (0 .. SCHED_LIMIT_MAX)
    /\ Codes \in SUBSET Nat
    /\ Careless \in SUBSET Slips

VARIABLE joined     \* the threads whose last call was a join

vars == <<rtVars, schedVars, mutexVars, cond_alloc, threadVars, joined>>

MAIN == 0

Init ==
    /\ RtInit({MAIN})
    /\ \E p \in Priorities :
          /\ SchedInit([th \in Threads |-> IF th = MAIN THEN p ELSE 0])
          /\ sched_limit = IF p = 0 THEN 1 ELSE p
    /\ MutexInit(Mutexes)
    /\ CondInit(Conds)
    /\ ThreadInit(MAIN)
    /\ joined = {}

(* A thread that has been joined, and is on its way to end. *)
Ending(th) == pc[th] = "exit" /\ th \notin wq[WQ_CANCELED]

CreateCall(self) ==
    \E target \in ThreadArgs, pri \in Priorities, small, paused \in BOOLEAN :
        /\ small => "stack" \in Careless
        /\ Create(self, target, pri, small, paused)
        /\ joined' = joined \ {self}

ExitCall(self) ==
    /\ \E code \in Codes : Exit(self, code)
    /\ joined' = joined \ {self}

MayTerminate(th) ==
    "terminate" \in Careless \/ th \notin wq[WQ_CLOCK] \union wq[WQ_PAUSED]
TerminateCall(self) ==
    \E th \in ThreadArgs, code \in Codes :
        /\ MayTerminate(th)
        /\ Terminate(self, th, code)
        /\ joined' = joined \ {self, th}

MayCancel(self, th) ==
    th \in th_alloc /\ "cancel" \notin Careless =>
        /\ th # self
        /\ th \notin wq[WQ_PAUSED]
        /\ wq[JoinQ(th)] = {}
        /\ ~Ending(th)
CancelCall(self) ==
    \E th \in ThreadArgs, code \in Codes :
        /\ MayCancel(self, th)
        /\ Cancel(self, th, code)
        /\ joined' = joined \ {self, th}

JoinCall(self) ==
    \E th \in ThreadArgs :
        /\ Join(self, th)
        /\ joined' = IF th \in th_alloc THEN joined \union {self} ELSE joined \ {self}

MayPause(self, th) ==
    th \in th_alloc =>
        /\ "share" \notin Careless /\ wq[WQ_READY] = {th, IDLE} =>
              wq[WQ_TMSHARE] = {}
        /\ "pause" \notin Careless =>
              pc[th] = "task" /\ th_stat[th].wq \notin Joins
PauseCall(self) ==
    /\ \E th \in ThreadArgs :
          \/ MayPause(self, th) /\ Pause(self, th)
          \/ Resume(self, th)
    /\ joined' = joined \ {self}

HasResult(th) == th \in joined \/ pc[th] = "exit"
MayBreak(w) ==
    "break" \notin Careless =>
        /\ w # WQ_READY
        /\ w = WQ_CLOCK => \A th \in wq[w] : th_stat[th].wq = WQ_CLOCK
        /\ w \in {WQ_TMSHARE, WQ_PAUSED, WQ_CANCELED} =>
              \A th \in wq[w] : ~HasResult(th)
BreakCall(self) ==
    /\ \E w \in Queues \union {WQ_LST_END} : MayBreak(w) /\ Break(self, w)
    /\ joined' = joined \ {self}

WaitCall(self) ==
    /\ \/ \E m \in Mutexes :
             \/ MutexLock(self, m)
             \/ \E ms \in Delays : MutexTimedLock(self, m, ms)
             \/ MutexUnlock(self, m)
       \/ \E ms \in Delays : Sleep(self, ms) /\ UNCHANGED mutexVars
    /\ joined' = joined \ {self}
    /\ UNCHANGED <<cond_alloc, threadVars>>

UserCall(self) ==
    /\ pc[self] = "task"
    /\ \/ CreateCall(self)
       \/ ExitCall(self)
       \/ TerminateCall(self)
       \/ CancelCall(self)
       \/ JoinCall(self)
       \/ PauseCall(self)
       \/ BreakCall(self)
       \/ WaitCall(self)

End(self) == ThreadExit(self) /\ UNCHANGED joined

Kernel ==
    /\ \/ SwitchContext
       \/ (SysTick \/ Idle) /\ UNCHANGED <<mutexVars, cond_alloc, threadVars>>
    /\ UNCHANGED joined

Next ==
    \/ Kernel
    \/ \E self \in Threads : UserCall(self) \/ End(self)

Spec == Init /\ [][Next]_vars

-----------------------------------------------------------------------------
TypeOK ==
    /\ RtTypeOK
    /\ SchedTypeOK
    /\ MutexTypeOK
    /\ ThreadTypeOK
    /\ joined \in SUBSET Threads

(* thinkos_terminate_svc, "remove from other wait queue, if any": a slot   *)
(* without a thread is in no queue, so that neither the tick nor an object *)
(* makes a thread ready that has no context any more.                      *)
DeadInNoQueue ==
    \A th \in Threads \ th_alloc : \A w \in Queues : th \notin wq[w]

(* Every thread is where its status says and nowhere else: paused, ending, *)
(* ready or waiting for its time share, or in the queue it waits in and,   *)
(* with a time limit, in the clock queue.                                  *)
ThreadsQueued ==
    \A th \in th_alloc :
        LET in == {w \in Queues : th \in wq[w]} IN
        CASE th \in wq[WQ_PAUSED] -> in = {WQ_PAUSED}
          [] Ending(th) \/ th_stat[th] = NoStat ->
                in = {WQ_READY} \/ in = {WQ_TMSHARE}
          [] OTHER -> in = {th_stat[th].wq}
                           \union (IF th_stat[th].timed THEN {WQ_CLOCK} ELSE {})

(* __thinkos_suspend(), "if the ready queue is empty, collect the threads  *)
(* from the CPU wait queue": no thread waits for its time share on an idle *)
(* processor.                                                              *)
WorkConserving == wq[WQ_READY] = {IDLE} => wq[WQ_TMSHARE] = {}

(* A thread waits for a mutex only while a thread owns it: an unlock that  *)
(* passes a paused thread by is made good for when the thread is resumed.  *)
WaitersHaveOwner == \A m \in Mutexes : wq[m] # {} => lock[m] # FREE

(* thinkos_join(): "If that thread has already terminated, then            *)
(* thinkos_join() returns immediately": nobody waits for a finished thread *)
(* that nobody will make ready.                                            *)
FinishedGoesOn ==
    \A th \in th_alloc : wq[JoinQ(th)] # {} => th \notin wq[WQ_CANCELED]

NONE == -1

(* What the life of the threads looks like to ThreadLife. *)
Joining(th) == th_stat[th].wq \in Joins
Life == INSTANCE ThreadLife WITH
    phase <- [th \in Threads |-> CASE th \notin th_alloc -> "free"
                                   [] pc[th] = "exit" -> "finished"
                                   [] OTHER -> "alive"],
    code <- [th \in Threads |-> IF th \in th_alloc /\ pc[th] = "exit" THEN r0[th] ELSE 0],
    joining <- [th \in Threads |-> IF Joining(th) THEN th_stat[th].wq - JOIN_BASE ELSE NONE],
    got <- [th \in Threads |-> IF th \in joined /\ ~Joining(th) THEN r0[th] ELSE 0]

(* The threads of thinkos_thread.c, thinkos_exit.c, thinkos_join.c and     *)
(* thinkos_cancel.c live and end as ThreadLife promises: a join lasts      *)
(* until the thread ends, and returns its code.                            *)
LifeSpec == Life!Spec
=============================================================================
