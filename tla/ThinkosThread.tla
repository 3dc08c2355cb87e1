--------------------------- MODULE ThinkosThread ---------------------------
(***************************************************************************)
(* The life cycle of threads: create, exit, terminate, cancel and join;    *)
(* pause and resume; and the break of a wait.                              *)
(*                                                                         *)
(* A thread ends in two steps.  By exit or cancel it finishes: its program *)
(* counter is set to __thinkos_thread_exit with its code in r0, and it     *)
(* waits in the canceled queue for somebody to join it.  Once joined it    *)
(* runs that function, which terminates it.                                *)
(***************************************************************************)
EXTENDS ThinkosCond

VARIABLES
    th_alloc,   \* the allocated thread slots
    ctx,        \* the threads whose context pointer is not NULL
    pc          \* where a thread is: in its task or in __thinkos_thread_exit

threadVars == <<th_alloc, ctx, pc>>

(* The default result of a join. *)
ERROR == -1

(* __thinkos_init_main(): the first thread has no saved context until it   *)
(* is first switched out.                                                  *)
ThreadInit(main) ==
    /\ th_alloc = {main}
    /\ ctx = {}
    /\ pc = [th \in Threads |-> "task"]

ThreadTypeOK ==
    /\ th_alloc \in SUBSET Threads
    /\ ctx \in SUBSET Threads
    /\ pc \in [Threads -> {"task", "exit"}]

(* Whom a thread may name: threads, and numbers that are none. *)
ThreadArgs == 0 .. THREADS_MAX

(* cm3_pendsv_isr stores the context pointer of the thread it stops; the   *)
(* one of a thread that has just ended goes to the void thread.            *)
SwitchContext ==
    /\ PendSV
    /\ ctx' = ctx \union ({active} \intersect Threads)
    /\ UNCHANGED <<mutexVars, cond_alloc, th_alloc, pc>>

ThreadInvalid(self, th) ==
    /\ th \notin th_alloc
    /\ Reply(self, EINVAL)
    /\ UNCHANGED <<mutexVars, threadVars>>

-----------------------------------------------------------------------------
(* Mutant: the clock queue is not left. *)
PausedQueuesClock(th) ==
    [[wq EXCEPT ![WQ_PAUSED] = @ \union {th}, ![WQ_TMSHARE] = @ \ {th}]
        EXCEPT ![th_stat[th].wq] = @ \ {th}]

(* __thinkos_thread_pause(): the thread leaves the queue of its status,    *)
(* which it keeps, the time share queue and the clock queue.  Nobody is    *)
(* collected from the time share queue.                                    *)
PausedQueues(th) ==
    [[wq EXCEPT ![WQ_PAUSED] = @ \union {th},
                ![WQ_TMSHARE] = @ \ {th},
                ![WQ_CLOCK] = @ \ {th}]
        EXCEPT ![th_stat[th].wq] = @ \ {th}]

(* thinkos_pause_svc *)
Pause(self, th) ==
    /\ Running(self)
    /\ UNCHANGED cond_alloc
    /\ \/ ThreadInvalid(self, th)
       \/ /\ th \in th_alloc
          /\ Return(self, IF th \in ctx THEN OK ELSE EINVAL)
          /\ IF th \in ctx \ wq[WQ_PAUSED]
             THEN wq' = PausedQueues(th) /\ pendsv' = TRUE
             ELSE UNCHANGED <<wq, pendsv>>
          /\ UNCHANGED <<th_stat, clock, ticks, active, critical_cnt, schedVars,
                         mutexVars, threadVars>>

(* Mutant: a thread that waited for a mutex does not look at it again. *)
FindsFreeNever(th) == FALSE

(* A thread that waited for a mutex when it was paused finds it free. *)
FindsFree(th) ==
    \E m \in Mutexes : th_stat[th].wq = m /\ lock[m] = FREE

(* __thinkos_thread_resume() of a paused thread: mutex_resume() takes a    *)
(* mutex that is free; otherwise the thread is back in the queue of its    *)
(* status, be it the ready queue, and, with a time limit, in the clock     *)
(* queue, with the wake up time it had.                                    *)
Resumed(q, th) ==
    LET w == th_stat[th].wq
        left == [q EXCEPT ![WQ_PAUSED] = @ \ {th}]
    IN
    IF FindsFree(th) THEN Insert(left, WQ_READY, th)
    ELSE IF th_stat[th].timed THEN TmdInsert(left, w, th)
    ELSE Insert(left, w, th)

ResumedStat(th) ==
    IF FindsFree(th) THEN [th_stat EXCEPT ![th] = NoStat] ELSE th_stat
ResumedLock(th) ==
    IF FindsFree(th) THEN [lock EXCEPT ![th_stat[th].wq] = th] ELSE lock
ResumedResult(r, th) == IF FindsFree(th) THEN [r EXCEPT ![th] = OK] ELSE r

(* thinkos_resume_svc *)
Resume(self, th) ==
    /\ Running(self)
    /\ UNCHANGED cond_alloc
    /\ \/ ThreadInvalid(self, th)
       \/ /\ th \in th_alloc
          /\ th \notin ctx \intersect wq[WQ_PAUSED]
          /\ Reply(self, IF th \in ctx THEN OK ELSE EINVAL)
          /\ UNCHANGED <<mutexVars, threadVars>>
       \/ /\ th \in th_alloc
          /\ th \in ctx \intersect wq[WQ_PAUSED]
          /\ wq' = Resumed(wq, th)
          /\ th_stat' = ResumedStat(th)
          /\ lock' = ResumedLock(th)
          /\ r0' = ResumedResult([r0 EXCEPT ![self] = OK], th)
          /\ pendsv' = TRUE
          /\ UNCHANGED <<clock, ticks, active, critical_cnt, schedVars,
                         mutex_alloc, threadVars>>

-----------------------------------------------------------------------------
(* The lowest free slot from target on, else the highest one below it.     *)
ThreadSlot(target) ==
    LET free == Threads \ th_alloc
        from == {th \in free : th >= target}
    IN
    IF from # {} THEN WqHead(from)
    ELSE CHOOSE th \in free : \A t \in free : t <= th

(* thinkos_thread_create_svc.  The new thread is inserted in the paused    *)
(* queue and, unless it is to stay there, resumed.  A stack that is too    *)
(* small is found out after the slot has been allocated.                   *)
Create(self, target, pri, small, paused) ==
    /\ Running(self)
    /\ UNCHANGED cond_alloc
    /\ \/ /\ th_alloc = Threads
          /\ Reply(self, EINVAL)
          /\ UNCHANGED <<mutexVars, threadVars>>
       \/ /\ th_alloc # Threads
          /\ small
          /\ th_alloc' = th_alloc \union {ThreadSlot(target)}
          /\ Reply(self, EINVAL)
          /\ UNCHANGED <<mutexVars, ctx, pc>>
       \/ /\ th_alloc # Threads
          /\ ~small
          /\ LET th == ThreadSlot(target)
                 q == Insert(wq, WQ_PAUSED, th)
             IN
             /\ th_alloc' = th_alloc \union {th}
             /\ ctx' = ctx \union {th}
             /\ pc' = [pc EXCEPT ![th] = "task"]
             /\ sched_pri' = [sched_pri EXCEPT ![th] = pri]
             /\ sched_limit' = IF pri > sched_limit THEN pri ELSE sched_limit
             /\ sched_val' = [sched_val EXCEPT ![th] = sched_limit' \div 2]
             /\ IF paused
                THEN /\ wq' = q
                     /\ r0' = [r0 EXCEPT ![self] = th + 1]
                     /\ UNCHANGED <<th_stat, lock, pendsv>>
                ELSE /\ wq' = Resumed(q, th)
                     /\ th_stat' = ResumedStat(th)
                     /\ lock' = ResumedLock(th)
                     /\ r0' = ResumedResult([r0 EXCEPT ![self] = th + 1], th)
                     /\ pendsv' = TRUE
          /\ UNCHANGED <<clock, ticks, active, critical_cnt, mutex_alloc>>

-----------------------------------------------------------------------------
(* A thread finishes: it is, or is back, in the canceled queue. *)
Parked(q, th) == [q EXCEPT ![WQ_CANCELED] = @ \union {th}]

(* Mutant: threads that wait to join are not looked for. *)
MustParkAlways(self) == TRUE

(* thinkos_exit_svc: with somebody waiting to join the thread, it goes on  *)
(* to terminate at once.                                                   *)
MustPark(self) == wq[JoinQ(self)] = {}

Exit(self, code) ==
    /\ Running(self)
    /\ r0' = [r0 EXCEPT ![self] = code]
    /\ pc' = [pc EXCEPT ![self] = "exit"]
    /\ IF MustPark(self)
       THEN /\ wq' = Suspend(Parked(wq, self), self)
            /\ th_stat' = [th_stat EXCEPT ![self] = Stat(WQ_CANCELED, FALSE)]
            /\ pendsv' = TRUE
       ELSE UNCHANGED <<wq, th_stat, pendsv>>
    /\ UNCHANGED <<clock, ticks, active, critical_cnt, schedVars, mutexVars,
                   cond_alloc, th_alloc, ctx>>

(* Mutant: the queue the thread waits in is not left. *)
EndedQueueStays(th) == [wq EXCEPT ![WQ_TMSHARE] = @ \ {th}]

(* A thread that ends leaves the time share queue and the queue of its     *)
(* status.                                                                 *)
EndedQueue(th) ==
    [[wq EXCEPT ![WQ_TMSHARE] = @ \ {th}]
        EXCEPT ![th_stat[th].wq] = @ \ {th}]

(* Mutant: only the first waiting thread is woken. *)
JoinersFirst(q, th) ==
    IF q[JoinQ(th)] = {} THEN {} ELSE {WqHead(q[JoinQ(th)])}

(* The threads that are woken when the thread th ends. *)
Joiners(q, th) == q[JoinQ(th)]

(* thinkos_terminate_svc and __thinkos_thread_abort().  (The limit of the  *)
(* time slices is never below a priority, and its evaluation changes       *)
(* nothing.)  Mutexes of the thread stay locked.                           *)
Terminate(self, th, code) ==
    /\ Running(self)
    /\ UNCHANGED cond_alloc
    /\ \/ ThreadInvalid(self, th)
       \/ /\ th \in th_alloc
          /\ LET q == EndedQueue(th)
                 J == Joiners(q, th)
                 woken == [q EXCEPT ![WQ_READY] = @ \union J,
                                    ![JoinQ(th)] = @ \ J,
                                    ![WQ_CLOCK] = @ \ J]
             IN
             /\ wq' = Suspend(woken, th)
             /\ th_stat' = [t \in Threads |-> IF t \in J \union {th} THEN NoStat
                                              ELSE th_stat[t]]
             /\ r0' = [t \in Threads |-> CASE t \in J -> code
                                           [] t = self -> th + 1
                                           [] OTHER -> r0[t]]
          /\ th_alloc' = th_alloc \ {th}
          /\ ctx' = ctx \ {th}
          /\ active' = IF th = active THEN VOID ELSE active
          /\ pendsv' = TRUE
          /\ UNCHANGED <<clock, ticks, critical_cnt, schedVars, mutexVars, pc>>

(* __thinkos_thread_exit(), with its argument in r0. *)
ThreadExit(self) ==
    /\ pc[self] = "exit"
    /\ Terminate(self, self, r0[self])

(* A join makes a thread that waits in the canceled queue ready; its       *)
(* status stays.                                                           *)
Unparked(q, th) ==
    IF th \in q[WQ_CANCELED]
    THEN [q EXCEPT ![WQ_CANCELED] = @ \ {th}, ![WQ_READY] = @ \union {th}]
    ELSE q

(* thinkos_join_svc *)
Join(self, th) ==
    /\ Running(self)
    /\ UNCHANGED cond_alloc
    /\ \/ ThreadInvalid(self, th)
       \/ /\ th \in th_alloc
          /\ Block(Unparked(wq, th), self, JoinQ(th))
          /\ th_stat' = [th_stat EXCEPT ![self] = Stat(JoinQ(th), FALSE)]
          /\ Return(self, ERROR)
          /\ UNCHANGED <<mutexVars, threadVars>>

(* thinkos_cancel_svc.  The context pointer of the calling thread itself   *)
(* is an old one: it goes on where it is.                                  *)
Cancel(self, th, code) ==
    /\ Running(self)
    /\ UNCHANGED cond_alloc
    /\ \/ ThreadInvalid(self, th)
       \/ /\ th \in th_alloc
          /\ LET left == [wq EXCEPT ![th_stat[th].wq] = @ \ {th}] IN
             wq' = [Parked(left, th) EXCEPT ![WQ_TMSHARE] = @ \ {th},
                                            ![WQ_CLOCK] = @ \ {th}]
          /\ th_stat' = [th_stat EXCEPT ![th] = Stat(WQ_CANCELED, FALSE)]
          /\ pc' = IF th = self THEN pc ELSE [pc EXCEPT ![th] = "exit"]
          /\ r0' = [r0 EXCEPT ![th] = code, ![self] = OK]
          /\ UNCHANGED <<clock, ticks, active, pendsv, critical_cnt, schedVars,
                         mutexVars, th_alloc, ctx>>

-----------------------------------------------------------------------------
(* thinkos_obj_alloc_lut[]: which queues belong to allocated objects.      *)
(* (Mutexes are not looked up.)                                            *)
Breakable(w) ==
    /\ w \in Conds => w \in cond_alloc
    /\ w \in Joins => w - JOIN_BASE \in th_alloc

(* thinkos_break_svc: every thread of the queue w returns EINTR. *)
Break(self, w) ==
    /\ Running(self)
    /\ IF w \in Queues /\ Breakable(w)
       THEN /\ wq' = WakeupAll(wq, w)
            /\ th_stat' = [th \in Threads |-> IF th \in wq[w] THEN NoStat ELSE th_stat[th]]
            /\ r0' = [th \in Threads |-> CASE th = self -> OK
                                           [] th \in wq[w] -> EINTR
                                           [] OTHER -> r0[th]]
            /\ pendsv' = DeferIfWoken(w)
            /\ UNCHANGED <<clock, ticks, active, critical_cnt, schedVars>>
       ELSE Reply(self, EINVAL)
    /\ UNCHANGED <<mutexVars, cond_alloc, threadVars>>
=============================================================================
