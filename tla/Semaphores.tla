----------------------------- MODULE Semaphores -----------------------------
(***************************************************************************)
(* A kernel whose threads and interrupt handlers share semaphores, under   *)
(* the clock tick and the scheduler.                                       *)
(***************************************************************************)
EXTENDS ThinkosSem

CONSTANTS
    Delays,     \* the time limits threads ask for
    Priorities, \* the scheduling priorities of the threads
    Values,     \* the values threads give to semaphores
    VALUE_MAX,  \* bound of the model: nobody posts beyond this value
    Quiet       \* the points of a handler at which no interrupt posts

ASSUME SemaphoresAssumption ==
    /\ Delays \in SUBSET Nat
    /\ Priorities \in SUBSET (0 .. SCHED_LIMIT_MAX)
    /\ Values \in SUBSET (0 .. SEM_RANGE - 1)
    /\ VALUE_MAX \in 0 .. SEM_RANGE - 1
    /\ Quiet \in SUBSET SemPoints

VARIABLES
    asked,      \* per thread: the semaphore it last asked for a unit, or 0
    posts       \* how often each semaphore was posted to, modulo 2

vars == <<rtVars, schedVars, handlerVars, semVars, asked, posts>>

Init ==
    /\ RtInit(Threads)
    /\ \E pri \in [Threads -> Priorities] : SchedInit(pri)
    /\ SemInit([s \in Sems |-> 0])
    /\ asked = [th \in Threads |-> 0]
    /\ posts = [s \in Sems |-> 0]

Asked(self, s) == asked' = [asked EXCEPT ![self] = IF ValidSem(s) THEN s ELSE 0]
AskedNothing(self) == asked' = [asked EXCEPT ![self] = 0]
Posted(s) == posts' = [posts EXCEPT ![s] = 1 - @]

WaitCall(self) ==
    /\ \E s \in SemArgs :
          /\ \/ SemTryWait(self, s)
             \/ SemWait(self, s)
             \/ \E ms \in Delays : SemTimedWait(self, s, ms)
          /\ Asked(self, s)
    /\ UNCHANGED posts

PostCall(self) ==
    /\ \E s \in SemArgs : /\ s \in Sems => sem_val[s] < VALUE_MAX
                          /\ SemPost(self, s)
    /\ AskedNothing(self)
    /\ UNCHANGED posts

(* Threads set or free a semaphore only while nobody waits for it. *)
Unused(s) == s \in Sems => wq[s] = {}

SetCall(self) ==
    /\ \/ \E s \in SemArgs, v \in Values : Unused(s) /\ SemSet(self, s, v)
       \/ \E v \in Values : SemAlloc(self, v)
       \/ \E s \in SemArgs : Unused(s) /\ SemFree(self, s)
    /\ AskedNothing(self)
    /\ UNCHANGED posts

(* Interrupt handlers post to allocated semaphores. *)
Interrupt ==
    /\ handler.pc \notin Quiet
    /\ \E s \in sem_alloc : sem_val[s] < VALUE_MAX /\ SemPostIsr(s) /\ Posted(s)
    /\ UNCHANGED asked

(* The step of a system call at which a unit counts as posted. *)
PostCounts == At("count") \/ (At("post") /\ handler'.pc # "count")

Step ==
    /\ SemStep
    /\ IF PostCounts THEN Posted(handler.wq) ELSE UNCHANGED posts
    /\ UNCHANGED asked

Tick == TickStart /\ UNCHANGED <<semVars, asked, posts>>
Switch == Idling /\ PendSV /\ UNCHANGED <<handlerVars, semVars, asked, posts>>

Next ==
    \/ Step
    \/ Tick
    \/ Switch
    \/ Interrupt
    \/ \E self \in Threads : WaitCall(self) \/ PostCall(self) \/ SetCall(self)

(* A handler in progress goes on, however often it is interrupted. *)
Fairness == WF_vars(Step)

Spec == Init /\ [][Next]_vars /\ Fairness

-----------------------------------------------------------------------------
TypeOK ==
    /\ RtTypeOK
    /\ SchedTypeOK
    /\ SemTypeOK
    /\ asked \in [Threads -> Sems \union {0}]
    /\ posts \in [Sems -> {0, 1}]

(* What has become of a thread's request, as the abstract semaphore sees   *)
(* it: a thread that a post has taken out of the queue has its unit, even  *)
(* before its return value is written.                                     *)
Calling(th) == handler.self = th /\ handler.pc \in {"again", "suspend"} \union ParkedPoints
Given(th) == r0[th] = OK \/ (At("wakeup") /\ handler.th = th)

Outcome(th) ==
    IF asked[th] = 0 THEN "none"
    ELSE IF th \in wq[asked[th]] THEN "waiting"
    ELSE IF Calling(th) THEN "calling"
    ELSE IF Given(th) THEN "ok"
    ELSE IF r0[th] = EAGAIN THEN "again"
    ELSE IF r0[th] = ETIMEDOUT THEN "timeout"
    ELSE "undefined"

Counting == INSTANCE CountingSemaphore WITH
    Range <- SEM_RANGE,
    value <- sem_val,
    sem <- asked,
    outcome <- [th \in Threads |-> Outcome(th)]

(* The semaphores of thinkos_semaphore.c are counting semaphores: with     *)
(* interrupt handlers posting at any step of the waits, of the post and of *)
(* the tick, no unit is lost, given twice or kept from a waiting thread,   *)
(* and each call's result says what became of it.                          *)
CountingSpec == Counting!Spec

(* The waits' loops of load, roll back and retry come to an end although   *)
(* interrupts keep posting to the same semaphore.                          *)
HandlerEnds == handler.pc # "none" ~> handler.pc = "none"

(* "Set the default return value to timeout. The sem_post call will change *)
(* this to 0": no handler takes the success that a post has reported to a  *)
(* waiting thread back.                                                    *)
PostedReturnsOk ==
    [][~Idling => \A th \in Threads : Outcome(th) = "ok" => Outcome(th)' = "ok"]_vars

-----------------------------------------------------------------------------
(* The points of the timed wait between its entry into the semaphore's     *)
(* queue and the default result: a post in between is undone.              *)
WaitWindow == {"clock", "wq_clock", "timeout"}

(* The inductive invariants.  Of the types and the scheduler, whatever     *)
(* interrupts do: a wait that goes on without a pending switch has not     *)
(* been posted to.                                                         *)
SemSwitchInv ==
    /\ TypeOK
    /\ SwitchInv
    /\ handler.pc \in {"again", "suspend", "post", "count"} \union ParkedPoints =>
          handler.wq \in Sems
    /\ ~pendsv /\ handler.pc \in {"suspend"} \union ParkedPoints =>
          ~PostedMeanwhile(handler.wq)

(* Of the queues and the requests, when no interrupt posts in the window:  *)
(* threads wait for the semaphore they asked for, which is allocated, ...  *)
RequestInv ==
    /\ \A th \in Threads, w \in ObjectQueues : th \in wq[w] => asked[th] = w
    /\ \A s \in Sems \ sem_alloc : wq[s] = {}
    /\ handler.pc \in WaitPoints =>
          handler.wq \in sem_alloc /\ asked[handler.self] = handler.wq
    /\ At("insert") /\ excl => ~PostedMeanwhile(handler.wq)
    /\ At("timeout") => handler.self \in wq[handler.wq]
    /\ At("count") => wq[handler.wq] = {}
    /\ \A th \in Threads : Outcome(th) \in Counting!Outcomes

SemInv == SemSwitchInv /\ PlaceInv /\ RequestInv
=============================================================================
