---------------------------- MODULE KernelEvents ----------------------------
(***************************************************************************)
(* A kernel whose threads and interrupt handlers share event sets, under   *)
(* the clock tick and the scheduler.                                       *)
(***************************************************************************)
EXTENDS ThinkosEvent

CONSTANTS
    Delays,     \* the time limits threads ask for
    Priorities, \* the scheduling priorities of the threads
    Quiet       \* the points of a handler at which no interrupt raises

ASSUME EventsAssumption ==
    /\ Delays \in SUBSET Nat
    /\ Priorities \in SUBSET (0 .. SCHED_LIMIT_MAX)
    /\ Quiet \in SUBSET EvPoints

VARIABLES
    asked,      \* per thread: the set it last asked for an event, or 0
    raises      \* how often each event was raised, modulo 2

vars == <<rtVars, schedVars, handlerVars, evVars, asked, raises>>

Init ==
    /\ RtInit(Threads)
    /\ \E pri \in [Threads -> Priorities] : SchedInit(pri)
    /\ EvInit
    /\ asked = [th \in Threads |-> 0]
    /\ raises = [w \in EvSets |-> [ev \in Events |-> 0]]

AskedNothing(self) == asked' = [asked EXCEPT ![self] = 0]
Raised(w, ev) == raises' = [raises EXCEPT ![w][ev] = 1 - @]

WaitCall(self) ==
    /\ \E w \in EvSetArgs :
          /\ EvWait(self, w) \/ \E ms \in Delays : EvTimedWait(self, w, ms)
          /\ asked' = [asked EXCEPT ![self] = IF ValidEvSet(w) THEN w ELSE 0]
    /\ UNCHANGED raises

(* Threads free a set only while nobody waits for it. *)
Unused(w) == w \in EvSets => wq[w] = {}

OtherCall(self) ==
    /\ \/ \E w \in EvSetArgs, ev \in EvArgs : EvRaise(self, w, ev)
       \/ \E w \in EvSetArgs, ev \in Events, val \in {0, 1} : EvMask(self, w, ev, val)
       \/ \E w \in EvSetArgs, ev \in Events : EvClear(self, w, ev)
       \/ EvAlloc(self)
       \/ \E w \in EvSetArgs : Unused(w) /\ EvFree(self, w)
    /\ AskedNothing(self)
    /\ UNCHANGED raises

(* Interrupt handlers raise events of allocated sets. *)
Interrupt ==
    /\ handler.pc \notin Quiet
    /\ \E w \in ev_alloc, ev \in Events : EvRaiseIsr(w, ev) /\ Raised(w, ev)
    /\ UNCHANGED asked

(* The step of a system call at which an event counts as raised. *)
RaiseCounts == At("pend") \/ (At("raise") /\ handler'.pc # "pend")

Step ==
    /\ EvStep
    /\ IF RaiseCounts THEN Raised(handler.wq, handler.arg) ELSE UNCHANGED raises
    /\ UNCHANGED asked

Tick == TickStart /\ UNCHANGED <<evVars, asked, raises>>
Switch == Idling /\ PendSV /\ UNCHANGED <<handlerVars, evVars, asked, raises>>

Next ==
    \/ Step
    \/ Tick
    \/ Switch
    \/ Interrupt
    \/ \E self \in Threads : WaitCall(self) \/ OtherCall(self)

Spec == Init /\ [][Next]_vars

-----------------------------------------------------------------------------
TypeOK ==
    /\ RtTypeOK
    /\ SchedTypeOK
    /\ EvTypeOK
    /\ asked \in [Threads -> EvSets \union {0}]
    /\ raises \in [EvSets -> [Events -> {0, 1}]]

(* A system call is giving an event to the thread that it has taken out of *)
(* the queue.                                                              *)
Giving == handler.pc \in {"unmask_clear", "unmask_mask", "wakeup"}

(* What has become of a thread's request, as the abstract sets see it. *)
Outcome(th) ==
    CASE asked[th] = 0 -> "none"
      [] th \in wq[asked[th]] -> "waiting"
      [] handler.self = th /\ handler.pc \in {"again", "suspend", "queue", "check", "insert"}
            -> "calling"
      [] Giving /\ handler.th = th -> "event"
      [] r0[th] \in Events -> "event"
      [] r0[th] = ETIMEDOUT -> "timeout"
      [] OTHER -> "undefined"
Got(th) ==
    IF Outcome(th) # "event" THEN 0
    ELSE IF Giving /\ handler.th = th THEN handler.arg ELSE r0[th]

(* An event that is being enabled counts as enabled, and no longer as      *)
(* pending, from the moment that the first thread was taken for it.        *)
Enabling(w) ==
    IF handler.pc \in {"unmask_clear", "unmask_mask"} /\ handler.wq = w
    THEN {handler.arg} ELSE {}
Clearing(w) ==
    IF At("unmask_clear") /\ handler.wq = w THEN {handler.arg} ELSE {}

Abstract == INSTANCE EventSets WITH
    Sets <- EvSets,
    enabled <- [w \in EvSets |-> ev_mask[w] \union Enabling(w)],
    pending <- [w \in EvSets |-> ev_pend[w] \ Clearing(w)],
    set <- asked,
    outcome <- [th \in Threads |-> Outcome(th)],
    got <- [th \in Threads |-> Got(th)],
    given <- IF At("unmask_clear") THEN {<<handler.wq, handler.arg>>} ELSE {}

(* The event sets of thinkos_event.c behave as atomic sets do: with        *)
(* interrupt handlers raising events at any step of the waits, of raising  *)
(* and enabling an event and of the tick, no event is lost, given twice or *)
(* kept from a waiting thread, and each call's result says what became of  *)
(* it.                                                                     *)
EventSpec == Abstract!Spec
=============================================================================
