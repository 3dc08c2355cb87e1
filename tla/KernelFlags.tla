---------------------------- MODULE KernelFlags ----------------------------
(***************************************************************************)
(* A kernel whose threads and interrupt handlers share flags, under the    *)
(* clock tick and the scheduler.                                           *)
(***************************************************************************)
EXTENDS ThinkosFlag

CONSTANTS
    Delays,     \* the time limits threads ask for
    Priorities, \* the scheduling priorities of the threads
    Quiet,      \* the points of a handler at which no interrupt gives a flag
    EarlyGives  \* whether interrupts give flags to a thread that waits but
                \* has not been switched from

ASSUME FlagsAssumption ==
    /\ Delays \in SUBSET Nat
    /\ Priorities \in SUBSET (0 .. SCHED_LIMIT_MAX)
    /\ Quiet \in SUBSET FlagPoints
    /\ EarlyGives \in BOOLEAN

VARIABLES
    asked,      \* per thread: the flag it last asked for, or 0
    gives       \* how often each flag was given, modulo 2

vars == <<rtVars, schedVars, handlerVars, flagVars, asked, gives>>

Init ==
    /\ RtInit(Threads)
    /\ \E pri \in [Threads -> Priorities] : SchedInit(pri)
    /\ FlagInit
    /\ asked = [th \in Threads |-> 0]
    /\ gives = [w \in Flags |-> 0]

AskedNothing(self) == asked' = [asked EXCEPT ![self] = 0]
Given(w) == gives' = [gives EXCEPT ![w] = 1 - @]

WaitCall(self) ==
    /\ \E w \in FlagArgs :
          /\ \/ FlagTake(self, w)
             \/ FlagWatch(self, w)
             \/ \E ms \in Delays : FlagTimedTake(self, w, ms) \/ FlagTimedWatch(self, w, ms)
          /\ asked' = [asked EXCEPT ![self] = IF ValidFlag(w) THEN w ELSE 0]
    /\ UNCHANGED gives

(* Threads free a flag only while nobody waits for it. *)
Unused(w) == w \in Flags => wq[w] = {}

OtherCall(self) ==
    /\ \/ \E w \in FlagArgs :
             \/ FlagGive(self, w)
             \/ FlagSet(self, w)
             \/ FlagClr(self, w)
             \/ FlagVal(self, w)
             \/ Unused(w) /\ FlagFree(self, w)
       \/ FlagAlloc(self)
    /\ AskedNothing(self)
    /\ UNCHANGED gives

(* Interrupt handlers give allocated flags. *)
Interrupt ==
    /\ handler.pc \notin Quiet
    /\ \E w \in flag_alloc :
          /\ EarlyGives \/ ~IsHead(wq[w], active)
          /\ FlagGiveIsr(w)
          /\ Given(w)
    /\ UNCHANGED asked

(* The step of a system call at which a flag counts as given. *)
GiveCounts == At("signal") \/ (At("give") /\ handler'.pc # "signal")

Step ==
    /\ FlagStep
    /\ IF GiveCounts THEN Given(handler.wq) ELSE UNCHANGED gives
    /\ UNCHANGED asked

Tick == TickStart /\ UNCHANGED <<flagVars, asked, gives>>
Switch == Idling /\ PendSV /\ UNCHANGED <<handlerVars, flagVars, asked, gives>>

Next ==
    \/ Step
    \/ Tick
    \/ Switch
    \/ Interrupt
    \/ \E self \in Threads : WaitCall(self) \/ OtherCall(self)

Spec == Init /\ [][Next]_vars

-----------------------------------------------------------------------------
(* A call to set the flag w is about to wake all its threads up. *)
Setting(w) == handler.pc \in {"set_next", "set_wake"} /\ handler.wq = w

(* What has become of a thread's request, as the abstract flags see it. *)
Outcome(th) ==
    CASE asked[th] = 0 -> "none"
      [] th \in wq[asked[th]] -> IF Setting(asked[th]) THEN "ok" ELSE "waiting"
      [] handler.self = th /\ handler.pc \in {"again", "suspend", "queue", "check", "insert"}
            -> "taking"
      [] handler.self = th /\ handler.pc \in {"watch", "watch_insert"} -> "watching"
      [] At("wakeup") /\ handler.th = th -> "ok"
      [] r0[th] = OK -> "ok"
      [] r0[th] = ETIMEDOUT -> "timeout"
      [] OTHER -> "undefined"

Abstract == INSTANCE SignalFlags WITH
    signaled <- flag,
    outcome <- [th \in Threads |-> Outcome(th)]

(* The flags of thinkos_flag.c behave as atomic flags do: with interrupt   *)
(* handlers giving them at the steps of the takes, of give and set and of  *)
(* the tick, no give is lost, counted twice or kept from a waiting thread, *)
(* and each call's result says what became of it.                          *)
FlagSpec == Abstract!Spec
=============================================================================
