---------------------------- MODULE KernelGates ----------------------------
(***************************************************************************)
(* A kernel whose threads and interrupt handlers share gates, under the    *)
(* clock tick and the scheduler.                                           *)
(***************************************************************************)
EXTENDS ThinkosGate

CONSTANTS
    Delays,     \* the time limits threads ask for
    Priorities, \* the scheduling priorities of the threads
    Quiet,      \* the points of a handler at which no interrupt opens a gate
    Careful     \* whether threads and interrupts avoid the two cases that
                \* the code gets wrong, see MayExit and MayTimedWait

ASSUME GatesAssumption ==
    /\ Delays \in SUBSET Nat
    /\ Priorities \in SUBSET (0 .. SCHED_LIMIT_MAX)
    /\ Quiet \in SUBSET GatePoints
    /\ Careful \in BOOLEAN

VARIABLES
    asked,      \* per thread: the gate it waits for or is inside, or 0
    opens       \* how often each gate was opened, modulo 2

vars == <<rtVars, schedVars, handlerVars, gateVars, asked, opens>>

Init ==
    /\ RtInit(Threads)
    /\ \E pri \in [Threads -> Priorities] : SchedInit(pri)
    /\ GateInit
    /\ asked = [th \in Threads |-> 0]
    /\ opens = [w \in Gates |-> 0]

AskedNothing(self) == asked' = [asked EXCEPT ![self] = 0]
CountOpen(w) == opens' = [opens EXCEPT ![w] = 1 - @]

(* What has become of a thread's request, as the abstract gates see it. *)
Outcome(th) ==
    LET w == asked[th] IN
    CASE w = 0 -> "none"
      [] th \in wq[w] -> IF At("open_take") /\ handler.wq = w /\ IsHead(wq[w], th)
                         THEN "ok" ELSE "waiting"
      [] handler.self = th /\ handler.pc \in {"again", "suspend", "queue", "check", "insert"}
            -> "calling"
      [] handler.pc \in {"close", "wakeup"} /\ handler.th = th -> "ok"
      [] r0[th] = OK -> "ok"
      [] r0[th] = ETIMEDOUT -> "timeout"
      [] OTHER -> "undefined"

InsideOf(w) == {th \in Threads : asked[th] = w /\ Outcome(th) = "ok"}
IsInside(th) == asked[th] # 0 /\ Outcome(th) = "ok"

(* Leaving a gate with open = 0 is safe only while the bit that the code   *)
(* tests agrees with the signal of the gate, and a wait with a time limit  *)
(* only while the gate is not both locked and signaled.                    *)
MayExit(w, open) == Careful /\ open = 0 => (ExitSignaled(w) <=> w \in gate_sig)
MayTimedWait(w) == Careful => ~(w \in gate_sig /\ w \in gate_lock)

WaitCall(self) ==
    /\ ~IsInside(self)
    /\ \E w \in GateArgs :
          /\ \/ GateWait(self, w)
             \/ MayTimedWait(w) /\ \E ms \in Delays : GateTimedWait(self, w, ms)
          /\ asked' = [asked EXCEPT ![self] = IF ValidGate(w) THEN w ELSE 0]
    /\ UNCHANGED opens

(* Threads leave the gate they are inside of, or one that is not locked.   *)
ExitCall(self) ==
    /\ \E w \in GateArgs, open \in {0, 1} :
          /\ MayExit(w, open)
          /\ IF IsInside(self) THEN w = asked[self] /\ UNCHANGED asked
             ELSE w \notin gate_lock /\ AskedNothing(self)
          /\ GateExit(self, w, open)
    /\ UNCHANGED opens

(* Inside a gate they use gates that exist. *)
OpenCall(self) ==
    /\ \E w \in GateArgs :
          /\ GateOpen(self, w) \/ GateClose(self, w)
          /\ IF IsInside(self) THEN ValidGate(w) /\ UNCHANGED asked
             ELSE AskedNothing(self)
    /\ UNCHANGED opens

(* They free a gate only while nobody waits for it or is inside.           *)
Unused(w) == w \in Gates => wq[w] = {} /\ InsideOf(w) = {}

AllocCall(self) ==
    /\ ~IsInside(self)
    /\ GateAlloc(self) \/ \E w \in GateArgs : Unused(w) /\ GateFree(self, w)
    /\ AskedNothing(self)
    /\ UNCHANGED opens

(* Whether an interrupt that opens the gate w now leads to one of the two  *)
(* cases.                                                                  *)
Spoils(w) ==
    \/ At("exit") /\ handler.arg = 0
    \/ /\ handler.pc \in WaitPoints /\ handler.ms # FOREVER
       /\ handler.wq = w /\ w \in gate_lock

Interrupt ==
    /\ handler.pc \notin Quiet
    /\ \E w \in gate_alloc :
          /\ Careful => ~Spoils(w)
          /\ GateOpenIsr(w)
          /\ CountOpen(w)
    /\ UNCHANGED asked

(* A thread is outside once its exit has looked at the gate. *)
Step ==
    /\ GateStep
    /\ IF At("exit") THEN AskedNothing(handler.self) ELSE UNCHANGED asked
    /\ IF At("open") THEN CountOpen(handler.wq) ELSE UNCHANGED opens

Tick == TickStart /\ UNCHANGED <<gateVars, asked, opens>>
Switch == Idling /\ PendSV /\ UNCHANGED <<handlerVars, gateVars, asked, opens>>

Next ==
    \/ Step
    \/ Tick
    \/ Switch
    \/ Interrupt
    \/ \E self \in Threads :
          WaitCall(self) \/ ExitCall(self) \/ OpenCall(self) \/ AllocCall(self)

Spec == Init /\ [][Next]_vars

-----------------------------------------------------------------------------
TypeOK ==
    /\ RtTypeOK
    /\ SchedTypeOK
    /\ GateTypeOK
    /\ asked \in [Threads -> Gates \union {0}]
    /\ opens \in [Gates -> {0, 1}]

(* A gate that is being opened locked, to avoid races, counts as open or   *)
(* as entered by the first waiting thread already.                         *)
Opening == IF handler.pc \in {"open_take", "open_unlock", "close"} THEN {handler.wq} ELSE {}
State(w) ==
    CASE w \in Opening -> IF At("close") \/ wq[w] # {} THEN "locked" ELSE "open"
      [] w \in gate_sig /\ w \in gate_lock -> "signaled"
      [] w \in gate_sig -> "open"
      [] w \in gate_lock -> "locked"
      [] OTHER -> "closed"

Abstract == INSTANCE SignalGates WITH
    state <- [w \in Gates |-> State(w)],
    outcome <- [th \in Threads |-> Outcome(th)],
    opening <- Opening

(* The gates of thinkos_gate.c behave as thinkos.h describes, with         *)
(* interrupt handlers opening them at any step of the waits, of open, exit *)
(* and of the tick: no opening is lost, no thread is let in without one or *)
(* kept waiting at an open gate, and there is never more than one inside.  *)
GateSpec == Abstract!Spec

(* "Gates are syncronization objects which provide a convenient way of     *)
(* creating mutual exclusion acess to code blocks": at most one thread is  *)
(* inside a gate.                                                          *)
MutualExclusion == \A w \in Gates : Cardinality(InsideOf(w)) <= 1
=============================================================================
