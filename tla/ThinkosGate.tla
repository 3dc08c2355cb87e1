---------------------------- MODULE ThinkosGate ----------------------------
(***************************************************************************)
(* Gates (thinkos_gate.c): a lock and a signal bit per gate, two by two in *)
(* a word; opened by threads and, with thinkos_gate_open_i(), by interrupt *)
(* handlers.                                                               *)
(***************************************************************************)
EXTENDS ThinkosHandler

VARIABLES
    gate_sig,       \* the gates whose bit __GATE_SIGNALED is set
    gate_lock,      \* the gates whose bit __GATE_LOCKED is set
    gate_alloc      \* the allocated gates

gateVars == <<gate_sig, gate_lock, gate_alloc>>

Gates == GATE_BASE .. JOIN_BASE - 1

(* Every number a thread may pass for a gate. *)
GateArgs == Gates \union Conds
ValidGate(w) == w \in Gates /\ w \in gate_alloc

GatePoints == WaitPoints \union TickPoints
                \union {"none", "defer", "open", "open_take", "open_unlock",
                        "exit", "exit_take", "exit_unlock", "close", "wakeup"}

GateInit ==
    /\ HandlerInit
    /\ gate_sig = {}
    /\ gate_lock = {}
    /\ gate_alloc = Gates

GateTypeOK ==
    /\ HandlerTypeOK(GatePoints, {0, 1})
    /\ gate_sig \in SUBSET Gates
    /\ gate_lock \in SUBSET Gates
    /\ gate_alloc \in SUBSET Gates

-----------------------------------------------------------------------------
(* thinkos_gate_alloc_svc *)
GateAlloc(self) ==
    LET w == BmpAlloc(gate_alloc, Gates) IN
    /\ Entered(self)
    /\ Replied(self, w)
    /\ IF w = ENOMEM THEN UNCHANGED gateVars
       ELSE /\ gate_sig' = gate_sig \ {w}
            /\ gate_lock' = gate_lock \ {w}
            /\ gate_alloc' = gate_alloc \union {w}

(* thinkos_gate_free_svc *)
GateFree(self, w) ==
    /\ Entered(self)
    /\ Replied(self, IF w \in Gates THEN w ELSE EINVAL)
    /\ gate_alloc' = gate_alloc \ {w}
    /\ UNCHANGED <<gate_sig, gate_lock>>

GateInvalid(self, w) ==
    /\ ~ValidGate(w)
    /\ Replied(self, EINVAL)
    /\ UNCHANGED gateVars

(* A call with the gate w that goes on step by step at the point pc, with  *)
(* v in r0.                                                                *)
GateCall(self, w, pc, ms, v, arg) ==
    /\ ValidGate(w)
    /\ Reply(self, v)
    /\ Begin(pc, self, w, ms, arg)
    /\ UNCHANGED <<gateVars, excl>>

(* thinkos_gate_wait_svc and thinkos_gate_timedwait_svc: the steps are     *)
(* GateAgain and WaitStep.                                                 *)
GateWaitCall(self, w, ms) ==
    /\ Entered(self)
    /\ GateInvalid(self, w) \/ GateCall(self, w, "again", ms, w, 0)

GateWait(self, w) == GateWaitCall(self, w, FOREVER)
GateTimedWait(self, w, ms) == GateWaitCall(self, w, ms)

(* thinkos_gate_open_svc *)
GateOpen(self, w) ==
    /\ Entered(self)
    /\ GateInvalid(self, w) \/ GateCall(self, w, "open", FOREVER, OK, 0)

(* thinkos_gate_exit_svc *)
GateExit(self, w, open) ==
    /\ Entered(self)
    /\ \/ GateInvalid(self, w)
       \/ /\ ValidGate(w) /\ w \notin gate_lock
          /\ Replied(self, EPERM)
          /\ UNCHANGED gateVars
       \/ w \in gate_lock /\ GateCall(self, w, "exit", FOREVER, OK, open)

(* thinkos_gate_close_svc *)
GateClose(self, w) ==
    /\ Entered(self)
    /\ \/ GateInvalid(self, w)
       \/ /\ ValidGate(w)
          /\ Replied(self, OK)
          /\ gate_sig' = gate_sig \ {w}
          /\ UNCHANGED <<gate_lock, gate_alloc>>

-----------------------------------------------------------------------------
(* (gates & 3) == __GATE_SIGNALED *)
Opened(w) == w \in gate_sig /\ w \notin gate_lock

(* Mutant: the gate is closed and not locked. *)
CloseAndLockNot(w) ==
    /\ gate_sig' = gate_sig \ {w}
    /\ UNCHANGED gate_lock

(* "close and lock the gate" *)
CloseAndLock(w) ==
    /\ gate_sig' = gate_sig \ {w}
    /\ gate_lock' = gate_lock \union {w}

(* The label again of the waits: enter an open gate, or go on.  The wait   *)
(* with a time limit returns success from a gate that is locked and        *)
(* signaled ("invalid state, open and locked").                            *)
GateAgain ==
    LET w == handler.wq
        invalid == handler.ms # FOREVER /\ w \in gate_sig /\ w \in gate_lock
    IN
    /\ At("again")
    /\ \/ /\ invalid
          /\ Return(handler.self, OK)
          /\ Done
          /\ UNCHANGED <<gate_sig, gate_lock>>
       \/ /\ Opened(w)
          /\ CloseAndLock(w)
          /\ Return(handler.self, OK)
          /\ Done
       \/ /\ ~invalid /\ ~Opened(w)
          /\ Goto("suspend")
          /\ UNCHANGED <<gate_sig, gate_lock, r0>>
    /\ UNCHANGED <<wq, th_stat, clock, pendsv, schedState, gate_alloc, excl>>

(* Mutant: the gate is not looked at again. *)
OpenedMeanwhileNever(w) == FALSE

(* "The gate may have been signaled while suspending (1)." *)
OpenedMeanwhile(w) == Opened(w)

-----------------------------------------------------------------------------
Signal(w) == gate_sig' = gate_sig \union {w}
Lock(w) == gate_lock' = gate_lock \union {w}
Unlock(w) == gate_lock' = gate_lock \ {w} /\ UNCHANGED <<gate_sig, gate_alloc>>

(* The steps of __thinkos_gate_open_i() in a system call: a locked gate is *)
(* signaled; another one is locked and signaled, ...                       *)
OpenSignal ==
    LET w == handler.wq IN
    /\ At("open")
    /\ Signal(w)
    /\ Lock(w)
    /\ Goto(IF w \in gate_lock THEN "defer" ELSE "open_take")
    /\ UNCHANGED <<rtVars, schedVars, gate_alloc, excl>>

(* ... then the first waiting thread is taken, ...                         *)
OpenTake ==
    /\ At("open_take")
    /\ TakeThread("close", "open_unlock")
    /\ UNCHANGED gateVars

(* ... or, when nobody waits, the gate is unlocked again; ...              *)
OpenUnlock ==
    /\ At("open_unlock")
    /\ Unlock(handler.wq)
    /\ Goto("defer")
    /\ UNCHANGED <<rtVars, schedVars, excl>>

(* ... "close the gate by removing the signal", ...                        *)
EnterClose ==
    /\ At("close")
    /\ gate_sig' = gate_sig \ {handler.wq}
    /\ Goto("wakeup")
    /\ UNCHANGED <<rtVars, schedVars, gate_lock, gate_alloc, excl>>

(* ... and make the thread ready, inside the gate.  thinkos_gate_exit_svc  *)
(* ends with the same two steps.                                           *)
EnterWakeup ==
    /\ At("wakeup")
    /\ WakeThread(OK)
    /\ UNCHANGED gateVars

(* cm3_except13_isr: __thinkos_gate_open_i() from an interrupt handler. *)
GateOpenIsr(w) ==
    /\ \/ /\ w \in gate_lock \/ wq[w] = {}
          /\ Signal(w)
          /\ UNCHANGED <<wq, r0, th_stat, gate_lock>>
       \/ /\ w \notin gate_lock /\ wq[w] # {}
          /\ IsrWake(w, WqHead(wq[w]), OK)
          /\ CloseAndLock(w)
    /\ IsrEnd
    /\ UNCHANGED gate_alloc

-----------------------------------------------------------------------------
(* gates & (__GATE_SIGNALED << 3): whatever gate is being left, this is    *)
(* the lock of the second gate.                                            *)
ExitSignaled(w) == GATE_BASE + 1 \in gate_lock

(* The steps of thinkos_gate_exit_svc: make sure that the gate is signaled *)
(* when it is to be left open, unlock it when it seems not to be signaled, *)
(* ...                                                                     *)
ExitTest ==
    LET w == handler.wq IN
    /\ At("exit")
    /\ \/ /\ handler.arg > 0
          /\ Signal(w)
          /\ Goto("exit_take")
          /\ UNCHANGED <<gate_lock, gate_alloc>>
       \/ /\ handler.arg = 0 /\ ~ExitSignaled(w)
          /\ Unlock(w)
          /\ Done
       \/ /\ handler.arg = 0 /\ ExitSignaled(w)
          /\ Goto("exit_take")
          /\ UNCHANGED gateVars
    /\ UNCHANGED <<rtVars, schedVars, excl>>

(* ... otherwise take the first thread of the queue, to go on at close,   *)
(* ...                                                                     *)
ExitTake ==
    /\ At("exit_take")
    /\ TakeThread("close", "exit_unlock")
    /\ UNCHANGED gateVars

(* ... or unlock the gate. *)
ExitUnlock ==
    /\ At("exit_unlock")
    /\ Unlock(handler.wq)
    /\ Done
    /\ UNCHANGED <<rtVars, schedVars, excl>>

(* The next step of the system call or tick in progress. *)
GateStep ==
    \/ /\ WaitStep(OpenedMeanwhile(handler.wq)) \/ Defer \/ TickStep
       /\ UNCHANGED gateVars
    \/ GateAgain
    \/ OpenSignal
    \/ OpenTake
    \/ OpenUnlock
    \/ EnterClose
    \/ EnterWakeup
    \/ ExitTest
    \/ ExitTake
    \/ ExitUnlock
=============================================================================
