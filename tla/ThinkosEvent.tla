---------------------------- MODULE ThinkosEvent ----------------------------
(***************************************************************************)
(* Event sets (thinkos_event.c): bit maps of pending events and of enabled *)
(* ("mask") events, raised by threads and by interrupt handlers with       *)
(* thinkos_ev_raise_i() while a system call or the tick is at work.        *)
(***************************************************************************)
EXTENDS ThinkosHandler

CONSTANT EV_WIDTH       \* the number of events of a set (32 in the code)

ASSUME EventAssumption == EV_WIDTH \in Nat \ {0}

VARIABLES
    ev_mask,        \* per set: the events that wake threads up
    ev_pend,        \* per set: the pending events
    ev_alloc        \* the allocated sets

evVars == <<ev_mask, ev_pend, ev_alloc>>

EvSets == EVENT_BASE .. FLAG_BASE - 1
Events == 0 .. EV_WIDTH - 1

(* Every number a thread may pass for an event set or an event to raise. *)
EvSetArgs == EvSets \union Conds
EvArgs == 0 .. EV_WIDTH

ValidEvSet(w) == w \in EvSets /\ w \in ev_alloc

EvPoints == WaitPoints \union TickPoints
                \union {"none", "defer", "raise", "pend", "wakeup",
                        "unmask", "unmask_take", "unmask_set",
                        "unmask_clear", "unmask_mask"}

EvInit ==
    /\ HandlerInit
    /\ ev_mask = [w \in EvSets |-> Events]
    /\ ev_pend = [w \in EvSets |-> {}]
    /\ ev_alloc = EvSets

EvTypeOK ==
    /\ HandlerTypeOK(EvPoints, Events)
    /\ ev_mask \in [EvSets -> SUBSET Events]
    /\ ev_pend \in [EvSets -> SUBSET Events]
    /\ ev_alloc \in SUBSET EvSets

-----------------------------------------------------------------------------
(* thinkos_ev_alloc_svc *)
EvAlloc(self) ==
    LET w == BmpAlloc(ev_alloc, EvSets) IN
    /\ Entered(self)
    /\ Replied(self, w)
    /\ IF w = ENOMEM THEN UNCHANGED evVars
       ELSE /\ ev_mask' = [ev_mask EXCEPT ![w] = Events]
            /\ ev_pend' = [ev_pend EXCEPT ![w] = {}]
            /\ ev_alloc' = ev_alloc \union {w}

(* thinkos_ev_free_svc *)
EvFree(self, w) ==
    /\ Entered(self)
    /\ Replied(self, IF w \in EvSets THEN w ELSE EINVAL)
    /\ ev_alloc' = ev_alloc \ {w}
    /\ UNCHANGED <<ev_mask, ev_pend>>

EvInvalid(self, w) ==
    /\ ~ValidEvSet(w)
    /\ Replied(self, EINVAL)
    /\ UNCHANGED evVars

(* The two waits check their argument and go on with the steps EvAgain and *)
(* WaitStep.                                                               *)
EvWaitCall(self, w, ms) ==
    /\ Entered(self)
    /\ \/ EvInvalid(self, w)
       \/ /\ ValidEvSet(w)
          /\ Begin("again", self, w, ms, 0)
          /\ Reply(self, w)
          /\ UNCHANGED <<evVars, excl>>

(* thinkos_ev_wait_svc and thinkos_ev_timedwait_svc *)
EvWait(self, w) == EvWaitCall(self, w, FOREVER)
EvTimedWait(self, w, ms) == EvWaitCall(self, w, ms)

(* Mutant: ev > 32. *)
OutOfRangeByOne(ev) == ev > EV_WIDTH

(* ev > 31 *)
OutOfRange(ev) == ev > EV_WIDTH - 1

(* thinkos_ev_raise_svc *)
EvRaise(self, w, ev) ==
    /\ Entered(self)
    /\ \/ /\ OutOfRange(ev)
          /\ Replied(self, EINVAL)
          /\ UNCHANGED evVars
       \/ ~OutOfRange(ev) /\ EvInvalid(self, w)
       \/ /\ ~OutOfRange(ev) /\ ValidEvSet(w)
          /\ Reply(self, OK)
          /\ Begin("raise", self, w, FOREVER, ev)
          /\ UNCHANGED <<evVars, excl>>

(* thinkos_ev_mask_svc *)
EvMask(self, w, ev, val) ==
    /\ Entered(self)
    /\ \/ EvInvalid(self, w)
       \/ /\ ValidEvSet(w) /\ val = 0
          /\ Replied(self, OK)
          /\ ev_mask' = [ev_mask EXCEPT ![w] = @ \ {ev}]
          /\ UNCHANGED <<ev_pend, ev_alloc>>
       \/ /\ ValidEvSet(w) /\ val # 0
          /\ Reply(self, OK)
          /\ Begin("unmask", self, w, FOREVER, ev)
          /\ UNCHANGED <<evVars, excl>>

(* thinkos_ev_clear_svc *)
EvClear(self, w, ev) ==
    /\ Entered(self)
    /\ \/ EvInvalid(self, w)
       \/ /\ ValidEvSet(w)
          /\ Replied(self, OK)
          /\ ev_pend' = [ev_pend EXCEPT ![w] = @ \ {ev}]
          /\ UNCHANGED <<ev_mask, ev_alloc>>

-----------------------------------------------------------------------------
(* The pending events that the mask lets through. *)
Unmasked(w) == ev_pend[w] \intersect ev_mask[w]

(* The label again of the waits: take the first pending event, or go on.   *)
EvAgain ==
    LET w == handler.wq IN
    /\ At("again")
    /\ \/ /\ Unmasked(w) # {}
          /\ ev_pend' = [ev_pend EXCEPT ![w] = @ \ {WqHead(Unmasked(w))}]
          /\ Return(handler.self, WqHead(Unmasked(w)))
          /\ Done
       \/ /\ Unmasked(w) = {}
          /\ Goto("suspend")
          /\ UNCHANGED <<ev_pend, r0>>
    /\ UNCHANGED <<wq, th_stat, clock, pendsv, schedState, ev_mask, ev_alloc, excl>>

(* Mutant: the pending events are not looked at again. *)
RaisedMeanwhileNever(w) == FALSE

(* An event has been raised while suspending. *)
RaisedMeanwhile(w) == Unmasked(w) # {}

-----------------------------------------------------------------------------
(* The event of the call in progress becomes pending. *)
Pending(w, ev) ==
    /\ ev_pend' = [ev_pend EXCEPT ![w] = @ \union {ev}]
    /\ UNCHANGED <<ev_mask, ev_alloc>>

(* __bit_mem_rd(&thinkos_rt.ev[no].mask, ev) == 0 *)
Masked(w, ev) == ev \notin ev_mask[w]

(* The steps of __thinkos_ev_raise_i() in a system call: a masked event    *)
(* becomes pending, another one takes the first thread out of the queue or *)
(* finds it empty ...                                                      *)
RaiseTake ==
    /\ At("raise")
    /\ \/ /\ Masked(handler.wq, handler.arg)
          /\ Pending(handler.wq, handler.arg)
          /\ Goto("defer")
          /\ UNCHANGED <<rtVars, schedVars, excl>>
       \/ /\ ~Masked(handler.wq, handler.arg)
          /\ TakeThread("wakeup", "pend")
          /\ UNCHANGED evVars

(* ... and becomes pending too ... *)
RaisePend ==
    /\ At("pend")
    /\ Pending(handler.wq, handler.arg)
    /\ Goto("defer")
    /\ UNCHANGED <<rtVars, schedVars, excl>>

(* ... or makes the thread ready, with the event as its result.            *)
(* thinkos_ev_mask_svc ends in the same way.                               *)
RaiseWakeup ==
    /\ At("wakeup")
    /\ WakeThread(handler.arg)
    /\ UNCHANGED evVars

(* cm3_except9_isr: __thinkos_ev_raise_i() from an interrupt handler. *)
EvRaiseIsr(w, ev) ==
    /\ \/ /\ Masked(w, ev) \/ wq[w] = {}
          /\ Pending(w, ev)
          /\ UNCHANGED <<wq, r0, th_stat>>
       \/ /\ ~Masked(w, ev) /\ wq[w] # {}
          /\ IsrWake(w, WqHead(wq[w]), ev)
          /\ UNCHANGED evVars
    /\ IsrEnd

-----------------------------------------------------------------------------
(* The steps of thinkos_ev_mask_svc that enable an event.  When it is not  *)
(* pending the mask bit is set, with exclusive access; ...                 *)
Enable(w, ev) ==
    /\ ev_mask' = [ev_mask EXCEPT ![w] = @ \union {ev}]
    /\ UNCHANGED <<ev_pend, ev_alloc>>

Unmask ==
    LET w == handler.wq
        ev == handler.arg
    IN
    /\ At("unmask")
    /\ \/ ev \in ev_mask[w] /\ Done /\ UNCHANGED evVars
       \/ ev \notin ev_mask[w] /\ ev \notin ev_pend[w] /\ Done /\ Enable(w, ev)
       \/ /\ ev \notin ev_mask[w] /\ ev \in ev_pend[w]
          /\ Goto("unmask_take")
          /\ UNCHANGED evVars
    /\ UNCHANGED <<rtVars, schedVars, excl>>

(* ... otherwise the event is given to the first thread of the queue; ...  *)
UnmaskTake ==
    /\ At("unmask_take")
    /\ TakeThread("unmask_clear", "unmask_set")
    /\ UNCHANGED evVars

(* ... when there is none it stays pending and the mask bit is set, ...    *)
UnmaskSet ==
    /\ At("unmask_set")
    /\ Enable(handler.wq, handler.arg)
    /\ Done
    /\ UNCHANGED <<rtVars, schedVars, excl>>

(* ... when there is one the event is cleared, ... *)
UnmaskClear ==
    /\ At("unmask_clear")
    /\ ev_pend' = [ev_pend EXCEPT ![handler.wq] = @ \ {handler.arg}]
    /\ Goto("unmask_mask")
    /\ UNCHANGED <<rtVars, schedVars, ev_mask, ev_alloc, excl>>

(* ... then the mask bit is set, and the thread made ready. *)
UnmaskMask ==
    /\ At("unmask_mask")
    /\ Enable(handler.wq, handler.arg)
    /\ Goto("wakeup")
    /\ UNCHANGED <<rtVars, schedVars, excl>>

(* The next step of the system call or tick in progress. *)
EvStep ==
    \/ /\ WaitStep(RaisedMeanwhile(handler.wq)) \/ Defer \/ TickStep
       /\ UNCHANGED evVars
    \/ EvAgain
    \/ RaiseTake
    \/ RaisePend
    \/ RaiseWakeup
    \/ Unmask
    \/ UnmaskTake
    \/ UnmaskSet
    \/ UnmaskClear
    \/ UnmaskMask
=============================================================================
