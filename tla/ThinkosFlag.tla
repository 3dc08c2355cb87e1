---------------------------- MODULE ThinkosFlag ----------------------------
(***************************************************************************)
(* Flags (thinkos_flag.c): given and taken like a semaphore that counts to *)
(* one, also given by interrupt handlers with thinkos_flag_give_i(), and   *)
(* set, cleared and watched like a level.                                  *)
(***************************************************************************)
EXTENDS ThinkosHandler

VARIABLES
    flag,           \* the signaled flags
    flag_alloc      \* the allocated flags

flagVars == <<flag, flag_alloc>>

Flags == FLAG_BASE .. GATE_BASE - 1

(* Every number a thread may pass for a flag. *)
FlagArgs == Flags \union Conds
ValidFlag(w) == w \in Flags /\ w \in flag_alloc

FlagPoints == WaitPoints \union TickPoints
                \union {"none", "defer", "give", "signal", "wakeup",
                        "set", "set_next", "set_wake",
                        "watch", "watch_insert", "watch_clock", "watch_stat",
                        "watch_suspend"}

FlagInit ==
    /\ HandlerInit
    /\ flag = {}
    /\ flag_alloc = Flags

-----------------------------------------------------------------------------
(* thinkos_flag_alloc_svc *)
FlagAlloc(self) ==
    LET w == BmpAlloc(flag_alloc, Flags) IN
    /\ Entered(self)
    /\ Replied(self, w)
    /\ IF w = ENOMEM THEN UNCHANGED flagVars
       ELSE /\ flag' = flag \ {w}
            /\ flag_alloc' = flag_alloc \union {w}

(* thinkos_flag_free_svc *)
FlagFree(self, w) ==
    /\ Entered(self)
    /\ Replied(self, IF w \in Flags THEN w ELSE EINVAL)
    /\ flag_alloc' = flag_alloc \ {w}
    /\ UNCHANGED flag

FlagInvalid(self, w) ==
    /\ ~ValidFlag(w)
    /\ Replied(self, EINVAL)
    /\ UNCHANGED flagVars

(* thinkos_flag_val_svc *)
FlagVal(self, w) ==
    /\ Entered(self)
    /\ \/ FlagInvalid(self, w)
       \/ /\ ValidFlag(w)
          /\ Replied(self, IF w \in flag THEN 1 ELSE 0)
          /\ UNCHANGED flagVars

(* thinkos_flag_clr_svc *)
FlagClr(self, w) ==
    /\ Entered(self)
    /\ \/ FlagInvalid(self, w)
       \/ /\ ValidFlag(w)
          /\ Replied(self, OK)
          /\ flag' = flag \ {w}
          /\ UNCHANGED flag_alloc

(* A call with the flag w that goes on step by step at the point pc, with  *)
(* v in r0.                                                                *)
FlagCall(self, w, pc, ms, v) ==
    /\ Entered(self)
    /\ \/ FlagInvalid(self, w)
       \/ /\ ValidFlag(w)
          /\ Reply(self, v)
          /\ Begin(pc, self, w, ms, 0)
          /\ UNCHANGED <<flagVars, excl>>

(* thinkos_flag_take_svc and thinkos_flag_timedtake_svc: the steps are     *)
(* TakeAgain and WaitStep.                                                 *)
FlagTake(self, w) == FlagCall(self, w, "again", FOREVER, w)
FlagTimedTake(self, w, ms) == FlagCall(self, w, "again", ms, w)

(* thinkos_flag_give_svc *)
FlagGive(self, w) == FlagCall(self, w, "give", FOREVER, OK)

(* thinkos_flag_set_svc *)
FlagSet(self, w) == FlagCall(self, w, "set", FOREVER, OK)

(* thinkos_flag_watch_svc and thinkos_flag_timedwatch_svc *)
FlagWatch(self, w) == FlagCall(self, w, "watch", FOREVER, OK)
FlagTimedWatch(self, w, ms) == FlagCall(self, w, "watch", ms, OK)

-----------------------------------------------------------------------------
(* The label again of the takes: take the flag, or go on. *)
TakeAgain ==
    /\ At("again")
    /\ \/ /\ handler.wq \in flag
          /\ flag' = flag \ {handler.wq}
          /\ Return(handler.self, OK)
          /\ Done
       \/ /\ handler.wq \notin flag
          /\ Goto("suspend")
          /\ UNCHANGED <<flag, r0>>
    /\ UNCHANGED <<wq, th_stat, clock, pendsv, schedState, flag_alloc, excl>>

(* Mutant: the flag is not looked at again. *)
GivenMeanwhileNever(w) == FALSE

(* "The flag may have been signaled while suspending (1)." *)
GivenMeanwhile(w) == w \in flag

-----------------------------------------------------------------------------
(* The steps of __thinkos_flag_give_i() in a system call: take the first   *)
(* thread out of the queue, or find the queue empty ...                    *)
GiveTake ==
    /\ At("give")
    /\ TakeThread("wakeup", "signal")
    /\ UNCHANGED flagVars

(* ... then set the flag ... *)
GiveSignal ==
    /\ At("signal")
    /\ flag' = flag \union {handler.wq}
    /\ Goto("defer")
    /\ UNCHANGED <<rtVars, schedVars, flag_alloc, excl>>

(* ... or make the thread ready. *)
GiveWakeup ==
    /\ At("wakeup")
    /\ WakeThread(OK)
    /\ UNCHANGED flagVars

(* The results that an interrupt handler that writes OK through            *)
(* thinkos_rt.ctx[th] may leave.  The takes and the watches do not save    *)
(* the context pointer: until the scheduler does, it is the one of the     *)
(* last context switch, and the write may miss the thread's r0.            *)
WrittenR0(th) == IF th = active THEN {OK, r0[th]} ELSE {OK}

(* cm3_except10_isr: __thinkos_flag_give_i() from an interrupt handler. *)
FlagGiveIsr(w) ==
    /\ \/ /\ wq[w] = {}
          /\ flag' = flag \union {w}
          /\ UNCHANGED <<wq, r0, th_stat>>
       \/ /\ wq[w] # {}
          /\ \E v \in WrittenR0(WqHead(wq[w])) : IsrWake(w, WqHead(wq[w]), v)
          /\ UNCHANGED flag
    /\ IsrEnd
    /\ UNCHANGED flag_alloc

-----------------------------------------------------------------------------
(* The steps of thinkos_flag_set_svc: set the flag, ... *)
SetFlag ==
    /\ At("set")
    /\ flag' = flag \union {handler.wq}
    /\ Goto("set_next")
    /\ UNCHANGED <<rtVars, schedVars, flag_alloc, excl>>

(* ... look for the first thread of the queue, until there is none, ...    *)
SetNext ==
    /\ At("set_next")
    /\ \/ /\ wq[handler.wq] # {}
          /\ handler' = [handler EXCEPT !.pc = "set_wake", !.th = WqHead(wq[handler.wq])]
       \/ /\ wq[handler.wq] = {} /\ handler.arg = 1
          /\ Goto("defer")
       \/ /\ wq[handler.wq] = {} /\ handler.arg = 0
          /\ Done
    /\ UNCHANGED <<rtVars, schedVars, flagVars, excl>>

(* ... and wake it up. *)
SetWake ==
    LET th == handler.th IN
    /\ At("set_wake")
    /\ wq' = Wakeup(wq, handler.wq, th)
    /\ r0' = [r0 EXCEPT ![th] = OK]
    /\ th_stat' = [th_stat EXCEPT ![th] = NoStat]
    /\ handler' = [handler EXCEPT !.pc = "set_next", !.arg = 1]
    /\ UNCHANGED <<clock, pendsv, schedState, flagVars, excl>>

-----------------------------------------------------------------------------
(* The steps of the watches: return when the flag is set; otherwise the    *)
(* limit of a timed watch is set, ...                                      *)
WatchTest ==
    /\ At("watch")
    /\ \/ /\ handler.wq \in flag
          /\ Done
          /\ UNCHANGED <<clock, r0>>
       \/ /\ handler.wq \notin flag
          /\ Goto("watch_insert")
          /\ IF handler.ms = FOREVER THEN UNCHANGED <<clock, r0>>
             ELSE /\ Return(handler.self, ETIMEDOUT)
                  /\ clock' = [clock EXCEPT ![handler.self] = TickAdd(ticks, handler.ms)]
    /\ UNCHANGED <<wq, th_stat, pendsv, schedState, flagVars, excl>>

(* ... the thread joins the flag's queue ...                               *)
WatchInsert ==
    /\ At("watch_insert")
    /\ wq' = Insert(wq, handler.wq, handler.self)
    /\ Goto(IF handler.ms = FOREVER THEN "watch_stat" ELSE "watch_clock")
    /\ UNCHANGED <<th_stat, clock, pendsv, r0, schedState, flagVars, excl>>

(* ... and the clock queue, ... *)
WatchClock ==
    /\ At("watch_clock")
    /\ wq' = Insert(wq, WQ_CLOCK, handler.self)
    /\ Goto("watch_stat")
    /\ UNCHANGED <<th_stat, clock, pendsv, r0, schedState, flagVars, excl>>

(* ... its status is set, ... *)
WatchStat ==
    /\ At("watch_stat")
    /\ th_stat' = [th_stat EXCEPT
                      ![handler.self] = Stat(handler.wq, handler.ms # FOREVER)]
    /\ Goto("watch_suspend")
    /\ UNCHANGED <<wq, clock, pendsv, r0, schedState, flagVars, excl>>

(* ... and it leaves the ready queue. *)
WatchSuspend ==
    /\ At("watch_suspend")
    /\ wq' = Suspend(wq, handler.self)
    /\ Goto("defer")
    /\ UNCHANGED <<th_stat, clock, pendsv, r0, schedState, flagVars, excl>>

(* The next step of the system call or tick in progress. *)
FlagStep ==
    \/ /\ WaitStep(GivenMeanwhile(handler.wq)) \/ Defer \/ TickStep
       /\ UNCHANGED flagVars
    \/ TakeAgain
    \/ GiveTake
    \/ GiveSignal
    \/ GiveWakeup
    \/ SetFlag
    \/ SetNext
    \/ SetWake
    \/ WatchTest
    \/ WatchInsert
    \/ WatchClock
    \/ WatchStat
    \/ WatchSuspend
=============================================================================
