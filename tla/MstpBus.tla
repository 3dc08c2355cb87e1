------------------------------ MODULE MstpBus -------------------------------
(***************************************************************************)
(* The stations of an MS/TP bus together: frames on the wire, time, and    *)
(* the applications that start, stop and use the links.                    *)
(*                                                                         *)
(* A frame takes less than a tick of the clock, and so do the transitions  *)
(* that it causes: the stations that heard it, or whose time is up, make   *)
(* their transitions, then a frame sent by one of them is heard by all     *)
(* others, and the time goes on when nobody has anything left to do.  Two  *)
(* stations that send in answer to the same frame, or at the same tick,    *)
(* collide.                                                                *)
(***************************************************************************)
EXTENDS MstpLnk, FiniteSetsExt

CONSTANTS
    Traffic,        \* the frames that applications send
    MAX_EVENTS,     \* bound on the frames sent, faults and stops together
    MAX_SENDS,      \* bound on the frames sent
    MAX_FAULTS,     \* bound on the frames damaged
    MAX_STOPS       \* bound on the running links stopped or resumed

VARIABLES sends, faults, stops

vars == <<mstpVars, sends, faults, stops>>
bounds == <<sends, faults, stops>>

Init == MstpInit /\ sends = 0 /\ faults = 0 /\ stops = 0

TypeOK ==
    /\ MstpTypeOK
    /\ sends \in 0..MAX_SENDS /\ faults \in 0..MAX_FAULTS /\ stops \in 0..MAX_STOPS

(* The bound on what applications and the line do; a stop counts for two. *)
InBudget(n) == sends + faults + 2 * stops + n <= MAX_EVENTS

-----------------------------------------------------------------------------
(* The states in which a station decides what is sent next. *)
HasToken(s) ==
    lnk[s].state \in
        {"USE_TOKEN", "DONE_WITH_TOKEN", "WAIT_FOR_REPLY", "POLL_FOR_MASTER"}

(* No station is in the middle of its transitions. *)
Settled == \A s \in Stations : lnk[s].pc # "step"
Listeners == {s \in Stations \ wire.from : lnk[s].pc = "wait"}

(* The frame reaches the stations that listen, but is damaged for those in *)
(* bad.  A frame with data may be damaged after its header, and then       *)
(* counts as octets heard.                                                 *)
Hears(s, bad, off) ==
    IF s \notin Listeners THEN lnk[s]
    ELSE IF s \in bad \/ Head(wire.frms) = Garbled THEN Damaged(lnk[s], off)
    ELSE Heard(lnk[s], Head(wire.frms))

Deliver(bad, off) ==
    /\ Settled /\ wire # Silent
    /\ off => Head(wire.frms).type \in {"DATA_XPCT_REPLY", "DATA_NO_REPLY"}
    /\ lnk' = [s \in Stations |-> Hears(s, bad, off)]
    /\ wire' = IF Len(wire.frms) = 1 THEN Silent ELSE [wire EXCEPT !.frms = Tail(@)]
    /\ UNCHANGED <<tx, tx_flag, sends, stops>>

(* The frame arrives, or is damaged for some: octets of it are heard by    *)
(* everybody all the same.                                                 *)
Carry == Deliver({}, FALSE) /\ UNCHANGED faults

Damage ==
    /\ InBudget(1) /\ faults < MAX_FAULTS
    /\ faults' = faults + 1
    /\ \E bad \in SUBSET Listeners \ {{}}, off \in BOOLEAN : Deliver(bad, off)

(* A tick of the clock.  A station whose time is up leaves the wait. *)
Aged(l) == [l EXCEPT !.silence = IF @ > LastSlot THEN @ ELSE @ + 1]
Ticked(s) ==
    LET l == Aged(lnk[s]) IN
    IF l.silence < Timer(s, l.state) THEN l ELSE TimedOut(l)

Tick ==
    /\ Settled /\ wire = Silent
    /\ lnk' = [s \in Stations |-> IF lnk[s].pc = "init" THEN lnk[s] ELSE Ticked(s)]
    /\ UNCHANGED <<tx, tx_flag, wire, bounds>>

Send(s) ==
    /\ Settled /\ wire = Silent
    /\ InBudget(1) /\ sends < MAX_SENDS /\ sends' = sends + 1
    /\ \E m \in Traffic : m.src = s /\ mstp_lnk_send(s, m.type, m.dst)
    /\ UNCHANGED <<faults, stops>>

(* A link is started or resumed at the end of a frame: the stations that   *)
(* are running agree on how long the bus has been silent; and not with a   *)
(* token left over that was heard while the link was stopped.              *)
Joins(s) ==
    \A t \in Stations :
        lnk[t].state # "INITIALIZE" => lnk[t].silence = lnk[s].silence
StaleToken(s) ==
    lnk[s].frm.dst = s /\ lnk[s].frm.type \in {"TOKEN", "REPLY_POLL_FOR_MASTER"}

InStep(s) ==
    /\ Settled /\ wire = Silent /\ Joins(s) /\ ~StaleToken(s)
    /\ lnk[s].silence < T_NO_TOKEN

Resume(s) ==
    /\ InStep(s) /\ lnk[s].state = "INITIALIZE"
    /\ mstp_lnk_resume(s)
    /\ UNCHANGED bounds

(* A running link is resumed once more: it falls back to IDLE, and drops   *)
(* the token if it has it.                                                 *)
Restart(s) ==
    /\ InStep(s) /\ lnk[s].state # "INITIALIZE"
    /\ InBudget(2) /\ stops < MAX_STOPS /\ stops' = stops + 1
    /\ mstp_lnk_resume(s)
    /\ UNCHANGED <<sends, faults>>

Stop(s) ==
    /\ Settled /\ lnk[s].state # "INITIALIZE"
    /\ InBudget(2) /\ stops < MAX_STOPS /\ stops' = stops + 1
    /\ mstp_lnk_stop(s)
    /\ UNCHANGED <<sends, faults>>

(* The transitions of different stations commute: they are taken in the    *)
(* order of the addresses.                                                 *)
First(s) == \A t \in Stations : t < s => lnk[t].pc # "step"
Step(s) == First(s) /\ Transition(s) /\ UNCHANGED bounds

Next ==
    \/ Carry
    \/ Damage
    \/ Tick
    \/ \E s \in Stations : Step(s) \/ Send(s) \/ Resume(s) \/ Restart(s) \/ Stop(s)

(* The threads of the links run, frames arrive and time goes on (just one  *)
(* of the three is enabled at a time), and the links are started.          *)
Proceed == Carry \/ Tick \/ \E s \in Stations : Step(s)
Fairness == WF_vars(Proceed) /\ SF_vars(\E s \in Stations : Resume(s))

Spec == Init /\ [][Next]_vars /\ Fairness

-----------------------------------------------------------------------------
(* At most one station has the token: a station that misses it makes a new *)
(* one only in its own slot of the silence, and one that has passed it on  *)
(* goes back to IDLE or tries again only when it heard nobody use it, also *)
(* when stations join, stop, resume or get a damaged frame meanwhile.      *)
SingleToken == \A s, t \in Stations : HasToken(s) /\ HasToken(t) => s = t

Answering(s) == lnk[s].state = "ANSWER_DATA_REQUEST"

(* Every station uses the bus again and again: one that starts late is     *)
(* polled by the maintenance of the ring, and a token that is lost with a  *)
(* damaged frame or a stopped link is made anew.  A station that waits to  *)
(* answer a broadcast request is left out: the time it waits begins anew   *)
(* with every frame it hears, and it may wait for ever beside a busy ring. *)
TokenComes ==
    \A s \in Stations : []<>(lnk[s].state = "USE_TOKEN" \/ Answering(s))

(* In the end every station's NS is the next one on the bus, whatever was  *)
(* damaged, stopped and resumed before, unless a station keeps out of the  *)
(* ring to answer.                                                         *)
NextOf(s) ==
    LET after == {a \in Stations : a > s} IN
    Min(IF after = {} THEN Stations ELSE after)
RingForms ==
    \/ <>[](\A s \in Stations : lnk[s].ns = NextOf(s))
    \/ \E s \in Stations : <>[]Answering(s)
=============================================================================
