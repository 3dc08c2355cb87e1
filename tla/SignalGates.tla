---------------------------- MODULE SignalGates ----------------------------
(***************************************************************************)
(* What gates promise (thinkos.h, group gates): opening, entering, leaving *)
(* and closing are atomic; at most one thread is inside a gate; an open    *)
(* gate lets one thread in, the first waiting one if there is one; a gate  *)
(* that is opened while a thread is inside opens when it leaves.  A gate   *)
(* that is opened once more before the thread that is let in has been told *)
(* is opened once.                                                         *)
(***************************************************************************)
EXTENDS Integers

CONSTANTS
    Threads,    \* numbers: the lower one is let in first
    Gates

VARIABLES
    state,      \* of each gate: "closed", "open", "locked", "signaled"
    asked,      \* the gate that each thread asked last
    outcome,    \* what has become of that request; "ok": it is inside
    opening,    \* the gates whose opening is not over
    opens       \* how often each gate was opened, modulo 2

vars == <<state, asked, outcome, opening, opens>>

Waiting(w) == {th \in Threads : asked[th] = w /\ outcome[th] = "waiting"}
Inside(w) == {th \in Threads : asked[th] = w /\ outcome[th] = "ok"}
Free(th) == outcome[th] \notin {"calling", "waiting", "ok"}
First(S) == CHOOSE n \in S : \A m \in S : n <= m

Becomes(w, s) == state' = [state EXCEPT ![w] = s]
Answer(th, o) == outcome' = [outcome EXCEPT ![th] = o] /\ UNCHANGED asked
NoAnswer == UNCHANGED <<asked, outcome>>
Forgotten(th) ==
    /\ asked' = [asked EXCEPT ![th] = 0]
    /\ outcome' = [outcome EXCEPT ![th] = "none"]

Init ==
    /\ state = [w \in Gates |-> "closed"]
    /\ asked = [th \in Threads |-> 0]
    /\ outcome = [th \in Threads |-> "none"]
    /\ opening = {}
    /\ opens = [w \in Gates |-> 0]

Ask(th, w) ==
    /\ Free(th)
    /\ asked' = [asked EXCEPT ![th] = w]
    /\ outcome' = [outcome EXCEPT ![th] = "calling"]
    /\ UNCHANGED <<state, opening, opens>>
Forget(th) == Free(th) /\ Forgotten(th) /\ UNCHANGED <<state, opening, opens>>

(* A thread enters an open gate, or waits, at most until its time is over. *)
Enter(th) ==
    /\ outcome[th] = "calling" /\ state[asked[th]] = "open"
    /\ Becomes(asked[th], "locked")
    /\ Answer(th, "ok")
    /\ UNCHANGED <<opening, opens>>
Block(th) ==
    /\ outcome[th] = "calling" /\ state[asked[th]] # "open"
    /\ Answer(th, "waiting")
    /\ UNCHANGED <<state, opening, opens>>
Timeout(th) ==
    /\ outcome[th] = "waiting"
    /\ Answer(th, "timeout")
    /\ UNCHANGED <<state, opening, opens>>

(* The four scenarios of thinkos_gate_open(). *)
Open(w) ==
    /\ opens' = [opens EXCEPT ![w] = 1 - @]
    /\ opening' \in {opening, opening \union {w}}
    /\ \/ /\ state[w] \in {"open", "signaled"} \/ w \in opening
          /\ NoAnswer
          /\ UNCHANGED state
       \/ state[w] = "closed" /\ Waiting(w) = {} /\ Becomes(w, "open") /\ NoAnswer
       \/ /\ state[w] = "closed" /\ Waiting(w) # {}
          /\ Becomes(w, "locked")
          /\ Answer(First(Waiting(w)), "ok")
       \/ state[w] = "locked" /\ Becomes(w, "signaled") /\ NoAnswer
Told(w) ==
    /\ opening' = opening \ {w}
    /\ NoAnswer
    /\ UNCHANGED <<state, opens>>

(* A thread leaves a gate: it is open or closed afterwards, ... *)
Leave(th, open) ==
    LET w == asked[th] IN
    /\ outcome[th] = "ok"
    /\ Forgotten(th)
    /\ Becomes(w, IF open \/ state[w] = "signaled" THEN "signaled" ELSE "closed")
    /\ UNCHANGED <<opening, opens>>

(* ... and when it is open the first waiting thread is let in. *)
HandOver(w) ==
    /\ state[w] = "signaled" /\ Inside(w) = {}
    /\ \/ Waiting(w) = {} /\ Becomes(w, "open") /\ NoAnswer /\ UNCHANGED opening
       \/ /\ Waiting(w) # {}
          /\ Becomes(w, "locked")
          /\ Answer(First(Waiting(w)), "ok")
          /\ opening' = opening \union {w}
    /\ UNCHANGED opens

(* "Close the gate if the gate is OPEN or remove pending signaling if the  *)
(* gate is LOCKED."                                                        *)
Close(th, w) ==
    /\ (Free(th) /\ Forgotten(th)) \/ NoAnswer
    /\ Becomes(w, IF state[w] \in {"open", "closed"} THEN "closed" ELSE "locked")
    /\ UNCHANGED <<opening, opens>>

Next ==
    \/ \E w \in Gates : Open(w) \/ Told(w) \/ HandOver(w)
    \/ \E th \in Threads :
          \/ Forget(th)
          \/ Enter(th)
          \/ Block(th)
          \/ Timeout(th)
          \/ \E open \in BOOLEAN : Leave(th, open)
          \/ \E w \in Gates : Ask(th, w) \/ Close(th, w)

Spec == Init /\ [][Next]_vars
=============================================================================
