---------------------------- MODULE SignalFlags ----------------------------
(***************************************************************************)
(* What flags promise to threads and interrupt handlers: giving, taking,   *)
(* setting, clearing and watching are atomic; a flag given goes to the     *)
(* first waiting thread or is kept, once; a flag set stays set and lets    *)
(* all waiting threads go on; nobody waits for a flag that is set.         *)
(***************************************************************************)
EXTENDS Integers

CONSTANTS
    Threads,    \* numbers: the lower one is served first
    Flags

VARIABLES
    signaled,   \* the flags that are set
    asked,      \* the flag that each thread asked last
    outcome,    \* what has become of that request
    gives       \* how often each flag was given, modulo 2

vars == <<signaled, asked, outcome, gives>>

Waiting(w) == {th \in Threads : asked[th] = w /\ outcome[th] = "waiting"}
Free(th) == outcome[th] \notin {"taking", "watching", "waiting"}
First(S) == CHOOSE n \in S : \A m \in S : n <= m

Answer(th, o) == outcome' = [outcome EXCEPT ![th] = o] /\ UNCHANGED asked

Init ==
    /\ signaled = {}
    /\ asked = [th \in Threads |-> 0]
    /\ outcome = [th \in Threads |-> "none"]
    /\ gives = [w \in Flags |-> 0]

(* A thread begins to take or to watch a flag. *)
Ask(th, w, o) ==
    /\ Free(th)
    /\ asked' = [asked EXCEPT ![th] = w]
    /\ outcome' = [outcome EXCEPT ![th] = o]
    /\ UNCHANGED <<signaled, gives>>

(* It takes the flag, sees it, or waits, at most until its time is over. *)
Take(th) ==
    /\ outcome[th] = "taking" /\ asked[th] \in signaled
    /\ signaled' = signaled \ {asked[th]}
    /\ Answer(th, "ok")
    /\ UNCHANGED gives
See(th) ==
    /\ outcome[th] = "watching" /\ asked[th] \in signaled
    /\ Answer(th, "ok")
    /\ UNCHANGED <<signaled, gives>>
Block(th) ==
    /\ outcome[th] \in {"taking", "watching"} /\ asked[th] \notin signaled
    /\ Answer(th, "waiting")
    /\ UNCHANGED <<signaled, gives>>
Timeout(th) ==
    /\ outcome[th] = "waiting"
    /\ Answer(th, "timeout")
    /\ UNCHANGED <<signaled, gives>>

Give(w) ==
    /\ gives' = [gives EXCEPT ![w] = 1 - @]
    /\ \/ /\ Waiting(w) = {}
          /\ signaled' = signaled \union {w}
          /\ UNCHANGED <<asked, outcome>>
       \/ /\ Waiting(w) # {}
          /\ Answer(First(Waiting(w)), "ok")
          /\ UNCHANGED signaled

Set(w) ==
    /\ signaled' = signaled \union {w}
    /\ outcome' = [th \in Threads |-> IF th \in Waiting(w) THEN "ok" ELSE outcome[th]]
    /\ UNCHANGED <<asked, gives>>

(* A thread clears a flag, or is done with its last request. *)
Clear(th, S) ==
    /\ Free(th)
    /\ signaled' = signaled \ S
    /\ asked' = [asked EXCEPT ![th] = 0]
    /\ outcome' = [outcome EXCEPT ![th] = "none"]
    /\ UNCHANGED gives

Next ==
    \/ \E w \in Flags : Give(w) \/ Set(w)
    \/ \E th \in Threads :
          \/ Take(th)
          \/ See(th)
          \/ Block(th)
          \/ Timeout(th)
          \/ Clear(th, {})
          \/ \E w \in Flags : Clear(th, {w}) \/ Ask(th, w, "taking") \/ Ask(th, w, "watching")

Spec == Init /\ [][Next]_vars
=============================================================================
