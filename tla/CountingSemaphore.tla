-------------------------- MODULE CountingSemaphore --------------------------
(***************************************************************************)
(* What a set of semaphores promises to threads and interrupt handlers:    *)
(* posting and taking are atomic, each post is worth one successful wait,  *)
(* a thread waits only while the value is 0, and the first of the waiting  *)
(* threads is served.                                                      *)
(***************************************************************************)
EXTENDS Integers

CONSTANTS
    Threads,    \* numbers: the lower one is served first
    Sems,
    Range       \* values are kept modulo Range

VARIABLES
    value,      \* the units that each semaphore has to give
    sem,        \* the semaphore that each thread asked last
    outcome,    \* what has become of that request
    posts       \* how often each semaphore was posted to, modulo 2

vars == <<value, sem, outcome, posts>>

Outcomes == {"none", "calling", "waiting", "ok", "again", "timeout"}

Waiting(s) == {th \in Threads : sem[th] = s /\ outcome[th] = "waiting"}
Free(th) == outcome[th] \notin {"calling", "waiting"}

Answer(th, o) == outcome' = [outcome EXCEPT ![th] = o] /\ UNCHANGED sem

Init ==
    /\ value \in [Sems -> 0 .. Range - 1]
    /\ sem \in [Threads -> Sems \union {0}]
    /\ outcome = [th \in Threads |-> "none"]
    /\ posts = [s \in Sems |-> 0]

(* A thread asks for a unit, or is done with its last request. *)
Ask(th, s) ==
    /\ Free(th)
    /\ sem' = [sem EXCEPT ![th] = s]
    /\ outcome' = [outcome EXCEPT ![th] = "calling"]
    /\ UNCHANGED <<value, posts>>
Forget(th) ==
    /\ Free(th)
    /\ sem' = [sem EXCEPT ![th] = 0]
    /\ outcome' = [outcome EXCEPT ![th] = "none"]
    /\ UNCHANGED <<value, posts>>

(* It is given one, or waits for one. *)
Take(th) ==
    /\ outcome[th] = "calling"
    /\ value[sem[th]] > 0
    /\ value' = [value EXCEPT ![sem[th]] = @ - 1]
    /\ Answer(th, "ok")
    /\ UNCHANGED posts
Block(th) ==
    /\ outcome[th] = "calling"
    /\ value[sem[th]] = 0
    /\ Answer(th, "waiting")
    /\ UNCHANGED <<value, posts>>

(* The same without waiting. *)
Try(th, s) ==
    /\ Free(th)
    /\ sem' = [sem EXCEPT ![th] = s]
    /\ \/ /\ value[s] > 0
          /\ value' = [value EXCEPT ![s] = @ - 1]
          /\ outcome' = [outcome EXCEPT ![th] = "ok"]
          /\ UNCHANGED posts
       \/ /\ value[s] = 0
          /\ outcome' = [outcome EXCEPT ![th] = "again"]
          /\ UNCHANGED <<value, posts>>

(* The time limit of a waiting thread is over. *)
Timeout(th) ==
    /\ outcome[th] = "waiting"
    /\ Answer(th, "timeout")
    /\ UNCHANGED <<value, posts>>

(* A post serves the first waiting thread, or is kept. *)
Post(s) ==
    /\ posts' = [posts EXCEPT ![s] = 1 - @]
    /\ \/ /\ Waiting(s) = {}
          /\ value' = [value EXCEPT ![s] = (@ + 1) % Range]
          /\ UNCHANGED <<sem, outcome>>
       \/ \E th \in Waiting(s) :
             /\ \A other \in Waiting(s) : th <= other
             /\ Answer(th, "ok")
             /\ UNCHANGED value

(* A semaphore that nobody waits for is given a value. *)
Set(th, s, v) ==
    /\ Free(th)
    /\ Waiting(s) = {}
    /\ value' = [value EXCEPT ![s] = v]
    /\ sem' = [sem EXCEPT ![th] = 0]
    /\ outcome' = [outcome EXCEPT ![th] = "none"]
    /\ UNCHANGED posts

Next ==
    \/ \E s \in Sems : Post(s)
    \/ \E th \in Threads :
          \/ Forget(th)
          \/ Take(th)
          \/ Block(th)
          \/ Timeout(th)
          \/ \E s \in Sems :
                \/ Ask(th, s)
                \/ Try(th, s)
                \/ \E v \in 0 .. Range - 1 : Set(th, s, v)

Spec == Init /\ [][Next]_vars
=============================================================================
