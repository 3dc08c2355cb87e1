----------------------------- MODULE EventSets -----------------------------
(***************************************************************************)
(* What event sets promise to threads and interrupt handlers: raising,     *)
(* taking, enabling and clearing an event are atomic; an enabled event     *)
(* goes to the first waiting thread, any other one is pending until it is  *)
(* taken or cleared; a thread waits only while no enabled event is         *)
(* pending.  Every raise counts, except that a pending event that is       *)
(* raised again, or is raised again while it is on its way to a thread     *)
(* that has not been told yet, is the same event.                          *)
(***************************************************************************)
EXTENDS Integers

CONSTANTS
    Threads,    \* numbers: the lower one is served first
    Sets,
    Events      \* numbers: the lower one is taken first

VARIABLES
    enabled,    \* the events of each set that wake threads up
    pending,
    set,        \* the set that each thread asked last
    outcome,    \* what has become of that request
    got,        \* the event it was given
    given,      \* the events on their way to a thread, with their set
    raises      \* how often each event was raised, modulo 2

vars == <<enabled, pending, set, outcome, got, given, raises>>

Waiting(w) == {th \in Threads : set[th] = w /\ outcome[th] = "waiting"}
Free(th) == outcome[th] \notin {"calling", "waiting"}
First(S) == CHOOSE n \in S : \A m \in S : n <= m
Takeable(w) == pending[w] \intersect enabled[w]

Answer(th, o, ev) ==
    /\ outcome' = [outcome EXCEPT ![th] = o]
    /\ got' = [got EXCEPT ![th] = ev]
    /\ UNCHANGED set

NoAnswer == UNCHANGED <<set, outcome, got>>

Init ==
    /\ enabled \in [Sets -> SUBSET Events]
    /\ pending = [w \in Sets |-> {}]
    /\ set = [th \in Threads |-> 0]
    /\ outcome = [th \in Threads |-> "none"]
    /\ got = [th \in Threads |-> 0]
    /\ given = {}
    /\ raises = [w \in Sets |-> [ev \in Events |-> 0]]

(* A thread asks for an event, or is done with its last request. *)
Ask(th, w) ==
    /\ Free(th)
    /\ set' = [set EXCEPT ![th] = w]
    /\ outcome' = [outcome EXCEPT ![th] = "calling"]
    /\ got' = [got EXCEPT ![th] = 0]
    /\ UNCHANGED <<enabled, pending, given, raises>>
Forgotten(th) ==
    /\ Free(th)
    /\ set' = [set EXCEPT ![th] = 0]
    /\ outcome' = [outcome EXCEPT ![th] = "none"]
    /\ got' = [got EXCEPT ![th] = 0]
    /\ UNCHANGED <<given, raises>>
Forget(th) == Forgotten(th) /\ UNCHANGED <<enabled, pending>>

(* It is given one, or waits for one, at most until its time is over. *)
Take(th) ==
    LET w == set[th] IN
    /\ outcome[th] = "calling"
    /\ Takeable(w) # {}
    /\ pending' = [pending EXCEPT ![w] = @ \ {First(Takeable(w))}]
    /\ Answer(th, "event", First(Takeable(w)))
    /\ UNCHANGED <<enabled, given, raises>>
Block(th) ==
    /\ outcome[th] = "calling"
    /\ Takeable(set[th]) = {}
    /\ Answer(th, "waiting", 0)
    /\ UNCHANGED <<enabled, pending, given, raises>>
Timeout(th) ==
    /\ outcome[th] = "waiting"
    /\ Answer(th, "timeout", 0)
    /\ UNCHANGED <<enabled, pending, given, raises>>

Raise(w, ev) ==
    /\ raises' = [raises EXCEPT ![w][ev] = 1 - @]
    /\ \/ /\ ev \notin enabled[w] \/ Waiting(w) = {}
          /\ pending' = [pending EXCEPT ![w] = @ \union {ev}]
          /\ NoAnswer
       \/ /\ ev \in enabled[w] /\ Waiting(w) # {}
          /\ Answer(First(Waiting(w)), "event", ev)
          /\ UNCHANGED pending
       \/ <<w, ev>> \in given /\ NoAnswer /\ UNCHANGED pending
    /\ UNCHANGED <<enabled, given>>

(* Enabling a pending event gives it to the first waiting thread. *)
Enable(w, ev) ==
    /\ enabled' = [enabled EXCEPT ![w] = @ \union {ev}]
    /\ \/ /\ ev \notin pending[w] \/ ev \in enabled[w] \/ Waiting(w) = {}
          /\ NoAnswer
          /\ UNCHANGED <<pending, given>>
       \/ /\ ev \in pending[w] /\ ev \notin enabled[w] /\ Waiting(w) # {}
          /\ pending' = [pending EXCEPT ![w] = @ \ {ev}]
          /\ given' = given \union {<<w, ev>>}
          /\ Answer(First(Waiting(w)), "event", ev)
    /\ UNCHANGED raises
Told ==
    /\ given' = {}
    /\ NoAnswer
    /\ UNCHANGED <<enabled, pending, raises>>

Disable(th, w, ev) ==
    /\ Forgotten(th)
    /\ enabled' = [enabled EXCEPT ![w] = @ \ {ev}]
    /\ UNCHANGED pending
Clear(th, w, ev) ==
    /\ Forgotten(th)
    /\ pending' = [pending EXCEPT ![w] = @ \ {ev}]
    /\ UNCHANGED enabled

(* A set that nobody waits for starts afresh. *)
Reset(th, w) ==
    /\ Forgotten(th)
    /\ Waiting(w) = {}
    /\ enabled' = [enabled EXCEPT ![w] = Events]
    /\ pending' = [pending EXCEPT ![w] = {}]

Next ==
    \/ Told
    \/ \E w \in Sets, ev \in Events : Raise(w, ev) \/ Enable(w, ev)
    \/ \E th \in Threads :
          \/ Forget(th)
          \/ Take(th)
          \/ Block(th)
          \/ Timeout(th)
          \/ \E w \in Sets :
                \/ Ask(th, w)
                \/ Reset(th, w)
                \/ \E ev \in Events : Disable(th, w, ev) \/ Clear(th, w, ev)

Spec == Init /\ [][Next]_vars
=============================================================================
