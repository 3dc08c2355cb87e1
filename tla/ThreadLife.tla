----------------------------- MODULE ThreadLife -----------------------------
(***************************************************************************)
(* What the kernel promises about the end of threads: a thread that has    *)
(* finished keeps its code until it ends, joining a thread lasts until     *)
(* that thread ends, and everybody who joins it gets its code.  A slot is  *)
(* used again only when nobody waits for its former thread any more.       *)
(***************************************************************************)
EXTENDS Integers

CONSTANTS
    Threads,
    Codes,      \* the codes threads end with
    NONE,       \* no thread
    EINTR       \* the result of a join that was broken

VARIABLES
    phase,      \* per slot: "free", or its thread is "alive" or "finished"
    code,       \* what a finished thread ends with
    joining,    \* the thread that each thread waits for
    got         \* the result of a thread's last join, or 0

vars == <<phase, code, joining, got>>

Init ==
    /\ \E main \in Threads :
          phase = [th \in Threads |-> IF th = main THEN "alive" ELSE "free"]
    /\ code = [th \in Threads |-> 0]
    /\ joining = [th \in Threads |-> NONE]
    /\ got = [th \in Threads |-> 0]

Waiting(th) == {t \in Threads : joining[t] = th}

(* The calls a thread makes end the interest in its last result. *)
Calls(f, th) == [f EXCEPT ![th] = 0]

Start(self, th) ==
    /\ phase[th] = "free"
    /\ Waiting(th) = {}
    /\ phase' = [phase EXCEPT ![th] = "alive"]
    /\ got' = Calls(Calls(got, self), th)
    /\ UNCHANGED <<code, joining>>

(* A thread finishes by itself or is canceled, also while it waits. *)
Finish(self, th, c) ==
    /\ phase[th] # "free"
    /\ phase' = [phase EXCEPT ![th] = "finished"]
    /\ code' = [code EXCEPT ![th] = c]
    /\ joining' = [joining EXCEPT ![th] = NONE]
    /\ got' = Calls(Calls(got, self), th)

(* It ends, with the code c. *)
Ends(self, th, c) ==
    LET W == Waiting(th) \ {th} IN
    /\ phase[th] # "free"
    /\ phase' = [phase EXCEPT ![th] = "free"]
    /\ code' = [code EXCEPT ![th] = 0]
    /\ joining' = [t \in Threads |-> IF t \in W \union {th} THEN NONE ELSE joining[t]]
    /\ got' = [t \in Threads |-> IF t \in W THEN c
                                 ELSE Calls(Calls(got, self), th)[t]]

(* A finished thread ends with its own code, any other is terminated. *)
End(th) == phase[th] = "finished" /\ Ends(th, th, code[th])
Kill(self, th) == \E c \in Codes : Ends(self, th, c)

Join(self, th) ==
    /\ phase[self] = "alive"
    /\ phase[th] # "free"
    /\ joining[self] = NONE
    /\ joining' = [joining EXCEPT ![self] = th]
    /\ got' = Calls(got, self)
    /\ UNCHANGED <<phase, code>>

(* Everybody who waits for the thread th is interrupted. *)
Interrupt(self, th) ==
    /\ joining' = [t \in Threads |-> IF joining[t] = th THEN NONE ELSE joining[t]]
    /\ got' = [t \in Threads |-> IF joining[t] = th THEN EINTR ELSE Calls(got, self)[t]]
    /\ UNCHANGED <<phase, code>>

Forget(self) ==
    /\ got' = Calls(got, self)
    /\ UNCHANGED <<phase, code, joining>>

Next ==
    \E self \in Threads :
        /\ joining[self] = NONE
        /\ \/ Forget(self)
           \/ End(self)
           \/ \E th \in Threads :
                 \/ Start(self, th)
                 \/ \E c \in Codes : Finish(self, th, c)
                 \/ Kill(self, th)
                 \/ Join(self, th)
                 \/ Interrupt(self, th)

Spec == Init /\ [][Next]_vars
=============================================================================
