--------------------------- MODULE XmodemTransfer ---------------------------
(***************************************************************************)
(* A transfer: the sender and the receiver on a line that damages, cuts    *)
(* and loses what it carries, with devices that fail.                      *)
(*                                                                         *)
(* Both ends wait two seconds for each other, which is longer than a       *)
(* packet takes: an end times out when there is nothing on the line and    *)
(* the other end waits too, or has ended.  An application that is slower   *)
(* than that is one of the faults.                                         *)
(***************************************************************************)
EXTENDS XmodemSnd, XmodemRcv

CONSTANTS
    Faults,         \* the faults that may happen
    MAX_FAULTS      \* bound on their number

AllFaults == {"damage", "cut", "lose", "garble", "drop", "late", "device"}

ASSUME XmodemAssumption == Faults \subseteq AllFaults /\ MAX_FAULTS \in Nat

VARIABLES
    faults,     \* how many have happened
    misled      \* one of them may mislead the sender

faultVars == <<faults, misled>>
vars == <<line, sndVars, rcvVars, faultVars>>

Init == LineInit /\ SndInit /\ RcvInit /\ faults = 0 /\ misled = FALSE

(* An answer that the receiver sends again because a packet is lost, cut   *)
(* short or late is taken for that of this packet; and a packet sent again *)
(* without its first octet may be taken for the end, and acknowledged.     *)
Misleading ==
    {"cut", "lose", "late"} \union IF snd.make = "other" THEN {} ELSE {"damage"}

Fault(f) ==
    /\ f \in Faults /\ faults < MAX_FAULTS
    /\ faults' = faults + 1
    /\ misled' = (misled \/ f \in Misleading)

TypeOK ==
    /\ LineTypeOK /\ SndTypeOK /\ RcvTypeOK
    /\ faults \in 0..MAX_FAULTS /\ misled \in BOOLEAN

-----------------------------------------------------------------------------
(* A packet is damaged, cut short or lost; so is what announces the end. *)
Spoil ==
    /\ down # << >>
    /\ \/ /\ \E f \in {"damage", "cut"} :
                /\ Fault(f)
                /\ down' = [down EXCEPT ![1].kind =
                               IF f = "damage" THEN "damaged" ELSE "short"]
          /\ Head(down).kind = "pkt"
       \/ Fault("lose") /\ down' = Tail(down)
    /\ UNCHANGED <<up, sndVars, rcvVars>>

(* An answer is changed or lost. *)
SpoilAnswer ==
    /\ up # << >>
    /\ \/ Fault("garble") /\ up' = <<"junk">> \o Tail(up)
       \/ Fault("drop") /\ up' = Tail(up)
    /\ UNCHANGED <<down, sndVars, rcvVars>>

SndWaits == up = << >> /\ (SndAt("start") \/ SndAt("ack"))
RcvWaits == down = << >> /\ RcvAt("wait")

SndGivesUp ==
    /\ SndTimeout
    /\ \/ (RcvWaits \/ RcvEnded) /\ UNCHANGED faultVars
       \/ RcvAt("app") /\ Fault("late")
    /\ UNCHANGED rcvVars

RcvAsksAgain ==
    /\ RcvTimeout
    /\ \/ (SndWaits \/ SndEnded) /\ UNCHANGED faultVars
       \/ SndAt("app") /\ Fault("late")
    /\ UNCHANGED sndVars

Sender == SndStep /\ UNCHANGED <<rcvVars, faultVars>>
Receiver == RcvStep /\ UNCHANGED <<sndVars, faultVars>>

DeviceFails ==
    /\ Fault("device")
    /\ \/ SndFails /\ UNCHANGED rcvVars
       \/ RcvFails /\ UNCHANGED sndVars

Next ==
    \/ Sender
    \/ Receiver
    \/ SndGivesUp
    \/ RcvAsksAgain
    \/ DeviceFails
    \/ Spoil
    \/ SpoilAnswer

(* Both ends run, and time goes on. *)
Fairness ==
    /\ WF_vars(Sender) /\ WF_vars(Receiver)
    /\ WF_vars(SndGivesUp) /\ WF_vars(RcvAsksAgain)

Spec == Init /\ [][Next]_vars /\ Fairness

-----------------------------------------------------------------------------
(* What the application of the receiver has got is the beginning of what   *)
(* was sent: nothing is skipped, doubled or out of order, although         *)
(* sequence numbers wrap around, packets are sent again and answers are    *)
(* taken for those of other packets.                                       *)
Prefix == got = SubSeq(Blocks(snd.len), 1, Len(got))

(* A sender whose packets have all been acknowledged has its data on the   *)
(* other side, when answers are changed or lost, devices fail and, for a   *)
(* sender of another make, when packets are damaged.  The other faults     *)
(* mislead it.                                                             *)
AckedIsReceived == SndAt("done") /\ ~misled => got = Blocks(snd.len)

(* The transfer ends on both sides, whatever is lost. *)
BothEnd == <>(SndEnded /\ RcvEnded)

(* An EOT is the "end of transmission": the receiver reports success only  *)
(* when the sender has announced the end.                                  *)
EotIsTheEnd == RcvAt("done") => SndAt("done")
=============================================================================
