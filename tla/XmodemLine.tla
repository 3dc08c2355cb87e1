----------------------------- MODULE XmodemLine -----------------------------
(***************************************************************************)
(* The serial line between the two ends of an XMODEM transfer              *)
(* (libxmodem): what the sender writes and what the receiver answers, in   *)
(* the order of the octets.                                                *)
(*                                                                         *)
(* Data is counted in blocks of 128 octets, of which the last may be only  *)
(* partly filled: it is padded.  A packet is "pkt" when it can             *)
(* be read as it was written, "damaged" when its check fails, "short" when *)
(* octets of it are missing, and "headless" when its first octet is not    *)
(* the SOH or STX that a packet begins with.                               *)
(***************************************************************************)
EXTENDS Integers, Sequences

CONSTANTS
    SEQ,        \* sequence numbers are counted modulo SEQ (256)
    Lengths     \* the numbers of blocks to be sent

ASSUME XmodemLineAssumption == SEQ \in Nat \ {0, 1} /\ Lengths \subseteq Nat

VARIABLES
    down,       \* from the sender to the receiver
    up          \* from the receiver to the sender

line == <<down, up>>

Kinds == {"pkt", "damaged", "short", "headless", "EOT", "CAN"}
Chars == {"C", "NAK", "ACK", "CAN", "junk"}

Blocks(n) == [i \in 1..n |-> i]

Pkt(seq, data) == [kind |-> "pkt", seq |-> seq, data |-> data]
Char(c) == [kind |-> c, seq |-> 0, data |-> << >>]

Ahead(kind) == down # << >> /\ Head(down).kind = kind

LineInit == down = << >> /\ up = << >>

LineTypeOK ==
    /\ down \in Seq([kind : Kinds, seq : 0..SEQ - 1, data : Seq(Nat)])
    /\ up \in Seq(Chars)
=============================================================================
