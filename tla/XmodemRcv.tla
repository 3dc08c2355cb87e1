----------------------------- MODULE XmodemRcv ------------------------------
(***************************************************************************)
(* The receiver (xmodem_rcv.c).  xmodem_rcv_pkt sends its sync character,  *)
(* which asks for the first packet or answers the last one, waits for a    *)
(* packet and checks it; the application gets the data from                *)
(* xmodem_rcv_loop, packet after packet.                                   *)
(***************************************************************************)
EXTENDS XmodemLine

CONSTANTS
    RCV_RETRY_INIT, \* errors allowed before the first packet (30)
    RCV_RETRY       \* errors allowed after a packet (10)

ASSUME XmodemRcvAssumption ==
    RCV_RETRY_INIT \in Nat \ {0} /\ RCV_RETRY \in Nat \ {0}

VARIABLES
    rcv,        \* the state of the receiver
    got         \* the data that the application has got

rcvVars == <<rcv, got>>

(* xmodem_rcv_init, in one of its modes. *)
RcvInit ==
    /\ \E sync \in {"C", "NAK"} :
          rcv = [pc |-> "app", sync |-> sync, pktno |-> 1 % SEQ,
                 retry |-> RCV_RETRY_INIT]
    /\ got = << >>

RcvTypeOK ==
    /\ rcv \in [pc : {"app", "sync", "wait", "flush", "error", "done", "failed"},
                sync : {"C", "NAK", "ACK"}, pktno : 0..SEQ - 1,
                retry : Nat]
    /\ got \in Seq(Nat)

RcvAt(pc) == rcv.pc = pc
RcvEnded == rcv.pc \in {"done", "failed"}

xmodem_rcv_loop ==
    /\ RcvAt("app")
    /\ rcv' = [rcv EXCEPT !.pc = "sync"]
    /\ UNCHANGED <<got, line>>

(* By an application that changes its mind or is told of an error. *)
xmodem_rcv_cancel ==
    /\ RcvAt("app") \/ RcvAt("error")
    /\ up' = Append(up, "CAN")
    /\ rcv' = [rcv EXCEPT !.pc = "failed"]
    /\ UNCHANGED <<got, down>>

SendSync ==
    /\ RcvAt("sync")
    /\ up' = Append(up, rcv.sync)
    /\ rcv' = [rcv EXCEPT !.pc = "wait"]
    /\ UNCHANGED <<got, down>>

-----------------------------------------------------------------------------
(* timeout: the sync is sent again, or too many errors are reported to the *)
(* sender (by three CANs, of which it looks at one) and to the caller.     *)
Again(r) ==
    IF r.retry = 1
    THEN /\ rcv' = [r EXCEPT !.retry = 0, !.pc = "failed"]
         /\ up' = Append(up, "CAN")
    ELSE /\ rcv' = [r EXCEPT !.retry = @ - 1, !.pc = "sync"]
         /\ up' = up

(* Nothing arrives, or not all of a packet: the sync stays as it is. *)
RcvTimeout ==
    /\ RcvAt("wait") /\ down = << >>
    /\ Again(rcv)
    /\ UNCHANGED <<got, down>>

RcvShort ==
    /\ RcvAt("wait") /\ Ahead("short")
    /\ down' = Tail(down)
    /\ Again(rcv)
    /\ UNCHANGED got

(* Mutant: the sync is not set to NAK. *)
RcvFlushSync ==
    /\ RcvAt("flush")
    /\ IF down # << >> THEN down' = Tail(down) /\ UNCHANGED <<rcv, up>>
       ELSE down' = down /\ Again(rcv)
    /\ UNCHANGED got

(* error: what arrives until the line is quiet is thrown away. *)
RcvFlush ==
    /\ RcvAt("flush")
    /\ IF down # << >> THEN down' = Tail(down) /\ UNCHANGED <<rcv, up>>
       ELSE down' = down /\ Again([rcv EXCEPT !.sync = "NAK"])
    /\ UNCHANGED got

(* Mutant: the sequence number is not compared with pktno. *)
DueAlways(seq) == TRUE

(* A packet that can be read: a retransmission is only acknowledged, one   *)
(* that is not due is an error.                                            *)
Retransmission(seq) == seq = (rcv.pktno - 1) % SEQ
Due(seq) == seq = rcv.pktno
RcvPacket ==
    LET p == Head(down) IN
    /\ RcvAt("wait") /\ Ahead("pkt")
    /\ down' = Tail(down)
    /\ \/ /\ Retransmission(p.seq)
          /\ rcv' = [rcv EXCEPT !.sync = "ACK", !.pc = "sync"]
          /\ UNCHANGED got
       \/ /\ ~Retransmission(p.seq) /\ Due(p.seq)
          /\ rcv' = [rcv EXCEPT !.pktno = (@ + 1) % SEQ, !.retry = RCV_RETRY,
                                !.sync = "ACK", !.pc = "app"]
          /\ got' = got \o p.data
       \/ /\ ~Retransmission(p.seq) /\ ~Due(p.seq)
          /\ rcv' = [rcv EXCEPT !.pc = "flush"]
          /\ UNCHANGED got
    /\ UNCHANGED up

RcvDamaged ==
    /\ RcvAt("wait") /\ Ahead("damaged")
    /\ down' = Tail(down)
    /\ rcv' = [rcv EXCEPT !.pc = "flush"]
    /\ UNCHANGED <<got, up>>

(* EOT *)
RcvEot ==
    /\ RcvAt("wait") /\ Ahead("EOT")
    /\ down' = Tail(down)
    /\ up' = Append(up, "ACK")
    /\ rcv' = [rcv EXCEPT !.pc = "done"]
    /\ UNCHANGED got

(* The device fails: no sync or answer is sent, nothing is read or not all *)
(* of a packet, or the flush ends early.                                   *)
RcvFails ==
    /\ \/ /\ RcvAt("sync") \/ RcvAt("wait")
          /\ rcv' = [rcv EXCEPT !.pc = "error"]
          /\ \/ down' = down
             \/ RcvAt("wait") /\ down # << >> /\ down' = Tail(down)
          /\ up' = up
       \/ /\ RcvAt("flush") /\ down # << >>
          /\ Again([rcv EXCEPT !.sync = "NAK"])
          /\ down' = down
    /\ UNCHANGED got

(* Without its first octet a packet is searched for SOH, STX and EOT, from *)
(* its sequence number on: the numbers 1 and 2 read like SOH and STX, 4    *)
(* like EOT, and in data there may be any or none of them (but not all of  *)
(* a packet that can be read).                                             *)
Reads(seq) ==
    CASE seq \in {1, 2} -> {"short", "damaged"}
      [] seq = 4 -> {"EOT"}
      [] OTHER -> {"short", "damaged", "EOT", "CAN"}
RcvHeadless ==
    /\ RcvAt("wait") /\ Ahead("headless")
    /\ \E kind \in Reads(Head(down).seq) :
          down' = <<Char(kind)>> \o Tail(down)
    /\ UNCHANGED <<rcvVars, up>>

(* Any other octet is skipped. *)
RcvSkip ==
    /\ RcvAt("wait") /\ Ahead("CAN")
    /\ down' = Tail(down)
    /\ UNCHANGED <<rcvVars, up>>

RcvStep ==
    \/ xmodem_rcv_loop
    \/ xmodem_rcv_cancel
    \/ SendSync
    \/ RcvShort
    \/ RcvFlush
    \/ RcvPacket
    \/ RcvDamaged
    \/ RcvEot
    \/ RcvHeadless
    \/ RcvSkip
=============================================================================
