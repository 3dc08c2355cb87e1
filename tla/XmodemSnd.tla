----------------------------- MODULE XmodemSnd ------------------------------
(***************************************************************************)
(* The sender (xmodem_snd.c).  The application hands its data over in      *)
(* pieces to xmodem_snd_loop, which sends a packet whenever the buffer is  *)
(* full, and then calls xmodem_snd_eot, which sends what is left.          *)
(* xmodem_send_pkt waits for the receiver's first sync, then sends the     *)
(* packet and waits for the answer.  A read returns octets or an error:    *)
(* none of the drivers that libxmodem is used with returns without either  *)
(* (xmodem_send_pkt would then go on as if the packet were acknowledged,   *)
(* with the same sequence number).                                         *)
(*                                                                         *)
(* The receiver also works with senders of another make, on a host.  The   *)
(* one modelled here does the same but keeps the first octet of a packet   *)
(* that it sends again, and sends it again when there is no answer.        *)
(***************************************************************************)
EXTENDS XmodemLine

CONSTANTS
    BIG,            \* blocks in a packet of the mode XMODEM_SND_1K
    Senders,        \* "xmodem_snd", and "other" for one of another make
    SND_RETRY       \* NAKs after which a packet is given up (10)

ASSUME XmodemSndAssumption ==
    /\ BIG \in Nat \ {0, 1}
    /\ Senders \subseteq {"xmodem_snd", "other"}
    /\ SND_RETRY \in Nat \ {0}

VARIABLES
    snd,        \* the state of the sender
    todo        \* the data that the application has not handed over yet

sndVars == <<snd, todo>>

(* len is the number of blocks to be sent, the last of them only partly    *)
(* filled if part; pkt the part of the buffer that is being sent, or       *)
(* << >>; src what xmodem_snd_loop has still to copy.                      *)
SndInit ==
    /\ \E max \in {1, BIG}, make \in Senders, len \in Lengths, part \in BOOLEAN :
          snd = [make |-> make, len |-> len, part |-> part,
                 pc |-> "app", state |-> "IDLE",
                 seq |-> 1 % SEQ, retry |-> 0, data_max |-> max,
                 buf |-> << >>, src |-> << >>, pkt |-> << >>,
                 resent |-> FALSE, eot |-> FALSE]
    /\ todo = Blocks(snd.len)

SndTypeOK ==
    /\ snd \in [make : Senders, len : Lengths, part : BOOLEAN,
                pc : {"app", "start", "send", "ack", "flush", "error",
                      "done", "failed"},
                state : {"IDLE", "C", "NAK"}, seq : 0..SEQ - 1,
                retry : 0..SND_RETRY, data_max : {1, BIG}, buf : Seq(Nat),
                src : Seq(Nat), pkt : Seq(Nat), resent : BOOLEAN, eot : BOOLEAN]
    /\ Len(snd.buf) <= snd.data_max
    /\ todo \in Seq(Nat)

SndAt(pc) == snd.pc = pc
SndEnded == snd.pc \in {"done", "failed"}

(* The call of xmodem_send_pkt. *)
Sending(s, pkt) ==
    [s EXCEPT !.pc = IF s.state = "IDLE" THEN "start" ELSE "send",
              !.pkt = pkt, !.retry = 0, !.resent = FALSE]

(* Mutant: one block too many is copied. *)
FilledOver(s, rest) ==
    LET rem == s.data_max - Len(s.buf) + 1
        n == IF Len(s.src) < rem THEN Len(s.src) ELSE rem
        f == [s EXCEPT !.buf = @ \o SubSeq(s.src, 1, n),
                       !.src = SubSeq(@, n + 1, Len(@))]
    IN
    IF Len(f.buf) >= f.data_max THEN Sending(f, f.buf) ELSE [f EXCEPT !.pc = "app"]

(* Nothing follows the buffer, and its last block is only partly filled. *)
Partial(s, rest) == s.part /\ s.src = << >> /\ rest = << >>

(* The loop of xmodem_snd_loop: the buffer is filled from src, and sent    *)
(* when it is full; rest is what the application still has.                *)
Filled(s, rest) ==
    LET rem == s.data_max - Len(s.buf)
        n == IF Len(s.src) < rem THEN Len(s.src) ELSE rem
        f == [s EXCEPT !.buf = @ \o SubSeq(s.src, 1, n),
                       !.src = SubSeq(@, n + 1, Len(@))]
    IN
    IF Len(f.buf) = f.data_max /\ ~Partial(f, rest)
    THEN Sending(f, f.buf) ELSE [f EXCEPT !.pc = "app"]

xmodem_snd_loop ==
    /\ SndAt("app") /\ todo # << >>
    /\ \E n \in 1..Len(todo) :
          /\ todo' = SubSeq(todo, n + 1, Len(todo))
          /\ snd' = Filled([snd EXCEPT !.src = SubSeq(todo, 1, n)], todo')
    /\ UNCHANGED line

(* xmodem_snd_eot: what is left is padded and sent in packets of one       *)
(* block, or of data_max when all but the last block are full, ...         *)
Last(buf) == IF Len(buf) = BIG THEN buf ELSE <<Head(buf)>>
xmodem_snd_eot ==
    /\ SndAt("app") /\ todo = << >>
    /\ snd.buf # << >>
    /\ snd' = Sending([snd EXCEPT !.eot = TRUE], Last(snd.buf))
    /\ UNCHANGED <<todo, line>>

(* ... and the end is announced.  Nobody waits for its answer. *)
SendEot ==
    /\ SndAt("app") /\ todo = << >>
    /\ snd.buf = << >>
    /\ down' = Append(down, Char("EOT"))
    /\ snd' = [snd EXCEPT !.pc = "done", !.seq = 1 % SEQ, !.state = "IDLE"]
    /\ UNCHANGED <<todo, up>>

(* xmodem_snd_cancel, by an application that changes its mind or is told   *)
(* of an error.                                                            *)
xmodem_snd_cancel ==
    /\ (SndAt("app") /\ ~snd.eot) \/ SndAt("error")
    /\ down' = Append(down, Char("CAN"))
    /\ snd' = [snd EXCEPT !.pc = "failed", !.seq = 1 % SEQ, !.state = "IDLE",
                          !.buf = << >>]
    /\ UNCHANGED <<todo, up>>

-----------------------------------------------------------------------------
(* xmodem_send_pkt: "Wait for NAK or 'C'"; ...                             *)
WaitSync ==
    LET c == Head(up) IN
    /\ SndAt("start") /\ up # << >>
    /\ up' = Tail(up)
    /\ snd' = CASE c = "CAN" -> [snd EXCEPT !.pc = "error"]
                [] c \in {"C", "NAK"} -> [snd EXCEPT !.pc = "send", !.state = c]
                [] OTHER -> snd
    /\ UNCHANGED <<todo, down>>

(* ... the packet is sent.  The answer to it is received into its first    *)
(* octet, which is not set again before the packet is sent once more.      *)
Framed == IF snd.resent /\ snd.make = "xmodem_snd" THEN "headless" ELSE "pkt"
SendPacket ==
    /\ SndAt("send")
    /\ down' = Append(down, [Pkt(snd.seq, snd.pkt) EXCEPT !.kind = Framed])
    /\ snd' = [snd EXCEPT !.pc = "ack"]
    /\ UNCHANGED <<todo, up>>

(* The packet is out of the way: back to the loop that sent it. *)
Acked(s) ==
    LET t == [s EXCEPT !.seq = (@ + 1) % SEQ, !.pkt = << >>,
                       !.buf = SubSeq(@, Len(s.pkt) + 1, Len(@))]
    IN
    IF t.src # << >> THEN Filled(t, todo) ELSE [t EXCEPT !.pc = "app"]

(* A NAK, up to a limit, makes it send the packet again. *)
MayResend == snd.retry + 1 < SND_RETRY
Resend(s) == [s EXCEPT !.pc = "send", !.retry = @ + 1, !.resent = TRUE]

WaitAck ==
    LET c == Head(up) IN
    /\ SndAt("ack") /\ up # << >>
    /\ up' = Tail(up)
    /\ snd' = CASE c = "ACK" -> Acked(snd)
                [] c = "NAK" /\ MayResend -> Resend(snd)
                [] OTHER -> [snd EXCEPT !.pc = "flush"]
    /\ UNCHANGED <<todo, down>>

(* error: what arrives until the line is quiet is thrown away. *)
SndFlush ==
    /\ SndAt("flush")
    /\ IF up # << >> THEN up' = Tail(up) /\ snd' = snd
       ELSE up' = up /\ snd' = [snd EXCEPT !.pc = "error"]
    /\ UNCHANGED <<todo, down>>

(* Mutant: the wait begins again, without limit. *)
SndTimeoutWaits ==
    /\ SndAt("start") \/ SndAt("ack")
    /\ up = << >>
    /\ UNCHANGED <<snd, todo, line>>

(* The time limit of either wait: the error is returned as it is, since it *)
(* is compared with the positive ETIMEDOUT.                                *)
SndTimeout ==
    /\ SndAt("start") \/ SndAt("ack")
    /\ up = << >>
    /\ snd' = IF snd.make = "other" /\ SndAt("ack") /\ MayResend
              THEN Resend(snd) ELSE [snd EXCEPT !.pc = "error"]
    /\ UNCHANGED <<todo, line>>

(* The device fails: a packet is not sent, or only its beginning, or no    *)
(* answer is read; the flush ends early; the end is not announced.         *)
SndFails ==
    /\ \/ snd.pc \in {"start", "send", "ack", "flush"}
       \/ SndAt("app") /\ todo = << >> /\ snd.buf = << >>
    /\ \/ down' = down
       \/ SndAt("send") /\ down' = Append(down, Char("short"))
    /\ snd' = [snd EXCEPT !.pc = "error"]
    /\ UNCHANGED <<todo, up>>

SndStep ==
    \/ xmodem_snd_loop
    \/ xmodem_snd_eot
    \/ SendEot
    \/ xmodem_snd_cancel
    \/ WaitSync
    \/ SendPacket
    \/ WaitAck
    \/ SndFlush
=============================================================================
