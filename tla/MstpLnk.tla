------------------------------ MODULE MstpLnk -------------------------------
(***************************************************************************)
(* The MS/TP link layer (mstp_lnk.c): the token passing protocol of the    *)
(* stations of an RS-485 bus.  Each station runs mstp_lnk_loop, which      *)
(* waits for a frame or for the time limit of its state, and then makes    *)
(* the transitions of a state machine.                                     *)
(*                                                                         *)
(* The transitions have the names that the code's messages give them.  A   *)
(* station at transition_now has the program counter "step"; one that      *)
(* waits in mstp_frame_recv has "wait"; one whose loop has not begun,      *)
(* "init".  What a station keeps of a frame is its type and its addresses. *)
(* event_count and rx.off are only compared with N_MIN_OCTETS: event and   *)
(* off say whether they are above it.  The silence timer counts the time   *)
(* since silence_clk.                                                      *)
(***************************************************************************)
EXTENDS Integers, Sequences

CONSTANTS
    Stations,               \* the addresses of the stations on the bus
    N_MAX_MASTER, N_MAX_INFO_FRAMES, N_POLL, N_RETRY_TOKEN,
    T_NO_TOKEN, T_REPLY_DELAY, T_REPLY_TIMEOUT, T_SLOT, T_USAGE_TIMEOUT,
    T_USE_TOKEN             \* the 5 ms a sole master pauses

ASSUME MstpAssumption ==
    /\ N_MAX_MASTER \in Nat \ {0}
    /\ Stations \subseteq 0..N_MAX_MASTER
    /\ Stations # {}
    /\ N_MAX_INFO_FRAMES \in Nat \ {0}
    /\ N_POLL \in Nat \ {0, 1}
    /\ N_RETRY_TOKEN \in Nat
    /\ 0 < T_SLOT /\ T_SLOT < T_USAGE_TIMEOUT
    /\ T_USAGE_TIMEOUT < T_USE_TOKEN /\ T_USE_TOKEN < T_REPLY_DELAY
    /\ T_REPLY_DELAY <= T_REPLY_TIMEOUT /\ T_REPLY_TIMEOUT < T_NO_TOKEN

VARIABLES
    lnk,            \* the state and the local variables of each station's loop
    tx,             \* the frame that waits in lnk->tx, or NoFrame
    tx_flag,        \* lnk->tx.flag
    wire            \* the frames on the bus, and the stations that send them

mstpVars == <<lnk, tx, tx_flag, wire>>

MSTP_ADDR_BCAST == 255
States == {"INITIALIZE", "IDLE", "ANSWER_DATA_REQUEST", "NO_TOKEN",
           "POLL_FOR_MASTER", "PASS_TOKEN", "USE_TOKEN", "DONE_WITH_TOKEN",
           "WAIT_FOR_REPLY"}
FrameTypes == {"TOKEN", "POLL_FOR_MASTER", "REPLY_POLL_FOR_MASTER",
               "DATA_XPCT_REPLY", "DATA_NO_REPLY", "REPLY_POSTPONED"}
Addresses == 0..N_MAX_MASTER

Frame(type, dst, src) == [type |-> type, dst |-> dst, src |-> src]
NoFrame == Frame("none", MSTP_ADDR_BCAST, MSTP_ADDR_BCAST)
Garbled == Frame("garbled", MSTP_ADDR_BCAST, MSTP_ADDR_BCAST)
Silent == [frms |-> << >>, from |-> {}]

SlotTime(s) == T_NO_TOKEN + T_SLOT * s
LastSlot == SlotTime(N_MAX_MASTER + 1)

(* timer_ms[] *)
Timer(s, state) ==
    CASE state = "IDLE" -> T_NO_TOKEN
      [] state = "ANSWER_DATA_REQUEST" -> T_REPLY_DELAY
      [] state = "NO_TOKEN" -> SlotTime(s)
      [] state \in {"POLL_FOR_MASTER", "PASS_TOKEN"} -> T_USAGE_TIMEOUT
      [] state = "USE_TOKEN" -> T_USE_TOKEN
      [] state = "DONE_WITH_TOKEN" -> 0
      [] state = "WAIT_FOR_REPLY" -> T_REPLY_TIMEOUT
      [] OTHER -> T_NO_TOKEN

LnkInit(s) ==
    [pc |-> "init", state |-> "INITIALIZE", ns |-> s, ps |-> s,
     sole_master |-> FALSE, frame_count |-> 0, retry_count |-> 0,
     token_count |-> 0, event |-> FALSE, off |-> FALSE, silence |-> 0,
     frm |-> NoFrame, invalid |-> FALSE]

MstpInit ==
    /\ lnk = [s \in Stations |-> LnkInit(s)]
    /\ tx = [s \in Stations |-> NoFrame]
    /\ tx_flag = [s \in Stations |-> TRUE]
    /\ wire = Silent

SentFrames(from) ==
    [type : FrameTypes, dst : Addresses \union {MSTP_ADDR_BCAST}, src : from]

MstpTypeOK ==
    /\ lnk \in [Stations ->
                  [pc : {"init", "wait", "step"}, state : States,
                   ns : Addresses, ps : Addresses, sole_master : BOOLEAN,
                   frame_count : 0..N_MAX_INFO_FRAMES,
                   retry_count : 0..N_RETRY_TOKEN, token_count : 0..N_POLL,
                   event : BOOLEAN, off : BOOLEAN, silence : 0..LastSlot + 1,
                   frm : SentFrames(Stations) \union {NoFrame},
                   invalid : BOOLEAN]]
    /\ \A s \in Stations : tx[s] \in SentFrames({s}) \union {NoFrame}
    /\ tx_flag \in [Stations -> BOOLEAN]
    /\ wire.frms \in Seq(SentFrames(Stations) \union {Garbled})
    /\ wire.from \subseteq Stations

-----------------------------------------------------------------------------
(* mstp_fast_send and mstp_frame_send: the frame goes out to the bus, one  *)
(* after the other.  Two stations that send at the same time garble each   *)
(* other's frames.                                                         *)
Transmit(s, type, dst) ==
    wire' = IF wire.from \subseteq {s}
            THEN [frms |-> Append(wire.frms, Frame(type, dst, s)), from |-> {s}]
            ELSE [frms |-> <<Garbled>>, from |-> wire.from \union {s}]

Valid(s) == lnk[s].frm # NoFrame
At(s, state) == lnk[s].pc = "step" /\ lnk[s].state = state
Quiescent == wire' = wire /\ tx' = tx /\ tx_flag' = tx_flag
Queued == tx' = tx /\ tx_flag' = tx_flag

(* Mutant: the last address is never polled. *)
SuccShort(a) == (a + 1) % N_MAX_MASTER

(* The address after a. *)
Succ(a) == (a + 1) % (N_MAX_MASTER + 1)

(* goto transition_now, in another state. *)
Enter(l, state) == [l EXCEPT !.state = state]

(* break: back to the wait for a frame. *)
Wait(l, state) == [l EXCEPT !.state = state, !.pc = "wait"]

(* RESET_SILENCE_TIMER, and break. *)
Sent(l, state) == [l EXCEPT !.state = state, !.pc = "wait", !.silence = 0]

Set(s, l) == lnk' = [lnk EXCEPT ![s] = l]

(* rcvd_valid_frm = false, rcvd_invalid_frm = false *)
Taken(l) == [l EXCEPT !.frm = NoFrame]
Cleared(l) == [l EXCEPT !.invalid = FALSE]

-----------------------------------------------------------------------------
(* case MSTP_IDLE *)
ForMe(s) == lnk[s].frm.dst \in {s, MSTP_ADDR_BCAST}
Gets(s, types) == At(s, "IDLE") /\ Valid(s) /\ ForMe(s) /\ lnk[s].frm.type \in types

ReceivedToken(s) ==
    /\ Gets(s, {"TOKEN", "REPLY_POLL_FOR_MASTER"})
    /\ lnk[s].frm.dst # MSTP_ADDR_BCAST
    /\ Set(s, [Enter(Taken(lnk[s]), "USE_TOKEN")
               EXCEPT !.frame_count = 0, !.sole_master = FALSE])
    /\ Quiescent

(* Mutant: nobody answers. *)
ReceivedPFMIgnored(s) ==
    /\ Gets(s, {"POLL_FOR_MASTER"})
    /\ Set(s, Wait(Taken(lnk[s]), "IDLE"))
    /\ Quiescent

ReceivedPFM(s) ==
    /\ Gets(s, {"POLL_FOR_MASTER"})
    /\ Transmit(s, "REPLY_POLL_FOR_MASTER", lnk[s].frm.src)
    /\ Set(s, Sent(Taken(lnk[s]), "IDLE"))
    /\ Queued

ReceivedDataNoReply(s) ==
    /\ Gets(s, {"DATA_NO_REPLY"})
    /\ Set(s, Wait(Taken(lnk[s]), "IDLE"))
    /\ Quiescent

(* Only a broadcast request makes the station answer, with the frame kept. *)
Answers(dst) == dst = MSTP_ADDR_BCAST
ReceivedDataNeedingReply(s) ==
    /\ Gets(s, {"DATA_XPCT_REPLY"})
    /\ Set(s, IF Answers(lnk[s].frm.dst)
              THEN Wait(lnk[s], "ANSWER_DATA_REQUEST")
              ELSE Wait(Taken(lnk[s]), "IDLE"))
    /\ Quiescent

(* NotForMe, ReceivedUnwantedFrame, and a token for everybody *)
NotForMe(s) ==
    /\ At(s, "IDLE") /\ Valid(s)
    /\ \/ ~ForMe(s)
       \/ lnk[s].frm.type = "REPLY_POSTPONED"
       \/ /\ lnk[s].frm.type \in {"TOKEN", "REPLY_POLL_FOR_MASTER"}
          /\ lnk[s].frm.dst = MSTP_ADDR_BCAST
    /\ Set(s, Wait(Taken(lnk[s]), "IDLE"))
    /\ Quiescent

ReceivedInvalidFrame(s) ==
    /\ At(s, "IDLE") /\ ~Valid(s) /\ lnk[s].invalid
    /\ Set(s, Wait(Cleared(lnk[s]), "IDLE"))
    /\ Quiescent

LostToken(s) ==
    /\ At(s, "IDLE") /\ ~Valid(s) /\ ~lnk[s].invalid
    /\ lnk[s].silence >= T_NO_TOKEN
    /\ Set(s, [Enter(lnk[s], "NO_TOKEN") EXCEPT !.event = FALSE])
    /\ Quiescent

Idle(s) ==
    \/ ReceivedToken(s)
    \/ ReceivedPFM(s)
    \/ ReceivedDataNoReply(s)
    \/ ReceivedDataNeedingReply(s)
    \/ NotForMe(s)
    \/ ReceivedInvalidFrame(s)
    \/ LostToken(s)

-----------------------------------------------------------------------------
(* case MSTP_USE_TOKEN *)
NothingToSend(s) ==
    /\ At(s, "USE_TOKEN") /\ tx[s] = NoFrame
    /\ Set(s, [Enter(lnk[s], "DONE_WITH_TOKEN")
               EXCEPT !.frame_count = N_MAX_INFO_FRAMES])
    /\ Quiescent

(* The queue is free again, and the flag tells a sender that waits. *)
Freed(s) ==
    /\ tx' = [tx EXCEPT ![s] = NoFrame]
    /\ tx_flag' = [tx_flag EXCEPT ![s] = TRUE]

(* The frame's type and destination are copied to frm_type and dst_addr:   *)
(* they replace those of a frame that was received and not yet looked at.  *)
SendFrame(s) ==
    LET f == tx[s]
        l == [lnk[s] EXCEPT !.silence = 0, !.frame_count = @ + 1,
                            !.frm = IF Valid(s) THEN Frame(f.type, f.dst, @.src)
                                    ELSE NoFrame]
    IN
    /\ At(s, "USE_TOKEN") /\ f # NoFrame
    /\ Transmit(s, f.type, f.dst)
    /\ Freed(s)
    /\ Set(s, IF f.type = "DATA_XPCT_REPLY" /\ f.dst # MSTP_ADDR_BCAST
              THEN Wait(l, "WAIT_FOR_REPLY")        \* SendAndWait
              ELSE Enter(l, "DONE_WITH_TOKEN"))     \* SendNoWait

(* case MSTP_WAIT_FOR_REPLY *)
ReplyTimeout(s) ==
    /\ At(s, "WAIT_FOR_REPLY") /\ lnk[s].silence >= T_REPLY_TIMEOUT
    /\ Set(s, [Enter(lnk[s], "DONE_WITH_TOKEN")
               EXCEPT !.frame_count = N_MAX_INFO_FRAMES])
    /\ Quiescent

InvalidFrame(s) ==
    /\ At(s, "WAIT_FOR_REPLY") /\ lnk[s].silence < T_REPLY_TIMEOUT
    /\ lnk[s].invalid
    /\ Set(s, Enter(Cleared(lnk[s]), "DONE_WITH_TOKEN"))
    /\ Quiescent

(* ReceivedPostponed, ReceivedReply; any other frame says that the token   *)
(* is somebody else's (ReceivedUnexpectedFrame).                           *)
ReceivedReply(s) ==
    /\ At(s, "WAIT_FOR_REPLY") /\ lnk[s].silence < T_REPLY_TIMEOUT
    /\ ~lnk[s].invalid /\ Valid(s)
    /\ Set(s, Enter(Taken(lnk[s]),
                    IF /\ lnk[s].frm.dst = s
                       /\ lnk[s].frm.type \in {"REPLY_POSTPONED", "DATA_NO_REPLY"}
                    THEN "DONE_WITH_TOKEN" ELSE "IDLE"))
    /\ Quiescent

UseToken(s) ==
    \/ NothingToSend(s)
    \/ SendFrame(s)
    \/ ReplyTimeout(s)
    \/ InvalidFrame(s)
    \/ ReceivedReply(s)

-----------------------------------------------------------------------------
(* case MSTP_DONE_WITH_TOKEN *)
Done(s) == At(s, "DONE_WITH_TOKEN") /\ lnk[s].frame_count >= N_MAX_INFO_FRAMES
Unknown(s) == ~lnk[s].sole_master /\ lnk[s].ns = s

PollDue(s) == lnk[s].token_count >= N_POLL - 1

(* A Poll For Master frame to a, after which the station listens. *)
Poll(s, l, a) ==
    /\ Transmit(s, "POLL_FOR_MASTER", a)
    /\ Set(s, [Sent(l, "POLL_FOR_MASTER") EXCEPT !.ps = a, !.retry_count = 0])
    /\ Queued

(* A frame to the next station, after which it is expected to use the bus. *)
PassTo(s, l, type, a) ==
    /\ Transmit(s, type, a)
    /\ Set(s, [Sent(l, "PASS_TOKEN") EXCEPT !.event = FALSE])
    /\ Queued

SendAnotherFrame(s) ==
    /\ At(s, "DONE_WITH_TOKEN") /\ lnk[s].frame_count < N_MAX_INFO_FRAMES
    /\ Set(s, Enter(lnk[s], "USE_TOKEN"))
    /\ Quiescent

NextStationUnknown(s) ==
    /\ Done(s) /\ Unknown(s)
    /\ Poll(s, lnk[s], Succ(s))

SoleMaster(s) ==
    /\ Done(s) /\ ~Unknown(s) /\ ~PollDue(s)
    /\ lnk[s].sole_master /\ lnk[s].ns # Succ(s)
    /\ Set(s, [Enter(lnk[s], "USE_TOKEN")
               EXCEPT !.frame_count = 0, !.token_count = N_POLL])
    /\ Quiescent

SendToken(s) ==
    /\ Done(s) /\ ~Unknown(s) /\ ~PollDue(s)
    /\ ~lnk[s].sole_master \/ lnk[s].ns = Succ(s)
    /\ PassTo(s, [lnk[s] EXCEPT !.token_count = @ + 1, !.retry_count = 0],
              "TOKEN", lnk[s].ns)

SoleMasterRestartMaintenancePFM(s) ==
    /\ Done(s) /\ ~Unknown(s) /\ PollDue(s)
    /\ Succ(lnk[s].ps) = lnk[s].ns /\ lnk[s].sole_master
    /\ Poll(s, [lnk[s] EXCEPT !.ns = s, !.token_count = 1], Succ(lnk[s].ns))

ResetMaintenancePFM(s) ==
    /\ Done(s) /\ ~Unknown(s) /\ PollDue(s)
    /\ Succ(lnk[s].ps) = lnk[s].ns /\ ~lnk[s].sole_master
    /\ PassTo(s, [lnk[s] EXCEPT !.ps = s, !.token_count = 1, !.retry_count = 0],
              "POLL_FOR_MASTER", lnk[s].ns)

SendMaintenancePFM(s) ==
    /\ Done(s) /\ ~Unknown(s) /\ PollDue(s)
    /\ Succ(lnk[s].ps) # lnk[s].ns
    /\ Poll(s, lnk[s], Succ(lnk[s].ps))

DoneWithToken(s) ==
    \/ SendAnotherFrame(s)
    \/ NextStationUnknown(s)
    \/ SoleMaster(s)
    \/ SendToken(s)
    \/ SoleMasterRestartMaintenancePFM(s)
    \/ ResetMaintenancePFM(s)
    \/ SendMaintenancePFM(s)

-----------------------------------------------------------------------------
(* case MSTP_PASS_TOKEN *)
SawTokenUser(s) ==
    /\ At(s, "PASS_TOKEN") /\ lnk[s].event
    /\ Set(s, Enter(lnk[s], "IDLE"))
    /\ Quiescent

Unused(s) ==
    At(s, "PASS_TOKEN") /\ ~lnk[s].event /\ lnk[s].silence > T_USAGE_TIMEOUT

(* Mutant: one retry too many. *)
RetrySendTokenAgain(s) ==
    /\ Unused(s) /\ lnk[s].retry_count <= N_RETRY_TOKEN
    /\ PassTo(s, [lnk[s] EXCEPT !.retry_count = @ + 1], "TOKEN", lnk[s].ns)

RetrySendToken(s) ==
    /\ Unused(s) /\ lnk[s].retry_count < N_RETRY_TOKEN
    /\ PassTo(s, [lnk[s] EXCEPT !.retry_count = @ + 1], "TOKEN", lnk[s].ns)

FindNewSuccessor(s) ==
    /\ Unused(s) /\ lnk[s].retry_count >= N_RETRY_TOKEN
    /\ Poll(s, [lnk[s] EXCEPT !.ns = s, !.token_count = 0], Succ(lnk[s].ns))

(* case MSTP_NO_TOKEN *)
(* Mutant: the slots do not end where the next one begins. *)
InSlotAny(s) == lnk[s].silence >= T_NO_TOKEN

InSlot(s) ==
    /\ lnk[s].silence >= SlotTime(s)
    /\ lnk[s].silence < SlotTime(s + 1) \/ lnk[s].silence > LastSlot

SawFrame(s) ==
    /\ At(s, "NO_TOKEN") /\ lnk[s].event /\ ~InSlot(s)
    /\ Set(s, Enter(lnk[s], "IDLE"))
    /\ Quiescent

GenerateToken(s) ==
    /\ At(s, "NO_TOKEN") /\ InSlot(s)
    /\ Poll(s, [lnk[s] EXCEPT !.ns = s, !.token_count = 0], Succ(s))

PassToken(s) ==
    \/ SawTokenUser(s)
    \/ RetrySendToken(s)
    \/ FindNewSuccessor(s)
    \/ SawFrame(s)
    \/ GenerateToken(s)

-----------------------------------------------------------------------------
(* case MSTP_POLL_FOR_MASTER *)
Replied(s) == lnk[s].frm.dst = s /\ lnk[s].frm.type = "REPLY_POLL_FOR_MASTER"

ReceivedReplyToPFM(s) ==
    /\ At(s, "POLL_FOR_MASTER") /\ Valid(s) /\ Replied(s)
    /\ PassTo(s, [Taken(lnk[s]) EXCEPT
                     !.ns = lnk[s].frm.src, !.ps = s, !.token_count = 0,
                     !.retry_count = 0, !.sole_master = FALSE],
              "TOKEN", lnk[s].frm.src)

ReceivedUnexpectedFrame(s) ==
    /\ At(s, "POLL_FOR_MASTER") /\ Valid(s) /\ ~Replied(s)
    /\ Set(s, Enter(Taken(lnk[s]), "IDLE"))
    /\ Quiescent

Unanswered(s) ==
    /\ At(s, "POLL_FOR_MASTER") /\ ~Valid(s)
    /\ lnk[s].silence >= T_USAGE_TIMEOUT \/ lnk[s].invalid

(* A sole master pauses: it listens for a while in the state USE_TOKEN. *)
SoleMasterPause(s) ==
    /\ Unanswered(s) /\ lnk[s].sole_master
    /\ Set(s, [Sent(Cleared(lnk[s]), "USE_TOKEN") EXCEPT !.frame_count = 0])
    /\ Quiescent

DoneWithPFM(s) ==
    /\ Unanswered(s) /\ ~lnk[s].sole_master /\ lnk[s].ns # s
    /\ PassTo(s, [Cleared(lnk[s]) EXCEPT !.retry_count = 0], "TOKEN", lnk[s].ns)

SendNextPFM(s) ==
    /\ Unanswered(s) /\ Unknown(s) /\ Succ(lnk[s].ps) # s
    /\ Poll(s, Cleared(lnk[s]), Succ(lnk[s].ps))

DeclareSoleMaster(s) ==
    /\ Unanswered(s) /\ Unknown(s) /\ Succ(lnk[s].ps) = s
    /\ Set(s, [Enter(Cleared(lnk[s]), "USE_TOKEN")
               EXCEPT !.sole_master = TRUE, !.frame_count = 0])
    /\ Quiescent

PollForMaster(s) ==
    \/ ReceivedReplyToPFM(s)
    \/ ReceivedUnexpectedFrame(s)
    \/ SoleMasterPause(s)
    \/ DoneWithPFM(s)
    \/ SendNextPFM(s)
    \/ DeclareSoleMaster(s)

-----------------------------------------------------------------------------
(* case MSTP_ANSWER_DATA_REQUEST.  The frame sent here stays in lnk->tx.   *)
HasReply(s) ==
    lnk[s].silence < T_REPLY_DELAY /\ tx[s].type = "DATA_NO_REPLY"

Reply(s) ==
    /\ At(s, "ANSWER_DATA_REQUEST") /\ HasReply(s)
    /\ Transmit(s, tx[s].type, tx[s].dst)
    /\ Set(s, Sent(Taken(lnk[s]), "IDLE"))
    /\ Queued

DeferredReply(s) ==
    /\ At(s, "ANSWER_DATA_REQUEST") /\ lnk[s].silence >= T_REPLY_DELAY
    /\ Transmit(s, "REPLY_POSTPONED", lnk[s].frm.src)
    /\ Set(s, Sent(Taken(lnk[s]), "IDLE"))
    /\ Queued

AnswerDataRequest(s) == Reply(s) \/ DeferredReply(s)

-----------------------------------------------------------------------------
(* The conditions under which a pass through the switch changes nothing. *)
Unmoved(s) ==
    LET l == lnk[s] IN
    \/ l.state = "INITIALIZE"
    \/ l.state = "IDLE" /\ ~Valid(s) /\ ~l.invalid /\ l.silence < T_NO_TOKEN
    \/ /\ l.state = "WAIT_FOR_REPLY"
       /\ ~Valid(s) /\ ~l.invalid /\ l.silence < T_REPLY_TIMEOUT
    \/ l.state = "PASS_TOKEN" /\ ~l.event /\ l.silence <= T_USAGE_TIMEOUT
    \/ l.state = "NO_TOKEN" /\ ~l.event /\ ~InSlot(s)
    \/ /\ l.state = "POLL_FOR_MASTER"
       /\ ~Valid(s) /\ ~l.invalid /\ l.silence < T_USAGE_TIMEOUT
    \/ /\ l.state = "ANSWER_DATA_REQUEST"
       /\ ~HasReply(s) /\ l.silence < T_REPLY_DELAY

Listen(s) ==
    /\ lnk[s].pc = "step" /\ Unmoved(s)
    /\ Set(s, [lnk[s] EXCEPT !.pc = "wait"])
    /\ Quiescent

Transition(s) ==
    \/ Idle(s)
    \/ UseToken(s)
    \/ DoneWithToken(s)
    \/ PassToken(s)
    \/ PollForMaster(s)
    \/ AnswerDataRequest(s)
    \/ Listen(s)

-----------------------------------------------------------------------------
(* mstp_frame_recv: a frame, a damaged one, or none until the time is up.  *)
(* A frame is decoded when it arrives, as with the DMA serial driver that  *)
(* mstp_test.c opens; without DMA the buffer decoded is the one before.    *)
(* A time-out leaves lnk->rx.off as the last frame set it, and             *)
(* mstp_lnk_loop adds it to event_count once more.                         *)
Heard(l, f) ==
    [l EXCEPT !.pc = "step", !.frm = f, !.off = TRUE, !.event = TRUE, !.silence = 0]

Damaged(l, off) ==
    [l EXCEPT !.pc = "step", !.invalid = TRUE, !.off = off,
              !.event = @ \/ off, !.silence = 0]

TimedOut(l) == [l EXCEPT !.pc = "step", !.event = @ \/ l.off]

-----------------------------------------------------------------------------
(* The calls of the application.  mstp_lnk_send: once the flag is taken    *)
(* the queue is free.                                                      *)
mstp_lnk_send(s, type, dst) ==
    /\ tx_flag[s] /\ tx[s] = NoFrame
    /\ tx' = [tx EXCEPT ![s] = Frame(type, dst, s)]
    /\ tx_flag' = [tx_flag EXCEPT ![s] = FALSE]
    /\ UNCHANGED <<lnk, wire>>

(* mstp_lnk_resume, whatever the state, and the loop, when it had not      *)
(* begun.                                                                  *)
mstp_lnk_resume(s) ==
    /\ Set(s, IF lnk[s].pc = "init"
              THEN [lnk[s] EXCEPT !.state = "IDLE", !.pc = "wait"]
              ELSE Enter(lnk[s], "IDLE"))
    /\ Quiescent

(* mstp_lnk_stop: the loop goes on, in a state without transitions. *)
mstp_lnk_stop(s) ==
    /\ Set(s, Enter(lnk[s], "INITIALIZE"))
    /\ Quiescent
=============================================================================
