----------------------------- MODULE IcmpBlock ------------------------------
(***************************************************************************)
(* The ICMP block (ethernet/icmp_block.vhd) behind the frame receiver.     *)
(* The words of a ping after its first go into a FIFO as they come in and  *)
(* into a running checksum; at the end of the frame the sender's address   *)
(* is registered and, once the transmitter is free, a frame generator      *)
(* sends the words back behind a new first word with the checksum.         *)
(*                                                                         *)
(* A word is known by its sender and its place in the ping's frame.  The   *)
(* checksum is the set of words added up; the first word of the reply      *)
(* carries no number, the checksum in it is kept as echo_sum.              *)
(***************************************************************************)
EXTENDS FrameReceiver, FrameGenerator

CONSTANT FifoDepth        \* words of fifo_32x256 (256 in the code)

ASSUME IcmpAssumption ==
  /\ HeaderConfig = {"ETH", "IP"} /\ IN_DLY = 3 /\ OUT_DLY = 0
  /\ FifoDepth \in Nat \ {0} /\ PAYLOAD_MAX_LEN > FifoDepth

\* The pings considered leave room in the FIFO: a longer one loses words.
ASSUME PingsFit ==
  \A f \in RxFrames : f.kind = "ICMP" => f.len - 10 < FifoDepth

VARIABLES
  fifo, fifo_q,                         \* contents and output register
  reply_wait, icmp_dest,                \* reply_buffer
  icmp_payload_rdy,                     \* trigger_icmp
  icmp_word_num,                        \* icmp_payload
  fr_eop_delayed, icmp_ping_delayed, icmp_sum, checksum,
  ping,        \* history: the ping being answered
  mixed,       \* history: words of another ping came in before the answer
               \* was complete, and are not all gone yet
  echo_sum     \* history: the checksum sent

icmpVars == <<rxVars, hgVars, fgVars, fifo, fifo_q, reply_wait, icmp_dest,
              icmp_payload_rdy, icmp_word_num, fr_eop_delayed,
              icmp_ping_delayed, icmp_sum, checksum, ping, mixed, echo_sum>>

NoDest == [mac |-> <<None, None>>, ip |-> <<None, None>>]
Echo == Word("echo", 0)
PingWord(n) == Word(rx_frame.from, n)

IcmpInit ==
  /\ RxInit /\ HgInit /\ FgInit
  /\ fifo = <<>> /\ fifo_q = NoWord
  /\ reply_wait = FALSE /\ icmp_dest = NoDest
  /\ icmp_payload_rdy = FALSE /\ icmp_word_num = 0
  /\ fr_eop_delayed = FALSE /\ icmp_ping_delayed = FALSE
  /\ icmp_sum = {} /\ checksum = {}
  /\ ping = rx_frame /\ mixed = FALSE /\ echo_sum = {}

-----------------------------------------------------------------------------
fifo_wrreq == data_valid /\ icmp_ping

\* Mutant: the length is that of the FIFO, without the new first word.
usedw_in_short == Len(fifo) % FifoDepth

\* usedw of a full FIFO is 0.
usedw_in == (Len(fifo) % FifoDepth) + 1

\* A read gives the word in the next clock; a write to a full FIFO is lost.
IcmpFifo ==
  LET rest == IF rdreq /\ fifo # <<>> THEN Tail(fifo) ELSE fifo
  IN  /\ fifo_q' = IF rdreq /\ fifo # <<>> THEN Head(fifo) ELSE fifo_q
      /\ fifo' = IF fifo_wrreq /\ Len(fifo) < FifoDepth
                   THEN Append(rest, PingWord(fr_word)) ELSE rest

\* Mutant: the answer is only started right after the ping.
TriggerIcmpAtOnce(tx_ready) ==
  icmp_payload_rdy' = (reply_wait /\ icmp_ping_delayed /\ tx_ready /\ ~fg_busy)

TriggerIcmp(tx_ready) ==
  icmp_payload_rdy' = (reply_wait /\ tx_ready /\ ~fg_busy)

\* The word the payload register takes on a read.
ReplyWord == IF icmp_word_num = 0 THEN Echo ELSE fifo_q

IcmpPayload ==
  /\ Pipeline(rdreq, ReplyWord)
  /\ icmp_word_num' = IF rdreq THEN icmp_word_num + 1
                      ELSE IF ~fg_busy THEN 0 ELSE icmp_word_num
  /\ echo_sum' = IF rdreq /\ icmp_word_num = 0 THEN checksum ELSE echo_sum

\* The sum is handed over one clock after the last word was added.
ChecksumComputer ==
  /\ fr_eop_delayed' = fr_eop
  /\ icmp_ping_delayed' = icmp_ping
  /\ IF fr_eop_delayed /\ icmp_ping_delayed
       THEN checksum' = icmp_sum /\ icmp_sum' = {}
       ELSE /\ icmp_sum' = IF fifo_wrreq THEN icmp_sum \cup {PingWord(fr_word)}
                                         ELSE icmp_sum
            /\ UNCHANGED checksum

ReplyBuffer ==
  CASE fg_busy -> reply_wait' = FALSE /\ UNCHANGED <<icmp_dest, ping>>
    [] ~fg_busy /\ ~reply_wait /\ icmp_ping /\ fr_eop ->
         /\ icmp_dest' = [mac |-> fr.mac, ip |-> fr.ip]
         /\ reply_wait' = TRUE
         /\ ping' = rx_frame
    [] OTHER -> UNCHANGED <<reply_wait, icmp_dest, ping>>

\* History: whether words of two pings met.
Answering == reply_wait \/ icmp_payload_rdy \/ fg_busy
InPing == rx_frame.kind = "ICMP" /\ (rx_pos > 10 \/ fr_eop \/ fr_eop_delayed)
Mixed ==
  mixed' = IF fifo = <<>> /\ ~Answering /\ ~InPing THEN FALSE
           ELSE mixed \/ (fifo_wrreq /\ Answering)

IcmpTick(tx_ready) ==
  /\ RxClock
  /\ IcmpFifo
  /\ TriggerIcmp(tx_ready)
  /\ IcmpPayload
  /\ ChecksumComputer
  /\ ReplyBuffer
  /\ FgMachine(icmp_payload_rdy, usedw_in)
  /\ HgClock(header_start, payload_length, 0)
  /\ FrameHistory(1, 0)
  /\ Mixed

\* A reset, not in the clock in which a header is started (see FrameStream).
IcmpReset ==
  /\ ~header_start
  /\ RxReset /\ FgReset /\ HgReset
  /\ fifo' = <<>> /\ fifo_q' = NoWord
  /\ reply_wait' = FALSE /\ icmp_dest' = NoDest
  /\ icmp_payload_rdy' = FALSE /\ icmp_word_num' = 0
  /\ fr_eop_delayed' = FALSE /\ icmp_ping_delayed' = FALSE
  /\ icmp_sum' = {} /\ checksum' = {}
  /\ mixed' = FALSE
  /\ UNCHANGED <<ping, echo_sum>>

IcmpNext == (\E tx_ready \in BOOLEAN : IcmpTick(tx_ready)) \/ IcmpReset
IcmpSpec == IcmpInit /\ [][IcmpNext]_icmpVars
FairIcmpSpec == IcmpSpec /\ WF_icmpVars(IcmpTick(TRUE))

-----------------------------------------------------------------------------
HeaderWords == 9
PingPayload(f) == {Word(f.from, n) : n \in 10 .. (f.len - 1)}

(***************************************************************************)
(* "The payload we return has to match what was sent to us": as long as    *)
(* the words of no other ping come in before the answer is complete, the   *)
(* answer goes to the sender of the ping, has the ping's length, and is    *)
(* the new first word with the checksum of exactly the ping's words,       *)
(* followed by these in order.                                             *)
(***************************************************************************)
PingEchoed ==
  (wrreq /\ ~mixed) =>
    LET k == sent - HeaderWords
    IN  /\ Len(frame) = HeaderWords + 1 + (ping.len - 10)
        /\ sent <= Len(frame)
        /\ icmp_dest = [mac |-> <<ping.from, ping.from>>,
                        ip |-> <<ping.from, ping.from>>]
        /\ k <= 0 => frame_word = frame[sent]
        /\ k = 1 => frame_word = Echo /\ echo_sum = PingPayload(ping)
        /\ k > 1 => frame_word = Word(ping.from, 8 + k)

(***************************************************************************)
(* A ping that was accepted is answered, if the transmitter is free again  *)
(* and again (a reset may take it back).                                   *)
(***************************************************************************)
PingIsAnswered ==
  reply_wait ~> (eop \/ (~reply_wait /\ fg_state = "IDLE" /\ frame = <<>>))
=============================================================================
