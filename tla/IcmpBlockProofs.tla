--------------------------- MODULE IcmpBlockProofs --------------------------
(***************************************************************************)
(* The ICMP block for every set of stations and of pings that fit into its *)
(* FIFO: an answer that no other ping met is the ping's own.               *)
(*                                                                         *)
(* Of the lemmas of FrameStreamProofs those about the control of the two   *)
(* generators serve here, whatever is in the FIFO; the variable and the    *)
(* bounds of FrameStream play no part.                                     *)
(***************************************************************************)
EXTENDS IcmpBlock, FrameReceiverProofs, FrameStreamProofs

-----------------------------------------------------------------------------
(***************************************************************************)
(* The ping coming in.                                                     *)
(***************************************************************************)
\* A ping for us of which a word after its first is there.
IsPingFor(f) == f.kind = "ICMP" /\ f.ours
Incoming == InFrame /\ IsPingFor(rx_frame) /\ Received > 10

\* Its words in the FIFO: all but the one on the receiver's output.
Collected ==
  IF Incoming THEN Received - 10 - (IF fifo_wrreq THEN 1 ELSE 0) ELSE 0

\* icmp_ping comes with a word of it, and is there with the last.
RxPing ==
  /\ icmp_ping => data_valid /\ Incoming /\ fr_word = Received - 1
  /\ (Incoming /\ fr_eop) => icmp_ping
  /\ fr_eop_delayed => ~InFrame \/ Received = 1

\* The sum is that of the words in the FIFO until it is handed over.
Handing == fr_eop_delayed /\ icmp_ping_delayed
SumOf(f, n) == {Word(f.from, k) : k \in 10 .. (9 + n)}
SumInv ==
  ~Handing => icmp_sum = SumOf(rx_frame, Collected)

(***************************************************************************)
(* The answer, whatever the FIFO holds.                                    *)
(***************************************************************************)
PingWords == [kind : Stations, n : Nat]
ControlInv ==
  /\ fifo \in Seq(PingWords) /\ icmp_word_num \in Nat
  /\ fg_busy \in BOOLEAN
  /\ ~fg_busy => fg_state = "IDLE"
  /\ icmp_payload_rdy => reply_wait /\ icmp_word_num = 0
  /\ reply_wait => (fg_state = "IDLE" /\ ~fg_busy) \/ header_start
  /\ fg_state \in Active => payload_length >= 1 /\ icmp_word_num = Got
  /\ wrreq => fg_state \in Active
  /\ (reply_wait \/ fg_state \in Active) =>
       /\ ping \in RxFrames /\ IsPingFor(ping)
       /\ icmp_dest = [mac |-> <<ping.from, ping.from>>,
                       ip |-> <<ping.from, ping.from>>]

(***************************************************************************)
(* The data, as long as no other ping comes in.                            *)
(***************************************************************************)
\* q is n words of ping f from the one after the r-th.
Holds(q, f, r, n) ==
  /\ q \in Seq(PingWords) /\ Len(q) = n
  /\ \A k \in 1 .. n : q[k] = Word(f.from, 9 + r + k)

PingLen == ping.len - 10
\* The k-th payload word of the answer to f.
AnswerWord(f, k) == IF k = 1 THEN Echo ELSE Word(f.from, 8 + k)

\* Between two pings, and while one comes in.
Collecting ==
  ~Answering => Holds(fifo, rx_frame, 0, Collected)

\* The whole ping waits for the transmitter.
Waiting ==
  /\ Handing => /\ reply_wait /\ ~icmp_payload_rdy /\ fg_state = "IDLE"
                /\ icmp_sum = PingPayload(ping)
  /\ reply_wait =>
       /\ Holds(fifo, ping, 0, PingLen)
       /\ ~Handing => checksum = PingPayload(ping)

\* What of it has been read, and where those words are.
Reading ==
  /\ fg_state \in Active =>
       /\ payload_length = PingLen + 1
       /\ checksum = PingPayload(ping)
       /\ Holds(fifo, ping, AtMost(PingLen, Got), PingLen - AtMost(PingLen, Got))
       /\ Got >= 1 => /\ fifo_q = Word(ping.from, 9 + AtMost(PingLen, Got))
                      /\ echo_sum = PingPayload(ping)
  /\ fg_state \in PayloadStates =>
       \A i \in 1 .. 2 :
         Clk > i => pipe[i] = AnswerWord(ping, AtMost(payload_length, Clk - i))
  /\ fg_state = "WRITE_PAYLOAD" => frame_word = AnswerWord(ping, fg_words + 1)
  /\ (fg_busy /\ fg_state \notin Active) => fifo = <<>>

OwnPing ==
  /\ Answering => Collected = 0
  /\ Collecting /\ Waiting /\ Reading

IcmpInv ==
  /\ RxInv /\ GenInv
  /\ RxPing /\ SumInv /\ ControlInv
  /\ ~mixed => OwnPing

-----------------------------------------------------------------------------
(* The ping coming in *)

\* A word in the FIFO's input is the next of the ping.
LEMMA PingFacts ==
  ASSUME RxInv, RxPing
  PROVE  /\ Received \in Nat /\ Collected \in Nat
         /\ rx_frame \in RxFrames /\ rx_frame.len \in Nat
         /\ fifo_wrreq <=> icmp_ping
         /\ fifo_wrreq => Incoming /\ Received = 11 + Collected /\ fr_word = 10 + Collected
         /\ (Incoming /\ ~fifo_wrreq) => Received = 10 + Collected
         /\ ~Incoming => Collected = 0
         /\ Incoming => Received <= rx_frame.len
         /\ fr_eop => Received = rx_frame.len
         /\ fr_eop_delayed => Collected = 0 /\ ~fifo_wrreq /\ ~fr_eop
<1>1. /\ rx_frame \in RxFrames /\ rx_pos \in 0 .. (rx_frame.len - 1)
      /\ fr_eop => rx_pos = 0
  BY DEF RxInv, RxPlace
<1>2. rx_frame.len \in Nat /\ rx_frame.len >= 11
  BY <1>1, FrameFacts
<1>3. Received \in Nat /\ Received <= rx_frame.len
  BY <1>1, <1>2 DEF Received
<1>4. fifo_wrreq <=> icmp_ping
  BY DEF RxPing, fifo_wrreq
<1>5. fifo_wrreq => Incoming /\ Received = 11 + Collected /\ fr_word = 10 + Collected
  <2> SUFFICES ASSUME fifo_wrreq
               PROVE  Incoming /\ Received = 11 + Collected /\ fr_word = 10 + Collected
    OBVIOUS
  <2>1. Incoming /\ fr_word = Received - 1
    BY <1>4 DEF RxPing
  <2>2. Collected = Received - 10 - 1
    BY <2>1 DEF Collected
  <2> QED BY <1>3, <2>1, <2>2
<1>6. (Incoming /\ ~fifo_wrreq) => Received = 10 + Collected
  BY <1>3 DEF Collected
<1>7. ~Incoming => Collected = 0
  BY DEF Collected
<1>8. Collected \in Nat
  BY <1>3, <1>5, <1>7 DEF Collected, Incoming
<1>9. fr_eop => Received = rx_frame.len
  BY <1>1 DEF Received
<1>10. fr_eop_delayed => ~Incoming /\ ~fr_eop
  BY <1>1, <1>2, <1>9 DEF RxPing, Incoming, InFrame
<1> QED BY <1>1, <1>2, <1>3, <1>4, <1>5, <1>6, <1>7, <1>8, <1>9, <1>10

\* From its eleventh word on a ping for us is recognised, and nothing else.
LEMMA PingSeen ==
  ASSUME RxInv, RxPing, NEW f \in RxFrames, RxWord(f)
  PROVE  /\ icmp_ping' <=> (IsPingFor(f) /\ rx_pos >= 10)
         /\ icmp_ping' => data_valid'
<1>1. /\ rx_pos \in Nat /\ word_num = rx_pos
      /\ rx_pos > 0 => f = rx_frame /\ InFrame /\ Received = rx_pos
  BY PlaceStep DEF RxInv, RxPlace
<1>2. /\ icmp_ping' = ((IsPing \/ icmp_ping) /\ word_num # 0)
      /\ data_valid' = PassesOn
  BY DEF RxWord
<1>3. rx_pos > 0 => Parsed(fr, f, rx_pos)
  BY <1>1 DEF RxInv
<1>4. f.kind \in FrameKinds /\ f.ours \in BOOLEAN
  BY FrameFacts
<1>5. IsPing <=> (IsPingFor(f) /\ rx_pos >= 10)
  <2>1. CASE rx_pos >= 10
    <3>1. Parsed(fr, f, rx_pos) /\ fr.ethertype = EtherType(f)
      BY <1>1, <1>3, <2>1 DEF Parsed
    <3>2. f.kind \notin ARP => fr.protocol = f.kind /\ fr.dest_ip = DestIp(f)
      BY <1>1, <2>1, <3>1 DEF Parsed
    <3>3. f.kind = "ICMP" => fr.icmptype = "ECHO_REQUEST"
      BY <1>1, <2>1, <3>1 DEF Parsed, ARP
    <3>4. f.kind \in ARP => ~IsPing /\ f.kind # "ICMP"
      BY <3>1 DEF EtherType, IsPing, ARP
    <3>5. f.kind \notin ARP => fr.ethertype = "IPv4"
      BY <3>1 DEF EtherType
    <3> QED BY <1>1, <1>4, <2>1, <3>2, <3>3, <3>4, <3>5
            DEF IsPing, IsPingFor, DestIp
  <2>2. CASE ~(rx_pos >= 10)
    BY <1>1, <2>2 DEF IsPing
  <2> QED BY <2>1, <2>2
<1>6. (icmp_ping /\ word_num # 0) => IsPing
  <2> SUFFICES ASSUME icmp_ping, word_num # 0 PROVE IsPing
    OBVIOUS
  <2>1. rx_pos > 0 /\ f = rx_frame /\ Received = rx_pos
    BY <1>1
  <2>2. IsPingFor(f) /\ rx_pos > 10
    BY <2>1 DEF RxPing, Incoming
  <2> QED BY <1>1, <1>5, <2>2
<1>7. IsPing => word_num # 0 /\ PassesOn
  BY <1>1 DEF IsPing, IsUdp, PassesOn
<1> QED BY <1>2, <1>5, <1>6, <1>7

\* The words collected grow by the one in the FIFO's input, until the frame
\* has ended.
LEMMA PingStep ==
  ASSUME RxInv, RxPing, RxClock, fr_eop_delayed' = fr_eop
  PROVE  /\ RxPing'
         /\ fr_eop => Collected' = 0
         /\ (~fr_eop /\ fifo_wrreq) => Collected' = Collected + 1 /\ rx_frame' = rx_frame
         /\ (~fr_eop /\ ~fifo_wrreq) =>
              /\ Collected' = Collected
              /\ Collected > 0 => rx_frame' = rx_frame
<1> USE PingFacts
<1>0. rx_pos \in Nat /\ (fr_eop => rx_pos = 0)
  BY FrameFacts DEF RxInv, RxPlace
<1>1. CASE RxGap
  <2>1. /\ rx_frame' = rx_frame /\ rx_pos' = rx_pos /\ ~data_valid' /\ ~icmp_ping'
        /\ ~fr_eop'
    BY <1>1 DEF RxGap
  <2>2. Received' = Received /\ (InFrame' <=> rx_pos > 0)
    BY <2>1 DEF Received, InFrame
  <2>3. RxPing'
    BY <1>0, <2>1, <2>2 DEF RxPing
  <2>4. ~fifo_wrreq'
    BY <2>1 DEF fifo_wrreq
  <2>5. CASE fr_eop
    <3>1. ~InFrame'
      BY <1>0, <2>2, <2>5
    <3>2. ~Incoming'
      BY <3>1 DEF Incoming
    <3> QED BY <2>3, <2>5, <3>2 DEF Collected
  <2>6. CASE ~fr_eop
    <3>1. Incoming' <=> Incoming
      BY <2>1, <2>2, <2>6 DEF Incoming, InFrame
    <3>2. Collected' = IF Incoming THEN Received - 10 - 0 ELSE 0
      BY <2>2, <2>4, <3>1 DEF Collected
    <3> QED BY <2>1, <2>3, <2>6, <3>2
  <2> QED BY <2>5, <2>6
<1>2. ASSUME NEW f \in RxFrames, RxWord(f)
      PROVE  /\ RxPing'
             /\ fr_eop => Collected' = 0
             /\ (~fr_eop /\ fifo_wrreq) => Collected' = Collected + 1 /\ rx_frame' = rx_frame
             /\ (~fr_eop /\ ~fifo_wrreq) =>
                  /\ Collected' = Collected
                  /\ Collected > 0 => rx_frame' = rx_frame
  <2>1. /\ rx_frame' = f /\ InFrame' /\ Received' = rx_pos + 1
        /\ rx_pos > 0 => f = rx_frame /\ InFrame /\ Received = rx_pos
    BY <1>2, PlaceStep
  <2>2. /\ icmp_ping' <=> (IsPingFor(f) /\ rx_pos >= 10)
        /\ icmp_ping' => data_valid'
        /\ fr_word' = rx_pos
    BY <1>2, PingSeen DEF RxWord
  <2>3. Incoming' <=> (IsPingFor(f) /\ rx_pos >= 10)
    BY <1>0, <2>1 DEF Incoming
  <2>4. fifo_wrreq' <=> Incoming'
    BY <2>2, <2>3 DEF fifo_wrreq
  <2>5. RxPing'
    <3>1. Received' - 1 = rx_pos
      BY <1>0, <2>1
    <3>2. fr_eop => Received' = 1
      BY <1>0, <2>1
    <3> QED BY <2>1, <2>2, <2>3, <3>1, <3>2 DEF RxPing
  <2>6. /\ Incoming' => Collected' = rx_pos - 10
        /\ ~Incoming' => Collected' = 0
    <3>1. Collected' = IF Incoming' THEN Received' - 10 - (IF fifo_wrreq' THEN 1 ELSE 0)
                                    ELSE 0
      BY DEF Collected
    <3>2. CASE Incoming'
      <4>1. Collected' = (rx_pos + 1) - 10 - 1
        BY <2>1, <2>4, <3>1, <3>2
      <4> QED BY <1>0, <3>2, <4>1
    <3>3. CASE ~Incoming'
      BY <3>1, <3>3
    <3> QED BY <3>2, <3>3
  <2>7. CASE rx_pos = 0
    <3>1. Collected' = 0
      BY <2>3, <2>6, <2>7
    <3>2. ~fr_eop => ~Incoming
      BY <2>7 DEF Incoming, InFrame
    <3> QED BY <2>5, <3>1, <3>2
  <2>8. CASE rx_pos > 0
    <3>1. ~fr_eop /\ f = rx_frame /\ Received = rx_pos /\ InFrame
      BY <1>0, <2>1, <2>8
    <3>2. Incoming <=> (IsPingFor(f) /\ rx_pos > 10)
      BY <3>1 DEF Incoming
    <3>3. CASE Incoming
      <4>1. Incoming' /\ rx_pos > 10
        BY <1>0, <2>3, <3>2, <3>3
      <4>2. Collected' = rx_pos - 10
        BY <1>0, <2>6, <4>1
      <4> QED BY <1>0, <2>1, <2>5, <3>1, <3>3, <4>2
    <3>4. CASE ~Incoming
      <4>1. Incoming' => rx_pos = 10
        BY <1>0, <2>3, <3>2, <3>4
      <4>2. Collected' = 0
        BY <2>6, <4>1
      <4> QED BY <2>5, <3>1, <3>4, <4>2
    <3> QED BY <3>3, <3>4
  <2> QED BY <1>0, <2>7, <2>8
<1> QED BY <1>1, <1>2 DEF RxClock

-----------------------------------------------------------------------------
(* The sum *)

\* One more word in the sum.
LEMMA SumMore ==
  ASSUME NEW f, NEW c \in Nat
  PROVE  SumOf(f, c) \cup {Word(f.from, 10 + c)} = SumOf(f, c + 1)
<1>1. 10 .. (9 + (c + 1)) = (10 .. (9 + c)) \cup {10 + c}
  OBVIOUS
<1> QED BY <1>1 DEF SumOf

\* No word, no sum; all words, the sum of the ping.
LEMMA SumEnds ==
  ASSUME NEW f
  PROVE  /\ SumOf(f, 0) = {}
         /\ f.len \in Nat => SumOf(f, f.len - 10) = PingPayload(f)
<1>1. SumOf(f, 0) = {}
  BY DEF SumOf
<1>2. ASSUME f.len \in Nat PROVE 9 + (f.len - 10) = f.len - 1
  BY <1>2
<1> QED BY <1>1, <1>2 DEF SumOf, PingPayload

\* The sum follows the words collected, and is whole when it is handed over.
LEMMA SumStep ==
  ASSUME RxInv, RxPing, SumInv, RxClock, ChecksumComputer
  PROVE  /\ SumInv'
         /\ Handing' => icmp_sum' = PingPayload(rx_frame)
         /\ checksum' = IF Handing THEN icmp_sum ELSE checksum
<1> USE PingFacts
<1>1. /\ fr_eop_delayed' = fr_eop /\ icmp_ping_delayed' = icmp_ping
      /\ Handing => checksum' = icmp_sum /\ icmp_sum' = {}
      /\ ~Handing =>
           /\ checksum' = checksum
           /\ icmp_sum' = IF fifo_wrreq THEN icmp_sum \cup {PingWord(fr_word)}
                                        ELSE icmp_sum
  BY DEF ChecksumComputer, Handing
<1>2. /\ fr_eop => Collected' = 0
      /\ (~fr_eop /\ fifo_wrreq) => Collected' = Collected + 1 /\ rx_frame' = rx_frame
      /\ (~fr_eop /\ ~fifo_wrreq) =>
              /\ Collected' = Collected
              /\ Collected > 0 => rx_frame' = rx_frame
  BY <1>1, PingStep
<1>3. CASE Handing
  <2>1. ~fr_eop /\ ~fifo_wrreq /\ Collected' = 0
    BY <1>2, <1>3 DEF Handing
  <2>2. ~Handing'
    BY <1>1, <2>1 DEF Handing
  <2> QED BY <1>1, <1>3, <2>1, <2>2, SumEnds DEF SumInv
<1>4. CASE ~Handing /\ fifo_wrreq
  <2>1. icmp_sum' = SumOf(rx_frame, Collected) \cup {Word(rx_frame.from, 10 + Collected)}
    BY <1>1, <1>4 DEF SumInv, PingWord
  <2>2. icmp_sum' = SumOf(rx_frame, Collected + 1)
    BY <2>1, SumMore
  <2>3. CASE fr_eop
    <3>1. Handing'
      BY <1>1, <1>4, <2>3 DEF Handing
    <3>2. Collected + 1 = rx_frame.len - 10
      BY <1>4, <2>3
    <3> QED BY <1>1, <1>4, <2>2, <3>1, <3>2, SumEnds DEF SumInv
  <2>4. CASE ~fr_eop
    BY <1>1, <1>2, <1>4, <2>2, <2>4 DEF SumInv, Handing
  <2> QED BY <2>3, <2>4
<1>5. CASE ~Handing /\ ~fifo_wrreq
  <2>1. icmp_sum' = SumOf(rx_frame, Collected) /\ ~Handing'
    BY <1>1, <1>5 DEF SumInv, Handing
  <2>2. CASE fr_eop
    <3>1. ~Incoming
      BY <1>5, <2>2 DEF RxPing
    <3>2. Collected = 0 /\ Collected' = 0
      BY <1>2, <2>2, <3>1
    <3> QED BY <1>1, <1>5, <2>1, <3>2, SumEnds DEF SumInv
  <2>3. CASE ~fr_eop
    <3>1. Collected' = Collected /\ (Collected > 0 => rx_frame' = rx_frame)
      BY <1>2, <1>5, <2>3
    <3>2. CASE Collected = 0
      BY <1>1, <1>5, <2>1, <3>1, <3>2, SumEnds DEF SumInv
    <3>3. CASE Collected > 0
      BY <1>1, <1>5, <2>1, <3>1, <3>3 DEF SumInv
    <3> QED BY <3>2, <3>3
  <2> QED BY <2>2, <2>3
<1> QED BY <1>3, <1>4, <1>5

-----------------------------------------------------------------------------
(* The FIFO *)

\* The length handed to the frame generator: there is always a first word,
\* and the frame is never cut.
LEMMA UsedwFacts ==
  ASSUME fifo \in Seq(PingWords)
  PROVE  /\ usedw_in \in Nat /\ usedw_in >= 1 /\ usedw_in < PAYLOAD_MAX_LEN
         /\ Len(fifo) < FifoDepth => usedw_in = Len(fifo) + 1
<1>1. /\ FifoDepth \in Nat /\ FifoDepth >= 1 /\ Len(fifo) \in Nat
      /\ PAYLOAD_MAX_LEN \in Nat /\ PAYLOAD_MAX_LEN > FifoDepth
  BY IcmpAssumption, FrameAssumption
<1>2. Len(fifo) % FifoDepth \in 0 .. (FifoDepth - 1)
  BY <1>1
<1>3. Len(fifo) < FifoDepth => Len(fifo) % FifoDepth = Len(fifo)
  BY <1>1
<1> QED BY <1>1, <1>2, <1>3 DEF usedw_in

\* A word more at the end.
LEMMA HoldsAppend ==
  ASSUME NEW q, NEW f, NEW r \in Nat, NEW n \in Nat, Holds(q, f, r, n),
         f.from \in Stations, NEW w, w = Word(f.from, 10 + r + n)
  PROVE  Holds(Append(q, w), f, r, n + 1)
<1>1. q \in Seq(PingWords) /\ Len(q) = n /\ w \in PingWords
  BY DEF Holds, PingWords, Word
<1>2. /\ Append(q, w) \in Seq(PingWords) /\ Len(Append(q, w)) = n + 1
      /\ \A k \in 1 .. n : Append(q, w)[k] = q[k]
      /\ Append(q, w)[n + 1] = w
  <2> DEFINE W == PingWords
  <2> HIDE DEF W
  <2>1. q \in Seq(W) /\ Len(q) = n /\ w \in W
    BY <1>1 DEF W
  <2>2. /\ Append(q, w) \in Seq(W) /\ Len(Append(q, w)) = n + 1
        /\ \A k \in 1 .. n : Append(q, w)[k] = q[k]
        /\ Append(q, w)[n + 1] = w
    BY <2>1
  <2> QED BY <2>2 DEF W
<1>3. \A k \in 1 .. n : q[k] = Word(f.from, 9 + r + k)
  BY DEF Holds
<1>4. 9 + r + (n + 1) = 10 + r + n
  OBVIOUS
<1>5. \A k \in 1 .. (n + 1) : k \in 1 .. n \/ k = n + 1
  OBVIOUS
<1>6. \A k \in 1 .. (n + 1) : Append(q, w)[k] = Word(f.from, 9 + r + k)
  BY <1>2, <1>3, <1>4, <1>5
<1> QED BY <1>2, <1>6 DEF Holds

\* The first word taken off.
LEMMA HoldsTail ==
  ASSUME NEW q, NEW f, NEW r \in Nat, NEW n \in Nat, Holds(q, f, r, n), n > 0
  PROVE  /\ q # <<>> /\ Head(q) = Word(f.from, 10 + r)
         /\ Holds(Tail(q), f, r + 1, n - 1)
<1>1. q \in Seq(PingWords) /\ Len(q) = n
  BY DEF Holds
<1>2. /\ q # <<>> /\ Head(q) = q[1]
      /\ Tail(q) \in Seq(PingWords) /\ Len(Tail(q)) = n - 1
      /\ \A k \in 1 .. (n - 1) : Tail(q)[k] = q[k + 1]
  <2> DEFINE W == PingWords
  <2> HIDE DEF W
  <2>1. q \in Seq(W) /\ Len(q) = n
    BY <1>1 DEF W
  <2>2. /\ q # <<>> /\ Head(q) = q[1]
        /\ Tail(q) \in Seq(W) /\ Len(Tail(q)) = n - 1
        /\ \A k \in 1 .. (n - 1) : Tail(q)[k] = q[k + 1]
    BY <2>1
  <2> QED BY <2>2 DEF W
<1>3. \A k \in 1 .. n : q[k] = Word(f.from, 9 + r + k)
  BY DEF Holds
<1>4. q[1] = Word(f.from, 10 + r)
  <2>1. 1 \in 1 .. n /\ 9 + r + 1 = 10 + r
    OBVIOUS
  <2> QED BY <1>3, <2>1
<1>5. \A k \in 1 .. (n - 1) : k + 1 \in 1 .. n /\ 9 + r + (k + 1) = 9 + (r + 1) + k
  OBVIOUS
<1>6. \A k \in 1 .. (n - 1) : Tail(q)[k] = Word(f.from, 9 + (r + 1) + k)
  BY <1>2, <1>3, <1>5
<1> QED BY <1>2, <1>4, <1>6 DEF Holds

\* No word at all.
LEMMA HoldsNothing ==
  ASSUME NEW q \in Seq(PingWords), NEW f, NEW r
  PROVE  Holds(q, f, r, 0) <=> q = <<>>
  BY DEF Holds

\* One clock of the FIFO.
LEMMA FifoStep ==
  ASSUME RxInv, RxPing, fifo \in Seq(PingWords), IcmpFifo
  PROVE  /\ fifo' \in Seq(PingWords)
         /\ (~fifo_wrreq /\ ~(rdreq /\ fifo # <<>>)) => fifo' = fifo /\ fifo_q' = fifo_q
         /\ (~fifo_wrreq /\ rdreq /\ fifo # <<>>) =>
              fifo' = Tail(fifo) /\ fifo_q' = Head(fifo)
         /\ (fifo_wrreq /\ ~rdreq /\ Len(fifo) < FifoDepth) =>
              fifo' = Append(fifo, Word(rx_frame.from, 10 + Collected))
<1>1. fifo_wrreq => /\ PingWord(fr_word) = Word(rx_frame.from, 10 + Collected)
                    /\ PingWord(fr_word) \in PingWords
  <2>1. rx_frame.from \in Stations
    BY PingFacts, RxFramesAssumption
  <2> QED BY <2>1, PingFacts DEF PingWord, Word, PingWords
<1> DEFINE W == PingWords
<1> DEFINE rest == IF rdreq /\ fifo # <<>> THEN Tail(fifo) ELSE fifo
<1>2. /\ fifo_q' = IF rdreq /\ fifo # <<>> THEN Head(fifo) ELSE fifo_q
      /\ fifo' = IF fifo_wrreq /\ Len(fifo) < FifoDepth
                   THEN Append(rest, PingWord(fr_word)) ELSE rest
  BY DEF IcmpFifo
<1>3. rest \in Seq(W)
  <2> HIDE DEF W
  <2>1. fifo \in Seq(W)
    BY DEF W
  <2> QED BY <2>1
<1>4. fifo' \in Seq(W)
  <2> HIDE DEF W, rest
  <2>1. fifo_wrreq => PingWord(fr_word) \in W
    BY <1>1 DEF W
  <2> QED BY <1>2, <1>3, <2>1
<1> QED BY <1>1, <1>2, <1>4

-----------------------------------------------------------------------------
(* The generators behind the FIFO *)

\* Ethernet and IPv4 header.
LEMMA PingHeadLen == HeadLen = HeaderWords /\ ~Enabled("UDP0") /\ IN_DLY = 3
  BY IcmpAssumption DEF HeadLen, EthLen, IpLen, UdpLen, HdLen, HeaderWords,
                        Enabled, EthStates, IpStates, UdpStates

\* A frame begins from the idle state and has at least the first word; it ends
\* when all its words were read and written.
AnswerBegins ==
  /\ fg_state = "IDLE" /\ icmp_payload_rdy
  /\ payload_length' = usedw_in /\ Got' = 0
  /\ header_start' /\ fg_busy' = TRUE /\ ~wrreq' /\ fg_state' = "PAYLOAD_HEADER"
AnswerEnds ==
  fg_state' = "DONE" /\ Got = payload_length /\ fg_busy' = fg_busy /\ ~wrreq'
BetweenAnswers ==
  /\ ~wrreq' /\ ~header_start'
  /\ \/ fg_state = "IDLE" /\ fg_state' = "IDLE" /\ ~icmp_payload_rdy
        /\ fg_busy' = FALSE
     \/ fg_state = "DONE" /\ fg_busy' = fg_busy
LEMMA PingGen ==
  ASSUME GenInv, ControlInv, FgMachine(icmp_payload_rdy, usedw_in),
         HgClock(header_start, payload_length, 0), FrameHistory(1, 0)
  PROVE  /\ GenInv' /\ Marks!LinkNext
         /\ fg_state \notin Active => ~rdreq
         /\ (fg_state \notin Active /\ fg_state' \in Active) => AnswerBegins
         /\ (fg_state \notin Active /\ fg_state' \notin Active) => BetweenAnswers
         /\ (fg_state \in Active /\ fg_state' \in Active) =>
              GoesOn /\ fg_busy' = fg_busy /\ ~header_start'
         /\ (fg_state \in Active /\ fg_state' \notin Active) =>
              AnswerEnds /\ ~rdreq /\ ~header_start'
<1>1. /\ usedw_in \in Nat /\ usedw_in < PAYLOAD_MAX_LEN /\ KeepsPort(0)
      /\ fg_state \in Active => payload_length >= 1
  BY UsedwFacts, PingHeadLen DEF ControlInv, KeepsPort
<1>2. /\ GenInv' /\ Marks!LinkNext
      /\ fg_state \notin Active => ~rdreq
      /\ (fg_state \notin Active /\ fg_state' \in Active) => Starts(0, 1)
      /\ (fg_state \in Active /\ fg_state' \in Active) => GoesOn
  BY <1>1, GenStep
<1>3. CASE FgIdle(icmp_payload_rdy, usedw_in)
  <2>1. fg_state = "IDLE" /\ fg_state \notin Active
    BY <1>3 DEF FgIdle, Active, PayloadStates
  <2>2. CASE icmp_payload_rdy
    <3>1. /\ header_start' /\ fg_busy' = icmp_payload_rdy /\ ~wrreq'
          /\ fg_state' = "PAYLOAD_HEADER"
          /\ payload_length' = IF usedw_in >= PAYLOAD_MAX_LEN THEN PAYLOAD_MAX_LEN
                               ELSE usedw_in
      BY <1>3, <2>2 DEF FgIdle
    <3>2. ~(usedw_in >= PAYLOAD_MAX_LEN)
      BY <1>1, FrameAssumption
    <3>3. fg_busy' = TRUE
      BY <1>3, <2>2 DEF FgIdle, ControlInv
    <3> QED BY <1>2, <2>1, <2>2, <3>1, <3>2, <3>3 DEF AnswerBegins, Starts, Active
  <2>3. CASE ~icmp_payload_rdy
    <3>1. ~header_start' /\ fg_busy' = icmp_payload_rdy /\ ~wrreq' /\ fg_state' = "IDLE"
      BY <1>3, <2>3 DEF FgIdle
    <3> QED BY <1>2, <2>1, <2>3, <3>1 DEF BetweenAnswers, Active, PayloadStates
  <2> QED BY <2>2, <2>3
<1>4. CASE FgHeader
  <2>1. fg_state = "PAYLOAD_HEADER" /\ ~header_start' /\ fg_busy' = fg_busy
    BY <1>4 DEF FgHeader
  <2>2. ~(payload_length = 0)
    <3>1. payload_length >= 1
      BY <1>1, <2>1 DEF Active
    <3> QED BY <3>1
  <2>3. fg_state' \in Active
    BY <1>4, <2>2 DEF FgHeader, Active, PayloadStates
  <2> QED BY <1>2, <2>1, <2>3 DEF Active
<1>5. CASE FgWait \/ FgStart \/ WriteMore
  <2>1. fg_state \in Active /\ fg_state' \in Active
    BY <1>5 DEF FgWait, FgStart, WriteMore, Active, PayloadStates
  <2>2. header_start' = header_start /\ fg_busy' = fg_busy /\ fg_state # "PAYLOAD_HEADER"
    BY <1>5 DEF FgWait, FgStart, WriteMore
  <2>3. ~header_start'
    BY <2>2 DEF GenInv, Sync
  <2> QED BY <1>2, <2>1, <2>2, <2>3
<1>6. CASE WriteEnd
  <2>1. /\ fg_state = "WRITE_PAYLOAD" /\ fg_state' = "DONE" /\ ~wrreq'
        /\ header_start' = header_start /\ fg_busy' = fg_busy
    BY <1>6 DEF WriteEnd
  <2>2. ~header_start'
    BY <2>1 DEF GenInv, Sync
  <2>3. Sync'
    BY <1>2 DEF GenInv
  <2>4. ~rdreq /\ Got = payload_length
    BY <1>6, <2>3, GenEnd
  <2> QED BY <1>2, <2>1, <2>2, <2>4 DEF AnswerEnds, Active, PayloadStates
<1>7. CASE FgDone
  <2>1. /\ fg_state = "DONE" /\ fg_state' \in {"IDLE", "DONE"} /\ ~wrreq'
        /\ header_start' = header_start /\ fg_busy' = fg_busy
    BY <1>7 DEF FgDone
  <2>2. ~header_start'
    BY <2>1 DEF GenInv, Sync
  <2> QED BY <1>2, <2>1, <2>2 DEF BetweenAnswers, Active, PayloadStates
<1> QED BY <1>3, <1>4, <1>5, <1>6, <1>7 DEF FgMachine

\* The reply buffer takes a ping only between two answers.
LEMMA BufferStep ==
  ASSUME ControlInv, ReplyBuffer
  PROVE  /\ fg_busy => ~reply_wait' /\ icmp_dest' = icmp_dest /\ ping' = ping
         /\ (~fg_busy /\ reply_wait) => /\ reply_wait' /\ icmp_dest' = icmp_dest
                                        /\ ping' = ping
         /\ (~fg_busy /\ ~reply_wait /\ icmp_ping /\ fr_eop) =>
              /\ reply_wait' /\ ping' = rx_frame
              /\ icmp_dest' = [mac |-> fr.mac, ip |-> fr.ip]
         /\ (~fg_busy /\ ~reply_wait /\ ~(icmp_ping /\ fr_eop)) =>
              /\ ~reply_wait' /\ icmp_dest' = icmp_dest /\ ping' = ping
<1>1. CASE fg_busy
  BY <1>1 DEF ReplyBuffer
<1>2. CASE ~fg_busy /\ ~reply_wait /\ icmp_ping /\ fr_eop
  BY <1>2 DEF ReplyBuffer
<1>3. CASE ~fg_busy /\ ~(~reply_wait /\ icmp_ping /\ fr_eop)
  BY <1>3 DEF ReplyBuffer
<1> QED BY <1>1, <1>2, <1>3

\* At the end of a ping the registers hold its sender's addresses.
LEMMA SenderKnown ==
  ASSUME RxInv, RxPing, icmp_ping
  PROVE  /\ rx_frame \in RxFrames /\ IsPingFor(rx_frame)
         /\ fr.mac = <<rx_frame.from, rx_frame.from>>
         /\ fr.ip = <<rx_frame.from, rx_frame.from>>
<1>1. /\ InFrame /\ IsPingFor(rx_frame) /\ Received > 10
      /\ Received \in Nat /\ rx_frame \in RxFrames
  BY PingFacts DEF RxPing, Incoming
<1>2. Parsed(fr, rx_frame, Received) /\ HeaderOK(fr)
  BY <1>1 DEF RxInv
<1>3. rx_frame.kind \notin ARP
  BY <1>1 DEF IsPingFor, ARP
<1>4. /\ fr.mac[1] = rx_frame.from /\ fr.mac[2] = rx_frame.from
      /\ fr.ip[1] = rx_frame.from /\ fr.ip[2] = rx_frame.from
  BY <1>1, <1>2, <1>3 DEF Parsed
<1>5. fr.mac \in [1 .. 2 -> Halves] /\ fr.ip \in [1 .. 2 -> Halves]
  BY <1>2 DEF HeaderOK
<1> QED BY <1>1, <1>4, <1>5, WholeAddress

\* A clock edge with everything in it but the receiver's neighbours.
Edge(tx_ready) ==
  /\ RxClock /\ IcmpFifo /\ TriggerIcmp(tx_ready) /\ IcmpPayload
  /\ ChecksumComputer /\ ReplyBuffer /\ FgMachine(icmp_payload_rdy, usedw_in)
  /\ HgClock(header_start, payload_length, 0) /\ FrameHistory(1, 0)

\* The control of the answer.
LEMMA ControlStep ==
  ASSUME RxInv, RxPing, GenInv, ControlInv, NEW tx_ready, Edge(tx_ready)
  PROVE  ControlInv'
<1>1. /\ GenInv'
      /\ fg_state \notin Active => ~rdreq
      /\ (fg_state \notin Active /\ fg_state' \in Active) => AnswerBegins
      /\ (fg_state \notin Active /\ fg_state' \notin Active) => BetweenAnswers
      /\ (fg_state \in Active /\ fg_state' \in Active) =>
           GoesOn /\ fg_busy' = fg_busy /\ ~header_start'
      /\ (fg_state \in Active /\ fg_state' \notin Active) =>
           AnswerEnds /\ ~rdreq /\ ~header_start'
  BY PingGen DEF Edge
<1>2. /\ fg_busy => ~reply_wait' /\ icmp_dest' = icmp_dest /\ ping' = ping
      /\ (~fg_busy /\ reply_wait) => /\ reply_wait' /\ icmp_dest' = icmp_dest
                                     /\ ping' = ping
      /\ (~fg_busy /\ ~reply_wait /\ icmp_ping /\ fr_eop) =>
           /\ reply_wait' /\ ping' = rx_frame
           /\ icmp_dest' = [mac |-> fr.mac, ip |-> fr.ip]
      /\ (~fg_busy /\ ~reply_wait /\ ~(icmp_ping /\ fr_eop)) =>
           /\ ~reply_wait' /\ icmp_dest' = icmp_dest /\ ping' = ping
  BY BufferStep DEF Edge
<1>3. /\ icmp_payload_rdy' => reply_wait /\ ~fg_busy
      /\ icmp_word_num' = IF rdreq THEN icmp_word_num + 1
                          ELSE IF ~fg_busy THEN 0 ELSE icmp_word_num
  BY DEF Edge, TriggerIcmp, IcmpPayload
<1>4. fifo' \in Seq(PingWords) /\ icmp_word_num' \in Nat
  BY <1>3, FifoStep DEF Edge, ControlInv
<1>5. fg_busy' \in BOOLEAN
  BY <1>1 DEF ControlInv, AnswerBegins, BetweenAnswers, AnswerEnds
<1>6. ~fg_busy => fg_state = "IDLE" /\ fg_state \notin Active /\ ~rdreq
  BY <1>1 DEF ControlInv, Active, PayloadStates
<1>7. ~fg_busy' => fg_state' = "IDLE"
  <2>1. fg_state \in Active => fg_busy
    BY <1>6
  <2>2. fg_state = "DONE" => fg_busy
    BY <1>6
  <2> QED BY <1>1, <2>1, <2>2 DEF AnswerBegins, BetweenAnswers, AnswerEnds
<1>8. icmp_payload_rdy' => reply_wait' /\ icmp_word_num' = 0
  BY <1>2, <1>3, <1>6
<1>9. reply_wait' => (fg_state' = "IDLE" /\ ~fg_busy') \/ header_start'
  BY <1>1, <1>2, <1>6 DEF AnswerBegins, BetweenAnswers
<1>10. fg_state' \in Active => payload_length' >= 1 /\ icmp_word_num' = Got'
  <2>1. CASE fg_state \in Active
    <3> SUFFICES ASSUME fg_state' \in Active
                 PROVE  payload_length' >= 1 /\ icmp_word_num' = Got'
      OBVIOUS
    <3>1. payload_length >= 1 /\ icmp_word_num = Got /\ fg_busy
      BY <1>6, <2>1 DEF ControlInv
    <3> QED BY <1>1, <1>3, <2>1, <3>1 DEF GoesOn
  <2>2. CASE fg_state \notin Active
    <3> SUFFICES ASSUME fg_state' \in Active
                 PROVE  payload_length' >= 1 /\ icmp_word_num' = Got'
      OBVIOUS
    <3>1. AnswerBegins
      BY <1>1, <2>2
    <3>2. usedw_in >= 1
      BY UsedwFacts DEF ControlInv
    <3>3. icmp_word_num = 0
      BY <3>1 DEF AnswerBegins, ControlInv
    <3> QED BY <1>1, <1>3, <2>2, <3>1, <3>2, <3>3 DEF AnswerBegins
  <2> QED BY <2>1, <2>2
<1>11. wrreq' => fg_state' \in Active
  BY <1>1 DEF AnswerBegins, BetweenAnswers, AnswerEnds
<1>12. ASSUME reply_wait' \/ fg_state' \in Active
       PROVE  /\ ping' \in RxFrames /\ IsPingFor(ping')
              /\ icmp_dest' = [mac |-> <<ping'.from, ping'.from>>,
                               ip |-> <<ping'.from, ping'.from>>]
  <2>1. CASE reply_wait \/ fg_state \in Active
    <3>1. ping' = ping /\ icmp_dest' = icmp_dest
      BY <1>2, <1>6, <2>1
    <3> QED BY <2>1, <3>1 DEF ControlInv
  <2>2. CASE ~reply_wait /\ fg_state \notin Active
    <3>1. ~icmp_payload_rdy
      BY <2>2 DEF ControlInv
    <3>2. fg_state' \notin Active
      BY <1>1, <2>2, <3>1 DEF AnswerBegins
    <3>3. ~fg_busy /\ icmp_ping /\ fr_eop
      BY <1>2, <1>12, <2>2, <3>2
    <3> QED BY <1>2, <2>2, <3>3, SenderKnown
  <2> QED BY <2>1, <2>2
<1> QED BY <1>4, <1>5, <1>7, <1>8, <1>9, <1>10, <1>11, <1>12 DEF ControlInv

-----------------------------------------------------------------------------
(* The words on their way to the MAC *)

\* The clocks of the payload phase, and where the word on the line is from.
LEMMA PayloadMoves ==
  ASSUME GenInv, FgMachine(icmp_payload_rdy, usedw_in), FrameHistory(1, 0), Sync',
         fg_state \in Active, fg_state' \in PayloadStates
  PROVE  /\ fg_state \notin PayloadStates => Clk' = 0
         /\ fg_state \in PayloadStates => Clk' = Clk + 1
         /\ fg_state' = "WRITE_PAYLOAD" =>
              /\ fg_state \in PayloadStates /\ frame_word' = pipe[2]
              /\ fg_words' \in Nat /\ fg_words' < payload_length
              /\ Clk = 3 + fg_words'
<1>1. CASE FgHeader
  <2>1. fg_state = "PAYLOAD_HEADER" /\ fg_state' = "PAYLOAD_WAIT"
        /\ delay_counter' = delay_counter
    BY <1>1 DEF FgHeader, PayloadStates
  <2>2. delay_counter = 0
    BY <2>1 DEF GenInv, HeaderPhase
  <2> QED BY <2>1, <2>2 DEF Clk, PayloadStates
<1>2. CASE FgWait
  <2>1. Clk' = Clk + 1
    BY <1>2, GenWait
  <2>2. fg_state' # "WRITE_PAYLOAD" /\ fg_state \in PayloadStates
    BY <1>2 DEF FgWait, PayloadStates
  <2> QED BY <2>1, <2>2
<1>3. CASE FgStart
  <2>1. Clk' = Clk + 1
    BY <1>3, GenStart
  <2>2. /\ fg_state = "PAYLOAD_START" /\ frame_word' = payload_word
        /\ fg_words' = fg_words
    BY <1>3 DEF FgStart
  <2>3. fg_state \in PayloadStates
    BY <2>2 DEF PayloadStates
  <2>4. payload_length \in Nat /\ payload_length >= 1 /\ fg_words = 0 /\ Clk = IN_DLY
    BY <2>2, <2>3, ClkFacts DEF GenInv, PayloadPhase, Clk
  <2> QED BY <2>1, <2>2, <2>3, <2>4, PingHeadLen DEF payload_word
<1>4. CASE WriteMore
  <2>1. Clk' = Clk + 1
    BY <1>4, GenMore
  <2>2. /\ fg_state = "WRITE_PAYLOAD" /\ frame_word' = payload_word
        /\ fg_words' = fg_words + 1 /\ fg_words' < payload_length
    BY <1>4 DEF WriteMore
  <2>3. fg_state \in PayloadStates
    BY <2>2 DEF PayloadStates
  <2>4. payload_length \in Nat /\ fg_words \in Nat /\ Clk = IN_DLY + 1 + fg_words
    <3>1. fg_words \in 0 .. (payload_length - 1) /\ payload_length \in Nat
      BY <2>2, <2>3, ClkFacts DEF GenInv, PayloadPhase
    <3>2. Clk = IN_DLY + 1 + fg_words
      BY <2>2 DEF Clk
    <3> QED BY <3>1, <3>2
  <2>5. Clk = 3 + fg_words'
    BY <2>2, <2>4, PingHeadLen
  <2> QED BY <2>1, <2>2, <2>3, <2>4, <2>5, PingHeadLen DEF payload_word
<1> QED BY <1>1, <1>2, <1>3, <1>4
        DEF FgMachine, FgIdle, WriteEnd, FgDone, Active, PayloadStates

\* The two registers between FIFO and line.
LEMMA TwoStages ==
  ASSUME NEW read, NEW w, Pipeline(read, w)
  PROVE  pipe'[1] = (IF read THEN w ELSE pipe[1]) /\ pipe'[2] = pipe[1]
<1>1. 1 \in Stages /\ 2 \in Stages
  BY PingHeadLen DEF Stages
<1> QED BY <1>1 DEF Pipeline

\* The word read is the next of the answer, and follows those before it.
LEMMA PipeAnswer ==
  ASSUME NEW c \in Nat, NEW L \in Nat, L >= 1, NEW w,
         rdreq <=> c >= 1 /\ c <= L,
         \A i \in 1 .. 2 : c > i => pipe[i] = AnswerWord(ping, AtMost(L, c - i)),
         rdreq => w = AnswerWord(ping, c), Pipeline(rdreq, w)
  PROVE  \A i \in 1 .. 2 : c + 1 > i => pipe'[i] = AnswerWord(ping, AtMost(L, c + 1 - i))
<1>1. pipe'[1] = (IF rdreq THEN w ELSE pipe[1]) /\ pipe'[2] = pipe[1]
  BY TwoStages
<1>2. c > 1 => pipe[1] = AnswerWord(ping, AtMost(L, c - 1))
  OBVIOUS
<1>3. ASSUME c + 1 > 1 PROVE pipe'[1] = AnswerWord(ping, AtMost(L, c + 1 - 1))
  <2>1. c + 1 - 1 = c
    OBVIOUS
  <2>2. CASE rdreq
    <3>1. AtMost(L, c) = c
      BY <2>2 DEF AtMost
    <3> QED BY <1>1, <2>1, <2>2, <3>1
  <2>3. CASE ~rdreq
    <3>1. c > L /\ c > 1
      BY <1>3, <2>3
    <3>2. AtMost(L, c) = L /\ AtMost(L, c - 1) = L
      BY <3>1 DEF AtMost
    <3> QED BY <1>1, <1>2, <2>1, <2>3, <3>1, <3>2
  <2> QED BY <2>2, <2>3
<1>4. ASSUME c + 1 > 2 PROVE pipe'[2] = AnswerWord(ping, AtMost(L, c + 1 - 2))
  <2>1. c + 1 - 2 = c - 1 /\ c > 1
    BY <1>4
  <2> QED BY <1>1, <1>2, <2>1
<1>5. \A i \in 1 .. 2 : i = 1 \/ i = 2
  OBVIOUS
<1> QED BY <1>3, <1>4, <1>5

\* The lengths of a ping.
LEMMA PingLens ==
  ASSUME ping \in RxFrames, IsPingFor(ping)
  PROVE  PingLen \in Nat /\ PingLen >= 1 /\ PingLen < FifoDepth /\ FifoDepth \in Nat
  BY FrameFacts, PingsFit, IcmpAssumption DEF PingLen, IsPingFor

\* The FIFO while it is read out: after the first read it is one word short of
\* the answer, whose first word is new.
LEMMA ReadStep ==
  ASSUME PingLen \in Nat, PingLen >= 1, Got \in Nat,
         rdreq => Got' = Got + 1 /\ Got <= PingLen, ~rdreq => Got' = Got,
         Holds(fifo, ping, AtMost(PingLen, Got), PingLen - AtMost(PingLen, Got)),
         Got >= 1 => fifo_q = Word(ping.from, 9 + AtMost(PingLen, Got)),
         ~(rdreq /\ fifo # <<>>) => fifo' = fifo /\ fifo_q' = fifo_q,
         (rdreq /\ fifo # <<>>) => fifo' = Tail(fifo) /\ fifo_q' = Head(fifo)
  PROVE  /\ Holds(fifo', ping, AtMost(PingLen, Got'), PingLen - AtMost(PingLen, Got'))
         /\ Got' >= 1 => fifo_q' = Word(ping.from, 9 + AtMost(PingLen, Got'))
<1>1. CASE ~rdreq
  BY <1>1
<1>2. CASE rdreq /\ Got < PingLen
  <2>1. PICK n \in Nat : n = PingLen - Got /\ n > 0
    BY <1>2
  <2>2. AtMost(PingLen, Got) = Got /\ AtMost(PingLen, Got') = Got + 1
    BY <1>2 DEF AtMost
  <2>3. Holds(fifo, ping, Got, n)
    BY <2>1, <2>2
  <2>4. /\ fifo # <<>> /\ Head(fifo) = Word(ping.from, 10 + Got)
        /\ Holds(Tail(fifo), ping, Got + 1, n - 1)
    BY <2>1, <2>3, HoldsTail
  <2>5. n - 1 = PingLen - (Got + 1) /\ 10 + Got = 9 + (Got + 1)
    BY <2>1
  <2> QED BY <1>2, <2>2, <2>4, <2>5
<1>3. CASE rdreq /\ Got = PingLen
  <2>1. /\ AtMost(PingLen, Got) = PingLen /\ AtMost(PingLen, Got') = PingLen
        /\ PingLen - PingLen = 0
    BY <1>3 DEF AtMost
  <2>2. Holds(fifo, ping, PingLen, 0)
    BY <2>1
  <2>3. fifo = <<>>
    BY <2>2, HoldsNothing DEF Holds
  <2> QED BY <1>3, <2>1, <2>2, <2>3
<1> QED BY <1>1, <1>2, <1>3

\* A clock of an answer that does not end it.
LEMMA AnswerGoesOn ==
  ASSUME RxInv, RxPing, GenInv, ControlInv, OwnPing, NEW tx_ready, Edge(tx_ready),
         ~fifo_wrreq, ~Handing, checksum' = checksum, ping' = ping,
         fg_state \in Active, fg_state' \in Active
  PROVE  Reading'
<1>1. /\ GoesOn /\ GenInv' /\ Sync'
  BY PingGen DEF Edge, GenInv
<1>2. /\ ping \in RxFrames /\ IsPingFor(ping) /\ icmp_word_num = Got
      /\ payload_length >= 1 /\ fifo \in Seq(PingWords)
  BY DEF ControlInv
<1>3. PingLen \in Nat /\ PingLen >= 1 /\ PingLen' = PingLen
  BY <1>2, PingLens DEF PingLen
<1>4. /\ payload_length = PingLen + 1 /\ checksum = PingPayload(ping)
      /\ Holds(fifo, ping, AtMost(PingLen, Got), PingLen - AtMost(PingLen, Got))
      /\ Got >= 1 => /\ fifo_q = Word(ping.from, 9 + AtMost(PingLen, Got))
                     /\ echo_sum = PingPayload(ping)
  BY DEF OwnPing, Reading
<1>5. /\ payload_length' = payload_length /\ Got \in Nat /\ payload_length \in Nat
      /\ rdreq => Got' = Got + 1 /\ Got < payload_length
      /\ ~rdreq => Got' = Got
  BY <1>1 DEF GoesOn
<1>6. Got' \in Nat
  BY <1>5
<1>7. /\ Holds(fifo', ping, AtMost(PingLen, Got'), PingLen - AtMost(PingLen, Got'))
      /\ Got' >= 1 => fifo_q' = Word(ping.from, 9 + AtMost(PingLen, Got'))
  <2>1. /\ ~(rdreq /\ fifo # <<>>) => fifo' = fifo /\ fifo_q' = fifo_q
        /\ (rdreq /\ fifo # <<>>) => fifo' = Tail(fifo) /\ fifo_q' = Head(fifo)
    BY <1>2, FifoStep DEF Edge
  <2>2. rdreq => Got' = Got + 1 /\ Got <= PingLen
    BY <1>3, <1>4, <1>5
  <2> QED BY <1>3, <1>4, <1>5, <1>6, <2>1, <2>2, ReadStep
<1>8. Got' >= 1 => echo_sum' = PingPayload(ping)
  <2>1. echo_sum' = IF rdreq /\ icmp_word_num = 0 THEN checksum ELSE echo_sum
    BY DEF Edge, IcmpPayload
  <2>2. CASE Got >= 1
    BY <1>2, <1>4, <2>1, <2>2
  <2>3. CASE Got = 0
    BY <1>2, <1>4, <1>5, <2>1, <2>3
  <2> QED BY <1>5, <2>2, <2>3
<1>9. rdreq => ReplyWord = AnswerWord(ping, Got + 1)
  <2> SUFFICES ASSUME rdreq PROVE ReplyWord = AnswerWord(ping, Got + 1)
    OBVIOUS
  <2>1. CASE Got = 0
    BY <1>2, <2>1 DEF ReplyWord, AnswerWord
  <2>2. CASE Got >= 1
    <3>1. AtMost(PingLen, Got) = Got /\ 9 + Got = 8 + (Got + 1) /\ Got + 1 # 1
          /\ ~(Got = 0)
      BY <1>3, <1>4, <1>5, <2>2 DEF AtMost
    <3> QED BY <1>2, <1>4, <2>2, <3>1 DEF ReplyWord, AnswerWord
  <2> QED BY <1>5, <2>1, <2>2
<1>10. ASSUME fg_state' \in PayloadStates
       PROVE  /\ \A i \in 1 .. 2 :
                   Clk' > i => pipe'[i] = AnswerWord(ping, AtMost(payload_length, Clk' - i))
              /\ fg_state' = "WRITE_PAYLOAD" => frame_word' = AnswerWord(ping, fg_words' + 1)
  <2>1. /\ fg_state \notin PayloadStates => Clk' = 0
        /\ fg_state \in PayloadStates => Clk' = Clk + 1
        /\ fg_state' = "WRITE_PAYLOAD" =>
              /\ fg_state \in PayloadStates /\ frame_word' = pipe[2]
              /\ fg_words' \in Nat /\ fg_words' < payload_length
              /\ Clk = 3 + fg_words'
    BY <1>1, <1>10, PayloadMoves DEF Edge
  <2>2. CASE fg_state \notin PayloadStates
    BY <2>1, <2>2
  <2>3. CASE fg_state \in PayloadStates
    <3>1. Clk \in Nat /\ (rdreq => Got + 1 = Clk)
      BY <2>3, ClkFacts
    <3>2. rdreq <=> Clk >= 1 /\ Clk <= payload_length
      BY <2>3 DEF GenInv, PayloadPhase
    <3>3. \A i \in 1 .. 2 :
            Clk > i => pipe[i] = AnswerWord(ping, AtMost(payload_length, Clk - i))
      BY <2>3 DEF OwnPing, Reading
    <3>4. Pipeline(rdreq, ReplyWord)
      BY DEF Edge, IcmpPayload
    <3>5. rdreq => ReplyWord = AnswerWord(ping, Clk)
      BY <1>9, <3>1
    <3>6. \A i \in 1 .. 2 :
            Clk + 1 > i => pipe'[i] = AnswerWord(ping, AtMost(payload_length, Clk + 1 - i))
      BY <1>2, <1>5, <3>1, <3>2, <3>3, <3>4, <3>5, PipeAnswer
    <3>7. ASSUME fg_state' = "WRITE_PAYLOAD"
          PROVE  frame_word' = AnswerWord(ping, fg_words' + 1)
      <4>1. /\ frame_word' = pipe[2] /\ fg_words' \in Nat
            /\ fg_words' < payload_length /\ Clk = 3 + fg_words'
        BY <2>1, <3>7
      <4>2. Clk > 2 /\ AtMost(payload_length, Clk - 2) = fg_words' + 1
        <5>1. /\ Clk - 2 = fg_words' + 1 /\ Clk > 2
              /\ fg_words' + 1 <= payload_length
          <6>1. PICK w \in Nat : w = fg_words' /\ w < payload_length /\ Clk = 3 + w
            BY <4>1
          <6>2. PICK L \in Nat : L = payload_length /\ w < L
            BY <1>5, <6>1
          <6>3. (3 + w) - 2 = w + 1 /\ 3 + w > 2
            OBVIOUS
          <6>4. w + 1 <= L
            BY <6>2
          <6> QED BY <6>1, <6>2, <6>3, <6>4
        <5> QED BY <5>1 DEF AtMost
      <4>3. 2 \in 1 .. 2
        OBVIOUS
      <4> QED BY <3>3, <4>1, <4>2, <4>3
    <3>8. \A i \in 1 .. 2 : Clk' > i =>
            pipe'[i] = AnswerWord(ping, AtMost(payload_length, Clk' - i))
      <4>1. Clk' = Clk + 1
        BY <2>1, <2>3
      <4>2. \A i \in 1 .. 2 : Clk' - i = Clk + 1 - i
        BY <3>1, <4>1
      <4> QED BY <3>6, <4>1, <4>2
    <3> QED BY <3>7, <3>8
  <2> QED BY <2>2, <2>3
<1>11. /\ payload_length' = PingLen' + 1 /\ checksum' = PingPayload(ping')
       /\ Holds(fifo', ping', AtMost(PingLen', Got'), PingLen' - AtMost(PingLen', Got'))
       /\ Got' >= 1 => /\ fifo_q' = Word(ping'.from, 9 + AtMost(PingLen', Got'))
                       /\ echo_sum' = PingPayload(ping')
  BY <1>3, <1>4, <1>5, <1>7, <1>8
<1>12. fg_state' \in PayloadStates =>
         \A i \in 1 .. 2 :
           Clk' > i => pipe'[i] = AnswerWord(ping', AtMost(payload_length', Clk' - i))
  BY <1>5, <1>10
<1>13. fg_state' = "WRITE_PAYLOAD" => frame_word' = AnswerWord(ping', fg_words' + 1)
  BY <1>10 DEF PayloadStates
<1> QED BY <1>11, <1>12, <1>13 DEF Reading

-----------------------------------------------------------------------------
(* The ping in hand *)

\* Nothing in hand and nothing in the FIFO: the block starts afresh.
LEMMA AfreshStep ==
  ASSUME RxInv, RxPing, GenInv, ControlInv, NEW tx_ready, Edge(tx_ready),
         fifo = <<>>, ~Answering, ~InPing
  PROVE  OwnPing'
<1>1. ~reply_wait /\ ~icmp_payload_rdy /\ ~fg_busy
  BY DEF Answering
<1>2. fg_state = "IDLE" /\ fg_state \notin Active
  BY <1>1 DEF ControlInv, Active, PayloadStates
<1>3. ~Incoming /\ ~fifo_wrreq /\ ~icmp_ping /\ Collected = 0
  <2>1. Incoming => InPing
    <3>1. rx_pos \in Nat
      BY FrameFacts DEF RxInv, RxPlace
    <3> QED BY <3>1 DEF Incoming, InPing, InFrame, IsPingFor, Received
  <2> QED BY <2>1, PingFacts
<1>4. BetweenAnswers /\ ~rdreq
  BY <1>1, <1>2, PingGen DEF Edge, AnswerBegins
<1>5. fg_state' = "IDLE" /\ fg_busy' = FALSE
  BY <1>2, <1>4 DEF BetweenAnswers
<1>6. ~reply_wait' /\ ~icmp_payload_rdy'
  BY <1>1, <1>3, BufferStep DEF Edge, TriggerIcmp
<1>7. ~Answering' /\ ~Handing'
  BY <1>3, <1>5, <1>6 DEF Answering, Handing, Edge, ChecksumComputer
<1>8. fifo' = <<>> /\ fifo' \in Seq(PingWords)
  BY <1>3, <1>4, FifoStep DEF Edge, ControlInv
<1>9. Collected' = 0
  BY <1>3, PingStep DEF Edge, ChecksumComputer
<1>10. Holds(fifo', rx_frame', 0, 0)
  BY <1>8, HoldsNothing
<1>11. Collecting'
  BY <1>9, <1>10 DEF Collecting
<1>12. Waiting' /\ Reading'
  BY <1>5, <1>6, <1>7 DEF Waiting, Reading, Active, PayloadStates
<1> QED BY <1>7, <1>11, <1>12 DEF OwnPing

\* A ping comes in while none is in hand; with its last word it is taken.
LEMMA CollectStep ==
  ASSUME RxInv, RxPing, GenInv, SumInv, ControlInv, OwnPing, NEW tx_ready,
         Edge(tx_ready), ~Answering
  PROVE  OwnPing'
<1>1. ~reply_wait /\ ~icmp_payload_rdy /\ ~fg_busy /\ fifo \in Seq(PingWords)
  BY DEF Answering, ControlInv
<1>2. fg_state = "IDLE" /\ fg_state \notin Active
  BY <1>1 DEF ControlInv, Active, PayloadStates
<1>3. BetweenAnswers /\ ~rdreq
  BY <1>1, <1>2, PingGen DEF Edge, AnswerBegins
<1>4. fg_state' = "IDLE" /\ fg_busy' = FALSE /\ ~icmp_payload_rdy'
  BY <1>1, <1>2, <1>3 DEF BetweenAnswers, Edge, TriggerIcmp
<1>5. /\ Received \in Nat /\ Collected \in Nat
      /\ rx_frame \in RxFrames /\ rx_frame.len \in Nat
      /\ fifo_wrreq <=> icmp_ping
      /\ fifo_wrreq => Incoming /\ Received = 11 + Collected
      /\ ~Incoming => Collected = 0
      /\ Incoming => Received <= rx_frame.len
      /\ fr_eop => Received = rx_frame.len
  BY PingFacts
<1>6. rx_frame.from \in Stations /\ FifoDepth \in Nat
  BY <1>5, RxFramesAssumption, IcmpAssumption
<1>7. /\ fr_eop => Collected' = 0
      /\ (~fr_eop /\ fifo_wrreq) => Collected' = Collected + 1 /\ rx_frame' = rx_frame
      /\ (~fr_eop /\ ~fifo_wrreq) =>
           Collected' = Collected /\ (Collected > 0 => rx_frame' = rx_frame)
  BY PingStep DEF Edge, ChecksumComputer
<1>8. Holds(fifo, rx_frame, 0, Collected)
  BY DEF OwnPing, Collecting
<1>9. ~fifo_wrreq => fifo' = fifo
  BY <1>1, <1>3, FifoStep DEF Edge
<1>10. ASSUME fifo_wrreq PROVE Holds(fifo', rx_frame, 0, Collected + 1)
  <2>1. Len(fifo) < FifoDepth
    <3>1. Len(fifo) = Collected
      BY <1>8 DEF Holds
    <3>2. rx_frame.len - 10 < FifoDepth
      BY <1>5, <1>10, PingsFit DEF Incoming, IsPingFor
    <3> QED BY <1>5, <1>6, <1>10, <3>1, <3>2
  <2>2. fifo' = Append(fifo, Word(rx_frame.from, 10 + Collected))
    BY <1>1, <1>3, <1>10, <2>1, FifoStep DEF Edge
  <2>3. 10 + 0 + Collected = 10 + Collected
    BY <1>5
  <2> QED BY <1>5, <1>6, <1>8, <2>2, <2>3, HoldsAppend
<1>11. fr_eop_delayed' = fr_eop /\ icmp_ping_delayed' = icmp_ping
  BY DEF Edge, ChecksumComputer
<1>12. Reading'
  BY <1>4 DEF Reading, Active, PayloadStates
<1>13. CASE icmp_ping /\ fr_eop
  <2>1. reply_wait' /\ ping' = rx_frame
    BY <1>1, <1>13, BufferStep DEF Edge
  <2>2. Handing' /\ Answering'
    BY <1>11, <1>13, <2>1 DEF Handing, Answering
  <2>3. icmp_sum' = PingPayload(rx_frame)
    BY <2>2, SumStep DEF Edge
  <2>4. Collected + 1 = rx_frame.len - 10
    BY <1>5, <1>13
  <2>5. Holds(fifo', ping', 0, PingLen')
    BY <1>5, <1>10, <1>13, <2>1, <2>4 DEF PingLen
  <2>6. Waiting'
    BY <1>4, <2>1, <2>2, <2>3, <2>5 DEF Waiting
  <2>7. Collected' = 0
    BY <1>7, <1>13
  <2> QED BY <1>12, <2>2, <2>6, <2>7 DEF OwnPing, Collecting
<1>14. CASE ~(icmp_ping /\ fr_eop)
  <2>1. ~reply_wait' /\ ~Handing' /\ ~Answering'
    <3>1. ~reply_wait'
      BY <1>1, <1>14, BufferStep DEF Edge
    <3> QED BY <1>4, <1>11, <1>14, <3>1 DEF Handing, Answering
  <2>2. Waiting'
    BY <2>1 DEF Waiting
  <2>3. Holds(fifo', rx_frame', 0, Collected')
    <3>1. CASE fr_eop
      <4>1. ~fifo_wrreq /\ ~Incoming
        BY <1>5, <1>14, <3>1 DEF RxPing
      <4>2. Collected = 0 /\ Collected' = 0 /\ fifo' = fifo
        BY <1>5, <1>7, <1>9, <3>1, <4>1
      <4> QED BY <1>1, <1>8, <4>2, HoldsNothing
    <3>2. CASE ~fr_eop /\ fifo_wrreq
      BY <1>7, <1>10, <3>2
    <3>3. CASE ~fr_eop /\ ~fifo_wrreq /\ Collected > 0
      BY <1>7, <1>8, <1>9, <3>3
    <3>4. CASE ~fr_eop /\ ~fifo_wrreq /\ Collected = 0
      <4>1. fifo' = <<>> /\ Collected' = 0 /\ fifo' \in Seq(PingWords)
        BY <1>1, <1>7, <1>8, <1>9, <3>4, HoldsNothing
      <4> QED BY <4>1, HoldsNothing
    <3> QED BY <1>5, <3>1, <3>2, <3>3, <3>4
  <2>4. Collecting'
    BY <2>3 DEF Collecting
  <2> QED BY <1>12, <2>1, <2>2, <2>4 DEF OwnPing
<1> QED BY <1>13, <1>14

\* A ping in hand, while no other comes in.
LEMMA AnswerStep ==
  ASSUME RxInv, RxPing, GenInv, SumInv, ControlInv, OwnPing, NEW tx_ready,
         Edge(tx_ready), Answering, ~fifo_wrreq
  PROVE  OwnPing'
<1>1. fifo \in Seq(PingWords) /\ Collected = 0
  BY DEF ControlInv, OwnPing
<1>2. Collected' = 0
  BY <1>1, PingStep DEF Edge, ChecksumComputer
<1>3. ~Handing'
  <2>1. ~icmp_ping
    BY PingFacts
  <2> QED BY <2>1 DEF Handing, Edge, ChecksumComputer
<1>4. checksum' = IF Handing THEN icmp_sum ELSE checksum
  BY SumStep DEF Edge
<1>5. CASE ~fg_busy
  <2>1. /\ reply_wait /\ fg_state = "IDLE" /\ fg_state \notin Active
        /\ ping \in RxFrames /\ IsPingFor(ping)
    BY <1>5 DEF Answering, ControlInv, Active, PayloadStates
  <2>2. reply_wait' /\ ping' = ping /\ ~rdreq
    BY <1>5, <2>1, BufferStep, PingGen DEF Edge
  <2>3. fifo' = fifo
    BY <1>1, <2>2, FifoStep DEF Edge
  <2>4. /\ Holds(fifo, ping, 0, PingLen) /\ PingLen' = PingLen
        /\ checksum' = PingPayload(ping)
        /\ Handing => ~icmp_payload_rdy
    BY <1>4, <2>1, <2>2 DEF OwnPing, Waiting, PingLen
  <2>5. Waiting'
    BY <1>3, <2>2, <2>3, <2>4 DEF Waiting
  <2>6. Answering'
    BY <2>2 DEF Answering
  <2>7. Reading'
    <3>1. CASE fg_state' \notin Active
      <4>1. BetweenAnswers
        BY <2>1, <3>1, PingGen DEF Edge
      <4>2. ~fg_busy'
        BY <2>1, <4>1 DEF BetweenAnswers
      <4> QED BY <3>1, <4>2 DEF Reading, Active, PayloadStates
    <3>2. CASE fg_state' \in Active
      <4>1. AnswerBegins
        BY <2>1, <3>2, PingGen DEF Edge
      <4>2. /\ fg_state' = "PAYLOAD_HEADER" /\ Got' = 0 /\ payload_length' = usedw_in
        BY <4>1 DEF AnswerBegins
      <4>3. PingLen \in Nat /\ PingLen < FifoDepth
        BY <2>1, PingLens
      <4>4. usedw_in = PingLen + 1
        BY <1>1, <2>4, <4>3, UsedwFacts DEF Holds
      <4>5. AtMost(PingLen, Got') = 0 /\ PingLen - 0 = PingLen /\ ~(Got' >= 1)
        BY <4>2, <4>3 DEF AtMost
      <4> QED BY <2>2, <2>3, <2>4, <4>2, <4>4, <4>5 DEF Reading, Active, PayloadStates
    <3> QED BY <3>1, <3>2
  <2> QED BY <1>2, <2>5, <2>6, <2>7 DEF OwnPing, Collecting
<1>6. CASE fg_busy
  <2>1. ~reply_wait' /\ ping' = ping /\ ~icmp_payload_rdy'
    BY <1>6, BufferStep DEF Edge, TriggerIcmp
  <2>2. Waiting'
    BY <1>3, <2>1 DEF Waiting
  <2>3. ~Handing /\ checksum' = checksum
    <3>1. ~(reply_wait /\ fg_state = "IDLE")
      BY <1>6 DEF ControlInv, GenInv, Sync
    <3> QED BY <1>4, <3>1 DEF OwnPing, Waiting
  <2>4. CASE fg_state \in Active /\ fg_state' \in Active
    <3>1. Reading'
      BY <2>1, <2>3, <2>4, AnswerGoesOn
    <3>2. Answering'
      BY <1>6, <2>4, PingGen DEF Edge, Answering
    <3> QED BY <1>2, <2>2, <3>1, <3>2 DEF OwnPing, Collecting
  <2>5. CASE fg_state \in Active /\ fg_state' \notin Active
    <3>1. AnswerEnds /\ ~rdreq
      BY <2>5, PingGen DEF Edge
    <3>2. fg_state' = "DONE" /\ Got = payload_length /\ fg_busy'
      BY <1>6, <3>1 DEF AnswerEnds
    <3>3. ping \in RxFrames /\ IsPingFor(ping)
      BY <2>5 DEF ControlInv
    <3>4. /\ payload_length = PingLen + 1 /\ PingLen \in Nat
          /\ Holds(fifo, ping, AtMost(PingLen, Got), PingLen - AtMost(PingLen, Got))
      BY <2>5, <3>3, PingLens DEF OwnPing, Reading
    <3>5. AtMost(PingLen, Got) = PingLen /\ PingLen - PingLen = 0
      BY <3>2, <3>4 DEF AtMost
    <3>6. fifo = <<>>
      BY <1>1, <3>4, <3>5, HoldsNothing
    <3>7. fifo' = <<>>
      BY <1>1, <3>1, <3>6, FifoStep DEF Edge
    <3>8. Answering' /\ Reading'
      BY <3>2, <3>7 DEF Answering, Reading, Active, PayloadStates
    <3> QED BY <1>2, <2>2, <3>8 DEF OwnPing, Collecting
  <2>6. CASE fg_state \notin Active
    <3>1. ~(fg_state = "IDLE" /\ icmp_payload_rdy)
      BY <1>6 DEF ControlInv, GenInv, Sync
    <3>2. fg_state' \notin Active /\ BetweenAnswers /\ ~rdreq
      BY <2>6, <3>1, PingGen DEF Edge, AnswerBegins
    <3>3. fifo = <<>>
      BY <1>6, <2>6 DEF OwnPing, Reading
    <3>4. fifo' = <<>> /\ fifo' \in Seq(PingWords)
      BY <1>1, <3>2, <3>3, FifoStep DEF Edge
    <3>5. Holds(fifo', rx_frame', 0, Collected')
      BY <1>2, <3>4, HoldsNothing
    <3>6. Reading'
      BY <3>2, <3>4 DEF Reading, Active, PayloadStates
    <3> QED BY <1>2, <2>2, <3>5, <3>6 DEF OwnPing, Collecting
  <2> QED BY <2>4, <2>5, <2>6
<1> QED BY <1>5, <1>6

-----------------------------------------------------------------------------
(* The inductive invariant *)

\* A clock keeps it: when no words of two pings met, the ping in hand is whole.
LEMMA IcmpTickStep ==
  ASSUME IcmpInv, NEW tx_ready, IcmpTick(tx_ready)
  PROVE  IcmpInv'
<1>1. Edge(tx_ready) /\ Mixed
  BY DEF IcmpTick, Edge
<1>2. RxInv /\ GenInv /\ RxPing /\ SumInv /\ ControlInv
  BY DEF IcmpInv
<1>3. RxInv'
  BY <1>1, <1>2, RxInvStep DEF Edge, RxNext
<1>4. GenInv'
  BY <1>1, <1>2, PingGen DEF Edge
<1>5. RxPing' /\ SumInv'
  BY <1>1, <1>2, PingStep, SumStep DEF Edge, ChecksumComputer
<1>6. ControlInv'
  BY <1>1, <1>2, ControlStep
<1>7. ASSUME ~mixed' PROVE OwnPing'
  <2>1. \/ fifo = <<>> /\ ~Answering /\ ~InPing
        \/ ~mixed /\ ~(fifo_wrreq /\ Answering)
    BY <1>1, <1>7 DEF Mixed
  <2>2. CASE fifo = <<>> /\ ~Answering /\ ~InPing
    BY <1>1, <1>2, <2>2, AfreshStep
  <2>3. CASE ~mixed /\ ~(fifo_wrreq /\ Answering)
    <3>1. OwnPing
      BY <2>3 DEF IcmpInv
    <3> QED BY <1>1, <1>2, <2>3, <3>1, CollectStep, AnswerStep
  <2> QED BY <2>1, <2>2, <2>3
<1> QED BY <1>3, <1>4, <1>5, <1>6, <1>7 DEF IcmpInv

\* An empty block, as after a reset, whatever fg_busy says.
Empty ==
  /\ fifo = <<>> /\ icmp_sum = {} /\ icmp_word_num = 0 /\ fg_state = "IDLE"
  /\ ~reply_wait /\ ~icmp_payload_rdy /\ ~fr_eop_delayed /\ ~wrreq
  /\ ~icmp_ping /\ ~fr_eop /\ rx_pos = 0 /\ fg_busy \in BOOLEAN
LEMMA EmptyInv ==
  ASSUME Empty
  PROVE  RxPing /\ SumInv /\ ControlInv /\ OwnPing
<1>1. ~InFrame /\ ~Incoming /\ ~Handing /\ fg_state \notin Active
  BY DEF Empty, InFrame, Incoming, Handing, Active, PayloadStates
<1>2. Collected = 0
  BY <1>1 DEF Collected
<1>3. RxPing
  BY <1>1 DEF Empty, RxPing
<1>4. SumInv
  BY <1>2, SumEnds DEF Empty, SumInv
<1>5. fifo \in Seq(PingWords)
  BY DEF Empty
<1>6. ControlInv
  BY <1>1, <1>5 DEF Empty, ControlInv
<1>7. Collecting
  BY <1>2, <1>5, HoldsNothing DEF Empty, Collecting
<1>8. Waiting /\ Reading
  BY <1>1 DEF Empty, Waiting, Reading, Active, PayloadStates
<1> QED BY <1>2, <1>3, <1>4, <1>6, <1>7, <1>8 DEF OwnPing

\* A reset leaves the block empty.
LEMMA IcmpResetStep ==
  ASSUME IcmpInv, IcmpReset
  PROVE  IcmpInv'
<1>1. RxInv' /\ GenInv'
  BY RxInvReset, GenReset DEF IcmpInv, IcmpReset
<1>2. Empty'
  BY DEF IcmpInv, ControlInv, IcmpReset, RxReset, FgReset, Empty
<1>3. RxPing' /\ SumInv' /\ ControlInv' /\ OwnPing'
  BY <1>2, EmptyInv, PTL
<1> QED BY <1>1, <1>3 DEF IcmpInv

\* So does the power-up.
LEMMA IcmpInitInv == IcmpInit => IcmpInv
<1> SUFFICES ASSUME IcmpInit PROVE IcmpInv
  OBVIOUS
<1>1. RxInv /\ GenInv
  BY RxInvInit, GenInit DEF IcmpInit
<1>2. Empty
  BY DEF IcmpInit, RxInit, FgInit, Empty
<1> QED BY <1>1, <1>2, EmptyInv DEF IcmpInv

\* A step that changes nothing keeps it.
LEMMA IcmpStutter ==
  ASSUME IcmpInv, UNCHANGED icmpVars
  PROVE  IcmpInv'
<1>1. UNCHANGED rxVars /\ UNCHANGED <<hgVars, fgVars>>
  BY DEF icmpVars
<1>2. UNCHANGED <<fifo, fifo_q, reply_wait, icmp_dest, icmp_payload_rdy,
                  icmp_word_num, fr_eop_delayed, icmp_ping_delayed, icmp_sum,
                  checksum, ping, mixed, echo_sum>>
  BY DEF icmpVars
<1>3. UNCHANGED <<rx_frame, rx_pos, word_num, fr, data_valid, fr_word, fr_eop,
                  icmp_ping, generate_arp_reply, arp_reply_recieved, passed>>
  BY <1>1 DEF rxVars
<1>4. UNCHANGED <<fg_state, payload_length, delay_counter, fg_words, rdreq, wrreq,
                  frame_word, header_start, fg_busy, pipe>>
  BY <1>1 DEF fgVars
<1>5. GenInv' = GenInv /\ Got' = Got
  BY <1>1, GenStutter
<1>6. Clk' = Clk
  BY <1>4 DEF Clk
<1>7. RxInv'
  BY <1>3 DEF IcmpInv, RxInv, RxPlace, RxPulses, RxPayload, InFrame, Received
<1>8. /\ InFrame' = InFrame /\ Received' = Received /\ Incoming' = Incoming
      /\ fifo_wrreq' = fifo_wrreq /\ Handing' = Handing /\ Answering' = Answering
  BY <1>2, <1>3, <1>4 DEF InFrame, Received, Incoming, fifo_wrreq, Handing, Answering
<1>9. Collected' = Collected
  BY <1>8 DEF Collected
<1>10. RxPing' /\ SumInv' /\ ControlInv'
  BY <1>2, <1>3, <1>4, <1>5, <1>8, <1>9 DEF IcmpInv, RxPing, SumInv, ControlInv
<1>11. Collecting' = Collecting /\ Waiting' = Waiting
  BY <1>2, <1>3, <1>4, <1>8, <1>9 DEF Collecting, Waiting, PingLen
<1>12. Reading' = Reading
  BY <1>2, <1>4, <1>5, <1>6 DEF Reading, PingLen
<1>13. ~mixed' => OwnPing'
  BY <1>2, <1>8, <1>9, <1>11, <1>12 DEF IcmpInv, OwnPing
<1> QED BY <1>5, <1>7, <1>10, <1>13 DEF IcmpInv

\* The ICMP block's inductive invariant: the FIFO and the sum hold the words of
\* the ping that came in (icmp_block.vhd's payload FIFO and checksum_computer),
\* and the frame generator reads them out in step with icmp_word_num, unless
\* words of two pings met.
THEOREM IcmpInvariance == IcmpSpec => []IcmpInv
<1>1. IcmpInv /\ [IcmpNext]_icmpVars => IcmpInv'
  BY IcmpTickStep, IcmpResetStep, IcmpStutter DEF IcmpNext
<1> QED BY <1>1, IcmpInitInv, PTL DEF IcmpSpec

\* A second ping that comes in while the first is answered can spoil what an
\* answer carries and never the frame: icmp_block.vhd shares the FIFO and the
\* sum, but the frame generator goes by the length it took when it started, so
\* that every frame is whole, with the header of that length and start and end
\* of packet on its first and last word.
THEOREM IcmpFramesMarked == IcmpSpec => FramesMarked
<1>1. IcmpInit => Marks!LinkInit
  BY GenInit DEF IcmpInit
<1>2. IcmpInv /\ [IcmpNext]_icmpVars =>
        [Marks!LinkNext]_<<[valid |-> wrreq, sop |-> sop, eop |-> eop,
                            word |-> IF InPayload THEN frame[sent]
                                                  ELSE frame_word], frame, sent>>
  <2> SUFFICES ASSUME IcmpInv, [IcmpNext]_icmpVars
               PROVE  \/ Marks!LinkNext
                      \/ UNCHANGED <<wrreq, sop, eop, frame_word, frame, sent,
                                     payload_length>>
    BY DEF InPayload
  <2>1. ASSUME NEW tx_ready \in BOOLEAN, IcmpTick(tx_ready)
        PROVE  Marks!LinkNext
    BY <2>1, PingGen DEF IcmpTick, IcmpInv
  <2>2. CASE IcmpReset
    BY <2>2, GenReset DEF IcmpReset
  <2>3. CASE UNCHANGED icmpVars
    BY <2>3 DEF icmpVars, fgVars
  <2> QED BY <2>1, <2>2, <2>3 DEF IcmpNext
<1> QED BY <1>1, <1>2, IcmpInvariance, PTL
        DEF IcmpSpec, FramesMarked, Marks!LinkSpec

\* The header is over when a word behind it is on the line.
LEMMA BehindHeader ==
  ASSUME IcmpInv, wrreq, sent > HeadLen
  PROVE  /\ fg_state = "WRITE_PAYLOAD" /\ fg_words \in Nat
         /\ sent - HeadLen = fg_words + 1 /\ Got >= 1
<1>1. GenInv /\ fg_state \in Active /\ HeadLen \in Nat
  BY LenFacts DEF IcmpInv, ControlInv
<1>2. fg_state # "PAYLOAD_HEADER"
  <2> SUFFICES ASSUME fg_state = "PAYLOAD_HEADER" PROVE FALSE
    OBVIOUS
  <2>1. sent \in Nat /\ (sent + 1 = Before(hg_state) \/ sent = Before(hg_state))
    BY <1>1 DEF GenInv, HeaderPhase
  <2>2. hg_state \in HgStates /\ Enabled(hg_state)
    BY <1>1 DEF GenInv, Sync
  <2>3. Before(hg_state) \in Nat /\ Before(hg_state) <= HeadLen
    <3>1. CASE hg_state \in WordStates \cup Pauses
      BY <1>1, <2>2, <3>1, AfterFacts
    <3>2. CASE hg_state = "IDLE"
      BY <1>1, <3>2, IdleFacts
    <3>3. CASE hg_state = "DONE"
      BY <1>1, <3>3 DEF Before, Pauses
    <3> QED BY <2>2, <3>1, <3>2, <3>3 DEF HgStates
  <2> QED BY <1>1, <2>1, <2>3
<1>3. fg_state \in PayloadStates
  BY <1>1, <1>2 DEF Active
<1>4. fg_state = "WRITE_PAYLOAD"
  BY <1>1, <1>3 DEF GenInv, PayloadPhase, PayloadStates
<1>5. /\ fg_words \in 0 .. (payload_length - 1) /\ payload_length \in Nat
      /\ payload_length >= 1 /\ sent = HeadLen + fg_words + 1
  BY <1>1, <1>3, <1>4, ClkFacts DEF GenInv, PayloadPhase
<1>6. fg_words \in Nat /\ sent - HeadLen = fg_words + 1
  BY <1>1, <1>5
<1>7. Clk = 4 + fg_words
  BY <1>4, <1>6, PingHeadLen DEF Clk
<1>8. Got >= 1
  BY <1>5, <1>6, <1>7 DEF Got, AtMost
<1> QED BY <1>4, <1>6, <1>8

\* An answer that the words of no other ping met is the ping's own, for pings
\* of every length that leave a word of the FIFO free, from any stations, in
\* any spacing, with frames of every kind in between and resets at any time:
\* its destination, its length, its checksum and each of its words.
THEOREM PingsEchoed == IcmpSpec => []PingEchoed
<1>1. ASSUME IcmpInv PROVE PingEchoed
  <2> SUFFICES ASSUME wrreq, ~mixed
               PROVE  LET k == sent - HeaderWords
                      IN  /\ Len(frame) = HeaderWords + 1 + (ping.len - 10)
                          /\ sent <= Len(frame)
                          /\ icmp_dest = [mac |-> <<ping.from, ping.from>>,
                                          ip |-> <<ping.from, ping.from>>]
                          /\ k <= 0 => frame_word = frame[sent]
                          /\ k = 1 => frame_word = Echo /\ echo_sum = PingPayload(ping)
                          /\ k > 1 => frame_word = Word(ping.from, 8 + k)
    BY DEF PingEchoed
  <2> DEFINE k == sent - HeaderWords
  <2>1. /\ GenInv /\ ControlInv /\ OwnPing /\ fg_state \in Active
        /\ ping \in RxFrames /\ IsPingFor(ping)
        /\ icmp_dest = [mac |-> <<ping.from, ping.from>>,
                        ip |-> <<ping.from, ping.from>>]
    BY <1>1 DEF IcmpInv, ControlInv
  <2>2. /\ Len(frame) = HeadLen + payload_length /\ payload_length = PingLen + 1
        /\ PingLen \in Nat /\ HeadLen = HeaderWords /\ HeadLen \in Nat
    BY <2>1, PingLens, PingHeadLen, LenFacts
       DEF GenInv, FrameFixed, OwnPing, Reading
  <2>3. Len(frame) = HeaderWords + 1 + (ping.len - 10)
    <3>1. HeadLen + (PingLen + 1) = HeadLen + 1 + PingLen
      BY <2>2
    <3> QED BY <2>2, <3>1 DEF PingLen
  <2>4. /\ sent \in 1 .. Len(frame) /\ Len(frame) \in Nat
        /\ sent <= HeadLen => frame_word = frame[sent]
    BY <2>1, <2>2 DEF GenInv, Written
  <2>5. sent \in Nat /\ sent <= Len(frame)
    BY <2>4
  <2>6. k <= 0 => frame_word = frame[sent]
    BY <2>2, <2>4, <2>5
  <2>7. ASSUME k >= 1
        PROVE  frame_word = AnswerWord(ping, k) /\ echo_sum = PingPayload(ping)
    <3>1. sent > HeadLen
      BY <2>2, <2>5, <2>7
    <3>2. /\ fg_state = "WRITE_PAYLOAD" /\ sent - HeadLen = fg_words + 1 /\ Got >= 1
      BY <1>1, <3>1, BehindHeader
    <3> QED BY <2>1, <2>2, <3>2 DEF OwnPing, Reading
  <2>8. k \in Int
    BY <2>2, <2>5
  <2>9. /\ k = 1 => frame_word = Echo /\ echo_sum = PingPayload(ping)
        /\ k > 1 => frame_word = Word(ping.from, 8 + k)
    <3> HIDE DEF k
    <3> QED BY <2>7, <2>8 DEF AnswerWord
  <2> QED BY <2>1, <2>3, <2>5, <2>6, <2>9
<1> QED BY <1>1, IcmpInvariance, PTL
=============================================================================
