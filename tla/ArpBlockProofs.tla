--------------------------- MODULE ArpBlockProofs ---------------------------
(***************************************************************************)
(* The ARP block for every set of stations and frames, and for all wait    *)
(* and time-out constants: what the cache holds and whom a reply names.    *)
(***************************************************************************)
EXTENDS ArpBlock, FrameReceiverProofs, FrameStreamProofs

-----------------------------------------------------------------------------
(***************************************************************************)
(* The inductive invariant.  The frame generator is busy from the start of *)
(* a frame to the clock after its last word, and its end-of-packet is high *)
(* only while that word is on the line: a request that comes in meanwhile  *)
(* cannot replace the address of the reply under way, and the station      *)
(* counts as answered only when the reply is complete.                     *)
(***************************************************************************)
Generator ==
  /\ fg_state \in {"IDLE", "PAYLOAD_HEADER", "PAYLOAD_WAIT", "PAYLOAD_START",
                   "WRITE_PAYLOAD", "DONE"}
  /\ ~fg_busy => fg_state = "IDLE"
  /\ fg_state # "IDLE" => payload_length = ARP_len
  /\ fg_state = "PAYLOAD_START" => fg_words = 0
  /\ fg_state = "WRITE_PAYLOAD" => fg_words \in 0 .. (ARP_len - 1)
  /\ eop => fg_state = "WRITE_PAYLOAD" /\ fg_words = ARP_len - 1

ArpInv == RxInv /\ Generator /\ CacheIsServers /\ ReplyNamesRequester

-----------------------------------------------------------------------------
(* The receiver's registers at the end of an ARP frame *)

\* When a pulse reports an ARP frame, all four halves of the sender's
\* addresses are from that frame.
LEMMA PulseFacts ==
  ASSUME RxInv, ARP_source_ip_valid
  PROVE  /\ fr.mac = AddressOf(rx_frame.from)
         /\ fr.ip = AddressOf(rx_frame.from)
         /\ generate_arp_reply => rx_frame.ours
<1>1. fr_eop /\ rx_frame.kind \in ARP /\ rx_frame \in RxFrames /\ rx_pos = 0
  BY DEF ARP_source_ip_valid, RxInv, RxPulses, RxPlace, ARP
<1>2. rx_frame.len \in Nat /\ rx_frame.len >= 12
  BY <1>1, FrameFacts
<1>3. Parsed(fr, rx_frame, rx_frame.len)
  BY <1>1 DEF RxInv, InFrame, Received
<1>4. /\ fr.mac[1] = rx_frame.from /\ fr.mac[2] = rx_frame.from
      /\ fr.ip[1] = rx_frame.from /\ fr.ip[2] = rx_frame.from
  BY <1>1, <1>2, <1>3 DEF Parsed
<1>5. fr.mac \in [1 .. 2 -> Halves] /\ fr.ip \in [1 .. 2 -> Halves]
  BY DEF RxInv, HeaderOK
<1>6. fr.mac = AddressOf(rx_frame.from)
  BY <1>4, <1>5, WholeAddress DEF AddressOf
<1>7. fr.ip = AddressOf(rx_frame.from)
  BY <1>4, <1>5, WholeAddress DEF AddressOf
<1>8. generate_arp_reply => rx_frame.ours
  BY DEF RxInv, RxPulses
<1> QED BY <1>6, <1>7, <1>8

\* A station is known by its address.
LEMMA AddressInjective ==
  ASSUME NEW s, NEW t, AddressOf(s) = AddressOf(t)
  PROVE  s = t
<1>1. <<s, s>>[1] = <<t, t>>[1]
  BY DEF AddressOf
<1> QED BY <1>1

-----------------------------------------------------------------------------
(* One step *)

\* The cache takes the server's address only.
LEMMA CacheStep ==
  ASSUME RxInv, CacheIsServers, NEW reset, CacheUpdate(reset)
  PROVE  CacheIsServers'
<1>1. /\ cache_updated' <=> ~reset /\ ARP_source_ip_valid /\ fr.ip = AddressOf(Server)
      /\ cache_valid' <=> ~reset /\ (cache_valid \/ cache_updated')
      /\ cache_value' = IF reset THEN <<None, None>>
                        ELSE IF cache_updated' THEN fr.mac ELSE cache_value
  BY DEF CacheUpdate
<1>2. CASE cache_updated'
  <2>1. fr.mac = AddressOf(rx_frame.from) /\ fr.ip = AddressOf(rx_frame.from)
    BY <1>1, <1>2, PulseFacts
  <2>2. rx_frame.from = Server
    BY <1>1, <1>2, <2>1, AddressInjective
  <2> QED BY <1>1, <1>2, <2>1, <2>2 DEF CacheIsServers, AddressOf
<1>3. CASE ~cache_updated'
  BY <1>1, <1>3 DEF CacheIsServers, AddressOf
<1> QED BY <1>2, <1>3

\* The frame generator of the block at a clock edge.
LEMMA GeneratorStep ==
  ASSUME Generator, NEW ready, FgMachine(ready, ARP_len)
  PROVE  /\ Generator'
         /\ fg_state = "IDLE" /\ ~ready => fg_state' = "IDLE"
         /\ fg_state = "DONE" => fg_state' \in {"IDLE", "DONE"}
         /\ eop => fg_state' = "DONE"
<1> USE DEF ARP_len
<1>1. CASE FgIdle(ready, ARP_len)
  <2>1. PAYLOAD_MAX_LEN \in Nat /\ PAYLOAD_MAX_LEN > 7
    BY ArpAssumption, FrameAssumption
  <2>2. ~eop' /\ (fg_busy' <=> ready) /\ fg_state = "IDLE"
    BY <1>1 DEF FgIdle
  <2>3. /\ ready => fg_state' = "PAYLOAD_HEADER" /\ payload_length' = 7
        /\ ~ready => fg_state' = "IDLE"
    BY <1>1, <2>1 DEF FgIdle
  <2>4. ~eop
    BY <2>2 DEF Generator
  <2> QED BY <2>2, <2>3, <2>4 DEF Generator
<1>2. CASE FgHeader
  BY <1>2 DEF FgHeader, Generator
<1>3. CASE FgWait
  BY <1>3 DEF FgWait, Generator
<1>4. CASE FgStart
  BY <1>4 DEF FgStart, Generator
<1>5. CASE WriteMore
  BY <1>5 DEF WriteMore, Generator
<1>6. CASE WriteEnd
  BY <1>6 DEF WriteEnd, Generator
<1>7. CASE FgDone
  BY <1>7 DEF FgDone, Generator
<1> QED BY <1>1, <1>2, <1>3, <1>4, <1>5, <1>6, <1>7 DEF FgMachine

\* The reply buffer takes no address while a reply waits or is under way.
LEMMA ReplyStep ==
  ASSUME ArpInv, NEW tx_ready, ArpTick(tx_ready)
  PROVE  ReplyNamesRequester'
<1>1. RxInv /\ Generator /\ ReplyNamesRequester
  BY DEF ArpInv
<1>2. /\ ReplyBuffer /\ Asked
      /\ FgMachine(reply_wait /\ tx_ready, ARP_len)
  BY DEF ArpTick
<1>3. /\ fg_state = "IDLE" /\ ~reply_wait => fg_state' = "IDLE"
      /\ fg_state = "DONE" => fg_state' \in {"IDLE", "DONE"}
      /\ eop => fg_state' = "DONE"
  BY <1>1, <1>2, GeneratorStep
<1>4. /\ ~fg_busy => fg_state = "IDLE"
      /\ eop => fg_state = "WRITE_PAYLOAD"
  BY <1>1 DEF Generator
<1>5. asked' = (IF generate_arp_reply /\ rx_frame.ours THEN asked \cup {fr.mac[1]}
                                                       ELSE asked)
               \ (IF eop /\ ~is_request THEN {arp_dest.mac[1]} ELSE {})
  BY <1>2 DEF Asked
<1>6. ~eop => asked \subseteq asked'
  BY <1>5
<1>a. ASSUME arp_dest' = arp_dest, is_request' = is_request,
             (reply_wait' \/ fg_state' \notin {"IDLE", "DONE"}) =>
               ~eop /\ (reply_wait \/ fg_state \notin {"IDLE", "DONE"})
      PROVE  ReplyNamesRequester'
  BY <1>1, <1>6, <1>a DEF ReplyNamesRequester
<1>7. CASE fg_busy
  <2>1. ~reply_wait' /\ arp_dest' = arp_dest /\ is_request' = is_request
    BY <1>2, <1>7 DEF ReplyBuffer
  <2> QED BY <1>3, <1>a, <2>1
<1>8. CASE ~fg_busy /\ reply_wait
  <2>1. reply_wait' = reply_wait /\ arp_dest' = arp_dest /\ is_request' = is_request
    BY <1>2, <1>8 DEF ReplyBuffer
  <2> QED BY <1>4, <1>8, <1>a, <2>1
<1>9. CASE ~fg_busy /\ ~reply_wait /\ generate_arp_reply
  <2>1. arp_dest' = [mac |-> fr.mac, ip |-> fr.ip]
    BY <1>2, <1>9 DEF ReplyBuffer
  <2>2. /\ fr.mac = AddressOf(rx_frame.from) /\ fr.ip = AddressOf(rx_frame.from)
        /\ rx_frame.ours
    BY <1>1, <1>9, PulseFacts DEF ARP_source_ip_valid
  <2>3. fr.mac[1] = rx_frame.from
    BY <2>2 DEF AddressOf
  <2>4. ~eop
    BY <1>4, <1>9
  <2>5. rx_frame.from \in asked'
    BY <1>5, <1>9, <2>2, <2>3, <2>4
  <2> QED BY <2>1, <2>2, <2>5 DEF ReplyNamesRequester
<1>10. CASE /\ ~fg_busy /\ ~reply_wait /\ ~generate_arp_reply
            /\ generate_request_int
  <2>1. is_request'
    BY <1>2, <1>10 DEF ReplyBuffer
  <2> QED BY <2>1 DEF ReplyNamesRequester
<1>11. CASE /\ ~fg_busy /\ ~reply_wait /\ ~generate_arp_reply
            /\ ~generate_request_int
  <2>1. ~reply_wait'
    BY <1>2, <1>11 DEF ReplyBuffer
  <2>2. fg_state' = "IDLE"
    BY <1>3, <1>4, <1>11
  <2> QED BY <2>1, <2>2 DEF ReplyNamesRequester
<1> QED BY <1>7, <1>8, <1>9, <1>10, <1>11

\* What holds at the start.
LEMMA ArpInvInit == ArpInit => ArpInv
<1> SUFFICES ASSUME ArpInit PROVE ArpInv
  OBVIOUS
<1>1. RxInv
  BY RxInvInit DEF ArpInit
<1>2. Generator
  BY DEF ArpInit, FgInit, Generator
<1>3. CacheIsServers /\ ReplyNamesRequester
  BY DEF ArpInit, FgInit, CacheIsServers, ReplyNamesRequester
<1> QED BY <1>1, <1>2, <1>3 DEF ArpInv

\* Every clock edge and every reset keeps the invariant.
LEMMA ArpInvStep == ArpInv /\ ArpNext => ArpInv'
<1>1. ASSUME ArpInv, NEW tx_ready \in BOOLEAN, ArpTick(tx_ready)
      PROVE  ArpInv'
  <2>1. RxInv'
    BY <1>1, RxInvStep DEF ArpInv, ArpTick, RxNext
  <2>2. Generator'
    BY <1>1, GeneratorStep DEF ArpInv, ArpTick
  <2>3. PICK reset \in BOOLEAN : CacheUpdate(reset)
    BY <1>1 DEF ArpTick
  <2>4. CacheIsServers'
    BY <1>1, <2>3, CacheStep DEF ArpInv
  <2> QED BY <1>1, <2>1, <2>2, <2>4, ReplyStep DEF ArpInv
<1>2. ASSUME ArpInv, ArpReset
      PROVE  ArpInv'
  <2>1. RxInv'
    BY <1>2, RxInvStep DEF ArpInv, ArpReset, RxNext
  <2>2. Generator'
    BY <1>2 DEF ArpInv, ArpReset, FgReset, Generator
  <2>3. CacheIsServers' /\ ReplyNamesRequester'
    BY <1>2 DEF ArpReset, FgReset, CacheIsServers, ReplyNamesRequester
  <2> QED BY <2>1, <2>2, <2>3 DEF ArpInv
<1> QED BY <1>1, <1>2 DEF ArpNext

\* The invariant holds in every state the block can reach.
THEOREM ArpInvariance == ArpSpec => []ArpInv
<1>1. ASSUME ArpInv, UNCHANGED arpVars
      PROVE  ArpInv'
  <2>1. UNCHANGED rxVars
    BY <1>1 DEF arpVars
  <2>2. RxInv'
    BY <1>1, <2>1 DEF ArpInv, rxVars, RxInv, RxPlace, RxPulses, RxPayload,
                      InFrame, Received
  <2>3. Generator'
    BY <1>1 DEF ArpInv, arpVars, fgVars, Generator
  <2>4. CacheIsServers' /\ ReplyNamesRequester'
    BY <1>1 DEF ArpInv, arpVars, fgVars, replyVars, cacheVars, CacheIsServers,
                ReplyNamesRequester
  <2> QED BY <2>2, <2>3, <2>4 DEF ArpInv
<1>2. ArpInv /\ [ArpNext]_arpVars => ArpInv'
  BY <1>1, ArpInvStep
<1> QED BY <1>2, ArpInvInit, PTL DEF ArpSpec

(***************************************************************************)
(* The cache never offers anything but the server's own address, whatever  *)
(* stations send ARP frames and however their words are spaced.            *)
(***************************************************************************)
THEOREM CacheHoldsServer == ArpSpec => []CacheIsServers
<1>1. ArpInv => CacheIsServers
  BY DEF ArpInv
<1> QED BY <1>1, ArpInvariance, PTL

(***************************************************************************)
(* A reply waiting or under way names a station that asked and has had no  *)
(* answer since: requests that come in while it is sent do not change it.  *)
(***************************************************************************)
THEOREM RequesterNamed == ArpSpec => []ReplyNamesRequester
<1>1. ArpInv => ReplyNamesRequester
  BY DEF ArpInv
<1> QED BY <1>1, ArpInvariance, PTL

-----------------------------------------------------------------------------
(***************************************************************************)
(* The words of the frames.  The replier is started by the first rdreq and *)
(* then goes through its states by itself, one per clock, while the frame  *)
(* generator counts its own delay: that both agree on the clock of each    *)
(* word is what the invariant says.  The replier is back in its first      *)
(* state before a frame ends.                                              *)
(***************************************************************************)
ReplierAt(c) ==
  IF c \in 2 .. (ARP_len + 1) THEN Payload(c - 1)
  ELSE IF c = ARP_len + 2 THEN Word("done", 0) ELSE NoWord

ArpWords ==
  /\ fg_state \in Active => \A k \in 1 .. ARP_len : frame[HeadLen + k] = Payload(k)
  /\ DOMAIN pipe = Stages
  /\ pipe[1] = ReplierAt(Clk)
  /\ \A i \in 2 .. 4 : (Clk - i) \in 1 .. ARP_len => pipe[i] = Payload(Clk - i)
  /\ wrreq => frame_word = frame[sent]

ArpLine == ArpInv /\ GenInv /\ ArpWords

\* The generators' part of a clock.
LEMMA ArpGen ==
  ASSUME GenInv, NEW tx_ready, ArpTick(tx_ready)
  PROVE  /\ GenInv' /\ Framed
         /\ (fg_state \notin Active /\ fg_state' \in Active) => Starts(0, 1)
         /\ (fg_state \in Active /\ fg_state' \in Active) => GoesOn
<1>1. KeepsPort(0)
  BY ArpAssumption DEF KeepsPort, Enabled, UdpStates
<1>2. /\ FgMachine(reply_wait /\ tx_ready, ARP_len)
      /\ HgClock(header_start, payload_length, 0) /\ FrameHistory(1, 0)
  BY DEF ArpTick
<1>3. ARP_len \in Nat
  BY DEF ARP_len
<1> QED BY <1>1, <1>2, <1>3, GenFrame

\* The clocks of the payload run from 0 to the last word.
LEMMA ArpClk ==
  ASSUME GenInv, Generator
  PROVE  /\ Clk \in 0 .. 12
         /\ fg_state \in PayloadStates => payload_length = 7
         /\ rdreq <=> Clk \in 1 .. 7
         /\ fg_state \notin PayloadStates => Clk = 0
<1>1. IN_DLY = 5
  BY ArpAssumption
<1>2. CASE fg_state \in PayloadStates
  <2>1. payload_length = 7 /\ PayloadPhase
    BY <1>2 DEF GenInv, Generator, ARP_len, PayloadStates
  <2>2. Clk \in 0 .. 12
    BY <1>1, <1>2, <2>1 DEF PayloadPhase, PayloadStates, Clk
  <2> QED BY <1>2, <2>1, <2>2 DEF PayloadPhase
<1>3. CASE fg_state \notin PayloadStates
  <2>1. Clk = 0
    BY <1>3 DEF Clk, PayloadStates
  <2>2. ~rdreq
    BY <1>3 DEF GenInv, Sync, HeaderPhase, Between, Active
  <2> QED BY <1>3, <2>1, <2>2
<1> QED BY <1>2, <1>3

\* They go on by one, and end after the last word.
LEMMA ArpClkStep ==
  ASSUME GenInv, Generator, NEW ready, FgMachine(ready, ARP_len), GenInv',
         Generator'
  PROVE  \/ Clk' = Clk + 1
         \/ Clk' = 0 /\ Clk \in {0, 12}
<1>1. IN_DLY = 5
  BY ArpAssumption
<1>2. CASE FgIdle(ready, ARP_len) \/ FgHeader \/ FgDone
  BY <1>2 DEF FgIdle, FgHeader, FgDone, Clk, GenInv, HeaderPhase
<1>3. CASE FgWait
  BY <1>1, <1>3 DEF FgWait, Clk, GenInv, PayloadPhase, PayloadStates
<1>4. CASE FgStart
  BY <1>1, <1>4 DEF FgStart, Clk, GenInv, PayloadPhase, PayloadStates
<1>5. CASE WriteMore
  BY <1>1, <1>5 DEF WriteMore, Clk, Generator, ARP_len
<1>6. CASE WriteEnd
  BY <1>1, <1>6 DEF WriteEnd, Clk, Generator, ARP_len
<1> QED BY <1>2, <1>3, <1>4, <1>5, <1>6 DEF FgMachine

\* The replier and the stages behind it keep step with the frame generator.
LEMMA ArpPipe ==
  ASSUME GenInv, Generator, ArpWords, GenInv', Generator',
         NEW tx_ready, ArpTick(tx_ready)
  PROVE  /\ DOMAIN pipe' = Stages
         /\ pipe'[1] = ReplierAt(Clk')
         /\ \A i \in 2 .. 4 :
              (Clk' - i) \in 1 .. ARP_len => pipe'[i] = Payload(Clk' - i)
<1>1. Pipeline(TRUE, Replier) /\ FgMachine(reply_wait /\ tx_ready, ARP_len)
  BY DEF ArpTick
<1>2. Stages = 1 .. 4
  BY ArpAssumption DEF Stages
<1>3. /\ pipe' = [i \in Stages |-> IF i > 1 THEN pipe[i - 1] ELSE Replier]
  BY <1>1 DEF Pipeline
<1>4. Clk \in 0 .. 12 /\ (rdreq <=> Clk \in 1 .. 7)
  BY ArpClk
<1>5. Clk' = Clk + 1 \/ (Clk' = 0 /\ Clk \in {0, 12})
  BY <1>1, ArpClkStep
<1>6. pipe[1] = ReplierAt(Clk)
  BY DEF ArpWords
<1>7. Replier = ReplierAt(Clk')
  <2>1. CASE Clk \in 0 .. 1 \/ Clk \in 10 .. 12
    <3>1. pipe[1].kind = "none"
      BY <1>6, <2>1 DEF ReplierAt, ARP_len, NoWord, Word
    <3>2. Replier = IF rdreq THEN Payload(1) ELSE NoWord
      BY <3>1 DEF Replier
    <3> QED BY <1>4, <1>5, <2>1, <3>2 DEF ReplierAt, ARP_len
  <2>2. CASE Clk \in 2 .. 7
    <3>1. pipe[1].kind = "payload" /\ pipe[1].n = Clk - 1
      BY <1>6, <2>2 DEF ReplierAt, ARP_len, Payload, Word
    <3>2. Replier = Payload(Clk)
      BY <2>2, <3>1 DEF Replier, ARP_len
    <3> QED BY <1>5, <2>2, <3>2 DEF ReplierAt, ARP_len
  <2>3. CASE Clk = 8
    <3>1. pipe[1].kind = "payload" /\ pipe[1].n = 7
      BY <1>6, <2>3 DEF ReplierAt, ARP_len, Payload, Word
    <3>2. Replier = Word("done", 0)
      BY <3>1 DEF Replier, ARP_len
    <3> QED BY <1>5, <2>3, <3>2 DEF ReplierAt, ARP_len
  <2>4. CASE Clk = 9
    <3>1. pipe[1].kind = "done"
      BY <1>6, <2>4 DEF ReplierAt, ARP_len, Word
    <3>2. Replier = NoWord
      BY <3>1 DEF Replier
    <3> QED BY <1>5, <2>4, <3>2 DEF ReplierAt, ARP_len
  <2> QED BY <1>4, <2>1, <2>2, <2>3, <2>4
<1>8. ASSUME NEW i \in 2 .. 4, (Clk' - i) \in 1 .. ARP_len
      PROVE  pipe'[i] = Payload(Clk' - i)
  <2>1. Clk' = Clk + 1 /\ pipe'[i] = pipe[i - 1]
    BY <1>2, <1>3, <1>4, <1>5, <1>8 DEF ARP_len
  <2>2. CASE i = 2
    BY <1>4, <1>6, <1>8, <2>1, <2>2 DEF ReplierAt, ARP_len
  <2>3. CASE i \in 3 .. 4
    <3>1. i - 1 \in 2 .. 4 /\ Clk - (i - 1) \in 1 .. ARP_len
      BY <1>4, <1>8, <2>1, <2>3 DEF ARP_len
    <3>2. pipe[i - 1] = Payload(Clk - (i - 1))
      BY <3>1 DEF ArpWords
    <3> QED BY <1>4, <2>1, <2>3, <3>2
  <2> QED BY <1>8, <2>2, <2>3
<1> QED BY <1>2, <1>3, <1>7, <1>8

\* The word on the line is the next one of the frame.
LEMMA ArpOnLine ==
  ASSUME GenInv, Generator, ArpWords, GenInv', Generator',
         NEW tx_ready, ArpTick(tx_ready), wrreq'
  PROVE  frame_word' = frame'[sent']
<1>1. FgMachine(reply_wait /\ tx_ready, ARP_len) /\ FrameHistory(1, 0)
  BY DEF ArpTick
<1>2. FgHeader \/ FgStart \/ WriteMore
  BY <1>1 DEF FgMachine, FgIdle, FgWait, WriteEnd, FgDone
<1>3. fg_state \in Active /\ frame' = frame /\ sent' = sent + 1
  BY <1>1, <1>2 DEF FgHeader, FgStart, WriteMore, FrameHistory, Active, PayloadStates
<1>4. CASE FgHeader
  BY <1>3, <1>4 DEF FgHeader, GenInv, HeaderPhase
<1>5. IN_DLY = 5 /\ payload_word = pipe[4] /\ HeadLen \in Nat
  BY ArpAssumption, LenFacts DEF payload_word
<1>6. CASE FgStart
  <2>1. Clk = 5 /\ sent' = HeadLen + 1 /\ frame_word' = pipe[4]
    BY <1>3, <1>5, <1>6 DEF FgStart, Clk, GenInv, PayloadPhase, PayloadStates
  <2>2. pipe[4] = Payload(1)
    BY <2>1 DEF ArpWords, ARP_len
  <2>3. frame[HeadLen + 1] = Payload(1)
    BY <1>3 DEF ArpWords, ARP_len
  <2> QED BY <1>3, <2>1, <2>2, <2>3
<1>7. CASE WriteMore
  <2>1. fg_words \in 0 .. 5 /\ Clk = 6 + fg_words /\ frame_word' = pipe[4]
    BY <1>5, <1>7 DEF WriteMore, Clk, Generator, ARP_len
  <2>2. sent' = HeadLen + (fg_words + 2)
    BY <1>3, <1>5, <1>7, <2>1 DEF WriteMore, GenInv, PayloadPhase, PayloadStates
  <2>3. pipe[4] = Payload(fg_words + 2)
    <3>1. Clk - 4 = fg_words + 2 /\ Clk - 4 \in 1 .. ARP_len
      BY <2>1 DEF ARP_len
    <3> QED BY <3>1 DEF ArpWords
  <2>4. frame[HeadLen + (fg_words + 2)] = Payload(fg_words + 2)
    BY <1>3, <2>1 DEF ArpWords, ARP_len
  <2> QED BY <1>3, <2>1, <2>2, <2>3, <2>4
<1> QED BY <1>2, <1>4, <1>6, <1>7

\* The frame under way is made of the replier's words.
LEMMA ArpFrame ==
  ASSUME GenInv, Generator, ArpWords, GenInv', Generator',
         NEW tx_ready, ArpTick(tx_ready), fg_state' \in Active
  PROVE  \A k \in 1 .. ARP_len : frame'[HeadLen + k] = Payload(k)
<1>1. CASE fg_state \in Active
  BY <1>1, ArpGen DEF GoesOn, ArpWords
<1>2. CASE fg_state \notin Active
  <2>1. payload_length' = ARP_len
    BY DEF Generator, Active, PayloadStates
  <2>2. \A k \in 1 .. ARP_len : frame'[HeadLen + k] = Payload(1 + k - 1)
    BY <1>2, <2>1, ArpGen DEF Starts
  <2>3. \A k \in 1 .. ARP_len : 1 + k - 1 = k
    OBVIOUS
  <2> QED BY <2>2, <2>3
<1> QED BY <1>1, <1>2

\* An idle block with nothing under way.
LEMMA ArpWordsIdle ==
  (fg_state = "IDLE" /\ ~wrreq /\ pipe = [i \in Stages |-> NoWord]) => ArpWords
<1> SUFFICES ASSUME fg_state = "IDLE", ~wrreq, pipe = [i \in Stages |-> NoWord]
             PROVE  ArpWords
  OBVIOUS
<1>1. Clk = 0 /\ fg_state \notin Active /\ Stages = 1 .. 4
  BY ArpAssumption DEF Clk, Active, PayloadStates, Stages
<1> QED BY <1>1 DEF ArpWords, ReplierAt, ARP_len

\* The invariant, with the words, in every state the block can reach.
THEOREM ArpLineInvariance == ArpSpec => []ArpLine
<1>1. ArpInit => ArpLine
  BY ArpInvInit, GenInit, ArpWordsIdle DEF ArpInit, FgInit, ArpLine
<1>2. ArpLine /\ ArpInv' /\ [ArpNext]_arpVars => ArpLine'
  <2> SUFFICES ASSUME ArpLine, ArpInv', [ArpNext]_arpVars
               PROVE  GenInv' /\ ArpWords'
    BY DEF ArpLine
  <2>1. GenInv /\ Generator /\ ArpWords /\ Generator'
    BY DEF ArpLine, ArpInv
  <2>2. ASSUME NEW tx_ready \in BOOLEAN, ArpTick(tx_ready)
        PROVE  GenInv' /\ ArpWords'
    <3>1. GenInv'
      BY <2>1, <2>2, ArpGen
    <3> QED BY <2>1, <2>2, <3>1, ArpPipe, ArpOnLine, ArpFrame DEF ArpWords
  <2>3. CASE ArpReset
    <3>1. GenInv'
      BY <2>3, GenReset DEF ArpReset
    <3>2. (fg_state = "IDLE" /\ ~wrreq /\ pipe = [i \in Stages |-> NoWord])'
      BY <2>3 DEF ArpReset, FgReset
    <3>3. ArpWords'
      BY <3>2, ArpWordsIdle, PTL
    <3> QED BY <3>1, <3>3
  <2>4. CASE UNCHANGED arpVars
    <3>1. GenInv'
      BY <2>1, <2>4, GenStutter DEF arpVars
    <3>2. ArpWords'
      BY <2>1, <2>4 DEF arpVars, fgVars, ArpWords, Clk
    <3> QED BY <3>1, <3>2
  <2> QED BY <2>2, <2>3, <2>4 DEF ArpNext
<1> QED BY <1>1, <1>2, ArpInvariance, PTL DEF ArpSpec

(***************************************************************************)
(* Every ARP frame is whole: the header and the seven words of             *)
(* arp_replier.vhd, each in its place and once, with start and end of      *)
(* packet on the first and the last, although replier and frame generator  *)
(* only share the first rdreq.                                             *)
(***************************************************************************)
THEOREM ArpFramesWhole == ArpSpec => WholeFrames
<1>1. ArpInit => Link!LinkInit
  BY GenInit DEF ArpInit
<1>2. ArpLine /\ ArpLine' /\ [ArpNext]_arpVars =>
        [Link!LinkNext]_<<[valid |-> wrreq, sop |-> sop, eop |-> eop,
                           word |-> frame_word], frame, sent>>
  <2> SUFFICES ASSUME ArpLine, ArpLine', [ArpNext]_arpVars
               PROVE  \/ Link!LinkNext
                      \/ UNCHANGED <<wrreq, sop, eop, frame_word, frame, sent>>
    OBVIOUS
  <2>1. ASSUME NEW tx_ready \in BOOLEAN, ArpTick(tx_ready)
        PROVE  Link!LinkNext
    <3>1. Framed
      BY <2>1, ArpGen DEF ArpLine
    <3>2. wrreq' => frame_word' = frame'[sent']
      BY DEF ArpLine, ArpWords
    <3> QED BY <3>1, <3>2, FramedLink
  <2>2. CASE ArpReset
    BY <2>2, GenReset DEF ArpReset
  <2>3. CASE UNCHANGED arpVars
    BY <2>3 DEF arpVars, fgVars
  <2> QED BY <2>1, <2>2, <2>3 DEF ArpNext
<1> QED BY <1>1, <1>2, ArpLineInvariance, PTL
        DEF ArpSpec, WholeFrames, Link!LinkSpec
=============================================================================
