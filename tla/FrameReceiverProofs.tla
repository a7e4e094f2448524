------------------------- MODULE FrameReceiverProofs ------------------------
(***************************************************************************)
(* The frame receiver for every set of stations and frames: what its       *)
(* registers hold of the frame on the line, word by word, however the MAC  *)
(* spaces the words and whatever frames and resets came before.            *)
(***************************************************************************)
EXTENDS FrameReceiver, TLAPS

-----------------------------------------------------------------------------
(***************************************************************************)
(* The inductive invariant.                                                *)
(***************************************************************************)
Halves == Stations \cup {None, Junk}
HeaderOK(h) ==
  /\ h \in [mac : [1 .. 2 -> Halves], ip : [1 .. 2 -> Halves],
            dest_ip : {"ours", "other", None, Junk}, port : Nat,
            ethertype : {"ARP", "IPv4", None, Junk},
            optype : FrameKinds \cup {None, Junk},
            protocol : FrameKinds \cup {None, Junk},
            icmptype : {"ECHO_REQUEST", None, Junk}, payload_len : Nat]

\* What registers h hold after n > 0 words of frame f.
Parsed(h, f, n) ==
  /\ n < 4 => h.ethertype = None
  /\ n >= 3 => h.mac[1] = f.from
  /\ n >= 4 => h.mac[2] = f.from /\ h.ethertype = EtherType(f)
  /\ f.kind \notin ARP =>
       /\ h.optype = None
       /\ n >= 7 => h.protocol = f.kind
       /\ n >= 8 => h.ip[1] = f.from /\ h.ip[2] = f.from
       /\ n >= 9 => h.dest_ip = DestIp(f)
       /\ n >= 10 /\ f.kind = "UDP" => h.port = f.port
       /\ n >= 11 /\ f.kind = "UDP" => h.payload_len = f.plen
       /\ n >= 10 /\ f.kind = "ICMP" => h.icmptype = "ECHO_REQUEST"
  /\ f.kind \in ARP =>
       /\ h.optype = IF n >= 6 THEN f.kind ELSE None
       /\ n >= 8 => h.ip[1] = f.from
       /\ n >= 9 => h.ip[2] = f.from
       /\ n >= 11 => h.dest_ip = DestIp(f)

\* The words of rx_frame that have come in: all of them in the clock after
\* its last.
Received == IF rx_pos > 0 THEN rx_pos ELSE rx_frame.len
InFrame == rx_pos > 0 \/ fr_eop

\* Payload words among the first n words of a UDP frame.
PayloadIn(f, n) == IF n <= 11 THEN 0 ELSE IF n - 11 <= f.plen THEN n - 11 ELSE f.plen

RxPlace ==
  /\ rx_frame \in RxFrames
  /\ rx_pos \in 0 .. (rx_frame.len - 1)
  /\ word_num = rx_pos
  /\ fr_eop => rx_pos = 0

RxPulses ==
  /\ generate_arp_reply =>
       fr_eop /\ rx_frame.kind = "ARP_REQUEST" /\ rx_frame.ours
  /\ arp_reply_recieved =>
       fr_eop /\ rx_frame.kind = "ARP_REPLY" /\ rx_frame.ours

RxPayload ==
  rx_frame.kind = "UDP" =>
    /\ data_valid => InFrame
    /\ InFrame => passed = PayloadIn(rx_frame, Received)
    /\ data_valid => /\ fr_word = Received - 1
                     /\ Received >= 12 /\ Received <= 11 + rx_frame.plen

RxInv ==
  /\ RxPlace /\ HeaderOK(fr)
  /\ InFrame => Parsed(fr, rx_frame, Received)
  /\ RxPulses /\ RxPayload

-----------------------------------------------------------------------------
(* Parsing *)

\* The cleared registers.
LEMMA NoHeaderFacts ==
  /\ HeaderOK(NoHeader)
  /\ NoHeader.ethertype = None /\ NoHeader.optype = None
  BY DEF NoHeader, HeaderOK, Halves

\* Two halves of the same station are the station's address.
LEMMA WholeAddress ==
  ASSUME NEW m \in [1 .. 2 -> Halves], NEW s, m[1] = s, m[2] = s
  PROVE  m = <<s, s>>
  OBVIOUS

\* The frames on the line.
LEMMA FrameFacts ==
  ASSUME NEW f \in RxFrames
  PROVE  /\ f.kind \in FrameKinds /\ f.from \in Halves /\ f.ours \in BOOLEAN
         /\ f.len \in Nat /\ f.len >= 11 /\ f.plen \in Nat /\ f.port \in Nat
         /\ f.kind \in ARP => f.len >= 12
         /\ f.kind = "UDP" => f.len >= 11 + f.plen
         /\ f.kind \notin ARP => f.kind \in {"ICMP", "UDP"}
  BY RxFramesAssumption DEF FrameKinds, Halves

\* The next word of a frame adds its field to the registers.
LEMMA ParseStep ==
  ASSUME HeaderOK(fr), NEW f \in RxFrames, rx_pos \in Nat, word_num = rx_pos,
         rx_pos > 0 => Parsed(fr, f, rx_pos)
  PROVE  HeaderOK(Parse(f)) /\ Parsed(Parse(f), f, rx_pos + 1)
<1> USE FrameFacts DEF At
<1>a. CASE rx_pos = 0
  <2>1. Parse(f) = [NoHeader EXCEPT !.protocol = fr.protocol]
    BY <1>a DEF Parse
  <2>2. HeaderOK(Parse(f)) /\ Parse(f).ethertype = None /\ Parse(f).optype = None
    BY <2>1, NoHeaderFacts DEF HeaderOK
  <2> QED BY <1>a, <2>2 DEF Parsed
<1>b. CASE rx_pos = 1
  <2>1. Parse(f) = fr
    BY <1>b DEF Parse
  <2> QED BY <1>b, <2>1 DEF Parsed
<1>c. CASE rx_pos = 2
  <2>1. Parse(f) = [fr EXCEPT !.mac[1] = f.from]
    BY <1>c DEF Parse
  <2>2. HeaderOK(Parse(f)) /\ Parse(f).mac[1] = f.from
    BY <2>1 DEF HeaderOK
  <2>3. Parse(f).ethertype = fr.ethertype /\ Parse(f).optype = fr.optype
    BY <2>1 DEF HeaderOK
  <2>4. fr.ethertype = None /\ fr.optype = None
    BY <1>c DEF Parsed
  <2>5. Parsed(Parse(f), f, 3)
    BY <2>2, <2>3, <2>4 DEF Parsed
  <2> QED BY <1>c, <2>2, <2>5
<1>d. CASE rx_pos = 3
  <2>1. Parse(f) = [fr EXCEPT !.mac[2] = f.from, !.ethertype = EtherType(f)]
    BY <1>d DEF Parse
  <2>2. EtherType(f) \in {"ARP", "IPv4"}
    BY DEF EtherType
  <2>3. Parse(f) = [fr EXCEPT !.mac = [fr.mac EXCEPT ![2] = f.from],
                              !.ethertype = EtherType(f)]
    BY <2>1 DEF HeaderOK
  <2>4. /\ [fr.mac EXCEPT ![2] = f.from] \in [1 .. 2 -> Halves]
        /\ [fr.mac EXCEPT ![2] = f.from][2] = f.from
        /\ [fr.mac EXCEPT ![2] = f.from][1] = fr.mac[1]
    BY DEF HeaderOK
  <2>5. HeaderOK(Parse(f))
    BY <2>2, <2>3, <2>4 DEF HeaderOK
  <2>6. /\ Parse(f).mac[1] = fr.mac[1] /\ Parse(f).mac[2] = f.from
        /\ Parse(f).ethertype = EtherType(f) /\ Parse(f).optype = fr.optype
    BY <2>3, <2>4 DEF HeaderOK
  <2>7. Parsed(fr, f, 3)
    BY <1>d
  <2>8. fr.mac[1] = f.from /\ fr.optype = None
    BY <2>7 DEF Parsed
  <2>9. Parsed(Parse(f), f, 4)
    BY <2>6, <2>8 DEF Parsed
  <2> QED BY <1>d, <2>5, <2>9
<1>e. CASE rx_pos >= 4 /\ f.kind \notin ARP
  <2>1. fr.ethertype = "IPv4" /\ f.kind \in {"ICMP", "UDP"}
    BY <1>e DEF Parsed, EtherType
  <2>2. Parse(f) = ParseIp(f)
    BY <1>e, <2>1 DEF Parse
  <2>3. CASE rx_pos = 6
    <3>1. Parse(f) = [fr EXCEPT !.protocol = f.kind]
      BY <2>2, <2>3 DEF ParseIp
    <3> QED BY <1>e, <2>1, <2>3, <3>1 DEF Parsed, HeaderOK
  <2>4. CASE rx_pos = 7
    <3>1. Parse(f) = [fr EXCEPT !.ip = <<f.from, f.from>>]
      BY <2>2, <2>4 DEF ParseIp
    <3> QED BY <1>e, <2>1, <2>4, <3>1 DEF Parsed, HeaderOK
  <2>5. CASE rx_pos = 8
    <3>1. Parse(f) = [fr EXCEPT !.dest_ip = DestIp(f)]
      BY <2>2, <2>5 DEF ParseIp
    <3>2. DestIp(f) \in {"ours", "other"}
      BY DEF DestIp
    <3> QED BY <1>e, <2>1, <2>5, <3>1, <3>2 DEF Parsed, HeaderOK
  <2>6. CASE rx_pos = 9 /\ f.kind = "UDP"
    <3>1. fr.protocol = "UDP"
      BY <1>e, <2>6 DEF Parsed
    <3>2. Parse(f) = [fr EXCEPT !.port = f.port]
      BY <2>2, <2>6, <3>1 DEF ParseIp
    <3> QED BY <1>e, <2>1, <2>6, <3>2 DEF Parsed, HeaderOK
  <2>7. CASE rx_pos = 9 /\ f.kind = "ICMP"
    <3>1. fr.protocol = "ICMP"
      BY <1>e, <2>7 DEF Parsed
    <3>2. Parse(f) = [fr EXCEPT !.icmptype = "ECHO_REQUEST"]
      BY <2>2, <2>7, <3>1 DEF ParseIp
    <3> QED BY <1>e, <2>1, <2>7, <3>2 DEF Parsed, HeaderOK
  <2>8. CASE rx_pos = 10 /\ f.kind = "UDP"
    <3>1. fr.protocol = "UDP"
      BY <1>e, <2>8 DEF Parsed
    <3>2. Parse(f) = [fr EXCEPT !.payload_len = f.plen]
      BY <2>2, <2>8, <3>1 DEF ParseIp
    <3> QED BY <1>e, <2>1, <2>8, <3>2 DEF Parsed, HeaderOK
  <2>9. CASE \/ rx_pos \in {4, 5} \/ rx_pos > 10
             \/ rx_pos = 10 /\ f.kind = "ICMP"
    <3>1. rx_pos = 10 => fr.protocol = "ICMP"
      BY <1>e, <2>9 DEF Parsed
    <3>2. Parse(f) = fr
      BY <2>2, <2>9, <3>1 DEF ParseIp
    <3> QED BY <1>e, <2>1, <2>9, <3>2 DEF Parsed
  <2> QED BY <1>e, <2>1, <2>3, <2>4, <2>5, <2>6, <2>7, <2>8, <2>9
<1>f. CASE rx_pos >= 4 /\ f.kind \in ARP
  <2>1. fr.ethertype = "ARP"
    BY <1>f DEF Parsed, EtherType
  <2>2. Parse(f) = ParseArp(f)
    BY <1>f, <2>1 DEF Parse
  <2>3. CASE rx_pos = 5
    <3>1. Parse(f) = [fr EXCEPT !.optype = f.kind]
      BY <2>2, <2>3 DEF ParseArp
    <3> QED BY <1>f, <2>1, <2>3, <3>1 DEF Parsed, HeaderOK
  <2>4. CASE rx_pos = 6
    <3>1. Parse(f) = [fr EXCEPT !.mac[1] = f.from]
      BY <2>2, <2>4 DEF ParseArp
    <3> QED BY <1>f, <2>1, <2>4, <3>1 DEF Parsed, HeaderOK
  <2>5. CASE rx_pos = 7
    <3>1. Parse(f) = [fr EXCEPT !.mac[2] = f.from, !.ip[1] = f.from]
      BY <2>2, <2>5 DEF ParseArp
    <3>a. /\ Parse(f).mac = [fr.mac EXCEPT ![2] = f.from]
          /\ Parse(f).ip = [fr.ip EXCEPT ![1] = f.from]
      BY <3>1 DEF HeaderOK
    <3>b. /\ [fr.mac EXCEPT ![2] = f.from] \in [1 .. 2 -> Halves]
          /\ [fr.ip EXCEPT ![1] = f.from] \in [1 .. 2 -> Halves]
          /\ [fr.mac EXCEPT ![2] = f.from][2] = f.from
          /\ [fr.mac EXCEPT ![2] = f.from][1] = fr.mac[1]
          /\ [fr.ip EXCEPT ![1] = f.from][1] = f.from
      BY DEF HeaderOK
    <3>c. Parse(f) = [fr EXCEPT !.mac = [fr.mac EXCEPT ![2] = f.from],
                                !.ip = [fr.ip EXCEPT ![1] = f.from]]
      BY <3>1 DEF HeaderOK
    <3>2. /\ HeaderOK(Parse(f))
          /\ Parse(f).mac[2] = f.from /\ Parse(f).mac[1] = fr.mac[1]
          /\ Parse(f).ip[1] = f.from
      BY <3>a, <3>b, <3>c DEF HeaderOK
    <3>3. Parse(f).ethertype = fr.ethertype /\ Parse(f).optype = fr.optype
      BY <3>1 DEF HeaderOK
    <3> QED BY <1>f, <2>1, <2>5, <3>2, <3>3 DEF Parsed
  <2>6. CASE rx_pos = 8
    <3>1. Parse(f) = [fr EXCEPT !.ip[2] = f.from]
      BY <2>2, <2>6 DEF ParseArp
    <3> QED BY <1>f, <2>1, <2>6, <3>1 DEF Parsed, HeaderOK
  <2>7. CASE rx_pos = 10
    <3>1. Parse(f) = [fr EXCEPT !.dest_ip = DestIp(f)]
      BY <2>2, <2>7 DEF ParseArp
    <3>2. DestIp(f) \in {"ours", "other"}
      BY DEF DestIp
    <3> QED BY <1>f, <2>1, <2>7, <3>1, <3>2 DEF Parsed, HeaderOK
  <2>8. CASE rx_pos \in {4, 9} \/ rx_pos > 10
    <3>1. Parse(f) = fr
      BY <2>2, <2>8 DEF ParseArp
    <3> QED BY <1>f, <2>1, <2>8, <3>1 DEF Parsed
  <2> QED BY <1>f, <2>3, <2>4, <2>5, <2>6, <2>7, <2>8
<1> QED BY <1>a, <1>b, <1>c, <1>d, <1>e, <1>f

-----------------------------------------------------------------------------
(* Payload and pulses *)

\* The receiver's state when it starts, and after a reset.
LEMMA RxInvInit == RxInit => RxInv
<1> SUFFICES ASSUME RxInit PROVE RxInv
  OBVIOUS
<1>1. /\ rx_frame \in RxFrames /\ rx_pos = 0 /\ word_num = 0 /\ fr = NoHeader
      /\ ~data_valid /\ ~fr_eop /\ ~generate_arp_reply /\ ~arp_reply_recieved
  BY DEF RxInit
<1>2. rx_frame.len \in Nat /\ rx_frame.len >= 11
  BY <1>1, FrameFacts
<1> QED
  BY <1>1, <1>2, NoHeaderFacts DEF RxInv, RxPlace, RxPulses, RxPayload, InFrame

LEMMA RxInvReset == RxInv /\ RxReset => RxInv'
<1> SUFFICES ASSUME RxInv, RxReset PROVE RxInv'
  OBVIOUS
<1>1. /\ rx_frame' \in RxFrames /\ rx_pos' = 0 /\ word_num' = 0
      /\ ~data_valid' /\ ~fr_eop' /\ ~generate_arp_reply' /\ ~arp_reply_recieved'
  BY DEF RxInv, RxPlace, RxReset
<1>2. rx_frame'.len \in Nat /\ rx_frame'.len >= 11
  BY <1>1, FrameFacts
<1>3. HeaderOK(fr')
  <2>1. fr' = [NoHeader EXCEPT !.optype = fr.optype, !.protocol = fr.protocol,
                               !.icmptype = fr.icmptype]
    BY DEF RxReset
  <2> QED BY <2>1, NoHeaderFacts DEF HeaderOK, RxInv
<1> QED
  BY <1>1, <1>2, <1>3 DEF RxInv, RxPlace, RxPulses, RxPayload, InFrame

\* A clock without a word.
LEMMA RxInvGap == RxInv /\ RxGap => RxInv'
<1> SUFFICES ASSUME RxInv, RxGap PROVE RxInv'
  OBVIOUS
<1>1. /\ UNCHANGED <<rx_frame, rx_pos, word_num, fr, passed>>
      /\ ~data_valid' /\ ~fr_eop' /\ ~generate_arp_reply' /\ ~arp_reply_recieved'
  BY DEF RxGap
<1>2. InFrame' => InFrame
  BY <1>1 DEF InFrame
<1>3. Received' = Received
  BY <1>1 DEF Received
<1>4. RxPlace' /\ RxPulses' /\ HeaderOK(fr')
  BY <1>1 DEF RxInv, RxPlace, RxPulses
<1>5. RxPayload'
  BY <1>1, <1>2, <1>3 DEF RxInv, RxPayload
<1>6. InFrame' => Parsed(fr', rx_frame', Received')
  BY <1>1, <1>2, <1>3 DEF RxInv
<1> QED BY <1>4, <1>5, <1>6 DEF RxInv

\* Where the next word of frame f leaves the receiver.
LEMMA PlaceStep ==
  ASSUME RxInv, NEW f \in RxFrames, RxWord(f)
  PROVE  /\ rx_frame' = f /\ rx_pos \in Nat /\ rx_pos <= f.len - 1
         /\ fr_eop' <=> rx_pos = f.len - 1
         /\ rx_pos' = IF rx_pos = f.len - 1 THEN 0 ELSE rx_pos + 1
         /\ RxPlace' /\ InFrame' /\ Received' = rx_pos + 1
         /\ rx_pos > 0 => f = rx_frame /\ InFrame /\ Received = rx_pos
<1>1. /\ rx_pos = 0 \/ f = rx_frame
      /\ rx_pos' = IF rx_pos = f.len - 1 THEN 0 ELSE rx_pos + 1
      /\ word_num' = NextWordNum(rx_pos = 0, rx_pos = f.len - 1)
      /\ rx_frame' = f
      /\ word_num = rx_pos /\ rx_pos \in 0 .. (rx_frame.len - 1)
      /\ rx_frame \in RxFrames
  BY DEF RxWord, RxInv, RxPlace
<1>2. /\ f.len \in Nat /\ f.len >= 11 /\ rx_frame.len \in Nat /\ rx_frame.len >= 11
  BY <1>1, FrameFacts
<1>3. fr_eop' = (rx_pos = f.len - 1)
  BY DEF RxWord
<1>4. rx_pos \in Nat /\ rx_pos <= f.len - 1
  BY <1>1, <1>2
<1>5. word_num' = rx_pos'
  BY <1>1, <1>2, <1>4 DEF NextWordNum
<1>a. ASSUME rx_pos = f.len - 1
      PROVE  /\ rx_pos' \in 0 .. (f.len - 1) /\ (fr_eop' => rx_pos' = 0)
             /\ InFrame' /\ Received' = rx_pos + 1
  <2>1. rx_pos' = 0 /\ fr_eop'
    BY <1>1, <1>3, <1>a
  <2>2. rx_pos + 1 = f.len
    BY <1>2, <1>4, <1>a
  <2>3. Received' = f.len
    BY <1>1, <2>1 DEF Received
  <2> QED BY <1>2, <1>4, <2>1, <2>2, <2>3 DEF InFrame
<1>b. ASSUME rx_pos # f.len - 1
      PROVE  /\ rx_pos' \in 0 .. (f.len - 1) /\ (fr_eop' => rx_pos' = 0)
             /\ InFrame' /\ Received' = rx_pos + 1
  <2>1. rx_pos' = rx_pos + 1 /\ ~fr_eop'
    BY <1>1, <1>3, <1>b
  <2>2. rx_pos + 1 \in 0 .. (f.len - 1) /\ rx_pos + 1 > 0
    BY <1>2, <1>4, <1>b
  <2>3. Received' = rx_pos + 1
    BY <2>1, <2>2 DEF Received
  <2> QED BY <2>1, <2>2, <2>3 DEF InFrame
<1>6. rx_pos' \in 0 .. (f.len - 1) /\ (fr_eop' => rx_pos' = 0)
  BY <1>a, <1>b
<1>7. RxPlace'
  BY <1>1, <1>5, <1>6 DEF RxPlace
<1>8. InFrame' /\ Received' = rx_pos + 1
  BY <1>a, <1>b
<1>9. rx_pos > 0 => f = rx_frame /\ InFrame /\ Received = rx_pos
  BY <1>1, <1>4 DEF InFrame, Received
<1> QED BY <1>1, <1>3, <1>4, <1>7, <1>8, <1>9

\* The words of a UDP frame that are passed on.
LEMMA PayloadStep ==
  ASSUME RxInv, NEW f \in RxFrames, RxWord(f)
  PROVE  RxPayload'
<1>1. /\ rx_frame' = f /\ rx_pos \in Nat /\ rx_pos <= f.len - 1
      /\ InFrame' /\ Received' = rx_pos + 1
      /\ rx_pos > 0 => f = rx_frame /\ InFrame /\ Received = rx_pos
      /\ word_num = rx_pos
  BY PlaceStep DEF RxInv, RxPlace
<1>2. /\ fr_word' = rx_pos
      /\ data_valid' <=> PassesOn
      /\ passed' = (IF rx_pos = 0 THEN 0 ELSE passed) + (IF data_valid' THEN 1 ELSE 0)
  BY DEF RxWord
<1> SUFFICES ASSUME f.kind = "UDP"
             PROVE  /\ passed' = PayloadIn(f, rx_pos + 1)
                    /\ data_valid' => rx_pos + 1 >= 12 /\ rx_pos + 1 <= 11 + f.plen
  <2>1. data_valid' => (rx_pos + 1) - 1 = fr_word'
    BY <1>1, <1>2
  <2> QED BY <1>1, <2>1 DEF RxPayload
<1>3. f.plen \in Nat /\ f.kind \notin ARP
  BY FrameFacts DEF ARP
<1>4. rx_pos > 0 => /\ Parsed(fr, f, rx_pos) /\ passed = PayloadIn(f, rx_pos)
                    /\ data_valid => rx_pos >= 12
  BY <1>1 DEF RxInv, RxPayload
<1>5. CASE rx_pos <= 10
  <2>1. ~PassesOn
    <3>1. CASE rx_pos = 0
      <4>1. word_num = 0
        BY <1>1, <3>1
      <4>2. ~IsUdp /\ ~IsPing
        BY <4>1 DEF IsUdp, IsPing
      <4> QED BY <4>1, <4>2 DEF PassesOn
    <3>2. CASE rx_pos > 0
      <4>1. ~data_valid
        BY <1>1, <1>4, <1>5, <3>2
      <4>2. rx_pos = 10 => fr.protocol = "UDP"
        BY <1>3, <1>4 DEF Parsed
      <4>3. ~IsPing
        BY <1>1, <1>5, <4>2 DEF IsPing
      <4> QED BY <1>1, <1>5, <3>2, <4>1, <4>3 DEF PassesOn
    <3> QED BY <1>1, <3>1, <3>2
  <2>2. passed' = (IF rx_pos = 0 THEN 0 ELSE passed) + 0
    BY <1>2, <2>1
  <2> QED BY <1>1, <1>2, <1>4, <1>5, <2>1, <2>2 DEF PayloadIn
<1>6. CASE rx_pos >= 11
  <2>0. rx_pos > 0 /\ rx_pos # 0 /\ rx_pos >= 9 /\ rx_pos >= 4 /\ rx_pos >= 7
    BY <1>1, <1>6
  <2>a. Parsed(fr, f, rx_pos) /\ passed = PayloadIn(f, rx_pos)
    BY <1>4, <2>0
  <2>1. fr.ethertype = "IPv4" /\ fr.protocol = "UDP" /\ fr.payload_len = f.plen
    BY <1>3, <1>6, <2>0, <2>a DEF Parsed, EtherType
  <2>2. IsUdp /\ word_num >= 11 /\ word_num # 0
    BY <1>1, <1>6, <2>0, <2>1 DEF IsUdp
  <2>b. ~IsPing
    BY <2>1 DEF IsPing
  <2>c. PassesOn <=> UdpPayloadWord
    BY <2>2, <2>b DEF PassesOn
  <2>3. PassesOn <=> rx_pos <= f.plen + 10
    BY <1>1, <1>6, <2>1, <2>c DEF UdpPayloadWord
  <2>4. CASE rx_pos <= f.plen + 10
    <3>1. passed' = passed + 1
      BY <1>2, <2>0, <2>3, <2>4
    <3>2. PayloadIn(f, rx_pos) = rx_pos - 11 /\ PayloadIn(f, rx_pos + 1) = rx_pos - 10
      BY <1>1, <1>3, <1>6, <2>4 DEF PayloadIn
    <3>3. passed' = rx_pos - 10
      BY <1>1, <2>a, <3>1, <3>2
    <3>4. rx_pos + 1 >= 12 /\ rx_pos + 1 <= 11 + f.plen
      BY <1>1, <1>3, <1>6, <2>4
    <3> QED BY <3>2, <3>3, <3>4
  <2>5. CASE ~(rx_pos <= f.plen + 10)
    <3>1. ~data_valid' /\ passed' = passed + 0
      BY <1>2, <2>0, <2>3, <2>5
    <3>2. PayloadIn(f, rx_pos) = f.plen /\ PayloadIn(f, rx_pos + 1) = f.plen
      BY <1>1, <1>3, <1>6, <2>5 DEF PayloadIn
    <3> QED BY <1>3, <2>a, <3>1, <3>2
  <2> QED BY <2>4, <2>5
<1> QED BY <1>1, <1>5, <1>6

\* The pulses at the end of an ARP frame.
LEMMA PulseStep ==
  ASSUME RxInv, NEW f \in RxFrames, RxWord(f)
  PROVE  RxPulses'
<1>1. /\ rx_frame' = f /\ rx_pos \in Nat /\ rx_pos <= f.len - 1
      /\ fr_eop' <=> rx_pos = f.len - 1
      /\ rx_pos > 0 => f = rx_frame /\ InFrame /\ Received = rx_pos
      /\ word_num = rx_pos
  BY PlaceStep DEF RxInv, RxPlace
<1>2. f.kind \in FrameKinds /\ f.len \in Nat /\ f.len >= 11 /\ f.ours \in BOOLEAN
        /\ (f.kind \in ARP => f.len >= 12)
  BY FrameFacts
<1>3. /\ word_num # 0 => ~generate_arp_reply /\ ~arp_reply_recieved
  BY <1>1 DEF RxInv, RxPulses, RxPlace
<1>4. /\ generate_arp_reply' => rx_pos = f.len - 1 /\ ArpForUs("ARP_REQUEST")
      /\ arp_reply_recieved' => rx_pos = f.len - 1 /\ ArpForUs("ARP_REPLY")
  BY <1>1, <1>2, <1>3 DEF RxWord
<1>5. ASSUME rx_pos = f.len - 1, NEW o \in ARP, ArpForUs(o)
      PROVE  f.kind = o /\ f.ours
  <2>1. Parsed(fr, f, rx_pos) /\ rx_pos >= 10 /\ (f.kind \in ARP => rx_pos >= 11)
    BY <1>1, <1>2, <1>5 DEF RxInv
  <2>2. f.kind \in ARP
    BY <1>2, <1>5, <2>1 DEF Parsed, ArpForUs, ARP, None
  <2>3. fr.optype = f.kind /\ fr.dest_ip = DestIp(f)
    BY <1>1, <2>1, <2>2 DEF Parsed
  <2> QED BY <1>5, <2>3 DEF ArpForUs, DestIp
<1> QED BY <1>1, <1>4, <1>5 DEF RxPulses, ARP

\* A word of a frame keeps the invariant.
LEMMA RxInvWord ==
  ASSUME RxInv, NEW f \in RxFrames, RxWord(f)
  PROVE  RxInv'
<1>1. /\ rx_frame' = f /\ rx_pos \in Nat /\ RxPlace'
      /\ InFrame' /\ Received' = rx_pos + 1
      /\ rx_pos > 0 => f = rx_frame /\ InFrame /\ Received = rx_pos
      /\ word_num = rx_pos /\ HeaderOK(fr) /\ fr' = Parse(f)
  BY PlaceStep DEF RxInv, RxPlace, RxWord
<1>2. rx_pos > 0 => Parsed(fr, f, rx_pos)
  BY <1>1 DEF RxInv
<1>3. HeaderOK(fr') /\ Parsed(fr', f, rx_pos + 1)
  BY <1>1, <1>2, ParseStep
<1> QED BY <1>1, <1>3, PayloadStep, PulseStep DEF RxInv

\* Every clock edge and every reset keeps the invariant.
LEMMA RxInvStep == RxInv /\ RxNext => RxInv'
  BY RxInvGap, RxInvReset, RxInvWord DEF RxNext, RxClock

\* The registers hold the fields of the frame on the line.
THEOREM RxInvariance == RxSpec => []RxInv
<1>1. RxInv /\ UNCHANGED rxVars => RxInv'
  BY DEF rxVars, RxInv, RxPlace, RxPulses, RxPayload, InFrame, Received
<1>2. RxInv /\ [RxNext]_rxVars => RxInv'
  BY <1>1, RxInvStep
<1> QED BY <1>2, RxInvInit, PTL DEF RxSpec

\* What the invariant says of the payload.
LEMMA RxInvPayload == RxInv => UdpPayloadDelivered
<1> SUFFICES ASSUME RxInv PROVE UdpPayloadDelivered
  OBVIOUS
<1>1. /\ rx_frame \in RxFrames /\ rx_pos \in Nat /\ HeaderOK(fr)
      /\ InFrame => Parsed(fr, rx_frame, Received)
      /\ fr_eop => rx_pos = 0
  BY FrameFacts DEF RxInv, RxPlace
<1>2. /\ rx_frame.plen \in Nat /\ rx_frame.len \in Nat /\ rx_frame.len >= 11
      /\ rx_frame.kind = "UDP" => rx_frame.len >= 11 + rx_frame.plen
  BY <1>1, FrameFacts
<1>3. Received \in Nat
  BY <1>1, <1>2 DEF Received
<1>4. ASSUME data_valid, rx_frame.kind = "UDP"
      PROVE  /\ fr_word = 10 + passed
             /\ fr.port = rx_frame.port
             /\ fr.mac = <<rx_frame.from, rx_frame.from>>
             /\ fr.ip = <<rx_frame.from, rx_frame.from>>
  <2>1. /\ InFrame /\ passed = PayloadIn(rx_frame, Received)
        /\ fr_word = Received - 1 /\ Received >= 12
        /\ Received <= 11 + rx_frame.plen
    BY <1>4 DEF RxInv, RxPayload
  <2>2. fr_word = 10 + passed
    BY <1>2, <1>3, <2>1 DEF PayloadIn
  <2>3. /\ fr.port = rx_frame.port
        /\ fr.mac[1] = rx_frame.from /\ fr.mac[2] = rx_frame.from
        /\ fr.ip[1] = rx_frame.from /\ fr.ip[2] = rx_frame.from
    BY <1>1, <1>3, <1>4, <2>1 DEF Parsed, ARP
  <2>4. fr.mac \in [1 .. 2 -> Halves] /\ fr.ip \in [1 .. 2 -> Halves]
    BY <1>1 DEF HeaderOK
  <2>5. fr.mac = <<rx_frame.from, rx_frame.from>>
    BY <2>3, <2>4, WholeAddress
  <2>6. fr.ip = <<rx_frame.from, rx_frame.from>>
    BY <2>3, <2>4, WholeAddress
  <2> QED BY <2>2, <2>3, <2>5, <2>6
<1>5. ASSUME fr_eop, rx_frame.kind = "UDP"
      PROVE  passed = rx_frame.plen
  <2>1. Received = rx_frame.len /\ InFrame
    BY <1>1, <1>5 DEF Received, InFrame
  <2>2. passed = PayloadIn(rx_frame, rx_frame.len)
    BY <1>5, <2>1 DEF RxInv, RxPayload
  <2> QED BY <1>2, <1>5, <2>2 DEF PayloadIn
<1> QED BY <1>4, <1>5 DEF UdpPayloadDelivered

(***************************************************************************)
(* The receiver passes on exactly the payload words of every UDP frame, in *)
(* order and with the port and addresses of that frame, whatever frames,   *)
(* gaps and resets came before: nothing of an earlier header is left over. *)
(***************************************************************************)
THEOREM PayloadDelivered == RxSpec => []UdpPayloadDelivered
  BY RxInvariance, RxInvPayload, PTL
=============================================================================
