--------------------------- MODULE FrameReceiver ----------------------------
(***************************************************************************)
(* The frame receiver (ethernet/ethernet_frame_reciever.vhd) behind a MAC  *)
(* that delivers frames word by word, with gaps at any place and frames    *)
(* back to back.  The receiver counts words and parses each by its number: *)
(* it registers the sender's addresses, the protocol fields and the UDP    *)
(* port, passes UDP payload and ping payload on, and raises one-clock      *)
(* pulses at the end of an ARP frame addressed to us.                      *)
(*                                                                         *)
(* Addresses are registered in two parts that come in different words:     *)
(* MAC and ARP's IP address are pairs of halves, each known by the station *)
(* it was taken from.  A word that is not at the place the parser takes it *)
(* for reads as Junk.                                                      *)
(***************************************************************************)
EXTENDS Integers

CONSTANTS
  Stations,    \* stations that send frames to us
  RxFrames     \* the frames they send

ARP == {"ARP_REQUEST", "ARP_REPLY"}
FrameKinds == ARP \cup {"ICMP", "UDP"}

\* A frame: kind, sender, whether its IP destination is ours, its words, the
\* payload words and port of its UDP header.
ASSUME RxFramesAssumption ==
  \A f \in RxFrames :
    /\ f.kind \in FrameKinds /\ f.from \in Stations /\ f.ours \in BOOLEAN
    /\ f.len \in Nat /\ f.len >= 11 /\ f.plen \in Nat /\ f.port \in Nat
    \* The MAC pads short frames, so no ARP frame ends with its last field.
    /\ f.kind \in ARP => f.len > 11
    /\ f.kind = "UDP" => f.len >= 11 + f.plen

None == "none"
Junk == "junk"

VARIABLES
  rx_frame, rx_pos,      \* frame on the line and its next word, 0: none begun
  word_num,
  fr,                    \* header registers
  data_valid, fr_word,   \* payload word (its place in the frame) and dval
  fr_eop, icmp_ping,
  generate_arp_reply, arp_reply_recieved,
  passed                 \* history: payload words passed on from this frame

rxVars == <<rx_frame, rx_pos, word_num, fr, data_valid, fr_word, fr_eop,
            icmp_ping, generate_arp_reply, arp_reply_recieved, passed>>

NoHeader == [mac |-> <<None, None>>, ip |-> <<None, None>>, dest_ip |-> None,
             port |-> 0, ethertype |-> None, optype |-> None,
             protocol |-> None, icmptype |-> None, payload_len |-> 0]

RxInit ==
  /\ rx_frame \in RxFrames /\ rx_pos = 0
  /\ word_num = 0
  /\ fr = NoHeader
  /\ data_valid = FALSE /\ fr_word = 0
  /\ fr_eop = FALSE /\ icmp_ping = FALSE
  /\ generate_arp_reply = FALSE /\ arp_reply_recieved = FALSE
  /\ passed = 0

-----------------------------------------------------------------------------
(***************************************************************************)
(* What word number word_num of frame f does to the header registers.      *)
(***************************************************************************)
EtherType(f) == IF f.kind \in ARP THEN "ARP" ELSE "IPv4"
DestIp(f) == IF f.ours THEN "ours" ELSE "other"
At(n, value) == IF rx_pos = n THEN value ELSE Junk

ParseIp(f) ==
  CASE word_num = 6 -> [fr EXCEPT !.protocol = At(6, f.kind)]
    [] word_num = 7 -> [fr EXCEPT !.ip = <<At(7, f.from), At(7, f.from)>>]
    [] word_num = 8 -> [fr EXCEPT !.dest_ip = At(8, DestIp(f))]
    [] word_num = 9 /\ fr.protocol = "UDP" -> [fr EXCEPT !.port = f.port]
    [] word_num = 10 /\ fr.protocol = "UDP" -> [fr EXCEPT !.payload_len = f.plen]
    [] word_num = 9 /\ fr.protocol = "ICMP" ->
         [fr EXCEPT !.icmptype = At(9, "ECHO_REQUEST")]
    [] OTHER -> fr

ParseArp(f) ==
  CASE word_num = 5  -> [fr EXCEPT !.optype = At(5, f.kind)]
    [] word_num = 6  -> [fr EXCEPT !.mac[1] = At(6, f.from)]
    [] word_num = 7  -> [fr EXCEPT !.mac[2] = At(7, f.from),
                                   !.ip[1] = At(7, f.from)]
    [] word_num = 8  -> [fr EXCEPT !.ip[2] = At(8, f.from)]
    [] word_num = 10 -> [fr EXCEPT !.dest_ip = At(10, DestIp(f))]
    [] OTHER -> fr

\* Word 0 clears the registers, except the IPv4 protocol.
Parse(f) ==
  CASE word_num = 0 -> [NoHeader EXCEPT !.protocol = fr.protocol]
    [] word_num = 2 -> [fr EXCEPT !.mac[1] = At(2, f.from)]
    [] word_num = 3 -> [fr EXCEPT !.mac[2] = At(3, f.from),
                                  !.ethertype = At(3, EtherType(f))]
    [] word_num >= 4 /\ fr.ethertype = "IPv4" -> ParseIp(f)
    [] word_num >= 4 /\ fr.ethertype = "ARP"  -> ParseArp(f)
    [] OTHER -> fr

IsUdp == word_num >= 9 /\ fr.ethertype = "IPv4" /\ fr.protocol = "UDP"
IsPing ==
  /\ word_num >= 10 /\ fr.ethertype = "IPv4" /\ fr.protocol = "ICMP"
  /\ fr.dest_ip = "ours" /\ fr.icmptype = "ECHO_REQUEST"

\* Mutant: one word after the UDP payload is passed on as well.
UdpPayloadWordLate == word_num >= 11 /\ word_num <= fr.payload_len + 11
UdpPayloadWord == word_num >= 11 /\ word_num <= fr.payload_len + 10

PassesOn ==
  CASE word_num = 0               -> FALSE
    [] IsUdp /\ word_num >= 11    -> UdpPayloadWord
    [] IsPing                     -> TRUE
    [] OTHER                      -> data_valid

\* Mutant: ARP frames for other stations are answered too.
ArpForUsAny(optype) == fr.optype = optype
ArpForUs(optype) == fr.optype = optype /\ fr.dest_ip = "ours"

NextWordNum(sop_in, eop_in) ==
  IF sop_in THEN 1 ELSE IF eop_in THEN 0 ELSE word_num + 1

(***************************************************************************)
(* A clock edge with a word of frame f: the first word carries rx_sop, the *)
(* last rx_eop.  The ARP pulses look at the registers as they were before  *)
(* this word.                                                              *)
(***************************************************************************)
RxWord(f) ==
  LET last == rx_pos = f.len - 1
      held(old) == word_num # 0 /\ old
  IN  /\ rx_pos = 0 \/ f = rx_frame
      /\ rx_frame' = f
      /\ rx_pos' = IF last THEN 0 ELSE rx_pos + 1
      /\ fr' = Parse(f)
      /\ fr_word' = rx_pos
      /\ data_valid' = PassesOn
      /\ icmp_ping' = ((IsPing \/ icmp_ping) /\ word_num # 0)
      /\ fr_eop' = last
      /\ word_num' = NextWordNum(rx_pos = 0, last)
      /\ generate_arp_reply' =
           IF last THEN ArpForUs("ARP_REQUEST") \/ held(generate_arp_reply)
                   ELSE rx_pos = 0 /\ held(generate_arp_reply)
      /\ arp_reply_recieved' =
           IF last THEN ArpForUs("ARP_REPLY") \/ held(arp_reply_recieved)
                   ELSE rx_pos = 0 /\ held(arp_reply_recieved)
      /\ passed' = (IF rx_pos = 0 THEN 0 ELSE passed)
                     + (IF data_valid' THEN 1 ELSE 0)

\* A clock edge without a word.
RxGap ==
  /\ generate_arp_reply' = FALSE /\ arp_reply_recieved' = FALSE
  /\ data_valid' = FALSE /\ icmp_ping' = FALSE
  /\ fr_word' = 0 /\ fr_eop' = FALSE
  /\ UNCHANGED <<rx_frame, rx_pos, word_num, fr, passed>>

RxClock == RxGap \/ \E f \in RxFrames : RxWord(f)

\* A reset, which resets the MAC as well and ends the frame on the line.
\* optype, icmptype and the protocol have no reset.
RxReset ==
  /\ rx_pos' = 0 /\ word_num' = 0
  /\ fr' = [NoHeader EXCEPT !.optype = fr.optype, !.protocol = fr.protocol,
                            !.icmptype = fr.icmptype]
  /\ data_valid' = FALSE /\ fr_word' = 0 /\ icmp_ping' = FALSE
  /\ generate_arp_reply' = FALSE /\ arp_reply_recieved' = FALSE
  /\ fr_eop' = FALSE
  /\ passed' = 0
  /\ UNCHANGED rx_frame

\* The receiver on its own, whatever stands behind it.
RxNext == RxClock \/ RxReset
RxSpec == RxInit /\ [][RxNext]_rxVars

-----------------------------------------------------------------------------
(***************************************************************************)
(* "Strips off header and forwards payload": the words of a UDP frame that *)
(* are passed on are its payload words, each once and in order, and while  *)
(* each is on data_out, data_port and data_addr are those of its frame;    *)
(* when the frame ends none is missing.                                    *)
(***************************************************************************)
UdpPayloadDelivered ==
  /\ (data_valid /\ rx_frame.kind = "UDP") =>
       /\ fr_word = 10 + passed
       /\ fr.port = rx_frame.port
       /\ fr.mac = <<rx_frame.from, rx_frame.from>>
       /\ fr.ip = <<rx_frame.from, rx_frame.from>>
  /\ (fr_eop /\ rx_frame.kind = "UDP") => passed = rx_frame.plen
=============================================================================
