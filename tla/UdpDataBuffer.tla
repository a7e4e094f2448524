--------------------------- MODULE UdpDataBuffer ----------------------------
(***************************************************************************)
(* The UDP data buffer (ethernet/udp_data_buffer.vhd).  Words for several  *)
(* UDP ports arrive one per clock and go into one data FIFO; the buffer    *)
(* cuts the stream into packets (port change, maximum length, end of       *)
(* packet, or data gone stale) and puts the length and port of each packet *)
(* into an info FIFO.  The frame generator reads as many words as the      *)
(* front entry announces and then drops the entry (packet_finished).       *)
(*                                                                         *)
(* One step is one edge of the single clock the block is wired to          *)
(* (ethernet_block.vhd lines 703-704).  The data FIFO is written as the    *)
(* log of all words since reset together with the number already read; a   *)
(* word is known by the port it was sent to.  Packet records carry, as     *)
(* history, the offset of their first word in that log.                    *)
(***************************************************************************)
EXTENDS Integers, Sequences

CONSTANTS
  Ports,                    \* UDP destination ports in use
  MAX_PACKET_LENGTH,        \* words per packet (350 in the code)
  IN_FIFO_STALE_THRESHOLD,  \* clocks before an unfinished packet is sent
  DataDepth,                \* words the data FIFO holds (2048 in the code)
  InfoDepth,                \* entries the info FIFO holds (16 in the code)
  MaxWords                  \* bound: words written between two resets

ASSUME BufferAssumption ==
  /\ MAX_PACKET_LENGTH \in Nat \ {0}
  /\ IN_FIFO_STALE_THRESHOLD \in Nat
  /\ DataDepth \in Nat /\ InfoDepth \in Nat /\ MaxWords \in Nat

ResetPort == 0              \* previous_udp_port after reset
AnyPort == Ports \cup {ResetPort}
Packet == [len : Nat, port : AnyPort, start : Nat]
NoPacket == [len |-> 0, port |-> ResetPort, start |-> 0]

VARIABLES
  log,                \* ports of the words written to the data FIFO
  words_read,         \* how many of them have been read
  packet_length_in,   \* words of the packet being collected
  previous_udp_port,
  timeout_counter,
  info_valid, last_packet,   \* first stage: last_packet_length, last_udp_port
  info_wrreq, info_in,       \* second stage
  info,               \* contents of the info FIFO
  packet_read,        \* words of the front packet the consumer has read
  packet_start,       \* history: offset of the packet being collected
  announced,          \* history: offset after the last packet in the info FIFO
  overflowed          \* history: a full FIFO dropped a word or an entry

stageVars == <<info_valid, last_packet, info_wrreq, info_in>>
bufVars == <<log, words_read, packet_length_in, previous_udp_port,
             timeout_counter, info_valid, last_packet, info_wrreq, info_in,
             info, packet_read, packet_start, announced, overflowed>>

BufInit ==
  /\ log = <<>>
  /\ words_read = 0
  /\ packet_length_in = 0
  /\ previous_udp_port = ResetPort
  /\ timeout_counter = 0
  /\ info_valid = FALSE
  /\ last_packet = NoPacket
  /\ info_wrreq = FALSE
  /\ info_in = NoPacket
  /\ info = <<>>
  /\ packet_read = 0
  /\ packet_start = 0
  /\ announced = 0
  /\ overflowed = FALSE

payload_rdy == info # <<>>
payload_len == Head(info).len
data_port_out == Head(info).port

-----------------------------------------------------------------------------
(***************************************************************************)
(* The info FIFO and the register in front of it.  rd is info_rdreq, i.e.  *)
(* packet_finished.  A write to a full FIFO is dropped.                    *)
(***************************************************************************)
InfoFifo(rd) ==
  LET rest == IF rd /\ info # <<>> THEN Tail(info) ELSE info
      fits == info_wrreq /\ Len(info) < InfoDepth
  IN  /\ info' = IF fits THEN Append(rest, info_in) ELSE rest
      /\ announced' = IF fits THEN info_in.start + info_in.len ELSE announced

InfoRegister ==
  /\ info_in' = last_packet
  /\ info_wrreq' = info_valid

\* Marks the end of a packet of n words.
CloseWith(n) ==
  /\ info_valid' = TRUE
  /\ last_packet' = [len |-> n, port |-> previous_udp_port,
                     start |-> packet_start]

NoClose == info_valid' = FALSE /\ UNCHANGED last_packet

\* The data FIFO accepts the word on data_in if it is not full.
WriteWord(port) ==
  log' = IF Len(log) - words_read < DataDepth THEN Append(log, port) ELSE log

EndsPacket(port, eop) ==
  \/ packet_length_in >= MAX_PACKET_LENGTH
  \/ previous_udp_port # port
  \/ eop

\* A word that continues the packet being collected.
WordContinues(port, eop) ==
  /\ ~EndsPacket(port, eop)
  /\ WriteWord(port)
  /\ packet_length_in' = packet_length_in + 1
  /\ timeout_counter' = 0
  /\ NoClose
  /\ UNCHANGED <<previous_udp_port, packet_start>>

\* Mutant: the word that starts the next packet is not counted into it.
WordEndsPacketUncounted(port, eop) ==
  /\ EndsPacket(port, eop)
  /\ WriteWord(port)
  /\ IF packet_length_in >= 1
       THEN CloseWith(IF eop THEN packet_length_in + 1 ELSE packet_length_in)
       ELSE NoClose
  /\ packet_length_in' = 0
  /\ packet_start' = IF eop THEN Len(log) + 1 ELSE Len(log)
  /\ previous_udp_port' = port
  /\ timeout_counter' = 0

\* A word that ends the packet: by itself being the last word (eop), or by
\* being the first word of the next one.
WordEndsPacket(port, eop) ==
  /\ EndsPacket(port, eop)
  /\ WriteWord(port)
  /\ IF packet_length_in >= 1
       THEN CloseWith(IF eop THEN packet_length_in + 1 ELSE packet_length_in)
       ELSE NoClose
  /\ packet_length_in' = IF eop THEN 0 ELSE 1
  /\ packet_start' = IF eop THEN Len(log) + 1 ELSE Len(log)
  /\ previous_udp_port' = port
  /\ timeout_counter' = 0

Stale == timeout_counter > IN_FIFO_STALE_THRESHOLD

\* Mutant: data does not age.
DataAgesUncounted ==
  /\ packet_length_in >= 1 /\ ~Stale
  /\ NoClose
  /\ UNCHANGED <<log, packet_length_in, previous_udp_port, packet_start,
                 timeout_counter>>

DataAges ==
  /\ packet_length_in >= 1 /\ ~Stale
  /\ timeout_counter' = timeout_counter + 1
  /\ NoClose
  /\ UNCHANGED <<log, packet_length_in, previous_udp_port, packet_start>>

FlushStale ==
  /\ packet_length_in >= 1 /\ Stale
  /\ CloseWith(packet_length_in)
  /\ packet_length_in' = 0
  /\ packet_start' = Len(log)
  /\ timeout_counter' = 0
  /\ UNCHANGED <<log, previous_udp_port>>

Quiet ==
  /\ packet_length_in = 0
  /\ timeout_counter' = 0
  /\ NoClose
  /\ UNCHANGED <<log, packet_length_in, previous_udp_port, packet_start>>

\* The write side at one edge: a word comes in, or none does.
Writer(valid, port, eop) ==
  IF valid THEN WordContinues(port, eop) \/ WordEndsPacket(port, eop)
           ELSE DataAges \/ FlushStale \/ Quiet

\* The read side: rdreq takes a word if there is one; the consumer counts
\* its requests for the front packet.
Reader(rdreq, finished) ==
  /\ words_read' = IF rdreq /\ words_read < Len(log) THEN words_read + 1
                                                     ELSE words_read
  /\ packet_read' = IF finished THEN 0
                    ELSE IF rdreq THEN packet_read + 1 ELSE packet_read

DropsWord(valid) == valid /\ Len(log) - words_read >= DataDepth
DropsEntry == info_wrreq /\ Len(info) >= InfoDepth

BufClock(valid, port, eop, rdreq, finished) ==
  /\ Writer(valid, port, eop)
  /\ InfoRegister
  /\ InfoFifo(finished)
  /\ Reader(rdreq, finished)
  /\ overflowed' = (overflowed \/ DropsWord(valid) \/ DropsEntry)

(***************************************************************************)
(* Reset, held over at least one clock edge.  Neither info_valid nor the   *)
(* register in front of the info FIFO has a reset: while reset is held the *)
(* register keeps loading the cleared length and the old info_valid.       *)
(***************************************************************************)
BufReset ==
  /\ log' = <<>>
  /\ words_read' = 0
  /\ packet_length_in' = 0
  /\ previous_udp_port' = ResetPort
  /\ timeout_counter' = 0
  /\ last_packet' = NoPacket
  /\ info_in' = NoPacket
  /\ info_wrreq' = info_valid
  /\ info' = <<>>
  /\ packet_read' = 0
  /\ packet_start' = 0
  /\ announced' = 0
  /\ overflowed' = FALSE
  /\ UNCHANGED info_valid

-----------------------------------------------------------------------------
(***************************************************************************)
(* The buffer between clients and a frame generator that reads exactly the *)
(* announced number of words and then finishes the packet.                 *)
(***************************************************************************)
MayRead   == info # <<>> /\ packet_read < payload_len
MayFinish == info # <<>> /\ packet_read = payload_len

\* The consumer reads the announced words, then finishes the packet.
Consumer(rdreq, finished) ==
  /\ rdreq => MayRead
  /\ finished => MayFinish

\* The use of eop: on the last of several words to one port.
EopContract(port, eop) ==
  eop => packet_length_in >= 1 /\ port = previous_udp_port

Receive(port, eop) ==
  /\ Len(log) < MaxWords
  /\ EopContract(port, eop)
  /\ \E rdreq, finished \in BOOLEAN :
       Consumer(rdreq, finished) /\ BufClock(TRUE, port, eop, rdreq, finished)

NoInput ==
  \E rdreq, finished \in BOOLEAN :
    /\ Consumer(rdreq, finished)
    /\ BufClock(FALSE, ResetPort, FALSE, rdreq, finished)

BufTick == NoInput \/ \E port \in Ports, eop \in BOOLEAN : Receive(port, eop)

BufNext == BufTick \/ BufReset
BufSpec == BufInit /\ [][BufNext]_bufVars

-----------------------------------------------------------------------------
\* Type invariant.
BufTypeOK ==
  /\ log \in Seq(Ports)
  /\ words_read \in 0 .. Len(log)
  /\ packet_length_in \in Nat
  /\ previous_udp_port \in AnyPort
  /\ timeout_counter \in 0 .. (IN_FIFO_STALE_THRESHOLD + 1)
  /\ info_valid \in BOOLEAN /\ last_packet \in Packet
  /\ info_wrreq \in BOOLEAN /\ info_in \in Packet
  /\ info \in Seq(Packet)
  /\ packet_read \in Nat
  /\ packet_start \in Nat
  /\ announced \in Nat
  /\ overflowed \in BOOLEAN

(***************************************************************************)
(* The promise of the info FIFO ("used to read the packet from the data    *)
(* FIFO buffer so that data is sent to the correct UDP destination"): the  *)
(* next word the consumer takes for the front packet is there, and it was  *)
(* written for that packet's port.                                         *)
(***************************************************************************)
WordGoesToItsPort ==
  (~overflowed /\ MayRead)
    => words_read < Len(log) /\ log[words_read + 1] = data_port_out

(***************************************************************************)
(* Every word written is in exactly one packet: announced, on its way into *)
(* the info FIFO through the two register stages, or being collected.      *)
(***************************************************************************)
EveryWordInOnePacket ==
  ~overflowed =>
    Len(log) = announced + (IF info_wrreq THEN info_in.len ELSE 0)
                         + (IF info_valid THEN last_packet.len ELSE 0)
                         + packet_length_in

(***************************************************************************)
(* The strengthening that makes the two invariants above inductive.  The   *)
(* packets follow one another without gap from the one being read, through *)
(* the info FIFO and its two register stages, to the one being collected   *)
(* (Chain), and all words of each are for its port (PortsMatch).           *)
(***************************************************************************)
EndOf(p) == p.start + p.len
Contiguous(s) == \A i \in 1 .. (Len(s) - 1) : s[i + 1].start = EndOf(s[i])
PureIn(l, p) ==
  /\ EndOf(p) <= Len(l)
  /\ \A k \in (p.start + 1) .. EndOf(p) : l[k] = p.port

StagedEnd == IF info_wrreq THEN EndOf(info_in) ELSE announced
ClosedEnd == IF info_valid THEN EndOf(last_packet) ELSE StagedEnd

Chain ==
  /\ Contiguous(info)
  /\ info # <<>> => /\ EndOf(info[Len(info)]) = announced
                    /\ words_read = info[1].start + packet_read
                    /\ packet_read <= info[1].len
  /\ info = <<>> => words_read = announced /\ packet_read = 0
  /\ info_wrreq => info_in.start = announced
  /\ info_valid => last_packet.start = StagedEnd
  /\ packet_start = ClosedEnd
  /\ packet_start + packet_length_in = Len(log)

PortsMatch ==
  /\ \A i \in 1 .. Len(info) : PureIn(log, info[i])
  /\ info_wrreq => PureIn(log, info_in)
  /\ info_valid => PureIn(log, last_packet)
  /\ \A k \in (packet_start + 1) .. Len(log) : log[k] = previous_udp_port

BufInv == BufTypeOK /\ (~overflowed => Chain /\ PortsMatch)
=============================================================================
