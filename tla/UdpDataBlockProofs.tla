------------------------- MODULE UdpDataBlockProofs -------------------------
(***************************************************************************)
(* The UDP data buffer and the block around it, for every set of ports,    *)
(* packet length, stale threshold, FIFO depth, header configuration and    *)
(* delay: as long as no FIFO overflows, every word is in exactly one       *)
(* packet of its own port, the frame generator is the consumer the buffer  *)
(* expects, and every word leaves for its port.                            *)
(*                                                                         *)
(* The lemmas of FrameStreamProofs used here are about any FIFO behind the *)
(* generators; the variable and the bounds of FrameStream play no part.    *)
(***************************************************************************)
EXTENDS UdpDataBlock, FrameStreamProofs

-----------------------------------------------------------------------------
(* Sequences *)

\* What Tail and Head return.
LEMMA TailFacts ==
  ASSUME NEW S, NEW s \in Seq(S), s # <<>>
  PROVE  /\ Tail(s) \in Seq(S)
         /\ Len(Tail(s)) = Len(s) - 1
         /\ Len(s) \in Nat \ {0}
         /\ \A i \in 1 .. (Len(s) - 1) : Tail(s)[i] = s[i + 1]
         /\ Head(s) = s[1]
         /\ s[1] \in S
  OBVIOUS

\* What Append returns.
LEMMA AppendFacts ==
  ASSUME NEW S, NEW s \in Seq(S), NEW e \in S
  PROVE  /\ Append(s, e) \in Seq(S)
         /\ Append(s, e) # <<>>
         /\ Len(Append(s, e)) = Len(s) + 1
         /\ Len(s) \in Nat
         /\ \A i \in 1 .. Len(s) : Append(s, e)[i] = s[i]
         /\ Append(s, e)[Len(s) + 1] = e
  OBVIOUS

\* The front packet of a queue of packets.
LEMMA FrontFacts ==
  ASSUME NEW s \in Seq(Packet), s # <<>>
  PROVE  s[1] \in Packet /\ s[1].start \in Nat /\ s[1].len \in Nat
<1>1. s[1] \in Packet
  BY TailFacts
<1> QED BY <1>1 DEF Packet

\* Dropping the front packet keeps the chain.
LEMMA ContiguousTail ==
  ASSUME NEW s \in Seq(Packet), s # <<>>, Contiguous(s)
  PROVE  /\ Contiguous(Tail(s))
         /\ Tail(s) # <<>> => /\ Tail(s)[Len(Tail(s))] = s[Len(s)]
                              /\ Tail(s)[1].start = EndOf(s[1])
         /\ Tail(s) = <<>> => s[1] = s[Len(s)]
<1>1. /\ Tail(s) \in Seq(Packet) /\ Len(Tail(s)) = Len(s) - 1
      /\ Len(s) \in Nat \ {0}
      /\ \A i \in 1 .. (Len(s) - 1) : Tail(s)[i] = s[i + 1]
  BY TailFacts
<1>2. Contiguous(Tail(s))
  BY <1>1 DEF Contiguous
<1>3. ASSUME Tail(s) # <<>>
      PROVE  /\ Tail(s)[Len(Tail(s))] = s[Len(s)]
             /\ Tail(s)[1].start = EndOf(s[1])
  <2>1. Len(s) - 1 \in Nat \ {0}
    BY <1>1, <1>3
  <2>2. /\ Len(s) - 1 \in 1 .. (Len(s) - 1) /\ 1 \in 1 .. (Len(s) - 1)
        /\ (Len(s) - 1) + 1 = Len(s)
    BY <1>1, <2>1
  <2>3. Tail(s)[Len(s) - 1] = s[Len(s)] /\ Tail(s)[1] = s[1 + 1]
    BY <1>1, <2>2
  <2>4. s[1 + 1].start = EndOf(s[1])
    BY <2>2 DEF Contiguous
  <2>5. Len(Tail(s)) = Len(s) - 1
    BY <1>1
  <2>6. Tail(s)[Len(Tail(s))] = s[Len(s)]
    BY <2>3, <2>5, Zenon
  <2>7. Tail(s)[1].start = EndOf(s[1])
    BY <2>3, <2>4, Zenon
  <2> QED BY <2>6, <2>7
<1>4. ASSUME Tail(s) = <<>> PROVE s[1] = s[Len(s)]
  <2>1. Len(s) - 1 = 0
    BY <1>1, <1>4
  <2>2. Len(s) \in Nat
    BY <1>1
  <2>3. Len(s) = 1
    BY <2>1, <2>2
  <2> QED BY <2>3, Zenon
<1> QED BY <1>2, <1>3, <1>4

\* Appending the packet that starts where the last one ends keeps it too.
LEMMA ContiguousAppend ==
  ASSUME NEW s \in Seq(Packet), NEW p \in Packet, Contiguous(s),
         s # <<>> => EndOf(s[Len(s)]) = p.start
  PROVE  Contiguous(Append(s, p))
<1>1. /\ Len(Append(s, p)) = Len(s) + 1 /\ Len(s) \in Nat
      /\ \A i \in 1 .. Len(s) : Append(s, p)[i] = s[i]
      /\ Append(s, p)[Len(s) + 1] = p
  BY AppendFacts
<1>2. SUFFICES ASSUME NEW i \in 1 .. Len(s)
               PROVE  Append(s, p)[i + 1].start = EndOf(Append(s, p)[i])
  BY <1>1 DEF Contiguous
<1>3. CASE i < Len(s)
  <2>1. i + 1 \in 1 .. Len(s) /\ i \in 1 .. (Len(s) - 1)
    BY <1>1, <1>3
  <2> QED BY <1>1, <2>1 DEF Contiguous
<1>4. CASE i = Len(s)
  <2>1. s # <<>>
    BY <1>4, <1>1
  <2> QED BY <1>1, <1>4, <2>1
<1> QED BY <1>1, <1>3, <1>4

-----------------------------------------------------------------------------
(* The parts of a clock edge *)

\* The power-up state satisfies the inductive invariant.
LEMMA BufInvInit == BufInit => BufInv
<1> SUFFICES ASSUME BufInit PROVE BufInv
  OBVIOUS
<1> USE BufferAssumption DEF BufInit
<1>1. BufTypeOK
  <2>1. NoPacket \in Packet
    BY DEF NoPacket, Packet, AnyPort
  <2>2. info_valid \in BOOLEAN /\ info_wrreq \in BOOLEAN /\ overflowed \in BOOLEAN
    BY Zenon
  <2> QED BY <2>1, <2>2 DEF BufTypeOK, AnyPort
<1>2. Chain
  <2>1. /\ info = <<>> /\ words_read = 0 /\ packet_read = 0 /\ announced = 0
        /\ packet_start = 0 /\ packet_length_in = 0 /\ log = <<>>
    OBVIOUS
  <2>2. ~info_wrreq /\ ~info_valid
    BY Zenon
  <2>3. StagedEnd = 0 /\ ClosedEnd = 0
    BY <2>1, <2>2 DEF StagedEnd, ClosedEnd
  <2> QED BY <2>1, <2>2, <2>3 DEF Chain, Contiguous
<1>3. PortsMatch
  BY DEF PortsMatch
<1> QED BY <1>1, <1>2, <1>3 DEF BufInv

\* So does the state after a reset.
LEMMA BufInvReset == BufTypeOK /\ BufReset => BufInv'
<1> SUFFICES ASSUME BufTypeOK, BufReset PROVE BufInv'
  OBVIOUS
<1>1. NoPacket \in Packet /\ NoPacket.start = 0 /\ EndOf(NoPacket) = 0
  BY DEF NoPacket, Packet, AnyPort, EndOf
<1>2. BufTypeOK'
  <2>1. info_valid' \in BOOLEAN /\ info_wrreq' \in BOOLEAN /\ overflowed' \in BOOLEAN
    BY Zenon DEF BufReset, BufTypeOK
  <2> QED BY <1>1, <2>1, BufferAssumption DEF BufReset, BufTypeOK, AnyPort
<1>3. Chain'
  <2>1. /\ info' = <<>> /\ words_read' = 0 /\ packet_read' = 0 /\ announced' = 0
        /\ info_in' = NoPacket /\ last_packet' = NoPacket /\ packet_start' = 0
        /\ packet_length_in' = 0 /\ log' = <<>>
    BY DEF BufReset
  <2>2. StagedEnd' = 0 /\ ClosedEnd' = 0
    BY <1>1, <2>1 DEF StagedEnd, ClosedEnd
  <2> QED BY <1>1, <2>1, <2>2 DEF Chain, Contiguous
<1>4. PortsMatch'
  BY <1>1 DEF BufReset, PortsMatch, PureIn, NoPacket, EndOf
<1> QED BY <1>2, <1>3, <1>4 DEF BufInv

-----------------------------------------------------------------------------
(* One clock edge *)

\* What every edge of BufTick has in common.
Edge(valid, port, last, rd, finished) ==
  /\ BufClock(valid, port, last, rd, finished)
  /\ Consumer(rd, finished)
  /\ valid => port \in Ports /\ EopContract(port, last)
  /\ ~valid => ~last

\* Every register keeps its type.
LEMMA EdgeTypes ==
  ASSUME BufTypeOK, NEW valid \in BOOLEAN, NEW port, NEW last \in BOOLEAN,
         NEW rd \in BOOLEAN, NEW finished \in BOOLEAN,
         Edge(valid, port, last, rd, finished)
  PROVE  BufTypeOK'
<1> USE BufferAssumption
<1>1. /\ info_wrreq' \in BOOLEAN /\ overflowed' \in BOOLEAN
  BY Zenon DEF Edge, BufClock, InfoRegister, BufTypeOK
<1>2. info_in' \in Packet
  BY DEF Edge, BufClock, InfoRegister, BufTypeOK
<1>3. info' \in Seq(Packet) /\ announced' \in Nat
  <2>1. info_in \in Packet /\ info \in Seq(Packet) /\ announced \in Nat
    BY DEF BufTypeOK
  <2>2. info # <<>> => Tail(info) \in Seq(Packet)
    BY <2>1, TailFacts
  <2>3. InfoFifo(finished)
    BY DEF Edge, BufClock
  <2>4. info_in.start + info_in.len \in Nat
    BY <2>1 DEF Packet
  <2> QED BY <2>1, <2>2, <2>3, <2>4, AppendFacts DEF InfoFifo
<1>4. /\ log' \in Seq(Ports) /\ Len(log) \in Nat /\ Len(log') >= Len(log)
      /\ packet_length_in' \in Nat /\ packet_start' \in Nat
      /\ previous_udp_port' \in AnyPort
      /\ timeout_counter' \in 0 .. (IN_FIFO_STALE_THRESHOLD + 1)
      /\ last_packet' \in Packet
  <2>1. /\ log \in Seq(Ports) /\ Len(log) \in Nat /\ packet_length_in \in Nat
        /\ packet_start \in Nat /\ previous_udp_port \in AnyPort
        /\ timeout_counter \in 0 .. (IN_FIFO_STALE_THRESHOLD + 1)
        /\ last_packet \in Packet
    BY DEF BufTypeOK
  <2>2. \A n \in Nat : [len |-> n, port |-> previous_udp_port,
                        start |-> packet_start] \in Packet
    BY <2>1 DEF Packet
  <2>3. Writer(valid, port, last)
    BY DEF Edge, BufClock
  <2>4. CASE valid
    <3>1. port \in Ports /\ port \in AnyPort
      BY <2>4 DEF Edge, AnyPort
    <3>2. log' \in Seq(Ports) /\ Len(log') >= Len(log)
      BY <2>1, <2>3, <2>4, <3>1, AppendFacts
         DEF Writer, WordContinues, WordEndsPacket, WriteWord
    <3>3. CASE WordContinues(port, last)
      BY <2>1, <3>2, <3>3 DEF WordContinues, NoClose
    <3>4. CASE WordEndsPacket(port, last)
      <4>1. last_packet' \in Packet
        BY <2>1, <2>2, <3>4 DEF WordEndsPacket, CloseWith, NoClose
      <4> QED BY <2>1, <3>1, <3>2, <3>4, <4>1 DEF WordEndsPacket
    <3> QED BY <2>3, <2>4, <3>3, <3>4 DEF Writer
  <2>5. CASE ~valid
    <3>1. CASE DataAges
      BY <2>1, <3>1 DEF DataAges, NoClose, Stale
    <3>2. CASE FlushStale
      BY <2>1, <2>2, <3>2 DEF FlushStale, CloseWith
    <3>3. CASE Quiet
      BY <2>1, <3>3 DEF Quiet, NoClose
    <3> QED BY <2>3, <2>5, <3>1, <3>2, <3>3 DEF Writer
  <2> QED BY <2>4, <2>5
<1>5. info_valid' \in BOOLEAN
  BY Zenon DEF Edge, BufClock, Writer, WordContinues, WordEndsPacket,
               DataAges, FlushStale, Quiet, CloseWith, NoClose
<1>6. words_read' \in 0 .. Len(log') /\ packet_read' \in Nat
  <2>1. words_read \in 0 .. Len(log) /\ packet_read \in Nat
    BY DEF BufTypeOK
  <2> QED BY <1>4, <2>1 DEF Edge, BufClock, Reader
<1> QED BY <1>1, <1>2, <1>3, <1>4, <1>5, <1>6 DEF BufTypeOK

-----------------------------------------------------------------------------
(* The chain of packets *)

\* The part of Chain about the info FIFO and the words read.
ReadChain ==
  /\ Contiguous(info)
  /\ info # <<>> => /\ EndOf(info[Len(info)]) = announced
                    /\ words_read = info[1].start + packet_read
                    /\ packet_read <= info[1].len
  /\ info = <<>> => words_read = announced /\ packet_read = 0

\* Reading and finishing packets, and announcing the next one.
LEMMA EdgeReadChain ==
  ASSUME BufInv, ~overflowed, NEW valid \in BOOLEAN, NEW port,
         NEW last \in BOOLEAN, NEW rd \in BOOLEAN, NEW finished \in BOOLEAN,
         Edge(valid, port, last, rd, finished), ~DropsEntry
  PROVE  ReadChain' /\ announced' = StagedEnd
<1> DEFINE rest == IF finished /\ info # <<>> THEN Tail(info) ELSE info
           read == IF finished THEN 0
                   ELSE IF rd THEN packet_read + 1 ELSE packet_read
<1>1. /\ info \in Seq(Packet) /\ info_in \in Packet /\ announced \in Nat
      /\ words_read \in Nat /\ packet_read \in Nat /\ log \in Seq(Ports)
      /\ Len(log) \in Nat /\ Len(info) \in Nat
  BY DEF BufInv, BufTypeOK
<1>2. ReadChain /\ Chain /\ PortsMatch
  BY DEF BufInv, Chain, ReadChain
<1>3. /\ announced' = IF info_wrreq THEN EndOf(info_in) ELSE announced
      /\ info' = IF info_wrreq THEN Append(rest, info_in) ELSE rest
  <2>1. InfoFifo(finished)
    BY DEF Edge, BufClock
  <2>2. info_wrreq => Len(info) < InfoDepth
    BY <1>1, BufferAssumption DEF DropsEntry
  <2> QED BY <2>1, <2>2 DEF InfoFifo, EndOf
<1>4. rest \in Seq(Packet)
  BY <1>1, TailFacts
<1>5. /\ packet_read' = read /\ read \in Nat
      /\ rd => info # <<>> /\ packet_read < info[1].len
      /\ finished => info # <<>> /\ packet_read = info[1].len /\ ~rd
  <2>1. info # <<>> => Head(info) = info[1]
    BY <1>1, TailFacts
  <2>2. /\ rd => info # <<>> /\ packet_read < info[1].len
        /\ finished => info # <<>> /\ packet_read = info[1].len
    BY <2>1 DEF Edge, Consumer, MayRead, MayFinish, payload_len
  <2>3. packet_read' = read
    BY DEF Edge, BufClock, Reader
  <2>4. info # <<>> => info[1].len \in Nat
    BY <1>1, FrontFacts
  <2> QED BY <1>1, <2>2, <2>3, <2>4
<1>6. words_read' = words_read + (IF rd THEN 1 ELSE 0)
  <2>1. CASE rd
    <3>1. info # <<>> /\ info[1] \in Packet /\ Len(info) \in Nat \ {0}
      BY <1>1, <1>5, <2>1, TailFacts
    <3>2. EndOf(info[1]) <= Len(log)
      BY <1>2, <3>1 DEF PortsMatch, PureIn
    <3>3. words_read = info[1].start + packet_read
      BY <1>2, <3>1 DEF ReadChain
    <3>4. info[1].start \in Nat /\ info[1].len \in Nat /\ packet_read < info[1].len
      BY <1>5, <2>1, <3>1 DEF Packet
    <3>5. words_read < Len(log)
      BY <1>1, <3>2, <3>3, <3>4 DEF EndOf
    <3> QED BY <2>1, <3>5 DEF Edge, BufClock, Reader
  <2>2. CASE ~rd
    BY <1>1, <2>2 DEF Edge, BufClock, Reader
  <2> QED BY <2>1, <2>2
\* What the FIFO holds once the finished packet is gone.
<1>7. /\ Contiguous(rest)
      /\ rest # <<>> => /\ EndOf(rest[Len(rest)]) = announced
                        /\ words_read' = rest[1].start + read
                        /\ read <= rest[1].len
      /\ rest = <<>> => words_read' = announced /\ read = 0
  <2>1. CASE finished
    <3>1. /\ info # <<>> /\ packet_read = info[1].len /\ ~rd
          /\ rest = Tail(info) /\ read = 0
      BY <1>5, <2>1
    <3>2. /\ Contiguous(rest)
          /\ rest # <<>> => /\ rest[Len(rest)] = info[Len(info)]
                            /\ rest[1].start = EndOf(info[1])
          /\ rest = <<>> => info[1] = info[Len(info)]
      BY <1>1, <1>2, <3>1, ContiguousTail DEF ReadChain
    <3>3. words_read' = EndOf(info[1]) /\ EndOf(info[Len(info)]) = announced
      <4>1. /\ EndOf(info[Len(info)]) = announced
            /\ words_read = info[1].start + packet_read
        BY <1>2, <3>1 DEF ReadChain
      <4>2. words_read' = words_read
        BY <1>1, <1>6, <3>1
      <4> QED BY <3>1, <4>1, <4>2 DEF EndOf
    <3>4. rest # <<>> => rest[1].start \in Nat /\ rest[1].len \in Nat
      BY <1>4, FrontFacts
    <3>5. rest = <<>> => words_read' = announced
      BY <3>2, <3>3
    <3> QED BY <3>1, <3>2, <3>3, <3>4, <3>5
  <2>2. CASE ~finished
    <3>1. rest = info
      BY <2>2
    <3>2. info # <<>> => info[1].start \in Nat /\ info[1].len \in Nat
      BY <1>1, FrontFacts
    <3>3. /\ Contiguous(info)
          /\ info # <<>> => /\ EndOf(info[Len(info)]) = announced
                            /\ words_read = info[1].start + packet_read
                            /\ packet_read <= info[1].len
          /\ info = <<>> => words_read = announced /\ packet_read = 0
      BY <1>2 DEF ReadChain
    <3>4. CASE rd
      <4>1. /\ info # <<>> /\ packet_read < info[1].len
            /\ read = packet_read + 1 /\ words_read' = words_read + 1
        BY <1>5, <1>6, <2>2, <3>4
      <4>2. words_read' = info[1].start + read /\ read <= info[1].len
        BY <1>1, <3>2, <3>3, <4>1
      <4> QED BY <3>1, <3>3, <4>1, <4>2
    <3>5. CASE ~rd
      <4>1. read = packet_read /\ words_read' = words_read
        BY <1>1, <1>6, <2>2, <3>5
      <4> QED BY <3>1, <3>3, <4>1
    <3> QED BY <3>4, <3>5
  <2> QED BY <2>1, <2>2
<1>8. announced' = StagedEnd
  BY <1>3 DEF StagedEnd
<1>9. ReadChain'
  <2>1. CASE info_wrreq
    <3>1. info' = Append(rest, info_in) /\ announced' = EndOf(info_in)
      BY <1>3, <2>1
    <3>2. info_in.start = announced /\ info_in.len \in Nat
      BY <1>1, <1>2, <2>1 DEF Chain, Packet
    <3>3. /\ info' # <<>> /\ Len(info') = Len(rest) + 1 /\ Len(rest) \in Nat
          /\ \A i \in 1 .. Len(rest) : info'[i] = rest[i]
          /\ info'[Len(rest) + 1] = info_in
      BY <1>1, <1>4, <3>1, AppendFacts
    <3>4. Contiguous(info')
      BY <1>1, <1>4, <1>7, <3>1, <3>2, ContiguousAppend
    <3>5. EndOf(info'[Len(info')]) = announced'
      BY <3>1, <3>3
    <3>6. words_read' = info'[1].start + packet_read' /\ packet_read' <= info'[1].len
      <4>1. CASE rest = <<>>
        <5>1. Len(rest) = 0
          BY <4>1
        <5>2. info'[Len(rest) + 1] = info_in
          BY <3>3
        <5>3. Len(rest) + 1 = 1
          BY <5>1
        <5>4. info'[1] = info_in
          BY <5>2, <5>3, Zenon
        <5> QED BY <1>1, <1>5, <1>7, <3>2, <4>1, <5>4
      <4>2. CASE rest # <<>>
        <5>1. info'[1] = rest[1]
          BY <1>4, <3>3, <4>2
        <5> QED BY <1>5, <1>7, <4>2, <5>1
      <4> QED BY <4>1, <4>2
    <3> QED BY <3>3, <3>4, <3>5, <3>6 DEF ReadChain
  <2>2. CASE ~info_wrreq
    BY <1>3, <1>5, <1>7, <2>2 DEF ReadChain
  <2> QED BY <2>1, <2>2
<1> QED BY <1>8, <1>9

\* What the write side does to the packet being collected: the packet that
\* leaves through the first stage, if any, and the one kept are consecutive.
LEMMA EdgeWriteChain ==
  ASSUME BufInv, ~overflowed, NEW valid \in BOOLEAN, NEW port,
         NEW last \in BOOLEAN, NEW rd \in BOOLEAN, NEW finished \in BOOLEAN,
         Edge(valid, port, last, rd, finished), ~DropsWord(valid)
  PROVE  /\ info_valid' => /\ last_packet'.start = packet_start
                           /\ last_packet'.port = previous_udp_port
                           /\ EndOf(last_packet') = packet_start'
         /\ ~info_valid' => packet_start' = packet_start
         /\ packet_start' + packet_length_in' = Len(log')
         /\ log' = IF valid THEN Append(log, port) ELSE log
<1>1. /\ log \in Seq(Ports) /\ Len(log) \in Nat /\ words_read \in Nat
      /\ packet_length_in \in Nat /\ packet_start \in Nat
      /\ packet_start + packet_length_in = Len(log)
  BY DEF BufInv, BufTypeOK, Chain
<1>2. Writer(valid, port, last)
  BY DEF Edge, BufClock
<1>3. CASE valid
  <2>1. port \in Ports /\ (last => packet_length_in >= 1)
    BY <1>3 DEF Edge, EopContract
  <2>2. Len(Append(log, port)) = Len(log) + 1
    BY <1>1, <2>1, AppendFacts
  <2>3. log' = Append(log, port)
    BY <1>1, <1>2, <1>3, BufferAssumption
       DEF Writer, WordContinues, WordEndsPacket, WriteWord, DropsWord
  <2>4. CASE WordContinues(port, last)
    <3>1. info_valid' = FALSE
      BY <2>4 DEF WordContinues, NoClose
    <3>2. ~info_valid'
      BY <3>1, Zenon
    <3>3. packet_start' = packet_start /\ packet_length_in' = packet_length_in + 1
      BY <2>4 DEF WordContinues
    <3> QED BY <1>1, <1>3, <2>2, <2>3, <3>2, <3>3
  <2>5. CASE WordEndsPacket(port, last)
    <3>1. /\ packet_length_in' = IF last THEN 0 ELSE 1
          /\ packet_start' = IF last THEN Len(log) + 1 ELSE Len(log)
      BY <2>5 DEF WordEndsPacket
    <3>2. CASE packet_length_in >= 1
      <4>1. CloseWith(IF last THEN packet_length_in + 1 ELSE packet_length_in)
        BY <2>5, <3>2 DEF WordEndsPacket
      <4>2. info_valid'
        BY <4>1, Zenon DEF CloseWith
      <4>3. /\ last_packet'.start = packet_start
            /\ last_packet'.port = previous_udp_port
            /\ last_packet'.len = IF last THEN packet_length_in + 1
                                         ELSE packet_length_in
        BY <4>1 DEF CloseWith
      <4>4. EndOf(last_packet') = packet_start'
        BY <1>1, <3>1, <4>3 DEF EndOf
      <4> QED BY <1>1, <1>3, <2>2, <2>3, <3>1, <4>2, <4>3, <4>4
    <3>3. CASE ~(packet_length_in >= 1)
      <4>1. info_valid' = FALSE
        BY <2>5, <3>3 DEF WordEndsPacket, NoClose
      <4>2. ~info_valid'
        BY <4>1, Zenon
      <4>3. packet_length_in = 0 /\ ~last
        BY <1>1, <2>1, <3>3
      <4> QED BY <1>1, <1>3, <2>2, <2>3, <3>1, <4>2, <4>3
    <3> QED BY <3>2, <3>3
  <2> QED BY <1>2, <1>3, <2>4, <2>5 DEF Writer
<1>4. CASE ~valid
  <2>1. CASE DataAges \/ Quiet
    <3>1. info_valid' = FALSE
      BY <2>1 DEF DataAges, Quiet, NoClose
    <3>2. ~info_valid'
      BY <3>1, Zenon
    <3>3. UNCHANGED <<log, packet_start, packet_length_in>>
      BY <2>1 DEF DataAges, Quiet
    <3> QED BY <1>1, <1>4, <3>2, <3>3
  <2>2. CASE FlushStale
    <3>1. info_valid'
      BY <2>2, Zenon DEF FlushStale, CloseWith
    <3>2. /\ last_packet'.start = packet_start
          /\ last_packet'.port = previous_udp_port
          /\ last_packet'.len = packet_length_in
      BY <2>2 DEF FlushStale, CloseWith
    <3>3. packet_start' = Len(log) /\ packet_length_in' = 0 /\ log' = log
      BY <2>2 DEF FlushStale
    <3> QED BY <1>1, <1>4, <3>1, <3>2, <3>3 DEF EndOf
  <2> QED BY <1>2, <1>4, <2>1, <2>2 DEF Writer
<1> QED BY <1>3, <1>4

\* Read side, register stages and write side together keep the chain.
LEMMA EdgeChain ==
  ASSUME BufInv, ~overflowed, NEW valid \in BOOLEAN, NEW port,
         NEW last \in BOOLEAN, NEW rd \in BOOLEAN, NEW finished \in BOOLEAN,
         Edge(valid, port, last, rd, finished),
         ~DropsEntry, ~DropsWord(valid)
  PROVE  Chain'
<1>1. ReadChain' /\ announced' = StagedEnd
  BY EdgeReadChain
<1>2. info_wrreq' = info_valid /\ info_in' = last_packet
  BY DEF Edge, BufClock, InfoRegister
<1>3. /\ info_valid => last_packet.start = StagedEnd
      /\ packet_start = ClosedEnd
  BY DEF BufInv, Chain
<1>4. info_wrreq' => info_in'.start = announced'
  BY <1>1, <1>2, <1>3
<1>5. StagedEnd' = packet_start
  BY <1>1, <1>2, <1>3 DEF StagedEnd, ClosedEnd
<1>6. /\ info_valid' => /\ last_packet'.start = packet_start
                        /\ EndOf(last_packet') = packet_start'
      /\ ~info_valid' => packet_start' = packet_start
      /\ packet_start' + packet_length_in' = Len(log')
  BY EdgeWriteChain
<1>7. packet_start' = ClosedEnd'
  BY <1>5, <1>6 DEF ClosedEnd
<1> QED BY <1>1, <1>4, <1>5, <1>6, <1>7 DEF Chain, ReadChain

-----------------------------------------------------------------------------
(* The ports of the words *)

\* Words of a packet stay what they are when a word is added.
LEMMA PureGrows ==
  ASSUME NEW l \in Seq(Ports), NEW w \in Ports, NEW p \in Packet, PureIn(l, p)
  PROVE  PureIn(Append(l, w), p)
<1>1. /\ Len(Append(l, w)) = Len(l) + 1 /\ Len(l) \in Nat
      /\ \A i \in 1 .. Len(l) : Append(l, w)[i] = l[i]
  BY AppendFacts
<1>2. p.start \in Nat /\ p.len \in Nat
  BY DEF Packet
<1>3. EndOf(p) <= Len(l) /\ \A k \in (p.start + 1) .. EndOf(p) : l[k] = p.port
  BY DEF PureIn
<1>4. ASSUME NEW k \in (p.start + 1) .. EndOf(p) PROVE Append(l, w)[k] = p.port
  <2>1. k \in 1 .. Len(l)
    BY <1>1, <1>2, <1>3 DEF EndOf
  <2> QED BY <1>1, <1>3, <2>1
<1> QED BY <1>1, <1>2, <1>3, <1>4 DEF PureIn, EndOf

\* Packets in the info FIFO and its register stages keep their words.
LEMMA EdgeClosedPure ==
  ASSUME BufInv, ~overflowed, NEW valid \in BOOLEAN, NEW port,
         NEW last \in BOOLEAN, NEW rd \in BOOLEAN, NEW finished \in BOOLEAN,
         Edge(valid, port, last, rd, finished), ~DropsWord(valid)
  PROVE  /\ \A i \in 1 .. Len(info') : PureIn(log', info'[i])
         /\ info_wrreq' => PureIn(log', info_in')
<1>1. /\ log \in Seq(Ports) /\ info \in Seq(Packet) /\ info_in \in Packet
      /\ last_packet \in Packet
  BY DEF BufInv, BufTypeOK
<1>2. PortsMatch
  BY DEF BufInv
<1>3. ASSUME NEW p \in Packet, PureIn(log, p) PROVE PureIn(log', p)
  <2>1. log' = IF valid THEN Append(log, port) ELSE log
    BY EdgeWriteChain
  <2>2. CASE valid
    <3>1. port \in Ports
      BY <2>2 DEF Edge
    <3>2. PureIn(Append(log, port), p)
      BY <1>1, <1>3, <3>1, PureGrows
    <3> QED BY <2>1, <2>2, <3>2
  <2>3. CASE ~valid
    BY <1>3, <2>1, <2>3
  <2> QED BY <2>2, <2>3
<1>4. info_wrreq' => PureIn(log', info_in')
  <2>1. info_wrreq' = info_valid /\ info_in' = last_packet
    BY DEF Edge, BufClock, InfoRegister
  <2>2. info_valid => PureIn(log, last_packet)
    BY <1>2 DEF PortsMatch
  <2>3. info_valid => PureIn(log', last_packet)
    BY <1>1, <1>3, <2>2
  <2> QED BY <2>1, <2>3
<1>5. \A i \in 1 .. Len(info') : PureIn(log', info'[i])
  <2> DEFINE rest == IF finished /\ info # <<>> THEN Tail(info) ELSE info
             fits == info_wrreq /\ Len(info) < InfoDepth
  <2>1. info' = IF fits THEN Append(rest, info_in) ELSE rest
    BY DEF Edge, BufClock, InfoFifo
  <2>2. \A i \in 1 .. Len(info) : info[i] \in Packet /\ PureIn(log', info[i])
    BY <1>1, <1>2, <1>3 DEF PortsMatch
  <2>3. rest \in Seq(Packet) /\ \A i \in 1 .. Len(rest) : PureIn(log', rest[i])
    <3>1. CASE finished /\ info # <<>>
      <4>1. /\ rest = Tail(info) /\ Tail(info) \in Seq(Packet)
            /\ Len(Tail(info)) = Len(info) - 1 /\ Len(info) \in Nat
            /\ \A i \in 1 .. (Len(info) - 1) : Tail(info)[i] = info[i + 1]
        BY <1>1, <3>1, TailFacts
      <4>2. ASSUME NEW i \in 1 .. Len(rest) PROVE PureIn(log', rest[i])
        <5>1. Len(rest) = Len(info) - 1
          BY <4>1
        <5>2. Len(info) \in Nat
          BY <4>1
        <5>3. i \in 1 .. (Len(info) - 1)
          BY <5>1
        <5>4. i \in 1 .. (Len(info) - 1) /\ i + 1 \in 1 .. Len(info)
          BY <5>2, <5>3
        <5>5. rest[i] = info[i + 1]
          BY <4>1, <5>4
        <5> QED BY <2>2, <5>4, <5>5
      <4> QED BY <4>1, <4>2
    <3>2. CASE ~(finished /\ info # <<>>)
      BY <1>1, <2>2, <3>2
    <3> QED BY <3>1, <3>2
  <2>4. CASE fits
    <3>1. /\ Len(Append(rest, info_in)) = Len(rest) + 1 /\ Len(rest) \in Nat
          /\ \A i \in 1 .. Len(rest) : Append(rest, info_in)[i] = rest[i]
          /\ Append(rest, info_in)[Len(rest) + 1] = info_in
      BY <1>1, <2>3, AppendFacts
    <3>2. PureIn(log', info_in)
      BY <1>1, <1>2, <1>3, <2>4 DEF PortsMatch
    <3>3. info' = Append(rest, info_in)
      BY <2>1, <2>4
    <3>4. ASSUME NEW i \in 1 .. Len(info') PROVE PureIn(log', info'[i])
      <4>1. CASE i = Len(rest) + 1
        BY <3>1, <3>2, <3>3, <4>1
      <4>2. CASE i # Len(rest) + 1
        <5>1. i \in 1 .. Len(rest)
          BY <3>1, <3>3, <4>2
        <5> QED BY <2>3, <3>1, <3>3, <5>1
      <4> QED BY <4>1, <4>2
    <3> QED BY <3>4
  <2>5. CASE ~fits
    BY <2>1, <2>3, <2>5
  <2> QED BY <2>4, <2>5
<1> QED BY <1>4, <1>5

\* The packet just closed, and the one being collected, have their words.
LEMMA EdgeOpenPure ==
  ASSUME BufInv, ~overflowed, NEW valid \in BOOLEAN, NEW port,
         NEW last \in BOOLEAN, NEW rd \in BOOLEAN, NEW finished \in BOOLEAN,
         Edge(valid, port, last, rd, finished), ~DropsWord(valid)
  PROVE  /\ info_valid' => PureIn(log', last_packet')
         /\ \A k \in (packet_start' + 1) .. Len(log') :
               log'[k] = previous_udp_port'
<1>1. /\ log \in Seq(Ports) /\ Len(log) \in Nat
      /\ packet_length_in \in Nat /\ packet_start \in Nat
      /\ packet_start + packet_length_in = Len(log)
  BY DEF BufInv, BufTypeOK, Chain
<1>2. \A k \in (packet_start + 1) .. Len(log) : log[k] = previous_udp_port
  BY DEF BufInv, PortsMatch
<1>3. /\ info_valid' => /\ last_packet'.start = packet_start
                        /\ last_packet'.port = previous_udp_port
                        /\ EndOf(last_packet') = packet_start'
      /\ packet_start' + packet_length_in' = Len(log')
      /\ log' = IF valid THEN Append(log, port) ELSE log
  BY EdgeWriteChain
<1>4. Writer(valid, port, last)
  BY DEF Edge, BufClock
\* Enough: where the closed packet ends, and whose the words up to there are.
<1>5. SUFFICES /\ packet_start' <= Len(log')
               /\ \A k \in (packet_start + 1) .. packet_start' :
                     log'[k] = previous_udp_port
               /\ \A k \in (packet_start' + 1) .. Len(log') :
                     log'[k] = previous_udp_port'
  BY <1>3 DEF PureIn
<1>6. CASE valid
  <2>1. port \in Ports /\ (last => packet_length_in >= 1 /\ port = previous_udp_port)
    BY <1>6 DEF Edge, EopContract
  <2>2. /\ Len(log') = Len(log) + 1
        /\ \A k \in 1 .. Len(log) : log'[k] = log[k]
        /\ log'[Len(log) + 1] = port
    BY <1>1, <1>3, <1>6, <2>1, AppendFacts
  <2>3. \A k \in (packet_start + 1) .. Len(log) : log'[k] = previous_udp_port
    <3> SUFFICES ASSUME NEW k \in (packet_start + 1) .. Len(log)
                 PROVE  log'[k] = previous_udp_port
      OBVIOUS
    <3>1. k \in 1 .. Len(log)
      BY <1>1
    <3> QED BY <1>2, <2>2, <3>1
  <2>4. CASE WordContinues(port, last)
    <3>1. packet_start' = packet_start /\ previous_udp_port' = previous_udp_port
      BY <2>4 DEF WordContinues
    <3>2. port = previous_udp_port
      BY <2>4 DEF WordContinues, EndsPacket
    <3> QED BY <1>1, <2>2, <2>3, <3>1, <3>2
  <2>5. CASE WordEndsPacket(port, last)
    <3>1. /\ packet_start' = IF last THEN Len(log) + 1 ELSE Len(log)
          /\ previous_udp_port' = port
      BY <2>5 DEF WordEndsPacket
    <3> QED BY <1>1, <2>1, <2>2, <2>3, <3>1
  <2> QED BY <1>4, <1>6, <2>4, <2>5 DEF Writer
<1>7. CASE ~valid
  <2>1. log' = log
    BY <1>3, <1>7
  <2>2. CASE DataAges \/ Quiet
    <3>1. packet_start' = packet_start /\ previous_udp_port' = previous_udp_port
      BY <2>2 DEF DataAges, Quiet
    <3> QED BY <1>1, <1>2, <2>1, <3>1
  <2>3. CASE FlushStale
    <3>1. packet_start' = Len(log)
      BY <2>3 DEF FlushStale
    <3> QED BY <1>1, <1>2, <2>1, <3>1
  <2> QED BY <1>4, <1>7, <2>2, <2>3 DEF Writer
<1> QED BY <1>6, <1>7

-----------------------------------------------------------------------------
(* The inductive invariant and the theorems *)

\* A clock edge keeps the inductive invariant.
LEMMA BufInvTick == BufInv /\ BufTick => BufInv'
<1> SUFFICES ASSUME BufInv, BufTick PROVE BufInv'
  OBVIOUS
<1>1. PICK valid \in BOOLEAN, port \in AnyPort, last \in BOOLEAN,
           rd \in BOOLEAN, finished \in BOOLEAN :
             Edge(valid, port, last, rd, finished)
  <2>1. CASE NoInput
    <3>1. PICK rd \in BOOLEAN, finished \in BOOLEAN :
             /\ Consumer(rd, finished)
             /\ BufClock(FALSE, ResetPort, FALSE, rd, finished)
      BY <2>1, Zenon DEF NoInput
    <3>2. Edge(FALSE, ResetPort, FALSE, rd, finished)
      BY <3>1, Zenon DEF Edge
    <3>3. ResetPort \in AnyPort
      BY DEF AnyPort
    <3> QED BY <3>2, <3>3, Zenon
  <2>2. ASSUME NEW port \in Ports, NEW last \in BOOLEAN, Receive(port, last)
        PROVE  \E valid \in BOOLEAN, p \in AnyPort, e \in BOOLEAN,
                  rd \in BOOLEAN, finished \in BOOLEAN :
                    Edge(valid, p, e, rd, finished)
    <3>1. PICK rd \in BOOLEAN, finished \in BOOLEAN :
             /\ Consumer(rd, finished)
             /\ BufClock(TRUE, port, last, rd, finished)
      BY <2>2, Zenon DEF Receive
    <3>2. Edge(TRUE, port, last, rd, finished)
      BY <2>2, <3>1, Zenon DEF Edge, Receive
    <3>3. port \in AnyPort
      BY DEF AnyPort
    <3> QED BY <3>2, <3>3, Zenon
  <2> QED BY <2>1, <2>2, Zenon DEF BufTick
<1>2. BufTypeOK'
  BY <1>1, EdgeTypes DEF BufInv
<1>3. ASSUME ~overflowed' PROVE Chain' /\ PortsMatch'
  <2>1. ~overflowed /\ ~DropsEntry /\ ~DropsWord(valid)
    BY <1>1, <1>3, Zenon DEF Edge, BufClock
  <2>2. Chain'
    BY <1>1, <2>1, EdgeChain
  <2>3. /\ \A i \in 1 .. Len(info') : PureIn(log', info'[i])
        /\ info_wrreq' => PureIn(log', info_in')
    BY <1>1, <2>1, EdgeClosedPure
  <2>4. /\ info_valid' => PureIn(log', last_packet')
        /\ \A k \in (packet_start' + 1) .. Len(log') :
              log'[k] = previous_udp_port'
    BY <1>1, <2>1, EdgeOpenPure
  <2> QED BY <2>2, <2>3, <2>4 DEF PortsMatch
<1> QED BY <1>2, <1>3 DEF BufInv

\* A stuttering step keeps it.
LEMMA BufInvStutter == BufInv /\ UNCHANGED bufVars => BufInv'
  BY DEF BufInv, BufTypeOK, Chain, PortsMatch, StagedEnd, ClosedEnd,
         Contiguous, PureIn, EndOf, bufVars

\* The inductive invariant holds in every reachable state.
THEOREM BufInvariance == BufSpec => []BufInv
<1>1. BufInv /\ [BufNext]_bufVars => BufInv'
  BY BufInvTick, BufInvReset, BufInvStutter DEF BufNext, BufInv
<1> QED BY BufInvInit, <1>1, PTL DEF BufSpec

\* The registers and FIFOs of the buffer keep their types.
THEOREM BufTypeCorrect == BufSpec => []BufTypeOK
<1>1. BufInv => BufTypeOK
  BY DEF BufInv
<1> QED BY BufInvariance, <1>1, PTL

\* The invariant says where the next word for the front packet is.
LEMMA NextWordFits == BufInv => WordGoesToItsPort
<1> SUFFICES ASSUME BufInv, ~overflowed, MayRead
             PROVE  words_read < Len(log) /\ log[words_read + 1] = data_port_out
  BY DEF WordGoesToItsPort
<1>1. info # <<>> /\ packet_read < info[1].len /\ data_port_out = info[1].port
  BY TailFacts DEF MayRead, payload_len, data_port_out, BufInv, BufTypeOK
<1>2. /\ info \in Seq(Packet) /\ packet_read \in Nat /\ Len(log) \in Nat
      /\ Len(info) \in Nat \ {0}
  BY <1>1, TailFacts DEF BufInv, BufTypeOK
<1>3. info[1].start \in Nat /\ info[1].len \in Nat
  BY <1>1, <1>2, FrontFacts
<1>4. words_read = info[1].start + packet_read
  BY <1>1 DEF BufInv, Chain
<1>5. PureIn(log, info[1])
  <2>1. 1 \in 1 .. Len(info)
    BY <1>2
  <2> QED BY <2>1 DEF BufInv, PortsMatch
<1>6. words_read + 1 \in (info[1].start + 1) .. EndOf(info[1])
  BY <1>1, <1>2, <1>3, <1>4 DEF EndOf
<1> QED BY <1>1, <1>2, <1>3, <1>4, <1>5, <1>6 DEF PureIn, EndOf

\* Until a FIFO overflows, the frame generator sends every word to the UDP
\* port it was written for, for all lengths, depths and port sets.
THEOREM WordsGoToTheirPorts == BufSpec => []WordGoesToItsPort
  BY BufInvariance, NextWordFits, PTL

\* Until a FIFO overflows, no word is lost between packets or counted in two.
THEOREM WordsInOnePacket == BufSpec => []EveryWordInOnePacket
<1>1. BufInv => EveryWordInOnePacket
  <2> SUFFICES ASSUME BufInv, ~overflowed PROVE EveryWordInOnePacket
    BY DEF EveryWordInOnePacket
  <2>1. /\ info_wrreq => info_in.start = announced
        /\ info_valid => last_packet.start = StagedEnd
        /\ packet_start = ClosedEnd /\ packet_start + packet_length_in = Len(log)
    BY DEF BufInv, Chain
  <2>2. /\ announced \in Nat /\ info_in.len \in Nat /\ last_packet.len \in Nat
        /\ packet_length_in \in Nat
    BY DEF BufInv, BufTypeOK, Packet
  <2> QED BY <2>1, <2>2 DEF EveryWordInOnePacket, StagedEnd, ClosedEnd, EndOf
<1> QED BY BufInvariance, <1>1, PTL

-----------------------------------------------------------------------------
(***************************************************************************)
(* The invariant that joins buffer and generators.                         *)
(***************************************************************************)
\* No packet has more than MAX_PACKET_LENGTH + 1 words.
Short(p) == p.len <= MAX_PACKET_LENGTH + 1
LengthBound ==
  /\ packet_length_in <= MAX_PACKET_LENGTH
  /\ Short(last_packet) /\ Short(info_in)
  /\ \A i \in 1 .. Len(info) : Short(info[i])

\* The frame in hand is that of the front packet, of which as many words
\* have been asked for as the generator has read.
InHand ==
  /\ fg_state \in Active =>
       /\ info # <<>> /\ payload_length = info[1].len /\ packet_read = Got
       /\ Enabled("UDP0") => frame[Before("UDP0") + 1] = Word("UDP0", info[1].port)
  /\ fg_state \notin Active => packet_read = 0

\* The end of the frame is signalled once, when all words were asked for.
EndsOnce ==
  /\ eop \in BOOLEAN /\ rdreq \in BOOLEAN
  /\ eop => fg_state \in {"WRITE_PAYLOAD", "DONE"}
  /\ (eop /\ fg_state = "DONE") => info # <<>> /\ info[1].len = 0
  /\ (wrreq /\ fg_state \notin Active) => frame_word.kind # "payload"

\* Its payload is the words of the packet.
FromFifo ==
  fg_state \in Active =>
    \A k \in 1 .. payload_length :
      frame[HeadLen + k] = Payload(info[1].start + k)

BlockCtl == BufInv /\ GenInv /\ LengthBound /\ InHand /\ EndsOnce
BlockInv == BlockCtl /\ (~overflowed => GenData /\ FromFifo)

-----------------------------------------------------------------------------
(* The header of the front packet *)

\* No word of it is a payload word, and the port is in one place only.
LEMMA PacketHeader ==
  ASSUME FrameFixed, InHand, fg_state \in Active, NEW i \in 1 .. HeadLen
  PROVE  /\ frame[i].kind # "payload"
         /\ frame[i].kind = "UDP0" => Enabled("UDP0") /\ i = Before("UDP0") + 1
<1>1. Enabled("UDP0") => frame[Before("UDP0") + 1].kind = "UDP0"
  BY DEF InHand, Word
<1> QED BY <1>1, HeaderKinds

-----------------------------------------------------------------------------
(* The generator as the buffer's consumer *)

\* It asks for the words of the front packet, and finishes it when it has
\* asked for all.
LEMMA BlockConsumer ==
  ASSUME BlockCtl
  PROVE  Consumer(rdreq, eop)
<1>1. /\ GenInv /\ InHand /\ EndsOnce /\ info \in Seq(Packet)
  BY DEF BlockCtl, BufInv, BufTypeOK
<1>2. info # <<>> => payload_len = info[1].len
  BY <1>1, TailFacts DEF payload_len
<1>3. ASSUME rdreq PROVE MayRead
  <2>1. fg_state \in PayloadStates
    BY <1>1, <1>3, HeaderGot DEF GenInv, Sync, Between, Active
  <2>2. Got < payload_length
    BY <1>1, <1>3, <2>1, ClkFacts
  <2>3. info # <<>> /\ payload_length = info[1].len /\ packet_read = Got
    BY <1>1, <2>1 DEF InHand, Active
  <2> QED BY <1>2, <2>2, <2>3 DEF MayRead
<1>4. ASSUME eop PROVE MayFinish
  <2>1. CASE fg_state = "WRITE_PAYLOAD"
    <3>1. fg_state \in PayloadStates /\ fg_state \in Active
      BY <2>1 DEF Active, PayloadStates
    <3>2. /\ payload_length \in Nat /\ payload_length >= 1 /\ IN_DLY \in Nat
          /\ IN_DLY >= 2
      BY <1>1, <3>1, ClkFacts, FrameAssumption
    <3>3. fg_words = payload_length - 1
      BY <1>1, <1>4, <2>1, <3>1 DEF GenInv, PayloadPhase
    <3>4. Clk = IN_DLY + payload_length
      BY <2>1, <3>2, <3>3 DEF Clk
    <3>5. Got = payload_length
      BY <3>2, <3>4 DEF Got, AtMost
    <3> QED BY <1>1, <1>2, <3>1, <3>5 DEF InHand, MayFinish
  <2>2. CASE fg_state = "DONE"
    <3>1. info # <<>> /\ info[1].len = 0 /\ packet_read = 0
      BY <1>1, <1>4, <2>2 DEF InHand, EndsOnce, Active, PayloadStates
    <3> QED BY <1>2, <3>1 DEF MayFinish
  <2> QED BY <1>1, <1>4, <2>1, <2>2 DEF EndsOnce
<1> QED BY <1>3, <1>4 DEF Consumer

\* What every clock of the block has in common.
BlockEdge(valid, port, e, tx_ready) ==
  /\ BlockClock(valid, port, e, tx_ready)
  /\ valid => /\ Len(log) < MaxWords
              /\ port \in Ports /\ EopContract(port, e)
  /\ ~valid => ~e /\ port = ResetPort

\* Every clock is such an edge.
LEMMA BlockEdges ==
  ASSUME NEW tx_ready \in BOOLEAN, BlockTick(tx_ready)
  PROVE  \E valid \in BOOLEAN, port \in AnyPort, e \in BOOLEAN :
           BlockEdge(valid, port, e, tx_ready)
<1>1. CASE BlockNoInput(tx_ready)
  <2>1. BlockEdge(FALSE, ResetPort, FALSE, tx_ready)
    BY <1>1, Zenon DEF BlockEdge, BlockNoInput
  <2>2. ResetPort \in AnyPort
    BY DEF AnyPort
  <2> QED BY <2>1, <2>2, Zenon
<1>2. ASSUME NEW port \in Ports, NEW e \in BOOLEAN, BlockReceive(port, e, tx_ready)
      PROVE  \E valid \in BOOLEAN, p \in AnyPort, f \in BOOLEAN :
               BlockEdge(valid, p, f, tx_ready)
  <2>1. BlockEdge(TRUE, port, e, tx_ready)
    BY <1>2, Zenon DEF BlockEdge, BlockReceive
  <2>2. port \in AnyPort
    BY DEF AnyPort
  <2> QED BY <2>1, <2>2, Zenon
<1> QED BY <1>1, <1>2, Zenon DEF BlockTick

\* An edge of the block is an edge of the buffer.
LEMMA BlockEdgeIsEdge ==
  ASSUME BlockCtl, NEW valid \in BOOLEAN, NEW port \in AnyPort,
         NEW e \in BOOLEAN, NEW tx_ready \in BOOLEAN,
         BlockEdge(valid, port, e, tx_ready)
  PROVE  /\ Edge(valid, port, e, rdreq, eop)
         /\ BufTick
<1>1. Consumer(rdreq, eop)
  BY BlockConsumer
<1>2. rdreq \in BOOLEAN /\ eop \in BOOLEAN
  BY DEF BlockCtl, EndsOnce
<1>3. BufClock(valid, port, e, rdreq, eop)
  BY Zenon DEF BlockEdge, BlockClock, data_rdreq, packet_finished
<1>4. Edge(valid, port, e, rdreq, eop)
  BY <1>1, <1>3, Zenon DEF Edge, BlockEdge
<1>5. CASE valid
  <2>1. /\ Len(log) < MaxWords /\ port \in Ports /\ EopContract(port, e)
    BY <1>5 DEF BlockEdge
  <2>2. BufClock(TRUE, port, e, rdreq, eop)
    <3>1. valid = TRUE
      BY <1>5, Zenon
    <3> QED BY <1>3, <3>1, Zenon
  <2>3. Receive(port, e)
    BY <1>1, <1>2, <2>1, <2>2, Zenon DEF Receive
  <2> QED BY <1>4, <2>1, <2>3, Zenon DEF BufTick
<1>6. CASE ~valid
  <2>1. BufClock(FALSE, ResetPort, FALSE, rdreq, eop)
    <3>1. valid = FALSE /\ e = FALSE /\ port = ResetPort
      BY <1>6, Zenon DEF BlockEdge
    <3> QED BY <1>3, <3>1, Zenon
  <2>2. NoInput
    BY <1>1, <1>2, <2>1, Zenon DEF NoInput
  <2> QED BY <1>4, <2>2, Zenon DEF BufTick
<1> QED BY <1>5, <1>6

-----------------------------------------------------------------------------
(* Front packet and lengths *)

\* The front packet stays until the frame ends.
LEMMA FrontStays ==
  ASSUME BufTypeOK, InfoFifo(eop), ~eop, info # <<>>
  PROVE  info' # <<>> /\ info'[1] = info[1]
<1>1. info \in Seq(Packet) /\ info_in \in Packet
  BY DEF BufTypeOK
<1>2. info' = info \/ info' = Append(info, info_in)
  BY DEF InfoFifo
<1>3. Len(info) \in Nat \ {0}
  BY <1>1, TailFacts
<1>4. 1 \in 1 .. Len(info)
  BY <1>3
<1>5. Append(info, info_in) # <<>> /\ Append(info, info_in)[1] = info[1]
  BY <1>1, <1>4, AppendFacts
<1> QED BY <1>2, <1>5

\* Packets stay short on their way through the info FIFO.
LEMMA InfoShort ==
  ASSUME BufTypeOK, LengthBound, InfoFifo(eop)
  PROVE  \A i \in 1 .. Len(info') : Short(info'[i])
<1> DEFINE rest == IF eop /\ info # <<>> THEN Tail(info) ELSE info
           fits == info_wrreq /\ Len(info) < InfoDepth
<1>1. /\ info \in Seq(Packet) /\ info_in \in Packet
      /\ \A i \in 1 .. Len(info) : Short(info[i])
      /\ Short(info_in)
  BY DEF BufTypeOK, LengthBound
<1>2. info' = IF fits THEN Append(rest, info_in) ELSE rest
  BY DEF InfoFifo
<1>3. rest \in Seq(Packet) /\ \A i \in 1 .. Len(rest) : Short(rest[i])
  <2>1. CASE eop /\ info # <<>>
    <3>1. /\ rest = Tail(info) /\ Tail(info) \in Seq(Packet)
          /\ Len(Tail(info)) = Len(info) - 1 /\ Len(info) \in Nat
          /\ \A i \in 1 .. (Len(info) - 1) : Tail(info)[i] = info[i + 1]
      BY <1>1, <2>1, TailFacts
    <3>2. ASSUME NEW i \in 1 .. Len(rest) PROVE Short(rest[i])
      <4>1. i \in 1 .. (Len(info) - 1)
        BY <3>1
      <4>2. Len(info) \in Nat
        BY <3>1
      <4>3. i + 1 \in 1 .. Len(info)
        BY <4>1, <4>2
      <4>4. rest[i] = info[i + 1]
        BY <3>1, <4>1
      <4> QED BY <1>1, <4>3, <4>4
    <3> QED BY <3>1, <3>2
  <2>2. CASE ~(eop /\ info # <<>>)
    BY <1>1, <2>2
  <2> QED BY <2>1, <2>2
<1>4. CASE fits
  <2>1. /\ Len(Append(rest, info_in)) = Len(rest) + 1 /\ Len(rest) \in Nat
        /\ \A i \in 1 .. Len(rest) : Append(rest, info_in)[i] = rest[i]
        /\ Append(rest, info_in)[Len(rest) + 1] = info_in
    BY <1>1, <1>3, AppendFacts
  <2>2. info' = Append(rest, info_in)
    BY <1>2, <1>4
  <2>3. ASSUME NEW i \in 1 .. Len(info') PROVE Short(info'[i])
    <3>1. CASE i = Len(rest) + 1
      BY <1>1, <2>1, <2>2, <3>1
    <3>2. CASE i # Len(rest) + 1
      <4>1. i \in 1 .. Len(rest)
        BY <2>1, <2>2, <3>2
      <4> QED BY <1>3, <2>1, <2>2, <4>1
    <3> QED BY <3>1, <3>2
  <2> QED BY <2>3
<1>5. CASE ~fits
  BY <1>2, <1>3, <1>5
<1> QED BY <1>4, <1>5

\* No packet grows past MAX_PACKET_LENGTH + 1.
LEMMA LengthStep ==
  ASSUME BlockCtl, NEW valid \in BOOLEAN, NEW port, NEW e \in BOOLEAN,
         Edge(valid, port, e, rdreq, eop)
  PROVE  LengthBound'
<1>1. /\ BufTypeOK /\ LengthBound /\ packet_length_in \in Nat
      /\ MAX_PACKET_LENGTH \in Nat /\ MAX_PACKET_LENGTH >= 1
      /\ packet_length_in <= MAX_PACKET_LENGTH
  BY BufferAssumption DEF BlockCtl, BufInv, BufTypeOK, LengthBound
<1>2. /\ Writer(valid, port, e) /\ InfoFifo(eop) /\ info_in' = last_packet
  BY DEF Edge, BufClock, InfoRegister
<1>3. \A i \in 1 .. Len(info') : Short(info'[i])
  BY <1>1, <1>2, InfoShort
<1>4. Short(info_in')
  BY <1>1, <1>2 DEF LengthBound
<1>5. ASSUME NEW n \in Nat, n <= MAX_PACKET_LENGTH + 1, CloseWith(n)
      PROVE  Short(last_packet')
  BY <1>5 DEF CloseWith, Short
<1>6. ASSUME NoClose PROVE Short(last_packet')
  BY <1>1, <1>6 DEF NoClose, LengthBound
<1>7. packet_length_in' <= MAX_PACKET_LENGTH /\ Short(last_packet')
  <2>1. CASE WordContinues(port, e)
    <3>1. /\ packet_length_in' = packet_length_in + 1
          /\ ~(packet_length_in >= MAX_PACKET_LENGTH) /\ NoClose
      BY <2>1 DEF WordContinues, EndsPacket
    <3> QED BY <1>1, <1>6, <3>1
  <2>2. CASE WordEndsPacket(port, e)
    <3>1. packet_length_in' = IF e THEN 0 ELSE 1
      BY <2>2 DEF WordEndsPacket
    <3>2. \/ NoClose
          \/ e /\ CloseWith(packet_length_in + 1)
          \/ ~e /\ CloseWith(packet_length_in)
      BY <2>2 DEF WordEndsPacket
    <3>3. Short(last_packet')
      BY <1>1, <1>5, <1>6, <3>2
    <3> QED BY <1>1, <3>1, <3>3
  <2>3. CASE DataAges \/ Quiet
    <3>1. packet_length_in' = packet_length_in /\ NoClose
      BY <2>3 DEF DataAges, Quiet
    <3> QED BY <1>1, <1>6, <3>1
  <2>4. CASE FlushStale
    <3>1. packet_length_in' = 0 /\ CloseWith(packet_length_in)
      BY <2>4 DEF FlushStale
    <3> QED BY <1>1, <1>5, <3>1
  <2> QED BY <1>2, <2>1, <2>2, <2>3, <2>4 DEF Writer
<1> QED BY <1>3, <1>4, <1>7 DEF LengthBound, Short

-----------------------------------------------------------------------------
(* One clock of the generators behind the buffer *)

\* The arguments of the generators' clock.
LEMMA BlockArgs ==
  ASSUME BlockCtl
  PROVE  /\ fg_usedw_in \in Nat /\ fg_usedw_in < PAYLOAD_MAX_LEN
         /\ info # <<>> => /\ fg_usedw_in = info[1].len
                           /\ dest_port = info[1].port
         /\ words_read + 1 \in Nat
         /\ KeepsPort(dest_port)
<1>1. /\ info \in Seq(Packet) /\ words_read \in Nat /\ Len(log) \in Nat
      /\ MAX_PACKET_LENGTH \in Nat /\ PAYLOAD_MAX_LEN \in Nat
      /\ PAYLOAD_MAX_LEN > MAX_PACKET_LENGTH + 1
  BY BufferAssumption, FrameAssumption, NeverSplitAssumption
     DEF BlockCtl, BufInv, BufTypeOK
<1>2. ASSUME info # <<>>
      PROVE  /\ fg_usedw_in = info[1].len /\ dest_port = info[1].port
             /\ info[1].len \in Nat /\ info[1].len <= MAX_PACKET_LENGTH + 1
  <2>1. Head(info) = info[1] /\ Len(info) \in Nat \ {0}
    BY <1>1, <1>2, TailFacts
  <2>2. info[1].len \in Nat
    BY <1>1, <1>2, FrontFacts
  <2>3. 1 \in 1 .. Len(info)
    BY <2>1
  <2>4. Short(info[1])
    BY <2>3 DEF BlockCtl, LengthBound
  <2> QED BY <1>2, <2>1, <2>2, <2>4
          DEF fg_usedw_in, dest_port, payload_rdy, payload_len, data_port_out, Short
<1>3. info = <<>> => fg_usedw_in = 0
  BY DEF fg_usedw_in, payload_rdy
<1>4. KeepsPort(dest_port)
  <2> SUFFICES ASSUME hg_state = "UDP0", Enabled("UDP0")
               PROVE  frame[Before("UDP0") + 1] = Word("UDP0", dest_port)
    BY DEF KeepsPort
  <2>1. fg_state \in Active
    BY DEF BlockCtl, GenInv, Sync, Active
  <2> QED BY <1>2, <2>1 DEF BlockCtl, InHand
<1> QED BY <1>1, <1>2, <1>3, <1>4

\* The generators' part of a clock.
LEMMA BlockGen ==
  ASSUME BlockCtl, NEW valid, NEW port, NEW e, NEW tx_ready,
         BlockEdge(valid, port, e, tx_ready)
  PROVE  /\ GenInv' /\ Marks!LinkNext
         /\ (GenData /\ Fed(words_read + 1)) => GenData' /\ Link!LinkNext
         /\ fg_state \notin Active => ~rdreq
         /\ (fg_state \notin Active /\ fg_state' \in Active) =>
              Starts(dest_port, words_read + 1)
         /\ (fg_state \in Active /\ fg_state' \in Active) => GoesOn
<1>1. FgClock(fg_payload_rdy(tx_ready), fg_usedw_in, dest_port,
              words_read + 1, data_rdreq /\ words_read < Len(log))
  BY DEF BlockEdge, BlockClock
<1>2. /\ FgMachine(fg_payload_rdy(tx_ready), fg_usedw_in)
      /\ HgClock(header_start, payload_length, dest_port)
      /\ FrameHistory(words_read + 1, dest_port)
  BY <1>1 DEF FgClock
<1>3. GenInv
  BY DEF BlockCtl
<1> QED BY <1>2, <1>3, BlockArgs, GenStep

\* A frame is started only with a packet in the info FIFO, and is as long as
\* that packet.
LEMMA BlockStarts ==
  ASSUME BlockCtl, NEW valid, NEW port, NEW e, NEW tx_ready,
         BlockEdge(valid, port, e, tx_ready),
         fg_state \notin Active, fg_state' \in Active
  PROVE  fg_state = "IDLE" /\ info # <<>> /\ payload_length' = info[1].len
<1>1. FgMachine(fg_payload_rdy(tx_ready), fg_usedw_in)
  BY DEF BlockEdge, BlockClock, FgClock
<1>2. FgIdle(fg_payload_rdy(tx_ready), fg_usedw_in)
  BY <1>1 DEF FgMachine, FgHeader, FgWait, FgStart, WriteMore, WriteEnd, FgDone,
              Active, PayloadStates
<1>3. fg_payload_rdy(tx_ready) /\ fg_state = "IDLE"
  BY <1>2 DEF FgIdle, Active, PayloadStates
<1>4. info # <<>>
  BY <1>3 DEF fg_payload_rdy, payload_rdy
<1>5. payload_length' = IF fg_usedw_in >= PAYLOAD_MAX_LEN THEN PAYLOAD_MAX_LEN
                        ELSE fg_usedw_in
  BY <1>2, <1>3 DEF FgIdle
<1>6. fg_usedw_in \in Nat /\ fg_usedw_in < PAYLOAD_MAX_LEN /\ fg_usedw_in = info[1].len
  BY <1>4, BlockArgs
<1>7. ~(fg_usedw_in >= PAYLOAD_MAX_LEN)
  BY <1>6, FrameAssumption
<1> QED BY <1>3, <1>4, <1>5, <1>6, <1>7

\* The end of packet, and the states around it.
LEMMA EndStep ==
  ASSUME BlockCtl, NEW valid, NEW port, NEW e, NEW tx_ready,
         BlockEdge(valid, port, e, tx_ready)
  PROVE  /\ EndsOnce'
         /\ eop => fg_state' \notin Active
         /\ (fg_state \in Active /\ fg_state' \notin Active) =>
              (eop \/ packet_read = 0) /\ ~rdreq
<1>1. /\ GenInv /\ InHand /\ EndsOnce /\ BufTypeOK
  BY DEF BlockCtl, BufInv
<1>2. /\ FgMachine(fg_payload_rdy(tx_ready), fg_usedw_in) /\ InfoFifo(eop)
      /\ FrameHistory(words_read + 1, dest_port)
  BY DEF BlockEdge, BlockClock, FgClock, BufClock, packet_finished
<1>3. eop \in BOOLEAN /\ rdreq \in BOOLEAN
  BY <1>1, Zenon DEF EndsOnce
<1>4. CASE FgIdle(fg_payload_rdy(tx_ready), fg_usedw_in)
  <2>1. /\ fg_state = "IDLE" /\ eop' = FALSE /\ rdreq' = FALSE /\ wrreq' = FALSE
    BY <1>4 DEF FgIdle
  <2>2. ~eop
    BY <1>1, <2>1 DEF EndsOnce
  <2> QED BY <2>1, <2>2 DEF EndsOnce, Active, PayloadStates
<1>5. CASE FgHeader /\ hg_state # "DONE"
  <2>1. /\ fg_state = "PAYLOAD_HEADER" /\ fg_state' = "PAYLOAD_HEADER"
        /\ eop' = eop /\ rdreq' = rdreq
    <3>1. ~header_done
      BY <1>1, <1>5 DEF GenInv, Sync
    <3> QED BY <1>5, <3>1 DEF FgHeader
  <2>2. ~eop
    BY <1>1, <2>1 DEF EndsOnce
  <2> QED BY <1>3, <2>1, <2>2 DEF EndsOnce, Active
<1>6. CASE FgHeader /\ hg_state = "DONE"
  <2>1. header_done /\ header_valid /\ Before(hg_state) = HeadLen
    BY <1>1, <1>6 DEF GenInv, Sync, Before, Pauses
  <2>2. /\ fg_state = "PAYLOAD_HEADER" /\ rdreq' = rdreq /\ wrreq' = header_valid
        /\ payload_length = 0 => fg_state' = "DONE" /\ eop' = TRUE
        /\ payload_length # 0 => fg_state' = "PAYLOAD_WAIT" /\ eop' = eop
    BY <1>6, <2>1 DEF FgHeader
  <2>3. ~eop
    BY <1>1, <2>2 DEF EndsOnce
  <2>4. /\ info # <<>> /\ payload_length = info[1].len /\ packet_read = 0 /\ ~rdreq
    BY <1>1, <2>2, HeaderGot DEF InHand, Active
  <2>5. info' # <<>> /\ info'[1] = info[1]
    BY <1>1, <1>2, <2>3, <2>4, FrontStays
  <2>6. frame_word'.kind # "payload"
    <3>1. sent + 1 = HeadLen /\ header_data = frame[sent + 1]
      BY <1>1, <2>1, <2>2 DEF GenInv, HeaderPhase
    <3>2. HeadLen \in 1 .. HeadLen
      BY LenFacts
    <3>3. frame[HeadLen].kind # "payload"
      BY <1>1, <2>2, <3>2, PacketHeader DEF GenInv, Active
    <3>4. frame_word' = header_data
      BY <1>6 DEF FgHeader
    <3> QED BY <3>1, <3>3, <3>4
  <2>7. CASE payload_length = 0
    BY <1>3, <2>2, <2>4, <2>5, <2>6, <2>7 DEF EndsOnce, Active, PayloadStates
  <2>8. CASE payload_length # 0
    BY <1>3, <2>2, <2>3, <2>8 DEF EndsOnce, Active, PayloadStates
  <2> QED BY <2>7, <2>8
<1>7. CASE FgWait
  <2>1. /\ fg_state = "PAYLOAD_WAIT" /\ eop' = eop
        /\ fg_state' \in {"PAYLOAD_WAIT", "PAYLOAD_START"}
        /\ rdreq' = (delay_counter < payload_length)
    BY <1>7 DEF FgWait
  <2>2. ~eop
    BY <1>1, <2>1 DEF EndsOnce
  <2>3. rdreq' \in BOOLEAN
    BY <2>1
  <2> QED BY <1>3, <2>1, <2>2, <2>3 DEF EndsOnce, Active, PayloadStates
<1>8. CASE FgStart
  <2>1. /\ fg_state = "PAYLOAD_START" /\ fg_state' = "WRITE_PAYLOAD"
        /\ rdreq' = (payload_length > IN_DLY)
        /\ eop' = TRUE \/ eop' = eop
    BY <1>8 DEF FgStart
  <2>2. ~eop
    BY <1>1, <2>1 DEF EndsOnce
  <2>3. rdreq' \in BOOLEAN
    BY <2>1
  <2> QED BY <1>3, <2>1, <2>2, <2>3 DEF EndsOnce, Active, PayloadStates
<1>9. CASE WriteMore
  <2>1. /\ fg_state = "WRITE_PAYLOAD" /\ fg_state' = "WRITE_PAYLOAD"
        /\ rdreq' = (fg_words' < payload_length - IN_DLY)
        /\ eop' = TRUE \/ eop' = eop
        /\ fg_words' = fg_words + 1 /\ fg_words' < payload_length
    BY <1>9 DEF WriteMore
  <2>2. ~eop
    <3>1. fg_state \in PayloadStates
      BY <2>1 DEF PayloadStates
    <3>2. /\ eop = (fg_words = payload_length - 1) /\ payload_length \in Nat
      BY <1>1, <2>1, <3>1, ClkFacts DEF GenInv, PayloadPhase
    <3>3. fg_words \in 0 .. (payload_length - 1)
      BY <1>1, <2>1, <3>1 DEF GenInv, PayloadPhase
    <3>4. ~(fg_words = payload_length - 1)
      BY <2>1, <3>2, <3>3
    <3> QED BY <3>2, <3>4
  <2>3. rdreq' \in BOOLEAN
    BY <2>1
  <2> QED BY <1>3, <2>1, <2>2, <2>3 DEF EndsOnce, Active, PayloadStates
<1>10. CASE WriteEnd
  <2>1. /\ fg_state = "WRITE_PAYLOAD" /\ fg_state' = "DONE" /\ eop' = FALSE
        /\ wrreq' = FALSE
        /\ rdreq' = (fg_words' < payload_length - IN_DLY)
        /\ fg_words' = fg_words + 1 /\ fg_words' >= payload_length
    BY <1>10 DEF WriteEnd
  <2>2. rdreq' \in BOOLEAN
    BY <2>1
  <2>3. eop /\ ~rdreq
    <3>1. fg_state \in PayloadStates
      BY <2>1 DEF PayloadStates
    <3>2. /\ eop = (fg_words = payload_length - 1) /\ payload_length \in Nat
          /\ payload_length >= 1 /\ IN_DLY \in Nat /\ IN_DLY >= 2
          /\ rdreq <=> Clk >= 1 /\ Clk <= payload_length
      BY <1>1, <2>1, <3>1, ClkFacts, FrameAssumption DEF GenInv, PayloadPhase
    <3>3. fg_words \in 0 .. (payload_length - 1)
      BY <1>1, <2>1, <3>1 DEF GenInv, PayloadPhase
    <3>4. fg_words = payload_length - 1
      BY <2>1, <3>2, <3>3
    <3>5. Clk = IN_DLY + payload_length
      BY <2>1, <3>2, <3>4 DEF Clk
    <3>6. ~(Clk <= payload_length)
      BY <3>2, <3>5
    <3>7. eop
      BY <3>2, <3>4
    <3> QED BY <3>2, <3>6, <3>7
  <2> QED BY <2>1, <2>2, <2>3 DEF EndsOnce, Active, PayloadStates
<1>11. CASE FgDone
  <2>1. /\ fg_state = "DONE" /\ fg_state' \in {"IDLE", "DONE"} /\ eop' = FALSE
        /\ rdreq' = FALSE /\ wrreq' = FALSE
    BY <1>11 DEF FgDone
  <2> QED BY <2>1 DEF EndsOnce, Active, PayloadStates
<1> QED BY <1>2, <1>4, <1>5, <1>6, <1>7, <1>8, <1>9, <1>10, <1>11 DEF FgMachine

\* The frame in hand stays that of the front packet.
LEMMA InHandStep ==
  ASSUME BlockCtl, NEW valid, NEW port, NEW e, NEW tx_ready,
         BlockEdge(valid, port, e, tx_ready)
  PROVE  InHand'
<1>1. /\ GenInv /\ InHand /\ EndsOnce /\ BufTypeOK
  BY DEF BlockCtl, BufInv
<1>2. /\ InfoFifo(eop)
      /\ packet_read' = IF eop THEN 0
                        ELSE IF rdreq THEN packet_read + 1 ELSE packet_read
  BY DEF BlockEdge, BlockClock, BufClock, Reader, packet_finished, data_rdreq
<1>3. /\ eop => fg_state' \notin Active
      /\ (fg_state \in Active /\ fg_state' \notin Active) =>
              (eop \/ packet_read = 0) /\ ~rdreq
  BY EndStep
<1>4. fg_state \notin Active => ~rdreq
  BY BlockGen
<1>5. CASE fg_state \in Active /\ fg_state' \in Active
  <2>1. GoesOn
    BY <1>5, BlockGen
  <2>2. /\ info # <<>> /\ payload_length = info[1].len /\ packet_read = Got
        /\ Enabled("UDP0") => frame[Before("UDP0") + 1] = Word("UDP0", info[1].port)
    BY <1>1, <1>5 DEF InHand
  <2>3. info' # <<>> /\ info'[1] = info[1] /\ ~eop
    BY <1>1, <1>2, <1>3, <1>5, <2>2, FrontStays
  <2>4. packet_read' = Got'
    BY <1>2, <2>1, <2>2, <2>3 DEF GoesOn
  <2> QED BY <1>5, <2>1, <2>2, <2>3, <2>4 DEF InHand, GoesOn
<1>6. CASE fg_state \notin Active /\ fg_state' \in Active
  <2>1. fg_state = "IDLE" /\ info # <<>> /\ payload_length' = info[1].len
    BY <1>6, BlockStarts
  <2>2. Starts(dest_port, words_read + 1) /\ dest_port = info[1].port
    BY <1>6, <2>1, BlockGen, BlockArgs
  <2>3. ~eop /\ ~rdreq /\ packet_read = 0
    BY <1>1, <1>4, <1>6, <2>1 DEF EndsOnce, InHand
  <2>4. info' # <<>> /\ info'[1] = info[1]
    BY <1>1, <1>2, <2>1, <2>3, FrontStays
  <2>5. packet_read' = Got'
    BY <1>2, <2>2, <2>3 DEF Starts
  <2> QED BY <1>6, <2>1, <2>2, <2>4, <2>5 DEF InHand, Starts
<1>7. CASE fg_state' \notin Active
  <2>1. packet_read' = 0
    BY <1>1, <1>2, <1>3, <1>4, <1>7 DEF InHand
  <2> QED BY <1>7, <2>1 DEF InHand
<1> QED BY <1>5, <1>6, <1>7

\* The buffer delivers the words of the frame, and they are those of the front
\* packet.
LEMMA BlockData ==
  ASSUME BlockInv, NEW valid, NEW port, NEW e, NEW tx_ready,
         BlockEdge(valid, port, e, tx_ready), ~overflowed
  PROVE  GenData' /\ FromFifo' /\ Link!LinkNext
<1>1. /\ BlockCtl /\ BufInv /\ GenInv /\ InHand /\ EndsOnce /\ BufTypeOK
      /\ GenData /\ FromFifo /\ Chain
  BY DEF BlockInv, BlockCtl, BufInv
<1>2. /\ words_read \in Nat /\ Len(log) \in Nat /\ info \in Seq(Packet)
      /\ packet_read \in Nat
  BY <1>1 DEF BufTypeOK
<1>3. info # <<>> => /\ words_read = info[1].start + packet_read
                     /\ info[1].start \in Nat
  BY <1>1, <1>2, FrontFacts DEF Chain
<1>4. rdreq => words_read < Len(log)
  <2>1. rdreq => MayRead
    BY <1>1, BlockConsumer DEF Consumer
  <2> QED BY <1>1, <2>1, NextWordFits DEF WordGoesToItsPort
<1>5. Fed(words_read + 1)
  <2>1. Pipeline(data_rdreq /\ words_read < Len(log), Payload(words_read + 1))
    BY DEF BlockEdge, BlockClock, FgClock
  <2>2. Pipeline(rdreq, Payload(words_read + 1))
    BY <1>4, <2>1 DEF Pipeline, data_rdreq
  <2>3. ASSUME rdreq
        PROVE  Payload(words_read + 1) = frame[HeadLen + Got + 1]
    <3>1. fg_state \in PayloadStates
      BY <1>1, <2>3, HeaderGot DEF GenInv, Sync, Between, Active
    <3>2. Got \in Nat /\ Got < payload_length /\ payload_length \in Nat
      BY <1>1, <2>3, <3>1, ClkFacts
    <3>3. info # <<>> /\ packet_read = Got
      BY <1>1, <3>1 DEF InHand, Active
    <3>4. \A k \in 1 .. payload_length :
            frame[HeadLen + k] = Payload(info[1].start + k)
      BY <1>1, <3>1 DEF FromFifo, Active
    <3>5. frame[HeadLen + (Got + 1)] = Payload(info[1].start + (Got + 1))
      BY <3>2, <3>4
    <3>6. /\ info[1].start + (Got + 1) = words_read + 1
          /\ HeadLen + (Got + 1) = HeadLen + Got + 1
      BY <1>3, <3>2, <3>3, LenFacts
    <3> QED BY <3>5, <3>6
  <2> QED BY <2>2, <2>3 DEF Fed, Feeds
<1>6. GenData' /\ Link!LinkNext
  BY <1>1, <1>5, BlockGen
<1>7. InfoFifo(eop)
  BY DEF BlockEdge, BlockClock, BufClock, packet_finished
<1>8. CASE fg_state \in Active /\ fg_state' \in Active
  <2>1. frame' = frame /\ payload_length' = payload_length
    BY <1>1, <1>8, BlockGen DEF GoesOn
  <2>2. info # <<>> /\ ~eop
    BY <1>1, <1>8, EndStep DEF InHand
  <2>3. info'[1] = info[1]
    BY <1>1, <1>7, <2>2, FrontStays
  <2> QED BY <1>1, <1>6, <1>8, <2>1, <2>3 DEF FromFifo
<1>9. CASE fg_state \notin Active /\ fg_state' \in Active
  <2>1. fg_state = "IDLE" /\ info # <<>>
    BY <1>1, <1>9, BlockStarts
  <2>2. Starts(dest_port, words_read + 1)
    BY <1>1, <1>9, BlockGen
  <2>3. ~eop /\ packet_read = 0
    BY <1>1, <1>9, <2>1 DEF EndsOnce, InHand
  <2>4. info'[1] = info[1]
    BY <1>1, <1>7, <2>1, <2>3, FrontStays
  <2>5. ASSUME NEW k \in 1 .. payload_length'
        PROVE  frame'[HeadLen + k] = Payload(info'[1].start + k)
    <3>1. frame'[HeadLen + k] = Payload(words_read + 1 + k - 1)
      BY <2>2 DEF Starts
    <3>2. words_read + 1 + k - 1 = info[1].start + k
      BY <1>2, <1>3, <2>1, <2>3
    <3> QED BY <2>4, <3>1, <3>2
  <2> QED BY <1>6, <2>5 DEF FromFifo
<1>10. CASE fg_state' \notin Active
  BY <1>6, <1>10 DEF FromFifo
<1> QED BY <1>6, <1>8, <1>9, <1>10

-----------------------------------------------------------------------------
(* The inductive invariant *)

\* A clock keeps it.
LEMMA BlockTickStep ==
  ASSUME BlockInv, NEW tx_ready \in BOOLEAN, BlockTick(tx_ready)
  PROVE  BlockInv' /\ BufTick
<1>1. PICK valid \in BOOLEAN, port \in AnyPort, e \in BOOLEAN :
        BlockEdge(valid, port, e, tx_ready)
  BY BlockEdges
<1>2. BlockCtl
  BY DEF BlockInv
<1>3. Edge(valid, port, e, rdreq, eop) /\ BufTick
  BY <1>1, <1>2, BlockEdgeIsEdge
<1>4. BufInv'
  BY <1>2, <1>3, BufInvTick DEF BlockCtl
<1>5. LengthBound'
  BY <1>2, <1>3, LengthStep
<1>6. GenInv'
  BY <1>1, <1>2, BlockGen
<1>7. InHand'
  BY <1>1, <1>2, InHandStep
<1>8. EndsOnce'
  BY <1>1, <1>2, EndStep
<1>9. ~overflowed' => GenData' /\ FromFifo'
  <2>1. ~overflowed' => ~overflowed
    BY <1>3, Zenon DEF Edge, BufClock
  <2> QED BY <1>1, <2>1, BlockData
<1> QED BY <1>3, <1>4, <1>5, <1>6, <1>7, <1>8, <1>9 DEF BlockInv, BlockCtl

\* A reset keeps it.
LEMMA BlockResetStep ==
  ASSUME BlockInv, BlockReset
  PROVE  BlockInv'
<1>1. BufInv'
  BY BufInvReset DEF BlockInv, BlockCtl, BufInv, BlockReset
<1>2. GenInv' /\ GenData' /\ fg_state' = "IDLE"
  BY GenReset DEF BlockReset
<1>3. LengthBound'
  <2>1. /\ packet_length_in' = 0 /\ last_packet' = NoPacket /\ info_in' = NoPacket
        /\ info' = <<>>
    BY DEF BlockReset, BufReset
  <2>2. MAX_PACKET_LENGTH \in Nat
    BY BufferAssumption
  <2>3. NoPacket.len = 0
    BY DEF NoPacket
  <2> QED BY <2>1, <2>2, <2>3 DEF LengthBound, Short
<1>4. /\ packet_read' = 0 /\ eop' = FALSE /\ rdreq' = FALSE /\ wrreq' = FALSE
  BY DEF BlockReset, BufReset, FgReset
<1>5. InHand' /\ EndsOnce' /\ FromFifo'
  BY <1>2, <1>4 DEF InHand, EndsOnce, FromFifo, Active, PayloadStates
<1> QED BY <1>1, <1>2, <1>3, <1>5 DEF BlockInv, BlockCtl

\* It holds initially.
LEMMA BlockInitInv ==
  ASSUME BlockInit
  PROVE  BlockInv
<1>1. BufInv
  BY BufInvInit DEF BlockInit
<1>2. GenInv /\ GenData /\ fg_state = "IDLE"
  BY GenInit DEF BlockInit
<1>3. LengthBound
  <2>1. /\ packet_length_in = 0 /\ last_packet = NoPacket /\ info_in = NoPacket
        /\ info = <<>>
    BY DEF BlockInit, BufInit
  <2>2. MAX_PACKET_LENGTH \in Nat
    BY BufferAssumption
  <2>3. NoPacket.len = 0
    BY DEF NoPacket
  <2> QED BY <2>1, <2>2, <2>3 DEF LengthBound, Short
<1>4. /\ packet_read = 0 /\ eop = FALSE /\ rdreq = FALSE /\ wrreq = FALSE
  BY DEF BlockInit, BufInit, FgInit
<1>5. InHand /\ EndsOnce /\ FromFifo
  BY <1>2, <1>4 DEF InHand, EndsOnce, FromFifo, Active, PayloadStates
<1> QED BY <1>1, <1>2, <1>3, <1>5 DEF BlockInv, BlockCtl

\* A step that changes nothing keeps it.
LEMMA BlockStutter ==
  ASSUME BlockInv, UNCHANGED blockVars
  PROVE  BlockInv'
<1>1. UNCHANGED bufVars /\ UNCHANGED <<hgVars, fgVars>>
  BY DEF blockVars
<1>2. BufInv'
  BY <1>1, BufInvStutter DEF BlockInv, BlockCtl
<1>3. GenInv' = GenInv /\ GenData' = GenData /\ Got' = Got
  BY <1>1, GenStutter
<1>4. UNCHANGED <<packet_length_in, last_packet, info_in, info, packet_read,
                  overflowed>>
  BY <1>1 DEF bufVars
<1>5. UNCHANGED <<fg_state, payload_length, frame, eop, rdreq, wrreq, frame_word>>
  BY <1>1 DEF fgVars
<1>6. LengthBound'
  BY <1>4 DEF BlockInv, BlockCtl, LengthBound
<1>7. InHand' /\ EndsOnce'
  BY <1>3, <1>4, <1>5 DEF BlockInv, BlockCtl, InHand, EndsOnce
<1>8. ~overflowed' => GenData' /\ FromFifo'
  BY <1>3, <1>4, <1>5 DEF BlockInv, FromFifo
<1> QED BY <1>2, <1>3, <1>6, <1>7, <1>8 DEF BlockInv, BlockCtl

\* The frame in hand is that of the front packet, and the words asked for
\* are counted alike by buffer and generator, in every reachable state of
\* the UDP data block.
THEOREM BlockInvariance == BlockSpec => []BlockInv
<1>1. BlockInit => BlockInv
  BY BlockInitInv
<1>2. BlockInv /\ [BlockNext]_blockVars => BlockInv'
  BY BlockTickStep, BlockResetStep, BlockStutter DEF BlockNext
<1> QED BY <1>1, <1>2, PTL DEF BlockSpec

\* The frame generator behind the buffer is the consumer the buffer alone is
\* specified with (udp_data_block.vhd wires eop to packet_finished and rdreq
\* to data_rdreq), so that the theorems about the buffer hold in the block.
THEOREM BlockIsBuffer == BlockSpec => BlockImplementsBuffer
<1>1. BlockInit => BufInit
  BY DEF BlockInit
<1>2. BlockInv /\ [BlockNext]_blockVars => [BufNext]_bufVars
  BY BlockTickStep DEF BlockNext, BlockReset, BufNext, blockVars
<1> QED BY <1>1, <1>2, BlockInvariance, PTL
        DEF BlockSpec, BlockImplementsBuffer, BufSpec

\* FramesMarked for every packet size, FIFO depth and header: even after the
\* input FIFO, whose wrfull udp_data_buffer.vhd leaves open, has lost words, the
\* frames that eth_frame_generator sends are whole, have the header of a frame
\* of their length, and carry start and end of packet on the first and the last
\* word.
THEOREM BlockFramesMarked == BlockSpec => FramesMarked
<1>1. BlockInit => Marks!LinkInit
  BY GenInit DEF BlockInit
<1>2. BlockInv /\ [BlockNext]_blockVars =>
        [Marks!LinkNext]_<<[valid |-> wrreq, sop |-> sop, eop |-> eop,
                            word |-> IF InPayload THEN frame[sent]
                                                  ELSE frame_word], frame, sent>>
  <2> SUFFICES ASSUME BlockInv, [BlockNext]_blockVars
               PROVE  \/ Marks!LinkNext
                      \/ UNCHANGED <<wrreq, sop, eop, frame_word, frame, sent,
                                     payload_length>>
    BY DEF InPayload
  <2>1. ASSUME NEW tx_ready \in BOOLEAN, BlockTick(tx_ready)
        PROVE  Marks!LinkNext
    <3>1. PICK valid \in BOOLEAN, port \in AnyPort, e \in BOOLEAN :
            BlockEdge(valid, port, e, tx_ready)
      BY <2>1, BlockEdges
    <3>2. BlockCtl
      BY DEF BlockInv
    <3> QED BY <3>1, <3>2, BlockGen
  <2>2. CASE BlockReset
    BY <2>2, GenReset DEF BlockReset
  <2>3. CASE UNCHANGED blockVars
    BY <2>3 DEF blockVars, fgVars
  <2> QED BY <2>1, <2>2, <2>3 DEF BlockNext
<1> QED BY <1>1, <1>2, BlockInvariance, PTL
        DEF BlockSpec, FramesMarked, Marks!LinkSpec

-----------------------------------------------------------------------------
(* To its port *)

\* The configuration of the block's header generator, X"00000007", has no
\* data header: what follows the UDP header is the payload.
NoDataHeader == "HD" \notin HeaderConfig

\* A payload word on the line is a word of the front packet.
LEMMA PayloadOnLine ==
  ASSUME BlockInv, ~overflowed, wrreq, frame_word.kind = "payload"
  PROVE  /\ fg_state \in Active /\ info # <<>>
         /\ frame_word.n \in (info[1].start + 1) .. EndOf(info[1])
<1>1. /\ GenInv /\ InHand /\ EndsOnce /\ GenData /\ FromFifo
      /\ info \in Seq(Packet)
  BY DEF BlockInv, BlockCtl, BufInv, BufTypeOK
<1>2. fg_state \in Active
  BY <1>1 DEF EndsOnce
<1>3. /\ info # <<>> /\ payload_length = info[1].len /\ payload_length \in Nat
      /\ Len(frame) = HeadLen + payload_length
  BY <1>1, <1>2 DEF InHand, GenInv, FrameFixed
<1>4. sent \in 1 .. Len(frame) /\ frame_word = frame[sent]
  BY <1>1 DEF GenInv, Written, GenData
<1>5. sent > HeadLen
  <2>1. sent \notin 1 .. HeadLen
    BY <1>1, <1>2, <1>4, PacketHeader DEF GenInv
  <2> QED BY <1>3, <1>4, <2>1, LenFacts
<1> DEFINE k == sent - HeadLen
<1>6. k \in 1 .. payload_length /\ HeadLen + k = sent
  BY <1>3, <1>4, <1>5, LenFacts
<1>7. frame[HeadLen + k] = Payload(info[1].start + k)
  BY <1>1, <1>2, <1>6 DEF FromFifo
<1>8. frame_word.n = info[1].start + k
  BY <1>4, <1>6, <1>7 DEF Payload, Word
<1>9. info[1].start \in Nat
  BY <1>1, <1>3, FrontFacts
<1> HIDE DEF k
<1> QED BY <1>2, <1>3, <1>6, <1>8, <1>9 DEF EndOf

\* The UDP header in front of a payload word.
LEMMA HeaderInFront ==
  ASSUME BlockInv, NoDataHeader, fg_state \in Active, NEW i \in UdpHeaders,
         ~overflowed
  PROVE  /\ frame[i].n = info[1].port
         /\ frame[i + 1] = Word("UDP1", Len(frame) - (i + 1) + 2)
<1>1. /\ GenInv /\ InHand /\ FromFifo
  BY DEF BlockInv, BlockCtl
<1>2. /\ payload_length \in Nat /\ Len(frame) = HeadLen + payload_length
      /\ HeadLen \in Nat
  BY <1>1, LenFacts DEF GenInv, FrameFixed
<1>3. i \in 1 .. Len(frame) /\ frame[i].kind = "UDP0"
  BY DEF UdpHeaders
<1>4. i \in 1 .. HeadLen
  <2> SUFFICES ASSUME i > HeadLen PROVE FALSE
    BY <1>2, <1>3
  <2> DEFINE k == i - HeadLen
  <2>1. k \in 1 .. payload_length /\ HeadLen + k = i
    BY <1>2, <1>3
  <2>2. frame[HeadLen + k] = Payload(info[1].start + k)
    BY <1>1, <2>1 DEF FromFifo
  <2>3. frame[i].kind = "payload"
    BY <2>1, <2>2 DEF Payload, Word
  <2> QED BY <1>3, <2>3
<1>5. Enabled("UDP0") /\ i = Before("UDP0") + 1
  BY <1>1, <1>3, <1>4, PacketHeader DEF GenInv
<1>6. frame[i] = Word("UDP0", info[1].port)
  BY <1>1, <1>5 DEF InHand
<1>7. /\ Enabled("UDP1") /\ UdpLen = 2 /\ HdLen = 0
      /\ Before("UDP0") = EthLen + IpLen /\ Before("UDP1") = EthLen + IpLen + 1
  BY <1>5 DEF Enabled, UdpStates, EthStates, IpStates, Pauses, UdpLen, HdLen,
              NoDataHeader, Before
<1>8. i + 1 = Before("UDP1") + 1 /\ HeadLen = i + 1
  BY <1>5, <1>7, LenFacts DEF HeadLen
<1>9. frame[i + 1] = Expected("UDP1", payload_length, 0)
  <2>1. "UDP1" \in WordStates \ {"UDP0"}
    BY DEF WordStates, UdpStates
  <2> QED BY <1>1, <1>7, <1>8, <2>1 DEF GenInv, FrameFixed
<1>10. Len(frame) - (i + 1) + 2 = payload_length + 2
  BY <1>2, <1>8
<1> QED BY <1>6, <1>9, <1>10 DEF Expected, Word

\* Every payload word that leaves was written for the port in the UDP header
\* in front of it, and that header's length is the payload's, as long as no
\* FIFO overflowed: the front entry of the info FIFO stays until the frame
\* is out, although port and length are taken from it in different clocks.
THEOREM WordsLeaveForTheirPort ==
  ASSUME NoDataHeader
  PROVE  BlockSpec => []SentToItsPort
<1>1. BlockInv => SentToItsPort
  <2> SUFFICES ASSUME BlockInv, ~overflowed, wrreq
               PROVE  /\ sent \in 1 .. Len(frame) /\ frame_word = frame[sent]
                      /\ frame_word.kind = "payload" =>
                           /\ frame_word.n \in 1 .. Len(log)
                           /\ \A i \in UdpHeaders :
                                /\ frame[i].n = log[frame_word.n]
                                /\ frame[i + 1] = Word("UDP1", Len(frame) - (i + 1) + 2)
    BY DEF SentToItsPort
  <2>1. sent \in 1 .. Len(frame) /\ frame_word = frame[sent]
    BY DEF BlockInv, BlockCtl, GenInv, Written, GenData
  <2>2. ASSUME frame_word.kind = "payload"
        PROVE  /\ frame_word.n \in 1 .. Len(log)
               /\ \A i \in UdpHeaders :
                    /\ frame[i].n = log[frame_word.n]
                    /\ frame[i + 1] = Word("UDP1", Len(frame) - (i + 1) + 2)
    <3>1. /\ fg_state \in Active /\ info # <<>>
          /\ frame_word.n \in (info[1].start + 1) .. EndOf(info[1])
      BY <2>2, PayloadOnLine
    <3>2. info \in Seq(Packet) /\ Len(log) \in Nat
      BY DEF BlockInv, BlockCtl, BufInv, BufTypeOK
    <3>3. info[1].start \in Nat /\ info[1].len \in Nat /\ 1 \in 1 .. Len(info)
      BY <3>1, <3>2, FrontFacts, TailFacts
    <3>4. PureIn(log, info[1])
      BY <3>3 DEF BlockInv, BlockCtl, BufInv, PortsMatch
    <3>5. log[frame_word.n] = info[1].port /\ EndOf(info[1]) <= Len(log)
      BY <3>1, <3>4 DEF PureIn
    <3>6. frame_word.n \in 1 .. Len(log)
      BY <3>1, <3>2, <3>3, <3>5 DEF EndOf
    <3> QED BY <3>1, <3>5, <3>6, HeaderInFront
  <2> QED BY <2>1, <2>2
<1> QED BY <1>1, BlockInvariance, PTL
=============================================================================
