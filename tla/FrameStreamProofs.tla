-------------------------- MODULE FrameStreamProofs -------------------------
(***************************************************************************)
(* Frame and header generator for every header configuration, payload      *)
(* length and delay: the words that leave are whole frames, the header's   *)
(* checksum is its own, and right unless a carry is lost.                  *)
(*                                                                         *)
(* The step lemmas are stated for one clock of the two generators behind   *)
(* any FIFO (FgClock with any arguments), so that they serve every block   *)
(* that has a frame generator.                                             *)
(***************************************************************************)
EXTENDS FrameStream, IpChecksum, TLAPS

-----------------------------------------------------------------------------
(* Sequences *)

\* What concatenation returns.
LEMMA ConcatFacts ==
  ASSUME NEW S, NEW s \in Seq(S), NEW t \in Seq(S)
  PROVE  /\ s \o t \in Seq(S)
         /\ Len(s) \in Nat /\ Len(t) \in Nat
         /\ Len(s \o t) = Len(s) + Len(t)
         /\ \A i \in 1 .. Len(s) : (s \o t)[i] = s[i]
         /\ \A i \in 1 .. Len(t) : (s \o t)[Len(s) + i] = t[i]
  OBVIOUS

\* The same with the lengths by name.
LEMMA ConcatLens ==
  ASSUME NEW S, NEW s \in Seq(S), NEW t \in Seq(S), NEW m, NEW n,
         Len(s) = m, Len(t) = n
  PROVE  /\ s \o t \in Seq(S)
         /\ Len(s \o t) = m + n
         /\ \A i \in 1 .. m : (s \o t)[i] = s[i]
         /\ \A i \in 1 .. n : (s \o t)[m + i] = t[i]
  OBVIOUS

\* A function on 1 .. n is a sequence.
LEMMA FunctionSeq ==
  ASSUME NEW S, NEW n \in Nat, NEW g \in [1 .. n -> S]
  PROVE  g \in Seq(S) /\ Len(g) = n
  OBVIOUS

-----------------------------------------------------------------------------
(***************************************************************************)
(* The header, word by word.                                               *)
(***************************************************************************)
EthStates == {"ETH0", "ETH1", "ETH2", "ETH3"}
IpStates == {"IP0", "IP1", "IP2", "IP3", "IP4"}
UdpStates == {"UDP0", "UDP1"}
WordStates == EthStates \cup IpStates \cup UdpStates \cup {"HD0"}

\* The words of a frame to port p.
Words(p) == [kind : WordStates \cup {"payload"}, n : Nat \cup {p}]

\* States the configuration lets the header generator enter.
Enabled(s) ==
  /\ s \in EthStates => "ETH" \in HeaderConfig
  /\ s \in IpStates \cup Pauses => "IP" \in HeaderConfig
  /\ s \in UdpStates => "UDP" \in HeaderConfig
  /\ s = "HD0" => "HD" \in HeaderConfig

EthLen == IF "ETH" \in HeaderConfig THEN 4 ELSE 0
IpLen == IF "IP" \in HeaderConfig THEN 5 ELSE 0
UdpLen == IF "UDP" \in HeaderConfig THEN 2 ELSE 0
HdLen == IF "HD" \in HeaderConfig THEN 1 ELSE 0
HeadLen == EthLen + IpLen + UdpLen + HdLen

\* Header words made before state s.
Before(s) ==
  CASE s \in {"IDLE", "ETH0"} -> 0
    [] s = "ETH1" -> 1
    [] s = "ETH2" -> 2
    [] s = "ETH3" -> 3
    [] s = "IP0" -> EthLen
    [] s = "IP1" -> EthLen + 1
    [] s \in Pauses \cup {"IP2"} -> EthLen + 2
    [] s = "IP3" -> EthLen + 3
    [] s = "IP4" -> EthLen + 4
    [] s = "UDP0" -> EthLen + IpLen
    [] s = "UDP1" -> EthLen + IpLen + 1
    [] s = "HD0" -> EthLen + IpLen + UdpLen
    [] s = "DONE" -> HeadLen

\* The word expected from state s in the header of a frame of the given
\* length and port.
Expected(s, payload_len, port) ==
  Word(s, CASE s = "IP0"  -> packet_len(payload_len)
            [] s = "UDP0" -> port
            [] s = "UDP1" -> payload_len + 2
            [] OTHER      -> 0)

\* The lengths are numbers.
LEMMA LenFacts ==
  /\ EthLen \in Nat /\ IpLen \in Nat /\ UdpLen \in Nat /\ HdLen \in Nat
  /\ HeadLen \in Nat /\ HeadLen >= 1
<1>1. /\ EthLen \in Nat /\ IpLen \in Nat /\ UdpLen \in Nat /\ HdLen \in Nat
  BY DEF EthLen, IpLen, UdpLen, HdLen
<1>2. PICK h : h \in HeaderConfig /\ h \in {"ETH", "IP", "UDP", "HD"}
  BY HeaderConfigAssumption
<1>3. EthLen >= 1 \/ IpLen >= 1 \/ UdpLen >= 1 \/ HdLen >= 1
  BY <1>2 DEF EthLen, IpLen, UdpLen, HdLen
<1> QED BY <1>1, <1>3 DEF HeadLen

\* The header starts with an enabled segment.
LEMMA FirstFacts ==
  /\ f_next_state("IDLE") \in WordStates
  /\ Enabled(f_next_state("IDLE")) /\ Before(f_next_state("IDLE")) = 0
<1>1. \/ f_next_state("IDLE") = "ETH0" /\ "ETH" \in HeaderConfig
      \/ /\ f_next_state("IDLE") = "IP0"
         /\ "ETH" \notin HeaderConfig /\ "IP" \in HeaderConfig
      \/ /\ f_next_state("IDLE") = "UDP0"
         /\ "ETH" \notin HeaderConfig /\ "IP" \notin HeaderConfig
         /\ "UDP" \in HeaderConfig
      \/ /\ f_next_state("IDLE") = "HD0"
         /\ "ETH" \notin HeaderConfig /\ "IP" \notin HeaderConfig
         /\ "UDP" \notin HeaderConfig /\ "HD" \in HeaderConfig
  BY HeaderConfigAssumption DEF f_next_state
<1> QED
  BY <1>1 DEF WordStates, EthStates, IpStates, UdpStates, Pauses, Enabled,
              Before, EthLen, IpLen, UdpLen

\* Each state leads on to the state of the next word.
LEMMA AfterFacts ==
  ASSUME NEW s \in WordStates \cup Pauses, Enabled(s)
  PROVE  /\ After(s) \in WordStates \cup Pauses \cup {"DONE"}
         /\ Enabled(After(s))
         /\ s \in Pauses => After(s) # "DONE" /\ Before(After(s)) = Before(s)
         /\ s \notin Pauses => Before(After(s)) = Before(s) + 1
         /\ Before(s) \in Nat /\ Before(s) < HeadLen
<1> USE DEF WordStates, EthStates, IpStates, UdpStates, Pauses
<1>1. CASE s \in EthStates \ {"ETH3"}
  BY <1>1 DEF Enabled, Before, After, WithinSegment, SegmentEnds, EthLen,
              IpLen, UdpLen, HdLen, HeadLen
<1>2. CASE s \in (IpStates \cup Pauses) \ {"IP4"}
  BY <1>2 DEF Enabled, Before, After, WithinSegment, SegmentEnds, EthLen,
              IpLen, UdpLen, HdLen, HeadLen
<1>3. CASE s = "UDP0"
  BY <1>3 DEF Enabled, Before, After, WithinSegment, SegmentEnds, EthLen,
              IpLen, UdpLen, HdLen, HeadLen
<1>4. CASE s = "ETH3"
  BY <1>4 DEF Enabled, Before, After, f_next_state, SegmentEnds, EthLen,
              IpLen, UdpLen, HdLen, HeadLen
<1>5. CASE s = "IP4"
  BY <1>5 DEF Enabled, Before, After, f_next_state, SegmentEnds, EthLen,
              IpLen, UdpLen, HdLen, HeadLen
<1>6. CASE s = "UDP1"
  BY <1>6 DEF Enabled, Before, After, f_next_state, SegmentEnds, EthLen,
              IpLen, UdpLen, HdLen, HeadLen
<1>7. CASE s = "HD0"
  BY <1>7 DEF Enabled, Before, After, f_next_state, SegmentEnds, EthLen,
              IpLen, UdpLen, HdLen, HeadLen
<1> QED BY <1>1, <1>2, <1>3, <1>4, <1>5, <1>6, <1>7

\* Where the words of a header are.
LEMMA HeaderFacts ==
  ASSUME NEW L \in Nat, NEW p
  PROVE  /\ Header(L, p) \in Seq(Words(p))
         /\ Len(Header(L, p)) = HeadLen
         /\ \A s \in WordStates :
              Enabled(s) => Header(L, p)[Before(s) + 1] = Expected(s, L, p)
<1> DEFINE S == Words(p)
           E == Segment("ETH", <<Word("ETH0", 0), Word("ETH1", 0),
                                 Word("ETH2", 0), Word("ETH3", 0)>>)
           I == Segment("IP", <<Word("IP0", packet_len(L)), Word("IP1", 0),
                                Word("IP2", 0), Word("IP3", 0), Word("IP4", 0)>>)
           U == Segment("UDP", <<Word("UDP0", p), Word("UDP1", L + 2)>>)
           H == Segment("HD", <<Word("HD0", 0)>>)
<1>1. packet_len(L) \in Nat
  BY DEF packet_len, HeaderLen
<1>2. E \in Seq(S) /\ Len(E) = EthLen
  <2>1. /\ Word("ETH0", 0) \in S /\ Word("ETH1", 0) \in S
        /\ Word("ETH2", 0) \in S /\ Word("ETH3", 0) \in S
    BY DEF Words, Word, WordStates, EthStates, IpStates, UdpStates
  <2>2. CASE "ETH" \in HeaderConfig
    BY <2>1, <2>2 DEF Segment, EthLen
  <2>3. CASE "ETH" \notin HeaderConfig
    BY <2>3 DEF Segment, EthLen
  <2> QED BY <2>2, <2>3
<1>3. I \in Seq(S) /\ Len(I) = IpLen
  <2>1. /\ Word("IP0", packet_len(L)) \in S /\ Word("IP1", 0) \in S
        /\ Word("IP2", 0) \in S /\ Word("IP3", 0) \in S /\ Word("IP4", 0) \in S
    BY <1>1 DEF Words, Word, WordStates, EthStates, IpStates, UdpStates
  <2>2. CASE "IP" \in HeaderConfig
    BY <2>1, <2>2 DEF Segment, IpLen
  <2>3. CASE "IP" \notin HeaderConfig
    BY <2>3 DEF Segment, IpLen
  <2> QED BY <2>2, <2>3
<1>4. U \in Seq(S) /\ Len(U) = UdpLen
  <2>1. Word("UDP0", p) \in S /\ Word("UDP1", L + 2) \in S
    BY DEF Words, Word, WordStates, EthStates, IpStates, UdpStates
  <2>2. CASE "UDP" \in HeaderConfig
    BY <2>1, <2>2 DEF Segment, UdpLen
  <2>3. CASE "UDP" \notin HeaderConfig
    BY <2>3 DEF Segment, UdpLen
  <2> QED BY <2>2, <2>3
<1>5. H \in Seq(S) /\ Len(H) = HdLen
  <2>1. Word("HD0", 0) \in S
    BY DEF Words, Word, WordStates, EthStates, IpStates, UdpStates
  <2>2. CASE "HD" \in HeaderConfig
    BY <2>1, <2>2 DEF Segment, HdLen
  <2>3. CASE "HD" \notin HeaderConfig
    BY <2>3 DEF Segment, HdLen
  <2> QED BY <2>2, <2>3
<1>e. \A s \in EthStates : Enabled(s) =>
        Before(s) + 1 \in 1 .. EthLen /\ E[Before(s) + 1] = Expected(s, L, p)
  <2> SUFFICES ASSUME NEW s \in EthStates, Enabled(s)
               PROVE  /\ Before(s) + 1 \in 1 .. EthLen
                      /\ E[Before(s) + 1] = Expected(s, L, p)
    OBVIOUS
  <2>1. E = <<Word("ETH0", 0), Word("ETH1", 0), Word("ETH2", 0), Word("ETH3", 0)>>
        /\ EthLen = 4
    BY DEF Enabled, Segment, EthLen
  <2>2. /\ E[1] = Word("ETH0", 0) /\ E[2] = Word("ETH1", 0)
        /\ E[3] = Word("ETH2", 0) /\ E[4] = Word("ETH3", 0)
    BY <2>1
  <2>3. Expected(s, L, p) = Word(s, 0)
    BY DEF Expected, EthStates
  <2> HIDE DEF E
  <2>4. CASE s = "ETH0"
    <3>1. Before(s) = 0
      BY <2>4 DEF Before, Pauses
    <3> QED BY <2>1, <2>2, <2>3, <2>4, <3>1
  <2>5. CASE s = "ETH1"
    <3>1. Before(s) = 1
      BY <2>5 DEF Before, Pauses
    <3> QED BY <2>1, <2>2, <2>3, <2>5, <3>1
  <2>6. CASE s = "ETH2"
    <3>1. Before(s) = 2
      BY <2>6 DEF Before, Pauses
    <3> QED BY <2>1, <2>2, <2>3, <2>6, <3>1
  <2>7. CASE s = "ETH3"
    <3>1. Before(s) = 3
      BY <2>7 DEF Before, Pauses
    <3> QED BY <2>1, <2>2, <2>3, <2>7, <3>1
  <2> QED BY <2>4, <2>5, <2>6, <2>7 DEF EthStates
<1>i. \A s \in IpStates : Enabled(s) => \E k \in 1 .. IpLen :
        Before(s) + 1 = EthLen + k /\ I[k] = Expected(s, L, p)
  <2> SUFFICES ASSUME NEW s \in IpStates, Enabled(s)
               PROVE  \E k \in 1 .. IpLen : /\ Before(s) + 1 = EthLen + k
                                           /\ I[k] = Expected(s, L, p)
    OBVIOUS
  <2>1. /\ I = <<Word("IP0", packet_len(L)), Word("IP1", 0), Word("IP2", 0),
                 Word("IP3", 0), Word("IP4", 0)>>
        /\ IpLen = 5
    BY DEF Enabled, Segment, IpLen
  <2>2. /\ I[1] = Word("IP0", packet_len(L)) /\ I[2] = Word("IP1", 0)
        /\ I[3] = Word("IP2", 0) /\ I[4] = Word("IP3", 0) /\ I[5] = Word("IP4", 0)
    BY <2>1
  <2> HIDE DEF I
  <2>3. CASE s = "IP0"
    <3>1. Before(s) + 1 = EthLen + 1 /\ I[1] = Expected(s, L, p)
      BY <2>2, <2>3, LenFacts DEF Before, Expected, Pauses
    <3> QED BY <2>1, <3>1
  <2>4. CASE s = "IP1"
    <3>1. Before(s) + 1 = EthLen + 2 /\ I[2] = Expected(s, L, p)
      BY <2>2, <2>4, LenFacts DEF Before, Expected, Pauses
    <3> QED BY <2>1, <3>1
  <2>5. CASE s = "IP2"
    <3>1. Before(s) + 1 = EthLen + 3 /\ I[3] = Expected(s, L, p)
      BY <2>2, <2>5, LenFacts DEF Before, Expected, Pauses
    <3> QED BY <2>1, <3>1
  <2>6. CASE s = "IP3"
    <3>1. Before(s) + 1 = EthLen + 4 /\ I[4] = Expected(s, L, p)
      BY <2>2, <2>6, LenFacts DEF Before, Expected, Pauses
    <3> QED BY <2>1, <3>1
  <2>7. CASE s = "IP4"
    <3>1. Before(s) + 1 = EthLen + 5 /\ I[5] = Expected(s, L, p)
      BY <2>2, <2>7, LenFacts DEF Before, Expected, Pauses
    <3> QED BY <2>1, <3>1
  <2> QED BY <2>3, <2>4, <2>5, <2>6, <2>7 DEF IpStates
<1>u. \A s \in UdpStates : Enabled(s) => \E k \in 1 .. UdpLen :
        Before(s) + 1 = EthLen + IpLen + k /\ U[k] = Expected(s, L, p)
  <2> SUFFICES ASSUME NEW s \in UdpStates, Enabled(s)
               PROVE  \E k \in 1 .. UdpLen : /\ Before(s) + 1 = EthLen + IpLen + k
                                            /\ U[k] = Expected(s, L, p)
    OBVIOUS
  <2>1. U = <<Word("UDP0", p), Word("UDP1", L + 2)>> /\ UdpLen = 2
    BY DEF Enabled, Segment, UdpLen
  <2>2. U[1] = Word("UDP0", p) /\ U[2] = Word("UDP1", L + 2)
    BY <2>1
  <2> HIDE DEF U
  <2>3. CASE s = "UDP0"
    <3>1. Before(s) + 1 = EthLen + IpLen + 1 /\ U[1] = Expected(s, L, p)
      BY <2>2, <2>3, LenFacts DEF Before, Expected, Pauses
    <3> QED BY <2>1, <3>1
  <2>4. CASE s = "UDP1"
    <3>1. Before(s) + 1 = EthLen + IpLen + 2 /\ U[2] = Expected(s, L, p)
      BY <2>2, <2>4, LenFacts DEF Before, Expected, Pauses
    <3> QED BY <2>1, <3>1
  <2> QED BY <2>3, <2>4 DEF UdpStates
<1>h. Enabled("HD0") => /\ 1 \in 1 .. HdLen /\ H[1] = Expected("HD0", L, p)
                        /\ Before("HD0") + 1 = EthLen + IpLen + UdpLen + 1
  BY LenFacts DEF Enabled, Before, HdLen, Segment, Expected, Pauses
<1> DEFINE A == E \o I
           B == A \o U
           m == EthLen + IpLen
           n == m + UdpLen
<1>6. Header(L, p) = B \o H /\ HeadLen = n + HdLen
  BY DEF Header, HeadLen
<1>m. m \in Nat /\ n \in Nat
  BY LenFacts
<1> HIDE DEF E, I, U, H, S
<1>7. /\ A \in Seq(S) /\ Len(A) = m
      /\ \A k \in 1 .. EthLen : A[k] = E[k]
      /\ \A k \in 1 .. IpLen : A[EthLen + k] = I[k]
  BY <1>2, <1>3, ConcatLens
<1> HIDE DEF A, m
<1>8. /\ B \in Seq(S) /\ Len(B) = n
      /\ \A k \in 1 .. m : B[k] = A[k]
      /\ \A k \in 1 .. UdpLen : B[m + k] = U[k]
  BY <1>4, <1>7, ConcatLens
<1> HIDE DEF B, n
<1>9. /\ Header(L, p) \in Seq(S) /\ Len(Header(L, p)) = HeadLen
      /\ \A k \in 1 .. n : Header(L, p)[k] = B[k]
      /\ \A k \in 1 .. HdLen : Header(L, p)[n + k] = H[k]
  <2>1. /\ B \o H \in Seq(S) /\ Len(B \o H) = n + HdLen
        /\ \A k \in 1 .. n : (B \o H)[k] = B[k]
        /\ \A k \in 1 .. HdLen : (B \o H)[n + k] = H[k]
    BY <1>5, <1>8, ConcatLens
  <2> QED BY <1>6, <2>1
<1>10. ASSUME NEW s \in WordStates, Enabled(s)
       PROVE  Header(L, p)[Before(s) + 1] = Expected(s, L, p)
  <2>1. CASE s \in EthStates
    <3>1. /\ Before(s) + 1 \in 1 .. EthLen
          /\ E[Before(s) + 1] = Expected(s, L, p)
      BY <1>10, <1>e, <2>1
    <3>2. Before(s) + 1 \in 1 .. m /\ Before(s) + 1 \in 1 .. n
      BY <3>1, LenFacts DEF m, n
    <3> QED BY <1>7, <1>8, <1>9, <3>1, <3>2
  <2>2. CASE s \in IpStates
    <3>1. PICK k \in 1 .. IpLen :
            Before(s) + 1 = EthLen + k /\ I[k] = Expected(s, L, p)
      BY <1>10, <1>i, <2>2
    <3>2. EthLen + k \in 1 .. m /\ EthLen + k \in 1 .. n
      BY LenFacts DEF m, n
    <3> QED BY <1>7, <1>8, <1>9, <3>1, <3>2
  <2>3. CASE s \in UdpStates
    <3>1. PICK k \in 1 .. UdpLen :
            Before(s) + 1 = m + k /\ U[k] = Expected(s, L, p)
      BY <1>10, <1>u, <2>3 DEF m
    <3>2. m + k \in 1 .. n
      BY <1>m, LenFacts DEF n
    <3> QED BY <1>8, <1>9, <3>1, <3>2
  <2>4. CASE s = "HD0"
    <3>1. /\ 1 \in 1 .. HdLen /\ H[1] = Expected("HD0", L, p)
          /\ Before("HD0") + 1 = n + 1
      BY <1>10, <1>h, <2>4 DEF m, n
    <3> QED BY <1>9, <2>4, <3>1
  <2> QED BY <2>1, <2>2, <2>3, <2>4 DEF WordStates
<1> QED BY <1>9, <1>10 DEF S

-----------------------------------------------------------------------------
(***************************************************************************)
(* The inductive invariant of the two generators.                          *)
(***************************************************************************)
HgStates == WordStates \cup Pauses \cup {"IDLE", "DONE"}
PayloadStates == {"PAYLOAD_WAIT", "PAYLOAD_START", "WRITE_PAYLOAD"}
Active == PayloadStates \cup {"PAYLOAD_HEADER"}

\* The header generator works while the frame generator is in its header
\* state, from the clock after header_start to header_done.
Sync ==
  /\ hg_state \in HgStates /\ Enabled(hg_state)
  /\ fg_state \in Active \cup {"IDLE", "DONE"}
  /\ header_start => fg_state = "PAYLOAD_HEADER" /\ hg_state = "IDLE"
  /\ (fg_state = "PAYLOAD_HEADER" /\ ~header_start) => hg_state # "IDLE"
  /\ fg_state # "PAYLOAD_HEADER" => hg_state = "IDLE"
  /\ header_done <=> hg_state = "DONE"
  /\ header_valid => hg_state # "IDLE"
  /\ hg_state = "DONE" => header_valid

\* The frame in the history is a header for payload_length, and as many
\* words behind it.
FrameFixed ==
  fg_state \in Active =>
    /\ payload_length \in Nat
    /\ Len(frame) = HeadLen + payload_length
    /\ \A s \in WordStates \ {"UDP0"} :
         Enabled(s) => frame[Before(s) + 1] = Expected(s, payload_length, 0)

\* The words of the header: what the header generator has put out, and what
\* of that the frame generator has written.
HeaderPhase ==
  fg_state = "PAYLOAD_HEADER" =>
    /\ delay_counter = 0 /\ rdreq = FALSE /\ eop = FALSE
    /\ sent \in Nat /\ frame_size = sent
    /\ header_valid =>
         sent + 1 = Before(hg_state) /\ header_data = frame[sent + 1]
    /\ ~header_valid => sent = Before(hg_state)
    /\ hg_state # "IDLE" => ip_header = packet_len(payload_length)

\* Clocks since the header was complete, and words of the frame read so far.
Clk ==
  CASE fg_state = "PAYLOAD_WAIT"  -> delay_counter
    [] fg_state = "PAYLOAD_START" -> IN_DLY
    [] fg_state = "WRITE_PAYLOAD" -> IN_DLY + 1 + fg_words
    [] OTHER -> 0
AtMost(n, k) == IF k <= n THEN k ELSE n
Got == IF Clk <= 1 THEN 0 ELSE AtMost(payload_length, Clk - 1)

\* rdreq runs ahead of the words written by the length of the pipeline.
PayloadPhase ==
  fg_state \in PayloadStates =>
    /\ payload_length >= 1
    /\ rdreq <=> Clk >= 1 /\ Clk <= payload_length
    /\ fg_state = "PAYLOAD_WAIT" =>
         delay_counter \in 0 .. (IN_DLY - 1) /\ sent = HeadLen /\ eop = FALSE
    /\ fg_state = "PAYLOAD_START" =>
         /\ fg_words = 0 /\ sent = HeadLen
         /\ eop = FALSE /\ sop = FALSE
    /\ fg_state = "WRITE_PAYLOAD" =>
         /\ fg_words \in 0 .. (payload_length - 1)
         /\ sent = HeadLen + fg_words + 1
         /\ eop = (fg_words = payload_length - 1) /\ sop = FALSE

\* Between two frames, all of the last one is out.
Between ==
  fg_state \in {"IDLE", "DONE"} =>
    sent \in Nat /\ sent = Len(frame) /\ rdreq = FALSE

\* What is on the line is the last word counted, as far as that is a word of
\* the header.
Written ==
  wrreq => /\ sent \in 1 .. Len(frame)
           /\ sent <= HeadLen => frame_word = frame[sent]

\* The control of the two generators, whatever the FIFO delivers.
GenInv == Sync /\ FrameFixed /\ HeaderPhase /\ PayloadPhase /\ Between /\ Written

\* The data, if the FIFO delivers the words of the frame when they are asked
\* for: every stage of the pipeline holds the word read as many clocks ago,
\* and the word on the line is the last one counted.
PipeHolds ==
  \A i \in Stages :
    Clk > i => pipe[i] = frame[HeadLen + AtMost(payload_length, Clk - i)]
GenData ==
  /\ fg_state \in PayloadStates => PipeHolds
  /\ wrreq => frame_word = frame[sent]

\* The words of the frame are the next of the FIFO, not counting those
\* already read.
Source ==
  fg_state \in Active =>
    /\ taken \in Nat /\ Got <= taken
    /\ \A k \in 1 .. payload_length :
         frame[HeadLen + k] = Payload(taken - Got + k)
    /\ Enabled("UDP0") => frame[Before("UDP0") + 1] = Word("UDP0", 0)

StreamInv == GenInv /\ GenData /\ taken \in Nat /\ Source

(***************************************************************************)
(* The checksum of a header with an Ethernet and an IPv4 segment: the      *)
(* clock of the checksum computer in each state, and what it has added up. *)
(***************************************************************************)
StepAt(s) ==
  CASE s = "ETH0" -> 0 [] s = "ETH1" -> 1 [] s = "ETH2" -> 2 [] s = "ETH3" -> 3
    [] s = "IP0" -> 4 [] s = "IP1" -> 5 [] s = "IP_PAUSE0" -> 6
    [] s = "IP_PAUSE1" -> 7 [] OTHER -> -1
ChecksumInv ==
  "IP" \in HeaderConfig =>
    /\ step = StepAt(hg_state)
    /\ step = 0 => sum = {}
    /\ step \in 1 .. 7 => sum = {ip_header}
    /\ ChecksumOfThisHeader

-----------------------------------------------------------------------------
(* The words of the header of the frame being sent *)

\* Every position in front of the payload is that of a header word.
LEMMA HeaderOnto ==
  ASSUME NEW i \in 1 .. HeadLen
  PROVE  \E s \in WordStates : Enabled(s) /\ i = Before(s) + 1
<1> USE DEF WordStates, EthStates, IpStates, UdpStates
<1>1. /\ i \in Nat /\ i >= 1 /\ i <= EthLen + IpLen + UdpLen + HdLen
      /\ EthLen \in Nat /\ IpLen \in Nat /\ UdpLen \in Nat /\ HdLen \in Nat
  BY LenFacts DEF HeadLen
<1>2. CASE i <= EthLen
  <2>1. "ETH" \in HeaderConfig /\ i \in {1, 2, 3, 4}
    BY <1>1, <1>2 DEF EthLen
  <2>2. /\ \A s \in EthStates : Enabled(s)
        /\ Before("ETH0") = 0 /\ Before("ETH1") = 1
        /\ Before("ETH2") = 2 /\ Before("ETH3") = 3
    BY <2>1 DEF Enabled, Before, Pauses
  <2> QED BY <2>1, <2>2
<1>3. CASE i > EthLen /\ i <= EthLen + IpLen
  <2>1. "IP" \in HeaderConfig /\ i - EthLen \in {1, 2, 3, 4, 5}
    BY <1>1, <1>3 DEF IpLen
  <2>2. /\ \A s \in IpStates : Enabled(s)
        /\ Before("IP0") = EthLen /\ Before("IP1") = EthLen + 1
        /\ Before("IP2") = EthLen + 2 /\ Before("IP3") = EthLen + 3
        /\ Before("IP4") = EthLen + 4
    BY <2>1 DEF Enabled, Before, Pauses
  <2> QED BY <1>1, <2>1, <2>2
<1>4. CASE i > EthLen + IpLen /\ i <= EthLen + IpLen + UdpLen
  <2>1. "UDP" \in HeaderConfig /\ i - (EthLen + IpLen) \in {1, 2}
    BY <1>1, <1>4 DEF UdpLen
  <2>2. /\ \A s \in UdpStates : Enabled(s)
        /\ Before("UDP0") = EthLen + IpLen /\ Before("UDP1") = EthLen + IpLen + 1
    BY <2>1 DEF Enabled, Before, Pauses
  <2> QED BY <1>1, <2>1, <2>2
<1>5. CASE i > EthLen + IpLen + UdpLen
  <2>1. "HD" \in HeaderConfig /\ i = EthLen + IpLen + UdpLen + 1
    BY <1>1, <1>5 DEF HdLen
  <2>2. Enabled("HD0") /\ Before("HD0") = EthLen + IpLen + UdpLen
    BY <2>1 DEF Enabled, Before, Pauses
  <2> QED BY <2>1, <2>2
<1> QED BY <1>1, <1>2, <1>3, <1>4, <1>5

\* None of them is a payload word, and the port is in one place only.
LEMMA HeaderKinds ==
  ASSUME FrameFixed, fg_state \in Active, NEW i \in 1 .. HeadLen,
         Enabled("UDP0") => frame[Before("UDP0") + 1].kind = "UDP0"
  PROVE  /\ frame[i].kind # "payload"
         /\ frame[i].kind = "UDP0" => Enabled("UDP0") /\ i = Before("UDP0") + 1
<1>1. PICK s \in WordStates : Enabled(s) /\ i = Before(s) + 1
  BY HeaderOnto
<1>2. frame[i].kind = s
  <2>1. CASE s = "UDP0"
    BY <1>1, <2>1
  <2>2. CASE s # "UDP0"
    <3>1. frame[i] = Expected(s, payload_length, 0)
      BY <1>1, <2>2 DEF FrameFixed
    <3> QED BY <3>1 DEF Expected, Word
  <2> QED BY <2>1, <2>2
<1>3. s # "payload"
  BY DEF WordStates, EthStates, IpStates, UdpStates
<1> QED BY <1>1, <1>2, <1>3

-----------------------------------------------------------------------------
(* Steps of the line to the MAC *)

\* A step of FrameLink but for the word that is presented.
Framed ==
  \/ /\ ~wrreq' /\ ~eop'
     /\ \/ frame' = frame /\ sent' = sent
        \/ sent = Len(frame) /\ sent' = 0 /\ frame' # <<>>
        \/ sent' = 0 /\ frame' = <<>>
  \/ /\ wrreq' /\ sent < Len(frame) /\ sent' = sent + 1 /\ frame' = frame
     /\ sop' = (sent = 0) /\ eop' = (sent' = Len(frame))

\* With the word it is one of FrameLink.
LEMMA FramedLink ==
  ASSUME Framed, wrreq' => frame_word' = frame'[sent']
  PROVE  Link!LinkNext
  BY DEF Framed, Link!LinkNext, Link!NewFrame, Link!SendWord, Link!Pause,
         Link!CutShort, Link!Quiet

\* With the words of the header it is one up to the payload's contents.
LEMMA FramedMarks ==
  ASSUME Framed, (wrreq' /\ ~InPayload') => frame_word' = frame'[sent']
  PROVE  Marks!LinkNext
<1>1. CASE ~wrreq'
  BY <1>1 DEF Framed, Marks!LinkNext, Marks!NewFrame, Marks!Pause,
              Marks!CutShort, Marks!Quiet
<1>2. CASE wrreq'
  <2>1. (IF InPayload THEN frame[sent] ELSE frame_word)' = frame'[sent']
    BY <1>2
  <2>2. /\ sent < Len(frame) /\ sent' = sent + 1 /\ frame' = frame
        /\ sop' = (sent = 0) /\ eop' = (sent' = Len(frame))
    BY <1>2 DEF Framed
  <2>3. Marks!SendWord
    BY <1>2, <2>1, <2>2 DEF Marks!SendWord
  <2> QED BY <2>3 DEF Marks!LinkNext
<1> QED BY <1>1, <1>2

-----------------------------------------------------------------------------
(* Steps of the header generator *)

\* The states in which a header word is made.
LEMMA WordStatesFact ==
  (DOMAIN WithinSegment \cup SegmentEnds) \ Pauses = WordStates
  BY DEF WithinSegment, SegmentEnds, Pauses, WordStates, EthStates, IpStates,
         UdpStates

\* The four kinds of states exclude each other.
LEMMA StatesApart ==
  /\ "IDLE" \notin WordStates \cup Pauses /\ "DONE" \notin WordStates \cup Pauses
  /\ \A s \in Pauses : s \notin WordStates
  BY DEF Pauses, WordStates, EthStates, IpStates, UdpStates

\* A clock of the idle header generator.
LEMMA HgIdleStep ==
  ASSUME hg_state = "IDLE", NEW start, NEW L, NEW q, HgClock(start, L, q)
  PROVE  /\ header_valid' = FALSE /\ header_done' = FALSE
         /\ ip_header' = packet_len(L)
         /\ start => hg_state' = f_next_state("IDLE")
         /\ ~start => hg_state' = "IDLE"
<1>1. HgIdle(start, L)
  BY WordStatesFact, StatesApart DEF HgClock, HgWord, HgPause, HgDone
<1> QED BY <1>1 DEF HgIdle

\* A clock in which a word is made.
LEMMA HgWordStep ==
  ASSUME hg_state \in WordStates, Enabled(hg_state), header_done <=> FALSE,
         NEW start, NEW L, NEW q, HgClock(start, L, q)
  PROVE  /\ header_valid' = TRUE /\ header_data' = HeaderWord(hg_state, L, q)
         /\ ip_header' = ip_header
         /\ hg_state' = After(hg_state)
         /\ hg_state' \in HgStates /\ hg_state' # "IDLE" /\ Enabled(hg_state')
         /\ header_done' <=> hg_state' = "DONE"
         /\ Before(hg_state') = Before(hg_state) + 1
         /\ Before(hg_state) \in Nat /\ Before(hg_state) < HeadLen
<1>1. HgWord(L, q)
  BY StatesApart DEF HgClock, HgIdle, HgPause, HgDone
<1>2. hg_state \notin Pauses
  BY StatesApart
<1>3. /\ After(hg_state) \in WordStates \cup Pauses \cup {"DONE"}
      /\ Enabled(After(hg_state))
      /\ Before(After(hg_state)) = Before(hg_state) + 1
      /\ Before(hg_state) \in Nat /\ Before(hg_state) < HeadLen
  BY <1>2, AfterFacts
<1>4. /\ header_valid' = TRUE /\ header_data' = HeaderWord(hg_state, L, q)
      /\ ip_header' = ip_header
      /\ hg_state' = After(hg_state)
      /\ header_done' <=> hg_state' = "DONE"
  BY <1>1 DEF HgWord
<1> QED BY <1>3, <1>4, StatesApart DEF HgStates

\* A clock of pause.
LEMMA HgPauseStep ==
  ASSUME hg_state \in Pauses, Enabled(hg_state), header_done <=> FALSE,
         NEW start, NEW L, NEW q, HgClock(start, L, q)
  PROVE  /\ header_valid' = FALSE /\ ip_header' = ip_header
         /\ hg_state' = After(hg_state)
         /\ hg_state' \in HgStates /\ hg_state' # "IDLE" /\ Enabled(hg_state')
         /\ hg_state' # "DONE" /\ ~header_done'
         /\ Before(hg_state') = Before(hg_state)
         /\ Before(hg_state) \in Nat /\ Before(hg_state) < HeadLen
<1>1. HgPause
  BY WordStatesFact, StatesApart DEF HgClock, HgIdle, HgWord, HgDone
<1>2. /\ After(hg_state) \in WordStates \cup Pauses \cup {"DONE"}
      /\ Enabled(After(hg_state)) /\ After(hg_state) # "DONE"
      /\ Before(After(hg_state)) = Before(hg_state)
      /\ Before(hg_state) \in Nat /\ Before(hg_state) < HeadLen
  BY AfterFacts
<1> QED BY <1>1, <1>2, StatesApart DEF HgPause, HgStates

\* The clock after the last word.
LEMMA HgDoneStep ==
  ASSUME hg_state = "DONE", NEW start, NEW L, NEW q, HgClock(start, L, q)
  PROVE  /\ header_valid' = FALSE /\ header_done' = FALSE
         /\ hg_state' = "IDLE"
<1>1. HgDone
  BY WordStatesFact, StatesApart DEF HgClock, HgIdle, HgWord, HgPause
<1> QED BY <1>1 DEF HgDone

\* The idle state is enabled in every configuration.
LEMMA IdleFacts ==
  "IDLE" \in HgStates /\ Enabled("IDLE") /\ Before("IDLE") = 0
  BY DEF HgStates, Enabled, Before, EthStates, IpStates, UdpStates, Pauses

\* Header and frame generator stay in step.
LEMMA SyncStep ==
  ASSUME Sync, NEW rdy, NEW usedw, NEW q, FgMachine(rdy, usedw),
         HgClock(header_start, payload_length, q)
  PROVE  Sync'
<1>1. ASSUME fg_state # "PAYLOAD_HEADER"
      PROVE  /\ hg_state' = "IDLE" /\ ~header_valid' /\ ~header_done'
             /\ ~header_start
  <2>1. hg_state = "IDLE" /\ ~header_start
    BY <1>1 DEF Sync
  <2>2. /\ header_valid' = FALSE /\ header_done' = FALSE
        /\ hg_state' = "IDLE"
    <3>1. HgIdle(header_start, payload_length)
      BY <2>1, WordStatesFact, StatesApart DEF HgClock, HgWord, HgPause, HgDone
    <3> QED BY <2>1, <3>1 DEF HgIdle
  <2> QED BY <2>1, <2>2
<1>2. CASE FgIdle(rdy, usedw)
  <2>1. /\ hg_state' = "IDLE" /\ ~header_valid' /\ ~header_done'
    BY <1>1, <1>2 DEF FgIdle
  <2> QED BY <1>2, <2>1, IdleFacts DEF FgIdle, Sync, Active, PayloadStates
<1>3. CASE FgWait \/ FgStart \/ WriteMore \/ WriteEnd \/ FgDone
  <2>1. /\ fg_state # "PAYLOAD_HEADER" /\ fg_state' # "PAYLOAD_HEADER"
        /\ fg_state' \in Active \cup {"IDLE", "DONE"}
        /\ header_start' = header_start
    BY <1>3 DEF FgWait, FgStart, WriteMore, WriteEnd, FgDone, Active,
                PayloadStates, Sync
  <2>2. /\ hg_state' = "IDLE" /\ ~header_valid' /\ ~header_done'
        /\ ~header_start
    BY <1>1, <2>1
  <2> QED BY <2>1, <2>2, IdleFacts DEF Sync
<1>4. CASE FgHeader
  <2>1. /\ fg_state = "PAYLOAD_HEADER" /\ ~header_start'
        /\ ~header_done => fg_state' = "PAYLOAD_HEADER"
        /\ header_done => fg_state' \in {"DONE", "PAYLOAD_WAIT"}
    BY <1>4 DEF FgHeader
  <2>2. CASE hg_state = "IDLE"
    <3>1. header_start /\ ~header_done
      BY <2>1, <2>2 DEF Sync
    <3>2. /\ hg_state' = f_next_state("IDLE") /\ ~header_valid' /\ ~header_done'
      BY <2>2, <3>1, HgIdleStep
    <3> QED BY <2>1, <3>1, <3>2, FirstFacts, StatesApart
            DEF Sync, HgStates, Active
  <2>3. CASE hg_state \in WordStates
    <3>1. ~header_done /\ Enabled(hg_state)
      BY <2>3, StatesApart DEF Sync
    <3>2. /\ hg_state' \in HgStates /\ hg_state' # "IDLE" /\ Enabled(hg_state')
          /\ header_done' <=> hg_state' = "DONE"
          /\ header_valid'
      BY <2>3, <3>1, HgWordStep
    <3> QED BY <2>1, <3>1, <3>2 DEF Sync, Active
  <2>4. CASE hg_state \in Pauses
    <3>1. ~header_done /\ Enabled(hg_state)
      BY <2>4, StatesApart DEF Sync
    <3>2. /\ hg_state' \in HgStates /\ hg_state' # "IDLE" /\ Enabled(hg_state')
          /\ hg_state' # "DONE" /\ ~header_done' /\ ~header_valid'
      BY <2>4, <3>1, HgPauseStep
    <3> QED BY <2>1, <3>1, <3>2 DEF Sync, Active
  <2>5. CASE hg_state = "DONE"
    <3>1. header_done
      BY <2>5 DEF Sync
    <3>2. /\ hg_state' = "IDLE" /\ ~header_done' /\ ~header_valid'
      BY <2>5, HgDoneStep
    <3> QED BY <2>1, <3>1, <3>2, IdleFacts DEF Sync, Active, PayloadStates
  <2> QED BY <2>2, <2>3, <2>4, <2>5 DEF Sync, HgStates
<1> QED BY <1>2, <1>3, <1>4 DEF FgMachine

-----------------------------------------------------------------------------
(* Steps of the frame generator *)

\* The frame a start calls for.
FrameOf(L, q, next) ==
  Header(L, q) \o [i \in 1 .. L |-> Payload(next + i - 1)]

\* What words it has.
LEMMA NewFrameFacts ==
  ASSUME NEW L \in Nat, NEW q, NEW next \in Nat, NEW f,
         f = FrameOf(L, q, next)
  PROVE  /\ Len(f) = HeadLen + L /\ f # <<>>
         /\ \A s \in WordStates : Enabled(s) => f[Before(s) + 1] = Expected(s, L, q)
         /\ \A k \in 1 .. L : f[HeadLen + k] = Payload(next + k - 1)
<1> DEFINE P == [i \in 1 .. L |-> Payload(next + i - 1)]
<1>1. /\ Header(L, q) \in Seq(Words(q)) /\ Len(Header(L, q)) = HeadLen
      /\ \A s \in WordStates :
           Enabled(s) => Header(L, q)[Before(s) + 1] = Expected(s, L, q)
  BY HeaderFacts
<1>2. \A i \in 1 .. L : Payload(next + i - 1) \in Words(q)
  BY DEF Payload, Word, Words
<1>3. P \in Seq(Words(q)) /\ Len(P) = L
  <2>1. P \in [1 .. L -> Words(q)]
    BY <1>2
  <2> HIDE DEF P
  <2> QED BY <2>1, FunctionSeq
<1>4. \A k \in 1 .. L : P[k] = Payload(next + k - 1)
  OBVIOUS
<1>6. f = Header(L, q) \o P
  BY DEF FrameOf
<1> DEFINE H == Header(L, q)
<1>a. H \in Seq(Words(q)) /\ Len(H) = HeadLen
  BY <1>1
<1> HIDE DEF P, H
<1>b. /\ Len(H \o P) = HeadLen + L
      /\ \A i \in 1 .. HeadLen : (H \o P)[i] = H[i]
      /\ \A i \in 1 .. L : (H \o P)[HeadLen + i] = P[i]
  <2>1. P \in Seq(Words(q)) /\ Len(P) = L
    BY <1>3
  <2> DEFINE W == Words(q)
  <2> HIDE DEF W
  <2>2. H \in Seq(W) /\ P \in Seq(W) /\ Len(H) = HeadLen /\ Len(P) = L
    BY <1>a, <2>1 DEF W
  <2> QED BY <2>2, ConcatLens
<1>5. /\ Len(f) = HeadLen + L
      /\ \A i \in 1 .. HeadLen : f[i] = Header(L, q)[i]
      /\ \A i \in 1 .. L : f[HeadLen + i] = P[i]
  BY <1>6, <1>b DEF H
<1>7. \A s \in WordStates : Enabled(s) => Before(s) + 1 \in 1 .. HeadLen
  BY AfterFacts, LenFacts
<1>8. f # <<>>
  <2>1. Len(f) >= 1
    BY <1>5, <1>6, LenFacts
  <2> QED BY <2>1
<1> QED BY <1>1, <1>4, <1>5, <1>6, <1>7, <1>8

\* What the FIFO behind the generators is expected to do: keep the port while
\* the header is made, and deliver the words of the frame when they are asked
\* for.
KeepsPort(q) ==
  (hg_state = "UDP0" /\ Enabled("UDP0")) =>
    frame[Before("UDP0") + 1] = Word("UDP0", q)
Feeds(next, read) ==
  /\ read <=> rdreq
  /\ rdreq => Payload(next) = frame[HeadLen + Got + 1]
Fed(next) == Pipeline(rdreq, Payload(next)) /\ Feeds(next, rdreq)

\* The words of the pipeline one clock later.
LEMMA PipeStep ==
  ASSUME NEW c \in Nat, payload_length \in Nat, payload_length >= 1,
         rdreq <=> c >= 1 /\ c <= payload_length,
         \A i \in Stages :
           c > i => pipe[i] = frame[HeadLen + AtMost(payload_length, c - i)],
         NEW w, rdreq => w = frame[HeadLen + c],
         NEW read, read <=> rdreq, Pipeline(read, w)
  PROVE  \A i \in Stages :
           c + 1 > i => pipe'[i] = frame[HeadLen + AtMost(payload_length, c + 1 - i)]
<1> SUFFICES ASSUME NEW i \in Stages, c + 1 > i
             PROVE  pipe'[i] = frame[HeadLen + AtMost(payload_length, c + 1 - i)]
  OBVIOUS
<1>0. i \in Nat /\ i >= 1 /\ IN_DLY \in Nat
  BY FrameAssumption DEF Stages
<1>1. pipe'[i] = IF i > 1 THEN pipe[i - 1] ELSE IF read THEN w ELSE pipe[1]
  BY DEF Pipeline
<1>2. CASE i > 1
  <2>1. i - 1 \in Stages /\ c > i - 1
    BY <1>0, <1>2 DEF Stages
  <2>2. pipe[i - 1] = frame[HeadLen + AtMost(payload_length, c - (i - 1))]
    BY <2>1
  <2>3. c - (i - 1) = c + 1 - i
    BY <1>0
  <2> QED BY <1>1, <1>2, <2>2, <2>3
<1>3. CASE i = 1 /\ rdreq
  <2>1. AtMost(payload_length, c + 1 - i) = c
    BY <1>3 DEF AtMost
  <2>2. pipe'[i] = w
    BY <1>1, <1>3
  <2> QED BY <1>3, <2>1, <2>2
<1>4. CASE i = 1 /\ ~rdreq
  <2>1. c > payload_length /\ c > 1
    BY <1>4
  <2>2. pipe'[i] = pipe[1] /\ 1 \in Stages
    BY <1>1, <1>4
  <2>3. pipe[1] = frame[HeadLen + AtMost(payload_length, c - 1)]
    BY <2>1, <2>2
  <2>4. /\ AtMost(payload_length, c - 1) = payload_length
        /\ AtMost(payload_length, c + 1 - i) = payload_length
    BY <1>4, <2>1 DEF AtMost
  <2> QED BY <2>2, <2>3, <2>4
<1> QED BY <1>0, <1>2, <1>3, <1>4

\* The clock of the payload phase is a number, and rdreq asks for the word
\* of that number.
LEMMA ClkFacts ==
  ASSUME GenInv, fg_state \in PayloadStates
  PROVE  /\ Clk \in Nat /\ Got \in Nat /\ Got <= payload_length
         /\ payload_length \in Nat /\ payload_length >= 1
         /\ rdreq => Got + 1 = Clk /\ Got < payload_length
<1>1. payload_length \in Nat /\ payload_length >= 1 /\ IN_DLY \in Nat
  BY FrameAssumption DEF GenInv, FrameFixed, PayloadPhase, Active
<1>2. Clk \in Nat
  <2>1. CASE fg_state = "PAYLOAD_WAIT"
    BY <1>1, <2>1 DEF GenInv, PayloadPhase, PayloadStates, Clk
  <2>2. CASE fg_state = "PAYLOAD_START"
    BY <1>1, <2>2 DEF GenInv, PayloadPhase, PayloadStates, Clk
  <2>3. CASE fg_state = "WRITE_PAYLOAD"
    <3>1. fg_words \in Nat
      BY <1>1, <2>3 DEF GenInv, PayloadPhase
    <3> QED BY <1>1, <2>3, <3>1 DEF Clk
  <2> QED BY <2>1, <2>2, <2>3 DEF PayloadStates
<1>3. rdreq => Clk >= 1 /\ Clk <= payload_length
  BY DEF GenInv, PayloadPhase
<1>4. Got \in Nat /\ Got <= payload_length
  BY <1>1, <1>2 DEF Got, AtMost
<1>5. rdreq => Got + 1 = Clk
  BY <1>1, <1>2, <1>3 DEF Got, AtMost
<1> QED BY <1>1, <1>2, <1>3, <1>4, <1>5

-----------------------------------------------------------------------------
(* One clock of both generators, by the state of the frame generator *)

\* A clock of the idle frame generator, without and with a start.
LEMMA GenIdle ==
  ASSUME GenInv, NEW rdy, NEW usedw \in Nat, NEW q, NEW next \in Nat,
         FgIdle(rdy, usedw), FrameHistory(next, q), Sync'
  PROVE  /\ GenInv' /\ GenData' /\ Framed
         /\ fg_state' = "PAYLOAD_HEADER" =>
              /\ \A k \in 1 .. payload_length' :
                   frame'[HeadLen + k] = Payload(next + k - 1)
              /\ Enabled("UDP0") => frame'[Before("UDP0") + 1] = Word("UDP0", q)
<1>1. /\ fg_state = "IDLE" /\ wrreq' = FALSE /\ rdreq' = FALSE /\ eop' = FALSE
      /\ delay_counter' = 0 /\ frame_size' = 0
      /\ rdy => fg_state' = "PAYLOAD_HEADER"
      /\ ~rdy => fg_state' = "IDLE"
      /\ rdy => \/ payload_length' = PAYLOAD_MAX_LEN \/ payload_length' = usedw
  BY DEF FgIdle
<1>2. sent \in Nat /\ sent = Len(frame)
  BY <1>1 DEF GenInv, Between
<1>3. Written' /\ GenData'
  BY <1>1 DEF Written, GenData, PayloadStates
<1>4. CASE ~rdy
  <2>1. frame' = frame /\ sent' = sent
    BY <1>1, <1>4 DEF FrameHistory
  <2>2. Framed
    BY <1>1, <2>1 DEF Framed
  <2>3. /\ FrameFixed' /\ HeaderPhase' /\ PayloadPhase' /\ Between'
    BY <1>1, <1>2, <1>4, <2>1 DEF FrameFixed, HeaderPhase, PayloadPhase, Between,
                             Active, PayloadStates
  <2> QED BY <1>1, <1>3, <1>4, <2>2, <2>3 DEF GenInv
<1>5. CASE rdy
  <2>1. payload_length' \in Nat
    BY <1>1, <1>5, FrameAssumption
  <2>2. frame' = FrameOf(payload_length', q, next) /\ sent' = 0
    BY <1>1, <1>5 DEF FrameHistory, FrameOf
  <2>3. /\ Len(frame') = HeadLen + payload_length' /\ frame' # <<>>
        /\ \A s \in WordStates :
             Enabled(s) => frame'[Before(s) + 1] = Expected(s, payload_length', q)
        /\ \A k \in 1 .. payload_length' :
             frame'[HeadLen + k] = Payload(next + k - 1)
    BY <2>1, <2>2, NewFrameFacts
  <2>4. Framed
    BY <1>1, <1>2, <2>2, <2>3 DEF Framed
  <2>5. \A s \in WordStates \ {"UDP0"} :
          Expected(s, payload_length', q) = Expected(s, payload_length', 0)
    BY DEF Expected
  <2>6. FrameFixed'
    BY <2>1, <2>3, <2>5 DEF FrameFixed
  <2>7. hg_state' = "IDLE" /\ ~header_valid'
    <3>1. header_start' <=> rdy
      BY DEF FgIdle
    <3> QED BY <1>5, <3>1 DEF Sync
  <2>8. HeaderPhase'
    BY <1>1, <2>2, <2>7, IdleFacts DEF HeaderPhase
  <2>9. PayloadPhase' /\ Between'
    BY <1>1, <1>5 DEF PayloadPhase, PayloadStates, Between
  <2>10. Enabled("UDP0") => frame'[Before("UDP0") + 1] = Word("UDP0", q)
    BY <2>3 DEF Expected, WordStates, UdpStates
  <2> QED BY <1>3, <2>3, <2>4, <2>6, <2>8, <2>9, <2>10 DEF GenInv
<1> QED BY <1>4, <1>5

\* A clock of the header state that does not end it.
LEMMA GenHeaderMore ==
  ASSUME GenInv, NEW q, NEW next, FgHeader, FrameHistory(next, q),
         HgClock(header_start, payload_length, q), Sync', hg_state # "DONE",
         KeepsPort(q)
  PROVE  /\ GenInv' /\ GenData' /\ Framed
         /\ frame' = frame /\ payload_length' = payload_length
         /\ fg_state' = "PAYLOAD_HEADER"
<1>1. /\ fg_state = "PAYLOAD_HEADER" /\ frame_word' = header_data
      /\ wrreq' = header_valid
      /\ sop' = IF header_valid THEN frame_size = 0 ELSE sop
      /\ frame_size' = IF header_valid THEN frame_size + 1 ELSE frame_size
      /\ payload_length' = payload_length /\ delay_counter' = delay_counter
      /\ rdreq' = rdreq
  BY DEF FgHeader
<1>2. ~header_done
  BY DEF GenInv, Sync
<1>3. fg_state' = "PAYLOAD_HEADER" /\ eop' = eop
  BY <1>2 DEF FgHeader
<1>4. frame' = frame /\ sent' = IF wrreq' THEN sent + 1 ELSE sent
  BY <1>1, <1>3 DEF FrameHistory
<1>5. /\ delay_counter = 0 /\ rdreq = FALSE /\ eop = FALSE
      /\ sent \in Nat /\ frame_size = sent
      /\ header_valid =>
           sent + 1 = Before(hg_state) /\ header_data = frame[sent + 1]
      /\ ~header_valid => sent = Before(hg_state)
      /\ hg_state # "IDLE" => ip_header = packet_len(payload_length)
      /\ payload_length \in Nat /\ Len(frame) = HeadLen + payload_length
      /\ \A s \in WordStates \ {"UDP0"} :
           Enabled(s) => frame[Before(s) + 1] = Expected(s, payload_length, 0)
      /\ hg_state \in HgStates /\ Enabled(hg_state)
  BY <1>1 DEF GenInv, Sync, HeaderPhase, FrameFixed, Active
<1>6. sent' = Before(hg_state) /\ frame_size' = sent'
  BY <1>1, <1>4, <1>5
<1>7. Before(hg_state) \in Nat /\ Before(hg_state) < HeadLen
  BY <1>5, AfterFacts, IdleFacts, LenFacts DEF HgStates
<1>8. Framed /\ Written' /\ GenData'
  <2>1. CASE header_valid
    <3>1. /\ wrreq' /\ sent' = sent + 1 /\ sent < Len(frame)
          /\ sent' # Len(frame) /\ sent' \in 1 .. Len(frame)
      BY <1>1, <1>4, <1>5, <1>6, <1>7, <2>1, LenFacts
    <3>2. frame_word' = frame[sent + 1] /\ sop' = (sent = 0)
      BY <1>1, <1>5, <2>1
    <3>3. eop' = (sent' = Len(frame))
      BY <1>3, <1>5, <3>1
    <3> QED BY <1>3, <1>4, <3>1, <3>2, <3>3
            DEF Framed, Written, GenData, PayloadStates
  <2>2. CASE ~header_valid
    <3>1. ~wrreq'
      BY <1>1, <2>2
    <3> QED BY <1>3, <1>4, <1>5, <3>1
            DEF Framed, Written, GenData, PayloadStates
  <2> QED BY <2>1, <2>2
<1>9. FrameFixed' /\ PayloadPhase' /\ Between'
  BY <1>1, <1>3, <1>4, <1>5 DEF FrameFixed, PayloadPhase, Between, PayloadStates
<1>10. HeaderPhase'
  <2>1. CASE hg_state = "IDLE"
    <3>1. header_start
      BY <1>1, <2>1 DEF GenInv, Sync
    <3>2. /\ header_valid' = FALSE /\ ip_header' = packet_len(payload_length)
          /\ hg_state' = f_next_state("IDLE")
      BY <2>1, <3>1, HgIdleStep
    <3>3. Before(hg_state') = Before(hg_state)
      BY <2>1, <3>2, FirstFacts, IdleFacts
    <3> QED BY <1>1, <1>3, <1>5, <1>6, <1>7, <3>2, <3>3 DEF HeaderPhase
  <2>2. CASE hg_state \in WordStates
    <3>1. /\ header_valid' = TRUE
          /\ header_data' = HeaderWord(hg_state, payload_length, q)
          /\ ip_header' = ip_header
          /\ Before(hg_state') = Before(hg_state) + 1
      BY <1>2, <1>5, <2>2, HgWordStep
    <3>2. ip_header = packet_len(payload_length)
      BY <1>5, <2>2, StatesApart
    <3>3. HeaderWord(hg_state, payload_length, q) = frame[Before(hg_state) + 1]
      <4>1. CASE hg_state = "UDP0"
        <5>1. frame[Before("UDP0") + 1] = Word("UDP0", q)
          BY <1>5, <4>1 DEF KeepsPort
        <5> QED BY <4>1, <5>1 DEF HeaderWord
      <4>2. CASE hg_state # "UDP0"
        <5>1. frame[Before(hg_state) + 1] = Expected(hg_state, payload_length, 0)
          BY <1>5, <2>2, <4>2
        <5> QED BY <3>2, <4>2, <5>1 DEF HeaderWord, Expected
      <4> QED BY <4>1, <4>2
    <3>4. sent' + 1 = Before(hg_state')
      BY <1>6, <1>7, <3>1
    <3>5. header_data' = frame'[sent' + 1]
      BY <1>4, <1>6, <3>1, <3>3
    <3> QED BY <1>1, <1>3, <1>5, <1>6, <1>7, <3>1, <3>2, <3>4, <3>5 DEF HeaderPhase
  <2>3. CASE hg_state \in Pauses
    <3>1. /\ header_valid' = FALSE /\ ip_header' = ip_header
          /\ Before(hg_state') = Before(hg_state)
      BY <1>2, <1>5, <2>3, HgPauseStep
    <3>2. ip_header = packet_len(payload_length)
      BY <1>5, <2>3, StatesApart
    <3> QED BY <1>1, <1>3, <1>5, <1>6, <1>7, <3>1, <3>2 DEF HeaderPhase
  <2> QED BY <1>5, <2>1, <2>2, <2>3 DEF HgStates
<1> QED BY <1>1, <1>3, <1>4, <1>8, <1>9, <1>10 DEF GenInv

\* The clock that ends the header state.
LEMMA GenHeaderEnd ==
  ASSUME GenInv, NEW q, NEW next, FgHeader, FrameHistory(next, q), Sync',
         hg_state = "DONE"
  PROVE  /\ GenInv' /\ GenData' /\ Framed
         /\ frame' = frame /\ payload_length' = payload_length
         /\ ~rdreq /\ Got = 0 /\ Got' = 0
<1>1. /\ fg_state = "PAYLOAD_HEADER" /\ frame_word' = header_data
      /\ wrreq' = header_valid
      /\ sop' = IF header_valid THEN frame_size = 0 ELSE sop
      /\ payload_length' = payload_length /\ delay_counter' = delay_counter
      /\ rdreq' = rdreq
  BY DEF FgHeader
<1>2. header_done /\ header_valid
  BY DEF GenInv, Sync
<1>3. /\ payload_length = 0 => fg_state' = "DONE" /\ eop' = TRUE
      /\ payload_length # 0 => fg_state' = "PAYLOAD_WAIT" /\ eop' = eop
  BY <1>2 DEF FgHeader
<1>4. frame' = frame /\ sent' = sent + 1 /\ wrreq'
  BY <1>1, <1>2, <1>3 DEF FrameHistory
<1>5. /\ delay_counter = 0 /\ rdreq = FALSE /\ eop = FALSE
      /\ sent \in Nat /\ frame_size = sent
      /\ sent + 1 = Before(hg_state) /\ header_data = frame[sent + 1]
      /\ payload_length \in Nat /\ Len(frame) = HeadLen + payload_length
  BY <1>1, <1>2 DEF GenInv, HeaderPhase, FrameFixed, Active
<1>6. Before(hg_state) = HeadLen
  BY DEF Before, Pauses
<1>7. sent' = HeadLen /\ sent' \in 1 .. Len(frame) /\ sent < Len(frame)
  BY <1>4, <1>5, <1>6, LenFacts
<1>8. Written' /\ Framed /\ (wrreq' => frame_word' = frame'[sent'])
  <2>1. frame_word' = frame[sent + 1] /\ sop' = (sent = 0)
    BY <1>1, <1>2, <1>5
  <2>2. eop' = (sent' = Len(frame))
    <3>1. (sent' = Len(frame)) <=> payload_length = 0
      BY <1>5, <1>7, LenFacts
    <3> QED BY <1>3, <1>5, <3>1
  <2> QED BY <1>4, <1>7, <2>1, <2>2 DEF Framed, Written
<1>9. FrameFixed' /\ HeaderPhase'
  BY <1>1, <1>3, <1>4 DEF GenInv, FrameFixed, HeaderPhase, Active
<1>10. Clk = 0 /\ Clk' = 0
  BY <1>1, <1>3, <1>5 DEF Clk
<1>11. Got = 0 /\ Got' = 0
  BY <1>10 DEF Got
<1>12. PayloadPhase'
  <2>1. CASE payload_length = 0
    BY <1>3, <2>1 DEF PayloadPhase, PayloadStates
  <2>2. CASE payload_length # 0
    <3>2. payload_length' >= 1 /\ fg_state' = "PAYLOAD_WAIT" /\ eop' = FALSE
      BY <1>1, <1>3, <1>5, <2>2
    <3>3. ~rdreq' /\ ~(Clk' >= 1)
      BY <1>1, <1>5, <1>10
    <3>4. delay_counter' \in 0 .. (IN_DLY - 1) /\ sent' = HeadLen
      BY <1>1, <1>5, <1>7, FrameAssumption
    <3> QED BY <3>2, <3>3, <3>4 DEF PayloadPhase
  <2> QED BY <2>1, <2>2
<1>13. Between'
  <2>1. CASE payload_length = 0
    BY <1>1, <1>4, <1>5, <1>7, <2>1, LenFacts DEF Between
  <2>2. CASE payload_length # 0
    BY <1>3, <2>2 DEF Between
  <2> QED BY <2>1, <2>2
<1>14. GenData'
  <2>1. \A i \in Stages : ~(Clk' > i)
    BY <1>10, FrameAssumption DEF Stages
  <2> QED BY <1>8, <2>1 DEF GenData, PipeHolds
<1> QED BY <1>1, <1>4, <1>5, <1>8, <1>9, <1>11, <1>12, <1>13, <1>14 DEF GenInv

\* A clock of the payload phase leaves the frame alone.
LEMMA PayloadClock ==
  ASSUME fg_state \in PayloadStates, NEW q, NEW next, FrameHistory(next, q)
  PROVE  frame' = frame /\ sent' = IF wrreq' THEN sent + 1 ELSE sent
  BY DEF FrameHistory, PayloadStates

\* The pipeline after a clock of the payload phase.
LEMMA PipeNext ==
  ASSUME GenInv, GenData, fg_state \in PayloadStates, NEW next, Fed(next),
         frame' = frame, payload_length' = payload_length, Clk' = Clk + 1
  PROVE  PipeHolds'
<1>1. PICK c \in Nat : c = Clk + 1
  BY ClkFacts
<1>2. /\ Clk \in Nat /\ payload_length \in Nat /\ payload_length >= 1
      /\ Got \in Nat
      /\ rdreq => Got + 1 = Clk
  BY ClkFacts
<1>3. /\ rdreq <=> Clk >= 1 /\ Clk <= payload_length
      /\ \A i \in Stages :
           Clk > i => pipe[i] = frame[HeadLen + AtMost(payload_length, Clk - i)]
  BY DEF GenInv, GenData, PayloadPhase, PipeHolds
<1>4. rdreq => Payload(next) = frame[HeadLen + Clk]
  <2>1. HeadLen + Got + 1 = HeadLen + (Got + 1)
    BY <1>2, LenFacts
  <2> QED BY <1>2, <2>1 DEF Fed, Feeds
<1>5. \A i \in Stages :
        Clk + 1 > i => pipe'[i] = frame[HeadLen + AtMost(payload_length, Clk + 1 - i)]
  BY <1>2, <1>3, <1>4, PipeStep DEF Fed
<1>6. \A i \in Stages : c > i =>
        pipe'[i] = frame[HeadLen + AtMost(payload_length, c - i)]
  <2> SUFFICES ASSUME NEW i \in Stages, c > i
               PROVE  pipe'[i] = frame[HeadLen + AtMost(payload_length, c - i)]
    OBVIOUS
  <2>1. Clk + 1 > i
    BY <1>1
  <2>2. c - i = Clk + 1 - i
    <3>1. i \in Nat
      BY FrameAssumption DEF Stages
    <3> QED BY <1>1, <1>2, <3>1
  <2>3. pipe'[i] = frame[HeadLen + AtMost(payload_length, Clk + 1 - i)]
    BY <1>5, <2>1
  <2> QED BY <2>2, <2>3
<1>7. Clk' = c
  BY <1>1
<1> QED BY <1>6, <1>7 DEF PipeHolds

\* A clock of waiting for the pipeline to fill.
LEMMA GenWait ==
  ASSUME GenInv, NEW q, NEW next, FgWait, FrameHistory(next, q), Sync'
  PROVE  /\ GenInv' /\ Framed
         /\ frame' = frame /\ payload_length' = payload_length
         /\ fg_state' \in PayloadStates /\ Clk' = Clk + 1
         /\ (GenData /\ Fed(next)) => GenData'
<1>1. /\ fg_state = "PAYLOAD_WAIT" /\ fg_words' = 0 /\ ~wrreq' /\ wrreq' = FALSE
      /\ rdreq' <=> delay_counter < payload_length
      /\ sop' = FALSE /\ eop' = eop /\ delay_counter' = delay_counter + 1
      /\ payload_length' = payload_length
      /\ delay_counter + 1 >= IN_DLY => fg_state' = "PAYLOAD_START"
      /\ ~(delay_counter + 1 >= IN_DLY) => fg_state' = "PAYLOAD_WAIT"
  BY DEF FgWait
<1>2. fg_state \in PayloadStates /\ fg_state' \in PayloadStates
  BY <1>1 DEF PayloadStates
<1>3. frame' = frame /\ sent' = sent
  BY <1>1, <1>2, PayloadClock
<1>4. /\ delay_counter \in 0 .. (IN_DLY - 1) /\ sent = HeadLen /\ eop = FALSE
      /\ payload_length \in Nat /\ payload_length >= 1 /\ Clk = delay_counter
      /\ IN_DLY \in Nat
  BY <1>1, <1>2, ClkFacts, FrameAssumption DEF GenInv, PayloadPhase, Clk
<1>5. Clk' = Clk + 1
  <2>1. CASE delay_counter + 1 >= IN_DLY
    <3>1. Clk' = IN_DLY
      BY <1>1, <2>1 DEF Clk
    <3> QED BY <1>4, <2>1, <3>1
  <2>2. CASE ~(delay_counter + 1 >= IN_DLY)
    <3>1. Clk' = delay_counter'
      BY <1>1, <2>2 DEF Clk
    <3> QED BY <1>1, <1>4, <3>1
  <2> QED BY <2>1, <2>2
<1>6. Framed /\ Written'
  BY <1>1, <1>3, <1>4 DEF Framed, Written
<1>7. FrameFixed' /\ HeaderPhase' /\ Between'
  BY <1>1, <1>2, <1>3 DEF GenInv, FrameFixed, HeaderPhase, Between, Active,
                          PayloadStates
<1>8. (GenData /\ Fed(next)) => GenData'
  BY <1>1, <1>2, <1>3, <1>5, PipeNext DEF GenData
<1>9. rdreq' <=> Clk' >= 1 /\ Clk' <= payload_length'
  BY <1>1, <1>4, <1>5
<1>10. PayloadPhase'
  BY <1>1, <1>2, <1>3, <1>4, <1>9 DEF PayloadPhase
<1> QED BY <1>1, <1>2, <1>3, <1>5, <1>6, <1>7, <1>8, <1>10 DEF GenInv

\* The first word of the payload.
LEMMA GenStart ==
  ASSUME GenInv, NEW q, NEW next, FgStart, FrameHistory(next, q), Sync'
  PROVE  /\ GenInv'
         /\ frame' = frame /\ payload_length' = payload_length
         /\ fg_state' \in PayloadStates /\ Clk' = Clk + 1
         /\ ((GenData /\ Fed(next)) => GenData') /\ Framed
<1>1. /\ fg_state = "PAYLOAD_START" /\ wrreq'
      /\ rdreq' <=> payload_length > IN_DLY
      /\ frame_word' = payload_word /\ fg_state' = "WRITE_PAYLOAD"
      /\ eop' = IF payload_length = 1 THEN TRUE ELSE eop
      /\ payload_length' = payload_length /\ fg_words' = fg_words /\ sop' = sop
  BY DEF FgStart
<1>2. fg_state \in PayloadStates /\ fg_state' \in PayloadStates
  BY <1>1 DEF PayloadStates
<1>3. frame' = frame /\ sent' = sent + 1
  BY <1>1, <1>2, PayloadClock
<1>4. /\ fg_words = 0 /\ sent = HeadLen /\ eop = FALSE /\ sop = FALSE
      /\ payload_length \in Nat /\ payload_length >= 1 /\ Clk = IN_DLY
      /\ IN_DLY \in Nat /\ IN_DLY >= 2 /\ Len(frame) = HeadLen + payload_length
  BY <1>1, <1>2, ClkFacts, FrameAssumption
     DEF GenInv, PayloadPhase, FrameFixed, Active, Clk
<1>5. Clk' = Clk + 1
  <2>1. Clk' = IN_DLY + 1 + fg_words'
    BY <1>1 DEF Clk
  <2> QED BY <1>1, <1>4, <2>1
<1>6. GenData => payload_word = frame[sent + 1]
  <2> HAVE GenData
  <2>1. IN_DLY - 1 \in Stages /\ Clk > IN_DLY - 1 /\ Clk - (IN_DLY - 1) = 1
    BY <1>4 DEF Stages
  <2>2. AtMost(payload_length, 1) = 1
    BY <1>4 DEF AtMost
  <2>3. pipe[IN_DLY - 1] = frame[HeadLen + 1]
    BY <1>2, <2>1, <2>2 DEF GenData, PipeHolds
  <2> QED BY <1>4, <2>3 DEF payload_word
<1>7. /\ sent < Len(frame) /\ sent' \in 1 .. Len(frame)
      /\ ~(sent = 0)
      /\ (sent' = Len(frame)) <=> payload_length = 1
  BY <1>3, <1>4, LenFacts
<1>8. Written' /\ Framed /\ (GenData => frame_word' = frame'[sent'])
  <2>1. sop' = (sent = 0) /\ eop' = (sent' = Len(frame))
    BY <1>1, <1>4, <1>7
  <2>2. ~(sent' <= HeadLen)
    BY <1>3, <1>4, LenFacts
  <2> QED BY <1>1, <1>3, <1>6, <1>7, <2>1, <2>2 DEF Framed, Written
<1>9. FrameFixed' /\ HeaderPhase' /\ Between'
  BY <1>1, <1>2, <1>3 DEF GenInv, FrameFixed, HeaderPhase, Between, Active,
                          PayloadStates
<1>10. (GenData /\ Fed(next)) => GenData'
  BY <1>1, <1>2, <1>3, <1>5, <1>8, PipeNext DEF GenData
<1>11. rdreq' <=> Clk' >= 1 /\ Clk' <= payload_length'
  BY <1>1, <1>4, <1>5
<1>12. /\ fg_words' \in 0 .. (payload_length' - 1)
       /\ sent' = HeadLen + fg_words' + 1 /\ sop' = FALSE
  BY <1>1, <1>3, <1>4, LenFacts
<1>13. eop' = (fg_words' = payload_length' - 1)
  <2>1. (fg_words' = payload_length' - 1) <=> payload_length = 1
    BY <1>1, <1>4
  <2> QED BY <1>1, <1>4, <2>1
<1>14. PayloadPhase'
  BY <1>1, <1>4, <1>11, <1>12, <1>13 DEF PayloadPhase
<1> QED BY <1>1, <1>2, <1>3, <1>5, <1>8, <1>9, <1>10, <1>14 DEF GenInv

\* A further word of the payload.
LEMMA GenMore ==
  ASSUME GenInv, NEW q, NEW next, WriteMore, FrameHistory(next, q), Sync'
  PROVE  /\ GenInv'
         /\ frame' = frame /\ payload_length' = payload_length
         /\ fg_state' \in PayloadStates /\ Clk' = Clk + 1
         /\ ((GenData /\ Fed(next)) => GenData') /\ Framed
<1>1. /\ fg_state = "WRITE_PAYLOAD" /\ wrreq'
      /\ fg_words' = fg_words + 1 /\ fg_words' < payload_length
      /\ rdreq' <=> fg_words' < payload_length - IN_DLY
      /\ frame_word' = payload_word /\ fg_state' = "WRITE_PAYLOAD"
      /\ eop' = IF fg_words' = payload_length - 1 THEN TRUE ELSE eop
      /\ payload_length' = payload_length /\ sop' = sop
  BY DEF WriteMore
<1>2. fg_state \in PayloadStates /\ fg_state' \in PayloadStates
  BY <1>1 DEF PayloadStates
<1>3. frame' = frame /\ sent' = sent + 1
  BY <1>1, <1>2, PayloadClock
<1>4. /\ fg_words \in 0 .. (payload_length - 1)
      /\ sent = HeadLen + fg_words + 1 /\ sop = FALSE
      /\ eop = (fg_words = payload_length - 1)
      /\ payload_length \in Nat /\ payload_length >= 1
      /\ Clk = IN_DLY + 1 + fg_words
      /\ IN_DLY \in Nat /\ IN_DLY >= 2 /\ Len(frame) = HeadLen + payload_length
  BY <1>1, <1>2, ClkFacts, FrameAssumption
     DEF GenInv, PayloadPhase, FrameFixed, Active, Clk
<1>a. eop = FALSE
  <2>1. ~(fg_words = payload_length - 1)
    BY <1>1, <1>4
  <2> QED BY <1>4, <2>1
<1>5. Clk' = Clk + 1
  <2>1. Clk' = IN_DLY + 1 + fg_words'
    BY <1>1 DEF Clk
  <2> QED BY <1>1, <1>4, <2>1
<1>6. GenData => payload_word = frame[sent + 1]
  <2> HAVE GenData
  <2>1. IN_DLY - 1 \in Stages /\ Clk > IN_DLY - 1
        /\ Clk - (IN_DLY - 1) = fg_words + 2
    BY <1>4 DEF Stages
  <2>2. AtMost(payload_length, fg_words + 2) = fg_words + 2
    BY <1>1, <1>4 DEF AtMost
  <2>3. pipe[IN_DLY - 1] = frame[HeadLen + (fg_words + 2)]
    BY <1>2, <2>1, <2>2 DEF GenData, PipeHolds
  <2>4. HeadLen + (fg_words + 2) = sent + 1
    BY <1>4, LenFacts
  <2> QED BY <2>3, <2>4 DEF payload_word
<1>7. /\ sent < Len(frame) /\ sent' \in 1 .. Len(frame)
      /\ ~(sent = 0)
      /\ (sent' = Len(frame)) <=> fg_words' = payload_length - 1
  BY <1>1, <1>3, <1>4, LenFacts
<1>8. Written' /\ Framed /\ (GenData => frame_word' = frame'[sent'])
  <2>1. sop' = (sent = 0) /\ eop' = (sent' = Len(frame))
    BY <1>1, <1>4, <1>7, <1>a
  <2>2. ~(sent' <= HeadLen)
    BY <1>3, <1>4, LenFacts
  <2> QED BY <1>1, <1>3, <1>6, <1>7, <2>1, <2>2 DEF Framed, Written
<1>9. FrameFixed' /\ HeaderPhase' /\ Between'
  BY <1>1, <1>2, <1>3 DEF GenInv, FrameFixed, HeaderPhase, Between, Active,
                          PayloadStates
<1>10. (GenData /\ Fed(next)) => GenData'
  BY <1>1, <1>2, <1>3, <1>5, <1>8, PipeNext DEF GenData
<1>11. rdreq' <=> Clk' >= 1 /\ Clk' <= payload_length'
  BY <1>1, <1>4, <1>5
<1>12. /\ fg_words' \in 0 .. (payload_length' - 1)
       /\ sent' = HeadLen + fg_words' + 1 /\ sop' = FALSE
  <2>1. fg_words' \in 0 .. (payload_length' - 1)
    BY <1>1, <1>4
  <2>2. sent' = HeadLen + fg_words' + 1
    BY <1>1, <1>3, <1>4, LenFacts
  <2>3. sop' = FALSE
    BY <1>1, <1>4
  <2> QED BY <2>1, <2>2, <2>3
<1>13. eop' = (fg_words' = payload_length' - 1)
  BY <1>1, <1>a
<1>14. PayloadPhase'
  BY <1>1, <1>4, <1>11, <1>12, <1>13 DEF PayloadPhase
<1> QED BY <1>1, <1>2, <1>3, <1>5, <1>8, <1>9, <1>10, <1>14 DEF GenInv

\* The clock after the last word of the payload: all words were read.
LEMMA GenEnd ==
  ASSUME GenInv, NEW q, NEW next, WriteEnd, FrameHistory(next, q), Sync'
  PROVE  /\ GenInv' /\ GenData' /\ Framed
         /\ fg_state' = "DONE" /\ ~rdreq /\ Got = payload_length
<1>1. /\ fg_state = "WRITE_PAYLOAD" /\ ~wrreq' /\ ~eop'
      /\ fg_words' = fg_words + 1 /\ fg_words' >= payload_length
      /\ rdreq' = (fg_words' < payload_length - IN_DLY)
      /\ fg_state' = "DONE" /\ payload_length' = payload_length
  BY DEF WriteEnd
<1>2. fg_state \in PayloadStates
  BY <1>1 DEF PayloadStates
<1>3. frame' = frame /\ sent' = sent
  BY <1>1 DEF FrameHistory
<1>4. /\ fg_words \in 0 .. (payload_length - 1)
      /\ sent = HeadLen + fg_words + 1
      /\ payload_length \in Nat /\ payload_length >= 1
      /\ Clk = IN_DLY + 1 + fg_words
      /\ rdreq <=> Clk >= 1 /\ Clk <= payload_length
      /\ IN_DLY \in Nat /\ IN_DLY >= 2 /\ Len(frame) = HeadLen + payload_length
  BY <1>1, <1>2, ClkFacts, FrameAssumption
     DEF GenInv, PayloadPhase, FrameFixed, Active, Clk
<1>5. fg_words = payload_length - 1
  BY <1>1, <1>4
<1>6. /\ sent' \in Nat /\ sent' = Len(frame') /\ Clk > payload_length + 1
      /\ ~(fg_words' < payload_length - IN_DLY)
  BY <1>1, <1>3, <1>4, <1>5, LenFacts
<1>7. rdreq' = FALSE
  <2>1. (fg_words' < payload_length - IN_DLY) = FALSE
    BY <1>6
  <2>2. rdreq' = (fg_words' < payload_length - IN_DLY)
    BY <1>1
  <2> QED BY <2>1, <2>2
<1>8. ~rdreq
  BY <1>4, <1>6
<1>9. Got = payload_length
  BY <1>4, <1>6 DEF Got, AtMost
<1>10. /\ Between' /\ FrameFixed' /\ HeaderPhase' /\ PayloadPhase' /\ Written'
       /\ GenData'
  BY <1>1, <1>6, <1>7 DEF Between, FrameFixed, HeaderPhase, PayloadPhase,
                          Written, GenData, Active, PayloadStates
<1>11. Framed
  BY <1>1, <1>3 DEF Framed
<1> QED BY <1>1, <1>8, <1>9, <1>10, <1>11 DEF GenInv

\* The clocks between two frames.
LEMMA GenDone ==
  ASSUME GenInv, NEW q, NEW next, FgDone, FrameHistory(next, q), Sync'
  PROVE  /\ GenInv' /\ GenData' /\ Framed
         /\ ~rdreq /\ fg_state' \in {"IDLE", "DONE"}
<1>1. /\ fg_state = "DONE" /\ ~wrreq' /\ ~eop' /\ rdreq' = FALSE
      /\ fg_state' \in {"IDLE", "DONE"}
  BY DEF FgDone
<1>2. frame' = frame /\ sent' = sent
  BY <1>1 DEF FrameHistory
<1>3. sent \in Nat /\ sent = Len(frame) /\ ~rdreq
  BY <1>1 DEF GenInv, Between
<1>4. /\ Between' /\ FrameFixed' /\ HeaderPhase' /\ PayloadPhase' /\ Written'
      /\ GenData'
  BY <1>1, <1>2, <1>3 DEF Between, FrameFixed, HeaderPhase, PayloadPhase,
                          Written, GenData, Active, PayloadStates
<1>5. Framed
  BY <1>1, <1>2 DEF Framed
<1> QED BY <1>1, <1>3, <1>4, <1>5 DEF GenInv

-----------------------------------------------------------------------------
(* One clock of both generators *)

\* The words read grow by those asked for.
LEMMA GotStep ==
  ASSUME GenInv, fg_state \in PayloadStates, Clk' = Clk + 1,
         payload_length' = payload_length
  PROVE  (rdreq => Got' = Got + 1) /\ (~rdreq => Got' = Got)
<1>1. /\ Clk \in Nat /\ payload_length \in Nat /\ payload_length >= 1
      /\ rdreq <=> Clk >= 1 /\ Clk <= payload_length
  BY ClkFacts DEF GenInv, PayloadPhase
<1>2. /\ Got = IF Clk <= 1 THEN 0 ELSE AtMost(payload_length, Clk - 1)
      /\ Got' = IF Clk' <= 1 THEN 0 ELSE AtMost(payload_length', Clk' - 1)
  BY DEF Got
<1>3. Got' = IF Clk + 1 <= 1 THEN 0 ELSE AtMost(payload_length, Clk)
  <2>1. Clk' - 1 = Clk
    BY <1>1
  <2> QED BY <1>2, <2>1
<1>4. CASE rdreq
  BY <1>1, <1>2, <1>3, <1>4 DEF AtMost
<1>5. CASE ~rdreq
  BY <1>1, <1>2, <1>3, <1>5 DEF AtMost
<1> QED BY <1>4, <1>5

\* What a clock does to the frame in hand, as far as its source is concerned.
Starts(q, next) ==
  /\ Got' = 0
  /\ \A k \in 1 .. payload_length' : frame'[HeadLen + k] = Payload(next + k - 1)
  /\ Enabled("UDP0") => frame'[Before("UDP0") + 1] = Word("UDP0", q)
GoesOn ==
  /\ frame' = frame /\ payload_length' = payload_length
  /\ Got \in Nat /\ payload_length \in Nat
  /\ rdreq => Got' = Got + 1 /\ Got < payload_length
  /\ ~rdreq => Got' = Got

\* No word is read before the payload.
LEMMA HeaderGot ==
  ASSUME GenInv, fg_state = "PAYLOAD_HEADER"
  PROVE  Got = 0 /\ ~rdreq /\ payload_length \in Nat
  BY DEF GenInv, HeaderPhase, FrameFixed, Active, Got, Clk

\* One clock of the two generators keeps their control; it keeps their data if
\* the FIFO delivers the words of the frame.
LEMMA GenFrame ==
  ASSUME GenInv, NEW rdy, NEW usedw \in Nat, NEW q, NEW next \in Nat,
         FgMachine(rdy, usedw), HgClock(header_start, payload_length, q),
         FrameHistory(next, q), KeepsPort(q)
  PROVE  /\ GenInv' /\ Framed
         /\ (GenData /\ Fed(next)) => GenData'
         /\ fg_state \notin Active => ~rdreq
         /\ (fg_state \notin Active /\ fg_state' \in Active) => Starts(q, next)
         /\ (fg_state \in Active /\ fg_state' \in Active) => GoesOn
<1>1. Sync'
  BY SyncStep DEF GenInv
<1>2. fg_state \notin Active => ~rdreq
  BY DEF GenInv, Sync, Between
<1>3. CASE FgIdle(rdy, usedw)
  <2>1. fg_state \notin Active /\ fg_state' \in {"IDLE", "PAYLOAD_HEADER"}
    BY <1>3 DEF FgIdle, Active, PayloadStates
  <2>2. /\ GenInv' /\ GenData' /\ Framed
        /\ fg_state' = "PAYLOAD_HEADER" =>
              /\ \A k \in 1 .. payload_length' :
                   frame'[HeadLen + k] = Payload(next + k - 1)
              /\ Enabled("UDP0") => frame'[Before("UDP0") + 1] = Word("UDP0", q)
    BY <1>1, <1>3, GenIdle
  <2>3. fg_state' = "PAYLOAD_HEADER" => Got' = 0
    BY DEF Got, Clk
  <2> QED BY <1>2, <2>1, <2>2, <2>3 DEF Starts, Active, PayloadStates
<1>4. CASE FgHeader /\ hg_state # "DONE"
  <2>1. /\ GenInv' /\ GenData' /\ Framed
        /\ frame' = frame /\ payload_length' = payload_length
        /\ fg_state' = "PAYLOAD_HEADER"
    BY <1>1, <1>4, GenHeaderMore
  <2>2. fg_state = "PAYLOAD_HEADER"
    BY <1>4 DEF FgHeader
  <2>3. Got = 0 /\ ~rdreq /\ payload_length \in Nat
    BY <2>2, HeaderGot
  <2>4. Got' = 0
    BY <2>1 DEF Got, Clk
  <2> QED BY <2>1, <2>2, <2>3, <2>4 DEF GoesOn, Active
<1>5. CASE FgHeader /\ hg_state = "DONE"
  <2>1. /\ GenInv' /\ GenData' /\ Framed
        /\ frame' = frame /\ payload_length' = payload_length
        /\ ~rdreq /\ Got = 0 /\ Got' = 0
    BY <1>1, <1>5, GenHeaderEnd
  <2>2. fg_state = "PAYLOAD_HEADER"
    BY <1>5 DEF FgHeader
  <2>3. payload_length \in Nat
    BY <2>2, HeaderGot
  <2> QED BY <2>1, <2>2, <2>3 DEF GoesOn, Active
<1>6. CASE FgWait \/ FgStart \/ WriteMore
  <2>1. fg_state \in PayloadStates
    BY <1>6 DEF FgWait, FgStart, WriteMore, PayloadStates
  <2>2. /\ GenInv'
        /\ ((GenData /\ Fed(next)) => GenData') /\ Framed
        /\ frame' = frame /\ payload_length' = payload_length
        /\ Clk' = Clk + 1
    <3>1. CASE FgWait
      BY <1>1, <3>1, GenWait
    <3>2. CASE FgStart
      BY <1>1, <3>2, GenStart
    <3>3. CASE WriteMore
      BY <1>1, <3>3, GenMore
    <3> QED BY <1>6, <3>1, <3>2, <3>3
  <2>3. GoesOn
    BY <2>1, <2>2, ClkFacts, GotStep DEF GoesOn
  <2> QED BY <2>1, <2>2, <2>3 DEF Active
<1>7. CASE WriteEnd
  <2>1. fg_state = "WRITE_PAYLOAD"
    BY <1>7 DEF WriteEnd
  <2>2. GenInv' /\ GenData' /\ Framed /\ fg_state' = "DONE"
    BY <1>1, <1>7, GenEnd
  <2> QED BY <2>1, <2>2 DEF Active, PayloadStates
<1>8. CASE FgDone
  <2>1. fg_state = "DONE"
    BY <1>8 DEF FgDone
  <2>2. GenInv' /\ GenData' /\ Framed /\ fg_state' \in {"IDLE", "DONE"}
    BY <1>1, <1>8, GenDone
  <2> QED BY <1>2, <2>1, <2>2 DEF Active, PayloadStates
<1> QED BY <1>2, <1>3, <1>4, <1>5, <1>6, <1>7, <1>8 DEF FgMachine

\* It is a step of the line but for the payload's contents, and those are the
\* frame's if the FIFO delivers them.
LEMMA GenStep ==
  ASSUME GenInv, NEW rdy, NEW usedw \in Nat, NEW q, NEW next \in Nat,
         FgMachine(rdy, usedw), HgClock(header_start, payload_length, q),
         FrameHistory(next, q), KeepsPort(q)
  PROVE  /\ GenInv' /\ Marks!LinkNext
         /\ (GenData /\ Fed(next)) => GenData' /\ Link!LinkNext
         /\ fg_state \notin Active => ~rdreq
         /\ (fg_state \notin Active /\ fg_state' \in Active) => Starts(q, next)
         /\ (fg_state \in Active /\ fg_state' \in Active) => GoesOn
<1>1. /\ GenInv' /\ Framed
      /\ (GenData /\ Fed(next)) => GenData'
      /\ fg_state \notin Active => ~rdreq
      /\ (fg_state \notin Active /\ fg_state' \in Active) => Starts(q, next)
      /\ (fg_state \in Active /\ fg_state' \in Active) => GoesOn
  BY GenFrame
<1>2. ASSUME wrreq', ~InPayload'
      PROVE  frame_word' = frame'[sent']
  <2>1. /\ fg_state \in Active /\ payload_length' = payload_length
    BY <1>2 DEF FgMachine, FgIdle, FgHeader, FgWait, FgStart, WriteMore, WriteEnd,
                FgDone, Active, PayloadStates
  <2>2. frame' = frame
    BY <2>1 DEF FrameHistory, Active, PayloadStates
  <2>3. Len(frame) = HeadLen + payload_length /\ payload_length \in Nat
    BY <2>1 DEF GenInv, FrameFixed
  <2>4. sent' \in 1 .. Len(frame) /\ (sent' <= HeadLen => frame_word' = frame'[sent'])
    BY <1>1, <1>2, <2>2 DEF GenInv, Written
  <2>5. ~(sent' > Len(frame) - payload_length)
    BY <1>2, <2>1, <2>2 DEF InPayload
  <2>6. sent' <= HeadLen
    <3>1. PICK t \in Nat, L \in Nat, H \in Nat :
            t = sent' /\ L = payload_length /\ H = HeadLen
      BY <2>3, <2>4, LenFacts
    <3>2. ~(t > H + L - L)
      BY <2>3, <2>5, <3>1
    <3>3. t <= H
      BY <3>2
    <3> QED BY <3>1, <3>3
  <2> QED BY <2>4, <2>6
<1>3. Marks!LinkNext
  BY <1>1, <1>2, FramedMarks
<1>4. GenData' => Link!LinkNext
  BY <1>1, FramedLink DEF GenData
<1> QED BY <1>1, <1>3, <1>4

\* A reset cuts the frame short.
LEMMA GenReset ==
  ASSUME ~header_start, FgReset, HgReset
  PROVE  /\ GenInv' /\ GenData' /\ Link!LinkNext /\ Marks!LinkNext
         /\ fg_state' = "IDLE"
<1>1. /\ fg_state' = "IDLE" /\ wrreq' = FALSE /\ rdreq' = FALSE /\ eop' = FALSE
      /\ frame' = <<>> /\ sent' = 0 /\ header_start' = header_start
      /\ hg_state' = "IDLE" /\ header_valid' = FALSE /\ header_done' = FALSE
  BY DEF FgReset, HgReset
<1>2. Link!LinkNext /\ Marks!LinkNext
  <2>1. Framed
    BY <1>1 DEF Framed
  <2> QED BY <1>1, <2>1, FramedLink, FramedMarks
<1>3. /\ Sync' /\ FrameFixed' /\ HeaderPhase' /\ PayloadPhase' /\ Written'
      /\ GenData'
  BY <1>1, IdleFacts DEF Sync, FrameFixed, HeaderPhase, PayloadPhase, Written,
                         GenData, Active, PayloadStates
<1>4. Between'
  BY <1>1 DEF Between
<1> QED BY <1>1, <1>2, <1>3, <1>4 DEF GenInv

\* The generators start idle, and the line quiet.
LEMMA GenInit ==
  ASSUME FgInit, HgInit
  PROVE  /\ GenInv /\ GenData /\ Link!LinkInit /\ Marks!LinkInit
         /\ fg_state = "IDLE"
<1>1. /\ fg_state = "IDLE" /\ wrreq = FALSE /\ rdreq = FALSE /\ eop = FALSE
      /\ frame = <<>> /\ sent = 0 /\ header_start = FALSE
      /\ hg_state = "IDLE" /\ header_valid = FALSE /\ header_done = FALSE
  BY DEF FgInit, HgInit
<1>2. Link!LinkInit /\ Marks!LinkInit
  BY <1>1 DEF Link!LinkInit, Link!Quiet, Marks!LinkInit, Marks!Quiet
<1>3. /\ Sync /\ FrameFixed /\ HeaderPhase /\ PayloadPhase /\ Written
      /\ GenData
  BY <1>1, IdleFacts DEF Sync, FrameFixed, HeaderPhase, PayloadPhase, Written,
                         GenData, Active, PayloadStates
<1>4. Between
  BY <1>1 DEF Between
<1> QED BY <1>1, <1>2, <1>3, <1>4 DEF GenInv

\* A step that leaves the generators alone.
LEMMA GenStutter ==
  ASSUME UNCHANGED <<hgVars, fgVars>>
  PROVE  GenInv' = GenInv /\ GenData' = GenData /\ Got' = Got
<1>1. UNCHANGED <<hg_state, header_data, header_valid, header_done, ip_header>>
  BY DEF hgVars
<1>2. UNCHANGED <<fg_state, payload_length, delay_counter, frame_size, fg_words,
                  rdreq, wrreq, sop, eop, frame_word, header_start, pipe, frame,
                  sent>>
  BY DEF fgVars
<1>3. Clk' = Clk
  BY <1>2 DEF Clk
<1>4. Got' = Got
  BY <1>2, <1>3 DEF Got
<1>5. PipeHolds' = PipeHolds
  BY <1>2, <1>3 DEF PipeHolds
<1>6. Sync' = Sync /\ FrameFixed' = FrameFixed /\ HeaderPhase' = HeaderPhase
  BY <1>1, <1>2 DEF Sync, FrameFixed, HeaderPhase
<1>7. PayloadPhase' = PayloadPhase /\ Between' = Between /\ Written' = Written
  BY <1>2, <1>3 DEF PayloadPhase, Between, Written
<1>8. GenData' = GenData
  BY <1>2, <1>5 DEF GenData
<1> QED BY <1>4, <1>6, <1>7, <1>8 DEF GenInv

-----------------------------------------------------------------------------
(* The generators behind the FIFO of FrameStream *)

\* The FIFO delivers the words of the frame.
LEMMA StreamFeeds ==
  ASSUME StreamInv
  PROVE  Feeds(taken + 1, rdreq) /\ KeepsPort(0)
<1>1. ASSUME rdreq
      PROVE  Payload(taken + 1) = frame[HeadLen + Got + 1]
  <2>1. fg_state \in PayloadStates
    BY <1>1, HeaderGot DEF StreamInv, GenInv, Sync, Between, Active
  <2>2. Got \in Nat /\ Got < payload_length /\ payload_length \in Nat
    BY <1>1, <2>1, ClkFacts DEF StreamInv
  <2>3. /\ taken \in Nat
        /\ \A k \in 1 .. payload_length :
             frame[HeadLen + k] = Payload(taken - Got + k)
    BY <2>1 DEF StreamInv, Source, Active
  <2>4. frame[HeadLen + (Got + 1)] = Payload(taken - Got + (Got + 1))
    BY <2>2, <2>3
  <2>5. taken - Got + (Got + 1) = taken + 1 /\ HeadLen + (Got + 1) = HeadLen + Got + 1
    BY <2>2, <2>3, LenFacts
  <2> QED BY <2>4, <2>5
<1>2. ASSUME hg_state = "UDP0", Enabled("UDP0")
      PROVE  frame[Before("UDP0") + 1] = Word("UDP0", 0)
  <2>1. fg_state \in Active
    BY <1>2 DEF StreamInv, GenInv, Sync, Active
  <2> QED BY <1>2, <2>1 DEF StreamInv, Source
<1> QED BY <1>1, <1>2 DEF Feeds, KeepsPort

\* A clock keeps the invariant and is a step of the line.
LEMMA StreamTickStep ==
  ASSUME StreamInv, StreamTick
  PROVE  StreamInv' /\ Link!LinkNext
<1>1. PICK rdy \in BOOLEAN, usedw \in 0 .. MaxUsed :
        /\ FgClock(rdy, usedw, 0, taken + 1, rdreq)
        /\ taken' = IF rdreq THEN taken + 1 ELSE taken
  BY DEF StreamTick
<1>2. usedw \in Nat /\ taken \in Nat /\ taken + 1 \in Nat
  BY StreamAssumption DEF StreamInv
<1>3. /\ GenInv' /\ GenData' /\ Link!LinkNext
      /\ fg_state \notin Active => ~rdreq
      /\ (fg_state \notin Active /\ fg_state' \in Active) => Starts(0, taken + 1)
      /\ (fg_state \in Active /\ fg_state' \in Active) => GoesOn
  <2>1. /\ FgMachine(rdy, usedw) /\ HgClock(header_start, payload_length, 0)
        /\ FrameHistory(taken + 1, 0)
    BY <1>1 DEF FgClock
  <2>2. Fed(taken + 1) /\ KeepsPort(0)
    <3>1. Pipeline(rdreq, Payload(taken + 1))
      BY <1>1 DEF FgClock
    <3> QED BY <3>1, StreamFeeds DEF Fed
  <2> QED BY <1>2, <2>1, <2>2, GenStep DEF StreamInv
<1>4. taken' \in Nat
  BY <1>1, <1>2
<1>5. ASSUME fg_state \notin Active, fg_state' \in Active
      PROVE  Source'
  <2>1. taken' = taken /\ Starts(0, taken + 1)
    BY <1>1, <1>3, <1>5
  <2>2. Got' = 0 /\ Got' <= taken' /\ taken' - Got' = taken
    BY <1>2, <2>1 DEF Starts
  <2>3. \A k \in 1 .. payload_length' :
          frame'[HeadLen + k] = Payload(taken' - Got' + k)
    <3> SUFFICES ASSUME NEW k \in 1 .. payload_length'
                 PROVE  frame'[HeadLen + k] = Payload(taken' - Got' + k)
      OBVIOUS
    <3>1. frame'[HeadLen + k] = Payload(taken + 1 + k - 1)
      BY <2>1 DEF Starts
    <3>2. taken + 1 + k - 1 = taken + k
      BY <1>2
    <3> QED BY <2>2, <3>1, <3>2
  <2> QED BY <1>4, <2>1, <2>2, <2>3 DEF Source, Starts
<1>6. ASSUME fg_state \in Active, fg_state' \in Active
      PROVE  Source'
  <2>1. /\ GoesOn /\ Got <= taken
        /\ \A k \in 1 .. payload_length :
             frame[HeadLen + k] = Payload(taken - Got + k)
        /\ Enabled("UDP0") => frame[Before("UDP0") + 1] = Word("UDP0", 0)
    BY <1>3, <1>6 DEF StreamInv, Source
  <2>2. /\ frame' = frame /\ payload_length' = payload_length
        /\ Got \in Nat /\ (rdreq => Got' = Got + 1) /\ (~rdreq => Got' = Got)
    BY <2>1 DEF GoesOn
  <2>3. Got' <= taken' /\ taken' - Got' = taken - Got
    BY <1>1, <1>2, <2>1, <2>2
  <2>4. \A k \in 1 .. payload_length' :
          frame'[HeadLen + k] = Payload(taken' - Got' + k)
    BY <2>1, <2>2, <2>3
  <2> QED BY <1>4, <2>1, <2>2, <2>3, <2>4 DEF Source
<1>7. fg_state' \notin Active => Source'
  BY DEF Source
<1> QED BY <1>3, <1>4, <1>5, <1>6, <1>7 DEF StreamInv

\* So does a reset.
LEMMA StreamResetStep ==
  ASSUME StreamInv, StreamReset
  PROVE  StreamInv' /\ Link!LinkNext
<1>1. GenInv' /\ GenData' /\ Link!LinkNext /\ fg_state' = "IDLE"
  BY GenReset DEF StreamReset
<1>2. taken' \in Nat
  BY DEF StreamReset
<1> QED BY <1>1, <1>2 DEF StreamInv, Source, Active, PayloadStates

\* The invariant holds initially, and the line is quiet.
LEMMA StreamInitInv ==
  ASSUME StreamInit
  PROVE  StreamInv /\ Link!LinkInit
<1>1. GenInv /\ GenData /\ Link!LinkInit /\ fg_state = "IDLE"
  BY GenInit DEF StreamInit
<1>2. taken \in Nat
  BY DEF StreamInit
<1> QED BY <1>1, <1>2 DEF StreamInv, Source, Active, PayloadStates

\* A step that changes nothing keeps it.
LEMMA StreamStutter ==
  ASSUME StreamInv, UNCHANGED streamVars
  PROVE  StreamInv'
<1>1. UNCHANGED <<hgVars, fgVars>> /\ taken' = taken
  BY DEF streamVars
<1>2. GenInv' /\ GenData' /\ Got' = Got
  BY <1>1, GenStutter DEF StreamInv
<1>3. UNCHANGED <<fg_state, payload_length, frame>>
  BY <1>1 DEF fgVars
<1> QED BY <1>1, <1>2, <1>3 DEF StreamInv, Source

\* Header and frame generator keep in step, and the frame being sent is the
\* header for its length and the FIFO's next words, for every header
\* configuration, payload length and delay.
THEOREM StreamInvariance == StreamSpec => []StreamInv
<1>1. StreamInit => StreamInv
  BY StreamInitInv
<1>2. StreamInv /\ [StreamNext]_streamVars => StreamInv'
  BY StreamTickStep, StreamResetStep, StreamStutter DEF StreamNext
<1> QED BY <1>1, <1>2, PTL DEF StreamSpec

\* What the MAC sees is whole frames, each word in order and once, with
\* start and end of packet on the first and the last: the two generators
\* implement FrameLink (ethernet_frame_generator.vhd).
THEOREM FramesWhole == StreamSpec => WholeFrames
<1>1. StreamInit => Link!LinkInit
  BY StreamInitInv
<1>2. StreamInv /\ [StreamNext]_streamVars =>
        [Link!LinkNext]_<<[valid |-> wrreq, sop |-> sop, eop |-> eop,
                           word |-> frame_word], frame, sent>>
  BY StreamTickStep, StreamResetStep DEF StreamNext, streamVars, fgVars
<1> QED BY <1>1, <1>2, StreamInvariance, PTL
        DEF StreamSpec, WholeFrames, Link!LinkSpec

-----------------------------------------------------------------------------
(***************************************************************************)
(* The checksum.  The computer takes eight clocks from header_start, the   *)
(* header generator reaches the checksum word in the ninth only because    *)
(* the Ethernet header comes first.  The configuration of the UDP and ICMP *)
(* blocks is a constant with both headers; that of the data block is a     *)
(* register, which must not enable the IPv4 header alone.                  *)
(***************************************************************************)
EthBeforeIp == "IP" \in HeaderConfig => "ETH" \in HeaderConfig

\* One state of the header generator is one clock of the computer.
LEMMA StepAfter ==
  ASSUME EthBeforeIp, "IP" \in HeaderConfig,
         NEW s \in WordStates \cup Pauses
  PROVE  /\ StepAt(s) \in -1 .. 7
         /\ StepAt(s) \in 0 .. 6 => StepAt(After(s)) = StepAt(s) + 1
         /\ StepAt(s) \in {-1, 7} => StepAt(After(s)) = -1
         /\ After(s) = "IP2" => StepAt(s) = 7
<1> USE DEF EthBeforeIp, StepAt, After, SegmentEnds
<1>1. CASE s \in {"ETH0", "ETH1", "ETH2"}
  BY <1>1 DEF WithinSegment
<1>2. CASE s = "ETH3"
  BY <1>2 DEF f_next_state
<1>3. CASE s \in {"IP0", "IP1", "IP_PAUSE0", "IP_PAUSE1"}
  BY <1>3 DEF WithinSegment
<1>4. CASE s \in {"IP2", "IP3", "UDP0"}
  BY <1>4 DEF WithinSegment
<1>5. CASE s \in {"IP4", "UDP1", "HD0"}
  BY <1>5 DEF f_next_state
<1> QED BY <1>1, <1>2, <1>3, <1>4, <1>5
        DEF WordStates, EthStates, IpStates, UdpStates, Pauses

\* What each clock of the computer does.
LEMMA ChecksumClock ==
  ASSUME NEW start, NEW L, NEW q, HgClock(start, L, q), step \in -1 .. 7
  PROVE  /\ step = -1 => sum' = {}
         /\ step = -1 /\ start => step' = 0
         /\ step = -1 /\ ~start => step' = -1
         /\ step \in 0 .. 4 => step' = step + 1 /\ sum' = sum \cup {ip_header}
         /\ step \in 5 .. 6 => step' = step + 1 /\ sum' = sum
         /\ step = 7 => step' = -1 /\ ip_checksum' = sum
<1>1. CASE ChecksumWait(start)
  BY <1>1 DEF ChecksumWait
<1>2. CASE ChecksumAdd
  BY <1>2 DEF ChecksumAdd
<1>3. CASE ChecksumFold
  BY <1>3 DEF ChecksumFold
<1>4. CASE ChecksumDone
  BY <1>4 DEF ChecksumDone
<1> QED BY <1>1, <1>2, <1>3, <1>4 DEF HgClock

\* A clock keeps the computer in step with the header.
LEMMA ChecksumStep ==
  ASSUME EthBeforeIp, Sync, ChecksumInv, NEW q,
         HgClock(header_start, payload_length, q)
  PROVE  ChecksumInv'
<1> SUFFICES ASSUME "IP" \in HeaderConfig
             PROVE  /\ step' = StepAt(hg_state')
                    /\ step' = 0 => sum' = {}
                    /\ step' \in 1 .. 7 => sum' = {ip_header'}
                    /\ hg_state' = "IP2" => ip_checksum' = {ip_header'}
  BY DEF ChecksumInv, ChecksumOfThisHeader
<1>1. /\ step = StepAt(hg_state)
      /\ step = 0 => sum = {}
      /\ step \in 1 .. 7 => sum = {ip_header}
  BY DEF ChecksumInv
<1>2. CASE hg_state = "IDLE"
  <2>1. step = -1
    BY <1>1, <1>2 DEF StepAt
  <2>2. /\ sum' = {} /\ (header_start => step' = 0) /\ (~header_start => step' = -1)
    BY <2>1, ChecksumClock
  <2>3. /\ header_start => hg_state' = f_next_state("IDLE")
        /\ ~header_start => hg_state' = "IDLE"
    <3>1. HgIdle(header_start, payload_length)
      BY <1>2, WordStatesFact, StatesApart DEF HgClock, HgWord, HgPause, HgDone
    <3> QED BY <3>1 DEF HgIdle
  <2>4. f_next_state("IDLE") = "ETH0"
    BY DEF f_next_state, EthBeforeIp
  <2>5. StepAt("ETH0") = 0 /\ StepAt("IDLE") = -1
    BY DEF StepAt
  <2> QED BY <2>2, <2>3, <2>4, <2>5
<1>3. CASE hg_state \in WordStates \cup Pauses
  <2>1. Enabled(hg_state) /\ ~header_start /\ ~header_done
    BY <1>3, StatesApart DEF Sync
  <2>2. hg_state' = After(hg_state) /\ ip_header' = ip_header
    <3>1. CASE hg_state \in WordStates
      BY <2>1, <3>1, HgWordStep
    <3>2. CASE hg_state \in Pauses
      BY <2>1, <3>2, HgPauseStep
    <3> QED BY <1>3, <3>1, <3>2
  <2>3. /\ step \in -1 .. 7
        /\ step \in 0 .. 6 => StepAt(hg_state') = step + 1
        /\ step \in {-1, 7} => StepAt(hg_state') = -1
        /\ hg_state' = "IP2" => step = 7
    BY <1>1, <1>3, <2>2, StepAfter
  <2>4. CASE step = -1
    <3>1. step' = -1
      BY <2>1, <2>3, <2>4, ChecksumClock
    <3> QED BY <2>3, <2>4, <3>1
  <2>5. CASE step \in 0 .. 4
    <3>1. step' = step + 1 /\ sum' = sum \cup {ip_header}
      BY <2>3, <2>5, ChecksumClock
    <3>2. sum = {} \/ sum = {ip_header}
      BY <1>1, <2>5
    <3>3. sum' = {ip_header'}
      BY <2>2, <3>1, <3>2
    <3> QED BY <2>3, <2>5, <3>1, <3>3
  <2>6. CASE step \in 5 .. 6
    <3>1. step' = step + 1 /\ sum' = sum
      BY <2>3, <2>6, ChecksumClock
    <3> QED BY <1>1, <2>2, <2>3, <2>6, <3>1
  <2>7. CASE step = 7
    <3>1. step' = -1 /\ ip_checksum' = sum
      BY <2>3, <2>7, ChecksumClock
    <3> QED BY <1>1, <2>2, <2>3, <2>7, <3>1
  <2> QED BY <2>3, <2>4, <2>5, <2>6, <2>7
<1>4. CASE hg_state = "DONE"
  <2>1. step = -1 /\ ~header_start
    BY <1>1, <1>4 DEF StepAt, Sync
  <2>2. hg_state' = "IDLE"
    BY <1>4, HgDoneStep
  <2>3. step' = -1
    BY <2>1, ChecksumClock
  <2> QED BY <2>2, <2>3 DEF StepAt
<1> QED BY <1>2, <1>3, <1>4 DEF Sync, HgStates

\* The checksum word of every IPv4 header is computed from that header, not
\* from the one before it or from one the length changed under (the comment
\* "Register our data before we start header generating to guarantee
\* checksum validity" in ethernet_header_generator.vhd).
THEOREM ChecksumIsOwn ==
  ASSUME EthBeforeIp
  PROVE  StreamSpec => []ChecksumOfThisHeader
<1>1. StreamInit => ChecksumInv
  <2>1. StreamInit => /\ step = -1 /\ hg_state = "IDLE"
    BY DEF StreamInit, HgInit
  <2> QED BY <2>1 DEF ChecksumInv, ChecksumOfThisHeader, StepAt
<1>2. StreamInv /\ ChecksumInv /\ [StreamNext]_streamVars => ChecksumInv'
  <2> SUFFICES ASSUME StreamInv, ChecksumInv, [StreamNext]_streamVars
               PROVE  ChecksumInv'
    OBVIOUS
  <2>1. CASE StreamTick
    <3>1. HgClock(header_start, payload_length, 0)
      BY <2>1 DEF StreamTick, FgClock
    <3> QED BY <3>1, ChecksumStep DEF StreamInv, GenInv
  <2>2. CASE StreamReset
    <3>1. step' = -1 /\ hg_state' = "IDLE"
      BY <2>2 DEF StreamReset, HgReset
    <3> QED BY <3>1 DEF ChecksumInv, ChecksumOfThisHeader, StepAt
  <2>3. CASE UNCHANGED streamVars
    <3>1. UNCHANGED <<step, sum, ip_header, ip_checksum, hg_state>>
      BY <2>3 DEF streamVars, hgVars
    <3> QED BY <3>1 DEF ChecksumInv, ChecksumOfThisHeader
  <2> QED BY <2>1, <2>2, <2>3 DEF StreamNext
<1>3. StreamInv /\ ChecksumInv => ChecksumOfThisHeader
  BY DEF StreamInv, GenInv, Sync, Enabled, IpStates, ChecksumInv,
         ChecksumOfThisHeader
<1> QED BY <1>1, <1>2, <1>3, StreamInvariance, PTL DEF StreamSpec

-----------------------------------------------------------------------------
(***************************************************************************)
(* The arithmetic of the checksum, for every width of the half words and   *)
(* every header: which headers go out with a checksum that the receiver    *)
(* rejects.                                                                *)
(***************************************************************************)
(* Quotients and remainders *)

\* Quotient and remainder exist.
LEMMA DivMod ==
  ASSUME NEW M \in Nat, M > 0, NEW a \in Nat
  PROVE  /\ a \div M \in Nat /\ a % M \in 0 .. (M - 1)
         /\ a = (a \div M) * M + (a % M)
  OBVIOUS

\* A product of a number and a larger one.
LEMMA Larger ==
  ASSUME NEW M \in Nat, NEW i \in Nat, NEW q \in Nat, i < q
  PROVE  i * M + M <= q * M
<1>1. i + 1 <= q
  OBVIOUS
<1>2. (i + 1) * M <= q * M
  BY <1>1
<1>3. (i + 1) * M = i * M + M
  OBVIOUS
<1> QED BY <1>2, <1>3

\* They are the only ones.
LEMMA DivModIs ==
  ASSUME NEW M \in Nat, M > 0, NEW q \in Nat, NEW r \in 0 .. (M - 1),
         NEW a \in Nat, a = q * M + r
  PROVE  a \div M = q /\ a % M = r
<1>1. PICK p \in Nat, t \in 0 .. (M - 1) :
        p = a \div M /\ t = a % M /\ q * M + r = p * M + t
  BY DivMod
<1>2. CASE p < q
  <2>1. p * M + M <= q * M
    BY <1>2, Larger
  <2> QED BY <1>1, <2>1
<1>3. CASE q < p
  <2>1. q * M + M <= p * M
    BY <1>3, Larger
  <2> QED BY <1>1, <2>1
<1>4. CASE p = q
  BY <1>1, <1>4
<1> QED BY <1>2, <1>3, <1>4

-----------------------------------------------------------------------------
(* The sum *)

\* The ranges.
LEMMA RangeFacts ==
  /\ HalfRange \in Nat /\ HalfRange >= 10 /\ HighRange \in Nat /\ HighRange >= 10
  /\ HalfRange * HighRange \in Nat /\ 10 * HalfRange <= HalfRange * HighRange
<1>1. /\ HalfRange \in Nat /\ HalfRange >= 10 /\ HighRange \in Nat /\ HighRange >= 10
  BY ChecksumAssumption
<1>2. HalfRange * HighRange = HighRange * HalfRange /\ HalfRange * HighRange \in Nat
  BY <1>1
<1>3. CASE HighRange = 10
  BY <1>1, <1>2, <1>3
<1>4. CASE HighRange > 10
  <2>1. 10 * HalfRange + HalfRange <= HighRange * HalfRange
    BY <1>1, <1>4, Larger
  <2> QED BY <1>1, <1>2, <2>1
<1> QED BY <1>1, <1>2, <1>3, <1>4

\* A sum that fits is what it is.
LEMMA SumFits ==
  ASSUME NEW s \in Nat, s < 10 * HalfRange
  PROVE  s % (HalfRange * HighRange) = s
<1>1. PICK M \in Nat : M = HalfRange * HighRange /\ M > 0 /\ s \in 0 .. (M - 1)
  BY RangeFacts
<1>2. s = 0 * M + s
  BY <1>1
<1>3. s % M = s
  BY <1>1, <1>2, DivModIs
<1> QED BY <1>1, <1>3

-----------------------------------------------------------------------------
(* Folding *)

Folded(s) == (Low(s) + High(s)) % HalfRange

\* The parts of a sum of ten half words.
LEMMA Parts ==
  ASSUME NEW t \in Nat, t < 10 * HalfRange
  PROVE  /\ Low(t) \in 0 .. (HalfRange - 1) /\ High(t) \in 0 .. 9
         /\ t = High(t) * HalfRange + Low(t)
<1>1. PICK B \in Nat : B = HalfRange /\ B >= 10
  BY RangeFacts
<1>2. PICK q \in Nat, r \in 0 .. (B - 1) :
        q = t \div B /\ r = t % B /\ t = q * B + r
  BY <1>1, DivMod
<1>3. q <= 9
  <2> SUFFICES ASSUME 9 < q PROVE FALSE
    OBVIOUS
  <2>1. 9 * B + B <= q * B
    BY Larger
  <2> QED BY <1>1, <1>2, <2>1
<1>4. PICK R \in Nat : R = HighRange /\ R >= 10
  BY RangeFacts
<1>5. q = 0 * R + q /\ q \in 0 .. (R - 1)
  BY <1>3, <1>4
<1>6. q % R = q
  BY <1>4, <1>5, DivModIs
<1>7. Low(t) = r /\ High(t) = q
  BY <1>1, <1>2, <1>4, <1>6 DEF Low, High
<1>8. q \in 0 .. 9
  BY <1>3
<1> QED BY <1>1, <1>2, <1>7, <1>8

\* Folding such a sum adds its parts, or drops the carry of doing so.
LEMMA FoldIs ==
  ASSUME NEW t \in Nat, t < 10 * HalfRange
  PROVE  /\ Folded(t) \in 0 .. (HalfRange - 1)
         /\ Low(t) + High(t) < HalfRange => Folded(t) = Low(t) + High(t)
         /\ Low(t) + High(t) >= HalfRange => Folded(t) = Low(t) + High(t) - HalfRange
<1>1. PICK B \in Nat : B = HalfRange /\ B >= 10
  BY RangeFacts
<1>2. PICK r \in 0 .. (B - 1), q \in 0 .. 9 : r = Low(t) /\ q = High(t)
  BY <1>1, Parts
<1>3. CASE r + q < B
  <2>1. r + q \in Nat /\ r + q \in 0 .. (B - 1) /\ r + q = 0 * B + (r + q)
    BY <1>3
  <2>2. (r + q) % B = r + q
    BY <1>1, <2>1, DivModIs
  <2> QED BY <1>1, <1>2, <1>3, <2>1, <2>2 DEF Folded
<1>4. CASE r + q >= B
  <2>1. /\ r + q \in Nat /\ r + q - B \in 0 .. (B - 1)
        /\ r + q = 1 * B + (r + q - B)
    BY <1>1, <1>4
  <2>2. (r + q) % B = r + q - B
    BY <1>1, <2>1, DivModIs
  <2> QED BY <1>1, <1>2, <1>4, <2>1, <2>2 DEF Folded
<1> QED BY <1>3, <1>4

\* Folding a half word leaves it alone.
LEMMA FoldAgain ==
  ASSUME NEW s \in 0 .. (HalfRange - 1)
  PROVE  Folded(s) = s /\ Low(s) = s
<1>1. PICK B \in Nat : B = HalfRange /\ B >= 10
  BY RangeFacts
<1>2. s \in Nat /\ s < 10 * HalfRange /\ s = 0 * B + s /\ s \in 0 .. (B - 1)
  BY <1>1
<1>3. s \div B = 0 /\ s % B = s
  BY <1>1, <1>2, DivModIs
<1>4. PICK R \in Nat : R = HighRange /\ R >= 10
  BY RangeFacts
<1>5. 0 % R = 0
  <2>1. 0 = 0 * R + 0 /\ 0 \in 0 .. (R - 1)
    BY <1>4
  <2> QED BY <1>4, <2>1, DivModIs
<1>6. Low(s) = s /\ High(s) = 0
  BY <1>1, <1>3, <1>4, <1>5 DEF Low, High
<1>7. s + 0 = s
  BY <1>2
<1> QED BY <1>1, <1>3, <1>6, <1>7 DEF Folded

\* The complement of the folded sum is accepted if and only if no carry was
\* dropped: with one the total is one more than a multiple.
LEMMA AcceptedIff ==
  ASSUME NEW t \in Nat, t < 10 * HalfRange
  PROVE  /\ HalfRange - 1 - Folded(t) \in Nat
         /\ (t + (HalfRange - 1 - Folded(t))) % (HalfRange - 1) = 0
              <=> ~(Low(t) + High(t) >= HalfRange)
<1>0. HalfRange - 1 \in Nat /\ HalfRange - 1 >= 9 /\ HalfRange = (HalfRange - 1) + 1
  BY RangeFacts
<1>1. PICK M \in Nat : M = HalfRange - 1 /\ M >= 9 /\ HalfRange = M + 1
  BY <1>0
<1>2. PICK r \in 0 .. M, q \in 0 .. 9 :
        r = Low(t) /\ q = High(t) /\ t = q * (M + 1) + r
  BY <1>1, Parts
<1>3. PICK f \in 0 .. M : f = Folded(t)
  BY <1>1, FoldIs
<1>4. /\ HalfRange - 1 - Folded(t) = M - f /\ M - f \in Nat
      /\ Low(t) + High(t) >= HalfRange <=> r + q >= M + 1
  <2>1. HalfRange - 1 - Folded(t) = M - f
    BY <1>1, <1>3
  <2>2. M - f \in Nat
    OBVIOUS
  <2>3. Low(t) + High(t) >= HalfRange <=> r + q >= M + 1
    BY <1>1, <1>2
  <2> QED BY <2>1, <2>2, <2>3
<1>5. PICK x \in Nat : x = q * M
  OBVIOUS
<1>6. q * (M + 1) = x + q
  BY <1>5
<1>7. t = x + q + r
  BY <1>2, <1>6
<1>8. CASE r + q < M + 1
  <2>1. f = r + q
    BY <1>1, <1>2, <1>3, <1>8, FoldIs
  <2>2. t + (M - f) = x + M
    BY <1>7, <2>1
  <2>3. (q + 1) * M = x + M
    BY <1>5
  <2>4. x + M \in Nat /\ x + M = (q + 1) * M + 0 /\ q + 1 \in Nat
    BY <2>3
  <2>5. M > 0 /\ 0 \in 0 .. (M - 1)
    BY <1>1
  <2>6. (x + M) % M = 0
    BY <2>4, <2>5, DivModIs
  <2>7. ~(r + q >= M + 1)
    BY <1>8
  <2> QED BY <1>1, <1>4, <2>2, <2>6, <2>7
<1>9. CASE r + q >= M + 1
  <2>1. f = r + q - (M + 1)
    BY <1>1, <1>2, <1>3, <1>9, FoldIs
  <2>2. t + (M - f) = x + (M + M) + 1
    BY <1>7, <2>1
  <2>3. (q + 2) * M = x + (M + M)
    BY <1>5
  <2>4. /\ x + (M + M) + 1 \in Nat /\ x + (M + M) + 1 = (q + 2) * M + 1
        /\ q + 2 \in Nat
    BY <2>3
  <2>5. M > 0 /\ 1 \in 0 .. (M - 1)
    BY <1>1
  <2>6. (x + (M + M) + 1) % M = 1
    BY <2>4, <2>5, DivModIs
  <2> QED BY <1>1, <1>4, <1>9, <2>2, <2>6
<1>10. r + q < M + 1 \/ r + q >= M + 1
  OBVIOUS
<1> QED BY <1>8, <1>9, <1>10

-----------------------------------------------------------------------------
(***************************************************************************)
(* The inductive invariant: how far the sum has got at each step.          *)
(***************************************************************************)
\* The sum of the first n pairs of half words.
Pairs(h, n) ==
  CASE n = 0 -> 0
    [] n = 1 -> h[1] + h[2]
    [] n = 2 -> h[1] + h[2] + h[3] + h[4]
    [] n = 3 -> h[1] + h[2] + h[3] + h[4] + h[5] + h[6]
    [] n = 4 -> h[1] + h[2] + h[3] + h[4] + h[5] + h[6] + h[7] + h[8]
    [] n = 5 -> Total(h)

ArithInv ==
  /\ half_words \in Headers /\ sum_step \in -1 .. 7
  /\ sum_step \in 0 .. 5 => half_sum = Pairs(half_words, sum_step)
  /\ sum_step \in 6 .. 7 => half_sum = Folded(Total(half_words))
  /\ sum_step = -1 => header_checksum = HalfRange - 1 - Folded(Total(half_words))

\* The half words.
LEMMA HalfWords ==
  ASSUME NEW h \in Headers
  PROVE  /\ h[1] \in Nat /\ h[2] \in Nat /\ h[3] \in Nat /\ h[4] \in Nat
         /\ h[5] \in Nat /\ h[6] \in Nat /\ h[7] \in Nat /\ h[8] \in Nat
         /\ h[9] \in Nat /\ h[10] \in Nat
         /\ h[1] < HalfRange /\ h[2] < HalfRange /\ h[3] < HalfRange
         /\ h[4] < HalfRange /\ h[5] < HalfRange /\ h[6] < HalfRange
         /\ h[7] < HalfRange /\ h[8] < HalfRange /\ h[9] < HalfRange
         /\ h[10] < HalfRange
<1>1. h \in [1 .. 10 -> 0 .. (HalfRange - 1)] /\ HalfRange \in Nat
  BY ChecksumAssumption
<1>2. \A i \in 1 .. 10 : h[i] \in Nat /\ h[i] < HalfRange
  BY <1>1
<1> QED BY <1>2

\* Their sum fits, so far and at last.
LEMMA PairsFit ==
  ASSUME NEW h \in Headers
  PROVE  /\ Total(h) \in Nat /\ Total(h) < 10 * HalfRange
         /\ \A n \in 0 .. 4 :
              Pairs(h, n) + h[2 * n + 1] + h[2 * n + 2] = Pairs(h, n + 1)
         /\ \A n \in 0 .. 4 : Pairs(h, n + 1) \in Nat
                              /\ Pairs(h, n + 1) < 10 * HalfRange
<1> USE RangeFacts, HalfWords
<1>1. Total(h) \in Nat /\ Total(h) < 10 * HalfRange
  BY DEF Total
<1>2. ASSUME NEW n \in 0 .. 4
      PROVE  /\ Pairs(h, n) + h[2 * n + 1] + h[2 * n + 2] = Pairs(h, n + 1)
             /\ Pairs(h, n + 1) \in Nat /\ Pairs(h, n + 1) < 10 * HalfRange
  <2>1. CASE n = 0
    BY <2>1 DEF Pairs
  <2>2. CASE n = 1
    BY <2>2 DEF Pairs
  <2>3. CASE n = 2
    BY <2>3 DEF Pairs
  <2>4. CASE n = 3
    BY <2>4 DEF Pairs
  <2>5. CASE n = 4
    BY <2>5 DEF Pairs, Total
  <2> QED BY <2>1, <2>2, <2>3, <2>4, <2>5
<1> QED BY <1>1, <1>2

\* Every step keeps the invariant.
LEMMA ArithStep ==
  ASSUME ArithInv, [ChecksumNext]_checksumVars
  PROVE  ArithInv'
<1>1. half_words \in Headers /\ sum_step \in -1 .. 7
  BY DEF ArithInv
<1>2. CASE StartSum
  BY <1>2 DEF StartSum, ArithInv, Pairs
<1>3. CASE AddWord
  <2>1. /\ sum_step \in 0 .. 4 /\ sum_step' = sum_step + 1 /\ half_words' = half_words
        /\ half_sum' = (half_sum + half_words[2 * sum_step + 1]
                                   + half_words[2 * sum_step + 2])
                    % (HalfRange * HighRange)
        /\ half_sum = Pairs(half_words, sum_step)
    BY <1>3 DEF AddWord, ArithInv
  <2>2. PICK n \in 0 .. 4 : n = sum_step
    BY <2>1
  <2>3. /\ Pairs(half_words, n) + half_words[2 * n + 1] + half_words[2 * n + 2]
             = Pairs(half_words, n + 1)
        /\ Pairs(half_words, n + 1) \in Nat
        /\ Pairs(half_words, n + 1) < 10 * HalfRange
    BY <1>1, PairsFit
  <2>4. half_sum' = Pairs(half_words, n + 1) % (HalfRange * HighRange)
    BY <2>1, <2>2, <2>3
  <2>5. half_sum' = Pairs(half_words, n + 1)
    BY <2>3, <2>4, SumFits
  <2>6. sum_step' = n + 1 /\ n + 1 \in 1 .. 5
    BY <2>1, <2>2
  <2>7. sum_step' \in -1 .. 7 /\ sum_step' \notin 6 .. 7 /\ sum_step' # -1
    BY <2>6
  <2> QED BY <1>1, <2>1, <2>5, <2>6, <2>7 DEF ArithInv
<1>4. CASE FoldCarry
  <2>1. /\ sum_step \in 5 .. 6 /\ sum_step' = sum_step + 1 /\ half_words' = half_words
        /\ half_sum' = Folded(half_sum)
    BY <1>4 DEF FoldCarry, Folded
  <2>2. sum_step' \in 6 .. 7
    BY <2>1
  <2>3. Total(half_words) \in Nat /\ Total(half_words) < 10 * HalfRange
    BY <1>1, PairsFit
  <2>4. half_sum' = Folded(Total(half_words))
    <3>1. CASE sum_step = 5
      BY <2>1, <3>1 DEF ArithInv, Pairs
    <3>2. CASE sum_step = 6
      <4>1. half_sum = Folded(Total(half_words))
        BY <3>2 DEF ArithInv
      <4>2. Folded(Total(half_words)) \in 0 .. (HalfRange - 1)
        BY <2>3, FoldIs
      <4> QED BY <2>1, <4>1, <4>2, FoldAgain
    <3> QED BY <2>1, <3>1, <3>2
  <2> QED BY <1>1, <2>1, <2>2, <2>4 DEF ArithInv
<1>5. CASE HandOver
  <2>1. /\ sum_step = 7 /\ sum_step' = -1 /\ half_words' = half_words
        /\ header_checksum' = HalfRange - 1 - Low(half_sum)
    BY <1>5 DEF HandOver
  <2>2. half_sum = Folded(Total(half_words))
    BY <2>1 DEF ArithInv
  <2>3. Folded(Total(half_words)) \in 0 .. (HalfRange - 1)
    BY <1>1, PairsFit, FoldIs
  <2>4. Low(half_sum) = Folded(Total(half_words))
    BY <2>2, <2>3, FoldAgain
  <2> QED BY <1>1, <2>1, <2>4 DEF ArithInv
<1>6. CASE UNCHANGED checksumVars
  BY <1>6 DEF checksumVars, ArithInv
<1> QED BY <1>2, <1>3, <1>4, <1>5, <1>6 DEF ChecksumNext

(***************************************************************************)
(* checksum_computer adds all ten half words without overflow, and the     *)
(* second of its two folds never changes anything.                         *)
(***************************************************************************)
THEOREM ArithInvariance == ChecksumSpec => []ArithInv
<1>1. ChecksumInit => ArithInv
  BY DEF ChecksumInit, ArithInv, Pairs
<1> QED BY <1>1, ArithStep, PTL DEF ChecksumSpec

(***************************************************************************)
(* WrongExactlyOnLostCarry for every width, the 16 and 7 bits of the code  *)
(* among them, and every header: the receiver rejects the checksum exactly *)
(* if the first fold of checksum_computer carries out of its 16 bits.      *)
(***************************************************************************)
THEOREM WrongOnLostCarry == ChecksumSpec => []WrongExactlyOnLostCarry
<1>1. ArithInv => WrongExactlyOnLostCarry
  <2> SUFFICES ASSUME ArithInv, sum_step = -1
               PROVE  Accepts(half_words, header_checksum) <=> ~CarryLost(half_words)
    BY DEF WrongExactlyOnLostCarry, Ready
  <2>1. /\ half_words \in Headers
        /\ header_checksum = HalfRange - 1 - Folded(Total(half_words))
    BY DEF ArithInv
  <2>2. Total(half_words) \in Nat /\ Total(half_words) < 10 * HalfRange
    BY <2>1, PairsFit
  <2> QED BY <2>1, <2>2, AcceptedIff DEF Accepts, CarryLost
<1> QED BY <1>1, ArithInvariance, PTL
=============================================================================
