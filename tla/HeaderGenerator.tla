-------------------------- MODULE HeaderGenerator ---------------------------
(***************************************************************************)
(* The header generator (ethernet/header_generator.vhd).  On header_start  *)
(* it presents the words of the configured headers one per clock, pausing  *)
(* two clocks for the IPv4 checksum, and raises header_done with the last. *)
(*                                                                         *)
(* A word is a pair of the state that makes it and the one number in it    *)
(* the properties look at: packet length, UDP length or UDP port.  The     *)
(* checksum is the set of header versions its five terms were taken from;  *)
(* a version of the IPv4 header is known by its packet length.             *)
(***************************************************************************)
EXTENDS Integers, Sequences

CONSTANT HeaderConfig   \* headers enabled by the low four bits of config

ASSUME HeaderConfigAssumption ==
  HeaderConfig \subseteq {"ETH", "IP", "UDP", "HD"} /\ HeaderConfig # {}

VARIABLES
  hg_state,                                 \* next_state of the state machine
  header_data, header_valid, header_done,   \* outputs
  ip_header,                                \* packet_len in ip_header(0)
  step, sum, ip_checksum                    \* checksum_computer

hgVars == <<hg_state, header_data, header_valid, header_done, ip_header,
            step, sum, ip_checksum>>

Word(kind, n) == [kind |-> kind, n |-> n]
NoWord == Word("none", 0)

HgInit ==
  /\ hg_state = "IDLE"
  /\ header_data = NoWord
  /\ header_valid = FALSE
  /\ header_done = FALSE
  /\ ip_header = 0
  /\ step = -1
  /\ sum = {}
  /\ ip_checksum = {}

\* Words of IPv4 and UDP header, as counted into the packet length.
HeaderLen == (IF "IP" \in HeaderConfig THEN 5 ELSE 0)
           + (IF "UDP" \in HeaderConfig THEN 2 ELSE 0)
packet_len(payload_len) == HeaderLen + payload_len

-----------------------------------------------------------------------------
\* The enabled header that follows the segment ended by state s.
f_next_state(s) ==
  IF      "ETH" \in HeaderConfig /\ s = "IDLE" THEN "ETH0"
  ELSE IF "IP" \in HeaderConfig /\ s \in {"IDLE", "ETH3"} THEN "IP0"
  ELSE IF "UDP" \in HeaderConfig /\ s \in {"IDLE", "ETH3", "IP4"} THEN "UDP0"
  ELSE IF "HD" \in HeaderConfig /\ s \in {"IDLE", "ETH3", "IP4", "UDP1"} THEN "HD0"
  ELSE "DONE"

\* Mutant: only one clock of pause before the checksum word.
WithinSegmentOnePause ==
  [ETH0 |-> "ETH1", ETH1 |-> "ETH2", ETH2 |-> "ETH3",
   IP0 |-> "IP1", IP1 |-> "IP_PAUSE1", IP_PAUSE0 |-> "IP_PAUSE1",
   IP_PAUSE1 |-> "IP2", IP2 |-> "IP3", IP3 |-> "IP4", UDP0 |-> "UDP1"]

\* Next states inside a segment, and the states that end one.
WithinSegment ==
  [ETH0 |-> "ETH1", ETH1 |-> "ETH2", ETH2 |-> "ETH3",
   IP0 |-> "IP1", IP1 |-> "IP_PAUSE0", IP_PAUSE0 |-> "IP_PAUSE1",
   IP_PAUSE1 |-> "IP2", IP2 |-> "IP3", IP3 |-> "IP4", UDP0 |-> "UDP1"]
SegmentEnds == {"ETH3", "IP4", "UDP1", "HD0"}
Pauses == {"IP_PAUSE0", "IP_PAUSE1"}

After(s) == IF s \in SegmentEnds THEN f_next_state(s) ELSE WithinSegment[s]

\* The number in the word made in state s.  Length and port of the UDP
\* header are read while it is sent, those of the IPv4 header were registered.
HeaderWord(s, payload_len, dest_port) ==
  Word(s, CASE s = "IP0"  -> ip_header
            [] s = "UDP0" -> dest_port
            [] s = "UDP1" -> payload_len + 2
            [] OTHER      -> 0)

HgIdle(header_start, payload_len) ==
  /\ hg_state = "IDLE"
  /\ header_data' = NoWord
  /\ header_valid' = FALSE
  /\ header_done' = FALSE
  /\ ip_header' = packet_len(payload_len)
  /\ hg_state' = IF header_start THEN f_next_state("IDLE") ELSE "IDLE"

\* Mutant: the last word of the header comes without header_done.
HgWordNoDone(payload_len, dest_port) ==
  /\ hg_state \in (DOMAIN WithinSegment \cup SegmentEnds) \ Pauses
  /\ header_data' = HeaderWord(hg_state, payload_len, dest_port)
  /\ header_valid' = TRUE
  /\ hg_state' = After(hg_state)
  /\ UNCHANGED <<header_done, ip_header>>

HgWord(payload_len, dest_port) ==
  /\ hg_state \in (DOMAIN WithinSegment \cup SegmentEnds) \ Pauses
  /\ header_data' = HeaderWord(hg_state, payload_len, dest_port)
  /\ header_valid' = TRUE
  /\ hg_state' = After(hg_state)
  /\ header_done' = (header_done \/ After(hg_state) = "DONE")
  /\ UNCHANGED ip_header

HgPause ==
  /\ hg_state \in Pauses
  /\ header_data' = Word("ones", 0)
  /\ header_valid' = FALSE
  /\ hg_state' = After(hg_state)
  /\ UNCHANGED <<header_done, ip_header>>

HgDone ==
  /\ hg_state = "DONE"
  /\ header_data' = NoWord
  /\ header_valid' = FALSE
  /\ header_done' = FALSE
  /\ hg_state' = "IDLE"
  /\ UNCHANGED ip_header

(***************************************************************************)
(* checksum_computer: five clocks to add the header words, two to fold the *)
(* carries, one to hand the result over.                                   *)
(***************************************************************************)
ChecksumWait(header_start) ==
  /\ step = -1
  /\ sum' = {}
  /\ step' = IF header_start THEN 0 ELSE -1
  /\ UNCHANGED ip_checksum

ChecksumAdd ==
  /\ step \in 0 .. 4
  /\ sum' = sum \cup {ip_header}
  /\ step' = step + 1
  /\ UNCHANGED ip_checksum

ChecksumFold ==
  /\ step \in 5 .. 6
  /\ step' = step + 1
  /\ UNCHANGED <<sum, ip_checksum>>

ChecksumDone ==
  /\ step = 7
  /\ ip_checksum' = sum
  /\ step' = -1
  /\ UNCHANGED sum

HgClock(header_start, payload_len, dest_port) ==
  /\ \/ HgIdle(header_start, payload_len)
     \/ HgWord(payload_len, dest_port)
     \/ HgPause
     \/ HgDone
  /\ \/ ChecksumWait(header_start)
     \/ ChecksumAdd
     \/ ChecksumFold
     \/ ChecksumDone

HgReset ==
  /\ hg_state' = "IDLE"
  /\ header_data' = NoWord
  /\ header_valid' = FALSE
  /\ header_done' = FALSE
  /\ step' = -1
  /\ sum' = {}
  /\ ip_checksum' = {}
  /\ UNCHANGED ip_header

-----------------------------------------------------------------------------
\* The words the receiver of a frame expects in front of the payload.
Segment(name, words) == IF name \in HeaderConfig THEN words ELSE <<>>
Header(payload_len, dest_port) ==
     Segment("ETH", <<Word("ETH0", 0), Word("ETH1", 0), Word("ETH2", 0),
                      Word("ETH3", 0)>>)
  \o Segment("IP", <<Word("IP0", packet_len(payload_len)), Word("IP1", 0),
                     Word("IP2", 0), Word("IP3", 0), Word("IP4", 0)>>)
  \o Segment("UDP", <<Word("UDP0", dest_port), Word("UDP1", payload_len + 2)>>)
  \o Segment("HD", <<Word("HD0", 0)>>)

(***************************************************************************)
(* "Register our data before we start header generating to guarantee       *)
(* checksum validity": when the checksum word goes out, the checksum is    *)
(* that of the header being sent.                                          *)
(***************************************************************************)
ChecksumOfThisHeader == hg_state = "IP2" => ip_checksum = {ip_header}
=============================================================================
