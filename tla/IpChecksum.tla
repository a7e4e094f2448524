----------------------------- MODULE IpChecksum -----------------------------
(***************************************************************************)
(* The arithmetic of checksum_computer (ethernet/header_generator.vhd):    *)
(* the IPv4 header checksum, in the width the code computes it.  The half  *)
(* words of the header are numbers below HalfRange (2^16 in the code), sum *)
(* is one below HighRange (2^7) times that.  Adding the low and the high   *)
(* part of sum yields a number below HalfRange only, as "+" of numeric_std *)
(* returns the length of its longer operand.                               *)
(***************************************************************************)
EXTENDS Integers

CONSTANTS
  HalfRange,     \* 2^16: values of a half word
  HighRange,     \* 2^7: values of the part of sum above it
  Headers        \* the headers to compute the checksum of: ten half words

ASSUME ChecksumAssumption ==
  /\ HalfRange \in Nat /\ HighRange \in 10 .. HalfRange
  /\ \A h \in Headers : h \in [1 .. 10 -> 0 .. (HalfRange - 1)]

\* In the code ip_header, step, sum and ip_checksum; HeaderGenerator has these
\* names for the same registers without the arithmetic.
VARIABLES half_words, sum_step, half_sum, header_checksum
checksumVars == <<half_words, sum_step, half_sum, header_checksum>>

ChecksumInit ==
  /\ half_words \in Headers
  /\ sum_step = 0          \* header_start has been seen
  /\ half_sum = 0
  /\ header_checksum = 0

Low(s)  == s % HalfRange
High(s) == (s \div HalfRange) % HighRange

\* header_start: the next header is in place, the sum is reset.
StartSum ==
  /\ sum_step = -1
  /\ half_words' \in Headers
  /\ half_sum' = 0
  /\ sum_step' = 0
  /\ UNCHANGED header_checksum

AddWord ==
  /\ sum_step \in 0 .. 4
  /\ half_sum' = (half_sum + half_words[2 * sum_step + 1]
                           + half_words[2 * sum_step + 2])
                    % (HalfRange * HighRange)
  /\ sum_step' = sum_step + 1
  /\ UNCHANGED <<half_words, header_checksum>>

\* Mutant: the carries are dropped.
FoldCarryDropped ==
  /\ sum_step \in 5 .. 6
  /\ half_sum' = Low(half_sum)
  /\ sum_step' = sum_step + 1
  /\ UNCHANGED <<half_words, header_checksum>>

FoldCarry ==
  /\ sum_step \in 5 .. 6
  /\ half_sum' = (Low(half_sum) + High(half_sum)) % HalfRange
  /\ sum_step' = sum_step + 1
  /\ UNCHANGED <<half_words, header_checksum>>

HandOver ==
  /\ sum_step = 7
  /\ header_checksum' = HalfRange - 1 - Low(half_sum)
  /\ sum_step' = -1
  /\ UNCHANGED <<half_words, half_sum>>

ChecksumNext == StartSum \/ AddWord \/ FoldCarry \/ HandOver
ChecksumSpec == ChecksumInit /\ [][ChecksumNext]_checksumVars

-----------------------------------------------------------------------------
(***************************************************************************)
(* The receiver's test (RFC 791): the one's complement sum of all half     *)
(* words and the checksum is all ones.  End-around carries do not change a *)
(* number modulo HalfRange - 1, so the sum, never zero, must be divisible  *)
(* by HalfRange - 1.                                                       *)
(***************************************************************************)
Total(h) == h[1] + h[2] + h[3] + h[4] + h[5] + h[6] + h[7] + h[8] + h[9] + h[10]
Accepts(h, c) == (Total(h) + c) % (HalfRange - 1) = 0

\* The first fold does not fit into a half word.
CarryLost(h) == Low(Total(h)) + High(Total(h)) >= HalfRange

Ready == sum_step = -1

(***************************************************************************)
(* The checksum is right except for the headers whose first fold carries   *)
(* again, and for those it is always wrong.                                *)
(***************************************************************************)
WrongExactlyOnLostCarry ==
  Ready => (Accepts(half_words, header_checksum) <=> ~CarryLost(half_words))
=============================================================================
