---------------------------- MODULE MCIpChecksum ----------------------------
(***************************************************************************)
(* Headers of narrow half words, with every packet length and low          *)
(* destination half.                                                       *)
(***************************************************************************)
EXTENDS IpChecksum

\* Version, length, id, fragment, protocol, checksum field, addresses.
HeaderOf(version, len, protocol, src, dst) ==
  <<version, len, 0, 0, protocol, 0, src[1], src[2], dst[1], dst[2]>>

NarrowHeaders ==
  {HeaderOf(4, len, 15, <<12, 3>>, <<12, d>>) : len, d \in 0 .. 15}
=============================================================================
