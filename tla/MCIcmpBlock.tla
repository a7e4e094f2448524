---------------------------- MODULE MCIcmpBlock -----------------------------
(***************************************************************************)
(* Pings of two stations and of different length, one for another address, *)
(* and a padded UDP frame.                                                 *)
(***************************************************************************)
EXTENDS IcmpBlock

Frame(kind, from, ours, len, plen, port) ==
  [kind |-> kind, from |-> from, ours |-> ours, len |-> len, plen |-> plen,
   port |-> port]

PingFrames ==
  {Frame("ICMP", "server", TRUE, 12, 0, 0),
   Frame("ICMP", "other", TRUE, 11, 0, 0),
   Frame("ICMP", "other", FALSE, 12, 0, 0),
   Frame("UDP", "other", TRUE, 14, 2, 7)}

\* Nothing is claimed once the words of two pings have met.
OnePingAtATime == ~mixed
=============================================================================
