----------------------------- MODULE MCArpBlock -----------------------------
(***************************************************************************)
(* Frames of the ARP instances: the server and another station ask for     *)
(* our address, the server answers ours, and ARP for others goes by.       *)
(***************************************************************************)
EXTENDS ArpBlock

Frame(kind, from, ours, len, plen, port) ==
  [kind |-> kind, from |-> from, ours |-> ours, len |-> len, plen |-> plen,
   port |-> port]

ArpFrames ==
  {Frame("ARP_REQUEST", "server", TRUE, 12, 0, 0),
   Frame("ARP_REQUEST", "other", TRUE, 12, 0, 0),
   Frame("ARP_REPLY", "server", TRUE, 12, 0, 0),
   Frame("ARP_REQUEST", "other", FALSE, 12, 0, 0)}
=============================================================================
