----------------------------- MODULE UdpSockets -----------------------------
(***************************************************************************)
(* The sockets of the DAQ server (server/src/udp_client_server.cpp) as     *)
(* values: a function from the ports that are bound to the packets that    *)
(* wait in them.  The operating system drops a packet for a port that      *)
(* nobody has bound, and one that finds the receive buffer full; closing   *)
(* a socket throws away what waits in it.                                  *)
(***************************************************************************)
EXTENDS Naturals, Sequences

CONSTANT RcvBuf   \* packets the receive buffer of a socket holds (SO_RCVBUF)

ASSUME RcvBufAssumption == RcvBuf \in Nat \ {0}

Packet(port, words) == [port |-> port, words |-> words]

NoSockets == [p \in {} |-> << >>]

\* The constructor throws when another socket of the machine has the port.
can_bind(socks, port) == port \notin DOMAIN socks
udp_server(socks, port) ==
  [p \in DOMAIN socks \cup {port} |-> IF p = port THEN << >> ELSE socks[p]]
udp_server_close(socks, port) == [p \in DOMAIN socks \ {port} |-> socks[p]]

has_packet(socks, port) == port \in DOMAIN socks /\ socks[port] # << >>
recv(socks, port) == Head(socks[port])
after_recv(socks, port) == [socks EXCEPT ![port] = Tail(@)]

\* What becomes of a packet that reaches the machine.
accepted(socks, pkt) ==
  pkt.port \in DOMAIN socks /\ Len(socks[pkt.port]) < RcvBuf
arrive(socks, pkt) ==
  IF accepted(socks, pkt)
  THEN [socks EXCEPT ![pkt.port] = Append(@, pkt.words)]
  ELSE socks
=============================================================================
