---------------------------- MODULE UdpDataBlock ----------------------------
(***************************************************************************)
(* The UDP data block (ethernet/udp_data_block.vhd): the UDP data buffer,  *)
(* a frame generator reading from it and a header generator, wired         *)
(* together on one clock.  The front entry of the info FIFO gives the      *)
(* frame its length and its port; the end of the frame drops the entry.    *)
(***************************************************************************)
EXTENDS UdpDataBuffer, FrameGenerator

\* payload_max_len is all ones (511): no UDP packet is ever split.
ASSUME NeverSplitAssumption == PAYLOAD_MAX_LEN > MAX_PACKET_LENGTH + 1

blockVars == <<bufVars, fgVars, hgVars>>

BlockInit == BufInit /\ FgInit /\ HgInit

-----------------------------------------------------------------------------
\* Signals between the parts.
\* Mutant: the frame takes all words of the data FIFO, not one packet.
fg_usedw_in_fifo == IF payload_rdy THEN Len(log) - words_read ELSE 0
fg_usedw_in == IF payload_rdy THEN payload_len ELSE 0
dest_port == IF payload_rdy THEN data_port_out ELSE ResetPort
fg_payload_rdy(tx_ready) == payload_rdy /\ tx_ready
\* Mutant: the info FIFO is advanced at the start of the frame.
packet_finished_at_sop == sop
packet_finished == eop
data_rdreq == rdreq

BlockClock(valid, port, eop_in, tx_ready) ==
  /\ BufClock(valid, port, eop_in, data_rdreq, packet_finished)
  /\ FgClock(fg_payload_rdy(tx_ready), fg_usedw_in, dest_port,
             words_read + 1, data_rdreq /\ words_read < Len(log))

\* A word comes in; the port change, length or eop may end a packet.
BlockReceive(port, eop_in, tx_ready) ==
  /\ Len(log) < MaxWords
  /\ EopContract(port, eop_in)
  /\ BlockClock(TRUE, port, eop_in, tx_ready)

BlockNoInput(tx_ready) == BlockClock(FALSE, ResetPort, FALSE, tx_ready)

BlockTick(tx_ready) ==
  \/ BlockNoInput(tx_ready)
  \/ \E port \in Ports, eop_in \in BOOLEAN : BlockReceive(port, eop_in, tx_ready)

\* A reset of the block, not in the clock in which a header is started.
BlockReset ==
  /\ ~header_start
  /\ BufReset /\ FgReset /\ HgReset

BlockNext == (\E tx_ready \in BOOLEAN : BlockTick(tx_ready)) \/ BlockReset
BlockSpec == BlockInit /\ [][BlockNext]_blockVars
FairBlockSpec == BlockSpec /\ WF_blockVars(BlockTick(TRUE))

-----------------------------------------------------------------------------
(***************************************************************************)
(* The frame generator is a good consumer of the buffer: it asks for as    *)
(* many words as the front packet has, and finishes it when it has them.   *)
(* The block therefore implements the specification of the buffer alone,   *)
(* in which the consumer's behaviour is an assumption.                     *)
(***************************************************************************)
BlockImplementsBuffer == BufSpec

(***************************************************************************)
(* Every payload word that leaves for the MAC was written for the port in  *)
(* the UDP header sent in front of it, and the UDP length in that header   *)
(* is that of the payload.                                                 *)
(***************************************************************************)
UdpHeaders == {i \in 1 .. Len(frame) : frame[i].kind = "UDP0"}
SentToItsPort ==
  (~overflowed /\ wrreq) =>
    /\ sent \in 1 .. Len(frame) /\ frame_word = frame[sent]
    /\ frame_word.kind = "payload" =>
         /\ frame_word.n \in 1 .. Len(log)
         /\ \A i \in UdpHeaders :
              /\ frame[i].n = log[frame_word.n]
              /\ frame[i + 1] = Word("UDP1", Len(frame) - (i + 1) + 2)

(***************************************************************************)
(* Every word is read and the frame it is in completed, if the MAC takes   *)
(* frames again and again and no reset or overflow throws the word away.   *)
(***************************************************************************)
EveryWordIsSent ==
  \A n \in 1 .. MaxWords :
    (Len(log) >= n) ~> (\/ words_read >= n /\ fg_state = "IDLE"
                        \/ Len(log) < n \/ overflowed)
=============================================================================
