----------------------------- MODULE DataBlock ------------------------------
(***************************************************************************)
(* The data block (ethernet/ethernet_data_block.vhd): the input FIFO       *)
(* manager, a frame generator reading the FIFO it picked and a header      *)
(* generator.  The number of the FIFO is the low part of the UDP port.     *)
(*                                                                         *)
(* A word passes rdreqs, the FIFO's output, data_out_sig and payload_word: *)
(* the last two are the last two of the frame generator's four stages, the *)
(* first two are on the manager's side.  The words of each FIFO are        *)
(* numbered in the order of writing, those of all FIFOs through, and       *)
(* afresh when no word is under way: the streams need not end.             *)
(***************************************************************************)
EXTENDS InputFifoManager, FrameGenerator

CONSTANT MaxWords     \* bound: words in a FIFO and those of the frame read from it

ASSUME DataBlockAssumption == IN_DLY = 5 /\ MaxWords \in Nat

VARIABLES
  read,               \* words read from each FIFO
  fifo_outs,          \* number of the word on each FIFO's output
  delivered           \* history: last word of each FIFO written to the MAC

wordVars == <<read, fifo_outs, delivered>>
dataVars == <<ifmVars, fgVars, hgVars, wordVars>>

DataInit ==
  /\ IfmInit /\ FgInit /\ HgInit
  /\ read = All(0) /\ fifo_outs = All(0) /\ delivered = All(0)

-----------------------------------------------------------------------------
\* No word is under way.
Settled == fg_state = "IDLE" /\ delivered = read

\* Number of the last word read from FIFO i.
LastRead(i) == IF Settled THEN 0 ELSE read[i]

\* Numbers of the last word written to each FIFO, and in its input register.
written == [i \in Fifos |-> read[i] + used[i]]
Accepted(i) == written[i] + (IF wrreqs_sig[i] THEN 1 ELSE 0)

WordNo(i, n) == i * (MaxWords + 1) + n

data_out == Payload(WordNo(mux_sel, fifo_outs[mux_sel]))
DataPipeline == pipe' = [pipe EXCEPT ![3] = data_out, ![4] = pipe[3]]

dest_port == mux_sel

\* History.
Delivered ==
  delivered' = IF wrreq' /\ frame_word'.kind = "payload"
                 THEN [delivered EXCEPT ![frame_word'.n \div (MaxWords + 1)]
                                          = frame_word'.n % (MaxWords + 1)]
                 ELSE [i \in Fifos |-> IF Settled THEN 0 ELSE delivered[i]]

ReadFifos ==
  /\ read' = [i \in Fifos |-> IF Reads(i) THEN LastRead(i) + 1 ELSE LastRead(i)]
  /\ fifo_outs' = [i \in Fifos |-> IF Reads(i) THEN LastRead(i) + 1
                                   ELSE IF Settled THEN 0 ELSE fifo_outs[i]]

DataTick(edges, tx_ready) ==
  /\ IfmClock(edges, rdreq, fg_busy \/ ~tx_ready)
  /\ FgMachine(ifm_payload_rdy, usedw_out)
  /\ DataPipeline
  /\ HgClock(header_start, payload_length, dest_port)
  /\ FrameHistory(WordNo(mux_sel, LastRead(mux_sel) + 1), mux_sel)
  /\ ReadFifos
  /\ Delivered
  /\ \A i \in Fifos : Accepted(i)' <= MaxWords

\* A reset, not in the clock in which a header is started (see FrameStream).
DataReset ==
  /\ ~header_start
  /\ IfmReset /\ FgReset /\ HgReset
  /\ read' = All(0) /\ fifo_outs' = All(0) /\ delivered' = All(0)

DataNext ==
  \/ \E edges \in WriteEdges, tx_ready \in BOOLEAN : DataTick(edges, tx_ready)
  \/ DataReset
DataSpec == DataInit /\ [][DataNext]_dataVars

\* A clock with an edge of write clock i.
WriteEdge(i) ==
  \E edges \in WriteEdges, tx_ready \in BOOLEAN : i \in edges /\ DataTick(edges, tx_ready)

\* A decision with the transmitter ready.
ReadyDecision ==
  ifm_step = NFIFOS /\ \E edges \in WriteEdges : DataTick(edges, TRUE)

FairDataSpec ==
  /\ DataSpec
  /\ \A i \in Streams : WF_dataVars(WriteEdge(i))
  /\ SF_dataVars(ReadyDecision)

-----------------------------------------------------------------------------
(***************************************************************************)
(* Every frame carries words of one FIFO, in the order they were written,  *)
(* under the port of that FIFO and with their number as length, although   *)
(* the scan goes on while the frame is sent.                               *)
(***************************************************************************)
SentFromItsFifo ==
  wrreq => sent \in 1 .. Len(frame) /\ frame_word = frame[sent]

(***************************************************************************)
(* Between frames every FIFO has been read exactly as far as its words     *)
(* have been sent: no word is lost in the stages between rdreq and the     *)
(* MAC, taken from a FIFO that was not picked, or read ahead.              *)
(***************************************************************************)
NoWordSkipped == fg_state = "IDLE" => delivered = read

\* The scan keeps ending before FIFO i at one that goes first.
LeftBehind(i) ==
  /\ <>[](ifm_payload_rdy => mux_sel < i)
  /\ []<>(\E j \in Fifos : j < i /\ ifm_step = j /\ GoesFirst(j))

\* The flush of FIFO i was taken back, and with a write clock slower than the
\* read clock no clock saw it fall again.
Stalled(i) == (\E edges \in WriteEdges : i \notin edges) /\ <>[]flush_latch[i]

(***************************************************************************)
(* A FIFO with words in it is read again and again.  It is left behind     *)
(* only if lower-numbered FIFOs with priority, or to be flushed, end every *)
(* scan before it, or if its flush stays latched: trigger_payload_rdy goes *)
(* straight to the decision at the first FIFO that goes first, and         *)
(* flush_sig_synch forgets a flush only when it sees it fall.              *)
(***************************************************************************)
NoneLeftBehind ==
  \A i \in Streams :
    []<>(used[i] = 0 \/ Reads(i)) \/ LeftBehind(i) \/ Stalled(i)
=============================================================================
