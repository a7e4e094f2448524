-------------------------- MODULE InputFifoManager --------------------------
(***************************************************************************)
(* The input FIFO manager (ethernet/input_fifo_manager.vhd): one FIFO per  *)
(* data stream of the CCD, each written on a clock of its own, and the     *)
(* scan that picks the FIFO the next frame is made of.                     *)
(*                                                                         *)
(* The scan takes NFIFOS + 2 clocks: a snapshot of the fill levels, one    *)
(* clock per FIFO, and the decision, which sets mux_sel and payload_rdy    *)
(* unless the transmitter is busy.  What the snapshot said may have been   *)
(* read by then.  A FIFO nobody has written or read for a while is flushed *)
(* whatever its fill; that signal comes from the write clock's side and is *)
(* latched on the read side.                                               *)
(*                                                                         *)
(* Edges of a write clock come with edges of the read clock, any number of *)
(* those apart.  A FIFO is its fill here; DataBlock tells its words apart. *)
(***************************************************************************)
EXTENDS Integers

CONSTANTS
  NFIFOS,
  Streams,                  \* FIFOs that are written
  FlagsOf,                  \* FlagsOf[i]: flags stream i may be configured with
  payload_min_size,         \* payload_size of all FIFOs
  IN_FIFO_STALE_THRESHOLD,
  IN_FIFO_AFULL,            \* fill at which a FIFO is flushed (1948)
  NearFull,                 \* fill at which writes are dropped (1920)
  WriteEdges                \* write clocks that may have an edge together

Fifos == 0 .. (NFIFOS - 1)
Flags == {"INFIFO_DISABLE", "INFIFO_ENABLE", "INFIFO_PRIORITY"}

ASSUME IfmAssumption ==
  /\ NFIFOS \in Nat \ {0} /\ Streams \subseteq Fifos
  /\ WriteEdges \subseteq SUBSET Streams
  /\ \A i \in Fifos : FlagsOf[i] # {} /\ FlagsOf[i] \subseteq Flags
  /\ payload_min_size \in Nat \ {0} /\ IN_FIFO_STALE_THRESHOLD \in Nat
  /\ NearFull \in Nat /\ IN_FIFO_AFULL \in Nat

VARIABLES
  flags,
  used,                     \* words in each FIFO
  wrreqs_sig, fifo_nearfull, fifo_flush, counter,      \* write clocks
  fifo_flush_reg, flush_latch,                         \* flush_sig_synch
  ifm_step, fifo_used_words, fullest_fifo,             \* the scan
  mux_sel, ifm_payload_rdy,
  rdreqs

ifmVars == <<flags, used, wrreqs_sig, fifo_nearfull, fifo_flush, counter,
             fifo_flush_reg, flush_latch, ifm_step, fifo_used_words,
             fullest_fifo, mux_sel, ifm_payload_rdy, rdreqs>>

All(x) == [i \in Fifos |-> x]

IfmInit ==
  /\ flags \in {f \in [Fifos -> Flags] : \A i \in Fifos : f[i] \in FlagsOf[i]}
  /\ used = All(0)
  /\ wrreqs_sig = All(FALSE) /\ fifo_nearfull = All(FALSE)
  /\ fifo_flush = All(FALSE) /\ counter = All(0)
  /\ fifo_flush_reg = All(FALSE) /\ flush_latch = All(FALSE)
  /\ ifm_step = -1 /\ fifo_used_words = All(0) /\ fullest_fifo = NFIFOS
  /\ mux_sel = 0 /\ ifm_payload_rdy = FALSE
  /\ rdreqs = All(FALSE)

-----------------------------------------------------------------------------
rdusedw(i) == used[i]
usedw_out == rdusedw(mux_sel)

\* A read of an empty FIFO does nothing.
Reads(i) == rdreqs[i] /\ rdusedw(i) > 0

\* The FIFOs: the input register is written at the edges of the write clocks.
FifoGen(edges) ==
  used' = [i \in Fifos |-> used[i] + (IF i \in edges /\ wrreqs_sig[i] THEN 1 ELSE 0)
                                   - (IF Reads(i) THEN 1 ELSE 0)]

(***************************************************************************)
(* The write side at the edges of the write clocks in edges; wrreqs are    *)
(* the streams that offer a word.                                          *)
(***************************************************************************)
FifoInReg(edges, wrreqs) ==
  wrreqs_sig' = [i \in Fifos |-> IF i \in edges THEN i \in wrreqs /\ ~fifo_nearfull[i]
                                                ELSE wrreqs_sig[i]]

FifoFullSignaller(edges) ==
  fifo_nearfull' = [i \in Fifos |-> IF i \in edges THEN rdusedw(i) >= NearFull
                                                   ELSE fifo_nearfull[i]]

InUse(i) == wrreqs_sig[i] \/ rdreqs[i]

Stale(i) == counter[i] >= IN_FIFO_STALE_THRESHOLD \/ rdusedw(i) >= IN_FIFO_AFULL

FlushStale(edges) ==
  /\ fifo_flush' = [i \in Fifos |-> IF i \in edges THEN ~InUse(i) /\ Stale(i)
                                                   ELSE fifo_flush[i]]
  /\ counter' = [i \in Fifos |->
                   CASE i \notin edges -> counter[i]
                     [] i \in edges /\ InUse(i) -> 0
                     [] i \in edges /\ ~InUse(i) /\ ~Stale(i) /\ rdusedw(i) > 0
                          -> counter[i] + 1
                     [] OTHER -> counter[i]]

\* The flags are registered on the write clocks (ethernet_block.vhd).
FlagsRegister(edges) ==
  \E f \in [edges -> Flags] :
    /\ \A i \in edges : f[i] \in FlagsOf[i]
    /\ flags' = [i \in Fifos |-> IF i \in edges THEN f[i] ELSE flags[i]]

WriteClocks(edges) ==
  \E wrreqs \in SUBSET edges :
    /\ FifoInReg(edges, wrreqs)
    /\ FifoFullSignaller(edges)
    /\ FlushStale(edges)
    /\ FlagsRegister(edges)

-----------------------------------------------------------------------------
\* flush_sig_synch: a flush is taken back once the FIFO is being read.
FlushSigSynch ==
  /\ flush_latch' = [i \in Fifos |-> fifo_flush[i] /\ (flush_latch[i] \/ rdreqs[i])]
  /\ fifo_flush_reg' = [i \in Fifos |->
       /\ fifo_flush[i]
       /\ IF flush_latch[i] THEN fifo_flush_reg[i] ELSE ~rdreqs[i]]

(***************************************************************************)
(* trigger_payload_rdy: snapshot, one step per FIFO, decision.             *)
(***************************************************************************)
Snapshot ==
  /\ ifm_step = -1
  /\ fifo_used_words' = [i \in Fifos |-> rdusedw(i)]
  /\ fullest_fifo' = NFIFOS
  /\ ifm_step' = 0
  /\ UNCHANGED <<mux_sel, ifm_payload_rdy>>

\* Mutant: no flush.
GoesFirstByPriority(i) ==
  flags[i] = "INFIFO_PRIORITY" /\ fifo_used_words[i] >= payload_min_size

GoesFirst(i) ==
  \/ flags[i] = "INFIFO_PRIORITY" /\ fifo_used_words[i] >= payload_min_size
  \/ fifo_flush_reg[i]
Fuller(i) ==
  /\ flags[i] # "INFIFO_DISABLE"
  /\ fullest_fifo # NFIFOS => fifo_used_words[fullest_fifo] < fifo_used_words[i]
  /\ fifo_used_words[i] >= payload_min_size

Compare ==
  /\ ifm_step \in Fifos
  /\ fullest_fifo' = IF GoesFirst(ifm_step) \/ Fuller(ifm_step) THEN ifm_step
                                                                ELSE fullest_fifo
  /\ ifm_step' = IF GoesFirst(ifm_step) THEN NFIFOS ELSE ifm_step + 1
  /\ UNCHANGED <<fifo_used_words, mux_sel, ifm_payload_rdy>>

\* Mutant: the decision does not look at tx_busy.
DecideAnyway(tx_busy) ==
  /\ ifm_step = NFIFOS
  /\ ifm_payload_rdy' = (fullest_fifo # NFIFOS)
  /\ mux_sel' = IF ifm_payload_rdy' THEN fullest_fifo ELSE mux_sel
  /\ ifm_step' = -1
  /\ UNCHANGED <<fifo_used_words, fullest_fifo>>

Decide(tx_busy) ==
  /\ ifm_step = NFIFOS
  /\ ifm_payload_rdy' = (fullest_fifo # NFIFOS /\ ~tx_busy)
  /\ mux_sel' = IF ifm_payload_rdy' THEN fullest_fifo ELSE mux_sel
  /\ ifm_step' = -1
  /\ UNCHANGED <<fifo_used_words, fullest_fifo>>

TriggerPayloadRdy(tx_busy) == Snapshot \/ Compare \/ Decide(tx_busy)

\* Mutant: every FIFO is read.
ReadReqAll(rdreq) == rdreqs' = [i \in Fifos |-> rdreq]

ReadReqMultiplexer(rdreq) == rdreqs' = [i \in Fifos |-> i = mux_sel /\ rdreq]

IfmClock(edges, rdreq, tx_busy) ==
  /\ FifoGen(edges)
  /\ WriteClocks(edges)
  /\ FlushSigSynch
  /\ TriggerPayloadRdy(tx_busy)
  /\ ReadReqMultiplexer(rdreq)

\* Reset; the scan's step, the input register and the flags have none.
IfmReset ==
  /\ used' = All(0)
  /\ fifo_nearfull' = All(FALSE) /\ fifo_flush' = All(FALSE) /\ counter' = All(0)
  /\ fifo_flush_reg' = All(FALSE) /\ flush_latch' = All(FALSE)
  /\ fifo_used_words' = All(0) /\ fullest_fifo' = NFIFOS
  /\ mux_sel' = 0 /\ ifm_payload_rdy' = FALSE
  /\ rdreqs' = All(FALSE)
  /\ UNCHANGED <<flags, wrreqs_sig, ifm_step>>
=============================================================================
