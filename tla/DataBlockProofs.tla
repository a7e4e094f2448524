-------------------------- MODULE DataBlockProofs ---------------------------
(***************************************************************************)
(* The data block for every number of FIFOs, configuration, payload size,  *)
(* threshold, write clocks and header: the words of a frame are the next   *)
(* ones of the FIFO the frame is for, and none is skipped.                 *)
(*                                                                         *)
(* The lemmas of FrameStreamProofs used here are about any FIFO behind the *)
(* generators; the variable and the bounds of FrameStream play no part.    *)
(***************************************************************************)
EXTENDS DataBlock, FrameStreamProofs

(***************************************************************************)
(* The inductive invariant.                                                *)
(***************************************************************************)
DataTypeOK ==
  /\ mux_sel \in Fifos /\ fullest_fifo \in Fifos \cup {NFIFOS}
  /\ ifm_payload_rdy \in BOOLEAN /\ fg_busy \in BOOLEAN
  /\ used \in [Fifos -> Nat] /\ read \in [Fifos -> Nat]
  /\ fifo_outs \in [Fifos -> Nat] /\ delivered \in [Fifos -> Nat]
  /\ wrreqs_sig \in [Fifos -> BOOLEAN]
  /\ DOMAIN pipe = Stages

\* No more words are written to a FIFO than can be told apart.
FifoBounds == \A i \in Fifos : Accepted(i) <= MaxWords

\* A FIFO is picked only between frames: payload_rdy stays up while the next
\* scan runs, and until it is over the frame generator is busy.
PickedBetween ==
  /\ ~fg_busy => fg_state = "IDLE"
  /\ (ifm_payload_rdy /\ ~fg_busy) => ifm_step = -1

\* Words of the frame that have come out of the FIFO, two clocks behind rdreq;
\* words that have gone to the MAC; and the words read before the frame.
Out == IF Clk <= 2 THEN 0 ELSE AtMost(payload_length, Clk - 2)
Gone == IF fg_state = "WRITE_PAYLOAD" THEN fg_words + 1 ELSE 0
Base == read[mux_sel] - Out

\* Only the picked FIFO is read, one clock behind rdreq.
ReadsPicked ==
  \A i \in Fifos :
    rdreqs[i] <=> /\ i = mux_sel /\ fg_state \in PayloadStates
                  /\ Clk >= 2 /\ Clk <= payload_length + 1

\* The frame is made of the next words of the picked FIFO, which are there.
FromPicked ==
  fg_state \in Active =>
    /\ Base \in Nat /\ Base + payload_length <= written[mux_sel]
    /\ \A k \in 1 .. payload_length :
         frame[HeadLen + k] = Payload(WordNo(mux_sel, Base + k))
    /\ Enabled("UDP0") => frame[Before("UDP0") + 1] = Word("UDP0", mux_sel)

\* The words on their way through the FIFO's output, data_out_sig and
\* payload_word, and the one on the line.
OnTheWay ==
  /\ fg_state \in PayloadStates =>
       /\ Clk >= 3 => fifo_outs[mux_sel] = read[mux_sel]
       /\ \A i \in 3 .. 4 :
            Clk > i => pipe[i] = frame[HeadLen + AtMost(payload_length, Clk - i)]
  /\ wrreq => frame_word = frame[sent]

\* What has been delivered is what was read, less what is on its way.
Account ==
  /\ \A i \in Fifos : i # mux_sel => delivered[i] = read[i]
  /\ delivered[mux_sel] = IF fg_state \in Active THEN Base + Gone
                                                 ELSE read[mux_sel]

DataControl == DataTypeOK /\ FifoBounds /\ PickedBetween /\ GenInv
DataInv == DataControl /\ ReadsPicked /\ FromPicked /\ OnTheWay /\ Account

-----------------------------------------------------------------------------
(* Numbers of words *)

\* FIFO and place of a word can be told from its number.
LEMMA WordParts ==
  ASSUME NEW i \in Fifos, NEW n \in 0 .. MaxWords
  PROVE  /\ WordNo(i, n) \in Nat
         /\ WordNo(i, n) \div (MaxWords + 1) = i
         /\ WordNo(i, n) % (MaxWords + 1) = n
<1>1. PICK M \in Nat : M = MaxWords + 1 /\ M > 0 /\ n \in 0 .. (M - 1)
  BY DataBlockAssumption
<1>2. i \in Nat /\ n \in Nat
  BY IfmAssumption DEF Fifos
<1>3. PICK a \in Nat : a = i * M + n
  <2>1. \A x, y \in Nat : x * y \in Nat
    OBVIOUS
  <2>2. PICK b \in Nat : b = i * M
    BY <1>1, <1>2, <2>1
  <2>3. b + n \in Nat
    BY <1>2, <2>2
  <2> QED BY <2>2, <2>3
<1>4. a \div M = i /\ a % M = n
  <2>1. M \in Nat /\ M > 0 /\ i \in Nat /\ n \in 0 .. (M - 1)
    BY <1>1, <1>2
  <2>2. a \in Nat /\ a = i * M + n
    BY <1>3
  <2> QED BY <2>1, <2>2, DivModIs
<1>5. WordNo(i, n) = a
  BY <1>1, <1>3 DEF WordNo
<1> QED BY <1>1, <1>4, <1>5

\* The word after another in the same FIFO.
LEMMA NextWord ==
  ASSUME NEW i \in Fifos, NEW n \in Nat, NEW k \in Nat
  PROVE  /\ WordNo(i, n) \in Nat
         /\ WordNo(i, n + 1) + k - 1 = WordNo(i, n + k)
<1>1. i \in Nat /\ MaxWords + 1 \in Nat
  BY IfmAssumption, DataBlockAssumption DEF Fifos
<1>2. i * (MaxWords + 1) \in Nat
  BY <1>1
<1> QED BY <1>2 DEF WordNo

-----------------------------------------------------------------------------
(* The manager *)

\* Of the words written to a FIFO, those not yet read are in it.
LEMMA Fill ==
  ASSUME DataTypeOK
  PROVE  /\ written \in [Fifos -> Nat]
         /\ \A i \in Fifos : /\ read[i] <= written[i]
                            /\ rdusedw(i) \in Nat /\ rdusedw(i) = written[i] - read[i]
<1>1. /\ read \in [Fifos -> Nat] /\ used \in [Fifos -> Nat]
      /\ written = [i \in Fifos |-> read[i] + used[i]]
  BY DEF DataTypeOK, written
<1>2. \A i \in Fifos : /\ read[i] \in Nat /\ used[i] \in Nat
                       /\ written[i] = read[i] + used[i]
  BY <1>1
<1> QED BY <1>1, <1>2 DEF rdusedw

\* No FIFO is read when it is empty, and none loses what was written.
LEMMA FifoStep ==
  ASSUME DataTypeOK, NEW edges, FifoGen(edges), ReadFifos
  PROVE  /\ used' \in [Fifos -> Nat] /\ read' \in [Fifos -> Nat]
         /\ fifo_outs' \in [Fifos -> Nat] /\ written' \in [Fifos -> Nat]
         /\ \A i \in Fifos : LastRead(i) + used[i] <= written'[i]
<1>1. /\ read \in [Fifos -> Nat] /\ used \in [Fifos -> Nat]
      /\ fifo_outs \in [Fifos -> Nat]
  BY DEF DataTypeOK
<1>2. \A i \in Fifos : /\ read[i] \in Nat /\ used[i] \in Nat
                       /\ written[i] = read[i] + used[i]
  BY <1>1 DEF written
<1>0. \A i \in Fifos : LastRead(i) \in Nat
  BY <1>2 DEF LastRead
<1>3. \A i \in Fifos : Reads(i) => used[i] > 0
  BY DEF Reads, rdusedw
<1>4. /\ read' \in [Fifos -> Nat] /\ fifo_outs' \in [Fifos -> Nat]
      /\ \A i \in Fifos : read'[i] = LastRead(i) + (IF Reads(i) THEN 1 ELSE 0)
  BY <1>0, <1>1 DEF ReadFifos
<1>5. \A i \in Fifos : /\ used'[i] \in Nat
                       /\ used'[i] >= used[i] - (IF Reads(i) THEN 1 ELSE 0)
  BY <1>2, <1>3 DEF FifoGen
<1>6. used' \in [Fifos -> Nat]
  BY <1>5 DEF FifoGen
<1>7. /\ written' = [i \in Fifos |-> read'[i] + used'[i]]
      /\ \A i \in Fifos : written'[i] = read'[i] + used'[i]
  BY DEF written
<1>8. written' \in [Fifos -> Nat]
  BY <1>4, <1>6, <1>7
<1>9. \A i \in Fifos : LastRead(i) + used[i] <= written'[i]
  BY <1>0, <1>2, <1>4, <1>5, <1>7
<1> QED BY <1>4, <1>6, <1>8, <1>9

\* While a frame is in hand, the words keep their numbers.
LEMMA SameNumbers ==
  ASSUME fg_state # "IDLE"
  PROVE  /\ ~Settled /\ \A i \in Fifos : LastRead(i) = read[i]
BY DEF Settled, LastRead

\* The input registers.
LEMMA InRegStep ==
  ASSUME DataTypeOK, NEW edges, WriteClocks(edges)
  PROVE  wrreqs_sig' \in [Fifos -> BOOLEAN]
<1>1. PICK wrreqs \in SUBSET edges : FifoInReg(edges, wrreqs)
  BY DEF WriteClocks
<1> QED BY <1>1 DEF FifoInReg, DataTypeOK

\* A FIFO is picked between frames, and not in the clock in which one starts.
LEMMA ScanStep ==
  ASSUME DataTypeOK, PickedBetween, Sync, NEW busy, fg_busy => busy,
         TriggerPayloadRdy(busy), FgMachine(ifm_payload_rdy, usedw_out)
  PROVE  /\ mux_sel' \in Fifos /\ fullest_fifo' \in Fifos \cup {NFIFOS}
         /\ ifm_payload_rdy' \in BOOLEAN /\ fg_busy' \in BOOLEAN
         /\ PickedBetween'
         /\ mux_sel' # mux_sel => fg_state = "IDLE" /\ fg_state' = "IDLE"
<1>1. /\ mux_sel \in Fifos /\ fullest_fifo \in Fifos \cup {NFIFOS}
      /\ ifm_payload_rdy \in BOOLEAN /\ fg_busy \in BOOLEAN
      /\ NFIFOS \in Nat /\ NFIFOS # -1
  BY IfmAssumption DEF DataTypeOK
<1>2. /\ fg_busy' \in BOOLEAN
      /\ ~fg_busy' => fg_state' = "IDLE" /\ ~ifm_payload_rdy
      /\ (fg_state # "IDLE" \/ ifm_payload_rdy) => fg_busy'
      /\ (fg_state = "IDLE" /\ ~ifm_payload_rdy) => fg_state' = "IDLE"
  <2>1. CASE FgIdle(ifm_payload_rdy, usedw_out)
    BY <1>1, <2>1 DEF FgIdle
  <2>2. CASE FgHeader \/ FgWait \/ FgStart \/ WriteMore \/ WriteEnd \/ FgDone
    <3>1. fg_state # "IDLE" /\ fg_busy' = fg_busy
      BY <2>2 DEF FgHeader, FgWait, FgStart, WriteMore, WriteEnd, FgDone
    <3>2. fg_busy
      BY <3>1 DEF PickedBetween
    <3> QED BY <1>1, <3>1, <3>2
  <2> QED BY <2>1, <2>2 DEF FgMachine
<1>3. CASE Snapshot \/ Compare
  <2>1. mux_sel' = mux_sel /\ ifm_payload_rdy' = ifm_payload_rdy
    BY <1>3 DEF Snapshot, Compare
  <2>2. fullest_fifo' \in Fifos \cup {NFIFOS}
    BY <1>1, <1>3 DEF Snapshot, Compare
  <2> QED BY <1>1, <1>2, <2>1, <2>2 DEF PickedBetween
<1>4. CASE Decide(busy)
  <2>1. /\ ifm_step = NFIFOS /\ ifm_step' = -1 /\ fullest_fifo' = fullest_fifo
        /\ ifm_payload_rdy' \in BOOLEAN
        /\ ifm_payload_rdy' => fullest_fifo # NFIFOS /\ ~busy
        /\ mux_sel' = IF ifm_payload_rdy' THEN fullest_fifo ELSE mux_sel
    BY <1>4 DEF Decide
  <2>2. ASSUME mux_sel' # mux_sel PROVE fg_state = "IDLE" /\ fg_state' = "IDLE"
    <3>1. ~fg_busy /\ ifm_step # -1
      BY <1>1, <2>1, <2>2
    <3>2. fg_state = "IDLE" /\ ~ifm_payload_rdy
      BY <3>1 DEF PickedBetween
    <3> QED BY <1>2, <3>2
  <2> QED BY <1>1, <1>2, <2>1, <2>2 DEF PickedBetween
<1> QED BY <1>3, <1>4 DEF TriggerPayloadRdy

-----------------------------------------------------------------------------
(* One clock of the generators behind the picked FIFO *)

\* What the FIFO shows the generators.
LEMMA DataArgs ==
  ASSUME DataTypeOK, FifoBounds, GenInv, FromPicked
  PROVE  /\ usedw_out \in Nat
         /\ WordNo(mux_sel, LastRead(mux_sel) + 1) \in Nat
         /\ KeepsPort(mux_sel)
<1>1. mux_sel \in Fifos /\ read[mux_sel] \in Nat /\ used[mux_sel] \in Nat
  BY DEF DataTypeOK
<1>2. usedw_out \in Nat
  BY <1>1 DEF usedw_out, rdusedw
<1>3. LastRead(mux_sel) + 1 \in Nat
  BY <1>1 DEF LastRead
<1>4. KeepsPort(mux_sel)
  <2> SUFFICES ASSUME hg_state = "UDP0", Enabled("UDP0")
               PROVE  frame[Before("UDP0") + 1] = Word("UDP0", mux_sel)
    BY DEF KeepsPort
  <2>1. fg_state \in Active
    BY DEF GenInv, Sync, Active
  <2> QED BY <2>1 DEF FromPicked
<1> QED BY <1>1, <1>2, <1>3, <1>4, NextWord

\* The clock of both generators.
GenClock ==
  /\ FgMachine(ifm_payload_rdy, usedw_out)
  /\ HgClock(header_start, payload_length, mux_sel)
  /\ FrameHistory(WordNo(mux_sel, LastRead(mux_sel) + 1), mux_sel)

LEMMA DataGen ==
  ASSUME DataTypeOK, FifoBounds, GenInv, FromPicked, GenClock
  PROVE  /\ GenInv' /\ Framed
         /\ fg_state \notin Active => ~rdreq
         /\ (fg_state \notin Active /\ fg_state' \in Active) =>
              Starts(mux_sel, WordNo(mux_sel, LastRead(mux_sel) + 1))
         /\ (fg_state \in Active /\ fg_state' \in Active) => GoesOn
<1>1. /\ FgMachine(ifm_payload_rdy, usedw_out)
      /\ HgClock(header_start, payload_length, mux_sel)
      /\ FrameHistory(WordNo(mux_sel, LastRead(mux_sel) + 1), mux_sel)
  BY DEF GenClock
<1> QED BY <1>1, DataArgs, GenFrame

\* A frame is no longer than what is in the FIFO.
LEMMA DataStarts ==
  ASSUME DataTypeOK, FifoBounds, GenInv, FromPicked, GenClock,
         fg_state \notin Active, fg_state' \in Active
  PROVE  /\ fg_state = "IDLE" /\ fg_state' = "PAYLOAD_HEADER" /\ ~wrreq'
         /\ payload_length' \in Nat /\ payload_length' <= usedw_out
<1>1. FgIdle(ifm_payload_rdy, usedw_out)
  BY DEF GenClock, FgMachine, FgHeader, FgWait, FgStart, WriteMore, WriteEnd,
         FgDone, Active, PayloadStates
<1>2. /\ fg_state = "IDLE" /\ ifm_payload_rdy /\ fg_state' = "PAYLOAD_HEADER"
      /\ ~wrreq'
      /\ payload_length' = IF usedw_out >= PAYLOAD_MAX_LEN THEN PAYLOAD_MAX_LEN
                           ELSE usedw_out
  BY <1>1 DEF FgIdle, Active, PayloadStates
<1>3. usedw_out \in Nat /\ PAYLOAD_MAX_LEN \in Nat
  BY DataArgs, FrameAssumption
<1> QED BY <1>2, <1>3

\* The clocks of the payload phase, and the words that leave in it.
LEMMA DataMoves ==
  ASSUME GenInv, GenClock, Sync', fg_state \in Active, fg_state' \in PayloadStates
  PROVE  /\ fg_state \notin PayloadStates => Clk' = 0
         /\ fg_state \in PayloadStates => Clk' = Clk + 1
         /\ fg_state' = "WRITE_PAYLOAD" =>
              /\ fg_state \in PayloadStates /\ frame_word' = pipe[4]
              /\ fg_words' \in Nat /\ fg_words' < payload_length
              /\ Clk = 5 + fg_words'
         /\ fg_state' # "WRITE_PAYLOAD" => ~wrreq' \/ fg_state = "PAYLOAD_HEADER"
<1> DEFINE next == WordNo(mux_sel, LastRead(mux_sel) + 1)
<1>0. /\ FgMachine(ifm_payload_rdy, usedw_out) /\ FrameHistory(next, mux_sel)
      /\ IN_DLY = 5 /\ IN_DLY - 1 = 4
  BY DataBlockAssumption DEF GenClock
<1> HIDE DEF next
<1>1. CASE FgHeader
  <2>1. fg_state = "PAYLOAD_HEADER" /\ fg_state' = "PAYLOAD_WAIT"
        /\ delay_counter' = delay_counter
    BY <1>1 DEF FgHeader, PayloadStates
  <2>2. delay_counter = 0
    BY <2>1 DEF GenInv, HeaderPhase
  <2> QED BY <2>1, <2>2 DEF Clk, PayloadStates
<1>2. CASE FgWait
  <2>1. Clk' = Clk + 1
    BY <1>0, <1>2, GenWait
  <2>2. fg_state' # "WRITE_PAYLOAD" /\ fg_state \in PayloadStates /\ ~wrreq'
    BY <1>2 DEF FgWait, PayloadStates
  <2> QED BY <2>1, <2>2
<1>3. CASE FgStart
  <2>1. Clk' = Clk + 1
    BY <1>0, <1>3, GenStart
  <2>2. /\ fg_state = "PAYLOAD_START" /\ frame_word' = payload_word
        /\ fg_words' = fg_words /\ fg_state' = "WRITE_PAYLOAD"
    BY <1>3 DEF FgStart
  <2>3. fg_state \in PayloadStates
    BY <2>2 DEF PayloadStates
  <2>4. payload_length \in Nat /\ payload_length >= 1 /\ fg_words = 0 /\ Clk = IN_DLY
    BY <2>2, <2>3, ClkFacts DEF GenInv, PayloadPhase, Clk
  <2> QED BY <1>0, <2>1, <2>2, <2>3, <2>4 DEF payload_word
<1>4. CASE WriteMore
  <2>1. Clk' = Clk + 1
    BY <1>0, <1>4, GenMore
  <2>2. /\ fg_state = "WRITE_PAYLOAD" /\ frame_word' = payload_word
        /\ fg_words' = fg_words + 1 /\ fg_words' < payload_length
        /\ fg_state' = "WRITE_PAYLOAD"
    BY <1>4 DEF WriteMore
  <2>3. fg_state \in PayloadStates
    BY <2>2 DEF PayloadStates
  <2>4. payload_length \in Nat /\ fg_words \in Nat /\ Clk = IN_DLY + 1 + fg_words
    <3>1. fg_words \in 0 .. (payload_length - 1) /\ payload_length \in Nat
      BY <2>2, <2>3, ClkFacts DEF GenInv, PayloadPhase
    <3>2. Clk = IN_DLY + 1 + fg_words
      BY <2>2 DEF Clk
    <3> QED BY <3>1, <3>2
  <2>5. Clk = 5 + fg_words'
    BY <1>0, <2>2, <2>4
  <2> QED BY <1>0, <2>1, <2>2, <2>3, <2>4, <2>5 DEF payload_word
<1> QED BY <1>0, <1>1, <1>2, <1>3, <1>4
        DEF FgMachine, FgIdle, WriteEnd, FgDone, Active, PayloadStates

\* A frame ends when all its words are out of the FIFO and with the MAC.
LEMMA DataEnds ==
  ASSUME GenInv, GenClock, fg_state \in Active, fg_state' \notin Active
  PROVE  /\ ~rdreq /\ Out = payload_length /\ Gone = payload_length
         /\ fg_state \in PayloadStates => ~wrreq' /\ Clk > payload_length + 1
         /\ payload_length \in Nat
<1>1. CASE FgHeader
  <2>1. fg_state = "PAYLOAD_HEADER" /\ payload_length = 0
    BY <1>1 DEF FgHeader, Active, PayloadStates
  <2>2. Clk = 0 /\ Gone = 0 /\ ~rdreq
    BY <2>1, HeaderGot DEF Clk, Gone
  <2> QED BY <2>1, <2>2 DEF Out, PayloadStates
<1>2. CASE WriteEnd
  <2>1. /\ fg_state = "WRITE_PAYLOAD" /\ ~wrreq' /\ fg_state \in PayloadStates
        /\ fg_words + 1 >= payload_length
    BY <1>2 DEF WriteEnd, PayloadStates
  <2>2. /\ payload_length \in Nat /\ payload_length >= 1 /\ IN_DLY = 5
        /\ rdreq <=> Clk >= 1 /\ Clk <= payload_length
    BY <2>1, ClkFacts, DataBlockAssumption DEF GenInv, PayloadPhase
  <2>3. fg_words \in 0 .. (payload_length - 1)
    BY <2>1 DEF GenInv, PayloadPhase
  <2>4. fg_words + 1 = payload_length /\ fg_words \in Nat
    BY <2>1, <2>2, <2>3
  <2>5. Clk = 5 + payload_length
    BY <2>1, <2>2, <2>4 DEF Clk
  <2>6. Out = payload_length
    BY <2>2, <2>5 DEF Out, AtMost
  <2>7. ~(Clk <= payload_length) /\ Clk > payload_length + 1
    BY <2>2, <2>5
  <2> QED BY <2>1, <2>2, <2>4, <2>6, <2>7 DEF Gone
<1> QED BY <1>1, <1>2 DEF GenClock, FgMachine, FgIdle, FgWait, FgStart, WriteMore,
                          FgDone, Active, PayloadStates

\* Only the picked FIFO is read, in the clocks after those of rdreq.
LEMMA ReadsStep ==
  ASSUME DataTypeOK, FifoBounds, GenInv, FromPicked, GenClock,
         ReadReqMultiplexer(rdreq),
         mux_sel' # mux_sel => fg_state = "IDLE" /\ fg_state' = "IDLE"
  PROVE  ReadsPicked'
<1>1. /\ GenInv' /\ (fg_state \notin Active => ~rdreq)
      /\ (fg_state \in Active /\ fg_state' \in Active) => GoesOn
  BY DataGen
<1>2. Sync'
  BY <1>1 DEF GenInv
<1>3. \A i \in Fifos : rdreqs'[i] <=> i = mux_sel /\ rdreq
  BY DEF ReadReqMultiplexer
<1>4. CASE fg_state \in PayloadStates /\ fg_state' \in PayloadStates
  <2>1. /\ Clk' = Clk + 1 /\ mux_sel' = mux_sel /\ payload_length' = payload_length
    BY <1>1, <1>2, <1>4, DataMoves DEF Active, PayloadStates, GoesOn
  <2>2. /\ Clk \in Nat /\ payload_length \in Nat
        /\ rdreq <=> Clk >= 1 /\ Clk <= payload_length
    BY <1>4, ClkFacts DEF GenInv, PayloadPhase
  <2>3. rdreq <=> Clk' >= 2 /\ Clk' <= payload_length' + 1
    BY <2>1, <2>2
  <2> QED BY <1>3, <1>4, <2>1, <2>3 DEF ReadsPicked
<1>5. CASE fg_state \notin PayloadStates
  <2>1. ~rdreq
    BY <1>1, <1>5, HeaderGot DEF Active
  <2>2. fg_state' \in PayloadStates => Clk' = 0
    <3>1. ASSUME fg_state' \in PayloadStates PROVE fg_state \in Active
      <4>1. fg_state = "PAYLOAD_HEADER"
        BY <1>5, <3>1 DEF GenClock, FgMachine, FgIdle, FgHeader, FgWait, FgStart,
                          WriteMore, WriteEnd, FgDone, PayloadStates
      <4> QED BY <4>1 DEF Active
    <3> QED BY <1>2, <1>5, <3>1, DataMoves
  <2> QED BY <1>3, <2>1, <2>2 DEF ReadsPicked
<1>6. CASE fg_state \in PayloadStates /\ fg_state' \notin PayloadStates
  <2>1. fg_state \in Active /\ fg_state' \notin Active
    BY <1>6 DEF GenClock, FgMachine, FgIdle, FgHeader, FgWait, FgStart,
                WriteMore, WriteEnd, FgDone, Active, PayloadStates
  <2>2. ~rdreq
    BY <2>1, DataEnds
  <2> QED BY <1>3, <1>6, <2>2 DEF ReadsPicked
<1> QED BY <1>4, <1>5, <1>6

-----------------------------------------------------------------------------
(* A clock within a frame *)

\* The words out of the FIFO grow by those read.
LEMMA OutStep ==
  ASSUME GenInv, GenClock, GenInv', GoesOn, mux_sel \in Fifos, ReadsPicked,
         fg_state \in Active, fg_state' \in Active
  PROVE  /\ Out \in Nat /\ Out <= payload_length
         /\ rdreqs[mux_sel] => Out' = Out + 1 /\ Out < payload_length
         /\ ~rdreqs[mux_sel] => Out' = Out
<1>1. payload_length' = payload_length /\ payload_length \in Nat /\ Sync'
  BY DEF GoesOn, GenInv
<1>2. CASE fg_state = "PAYLOAD_HEADER"
  <2>1. Clk = 0 /\ ~rdreqs[mux_sel]
    BY <1>2 DEF Clk, ReadsPicked, PayloadStates
  <2>2. Clk' = 0
    <3>1. CASE fg_state' \in PayloadStates
      BY <1>1, <1>2, <3>1, DataMoves DEF PayloadStates
    <3>2. CASE fg_state' = "PAYLOAD_HEADER"
      BY <3>2 DEF Clk
    <3> QED BY <3>1, <3>2 DEF Active
  <2> QED BY <1>1, <2>1, <2>2 DEF Out
<1>3. CASE fg_state \in PayloadStates
  <2>1. Clk \in Nat /\ payload_length >= 1
    BY <1>3, ClkFacts
  <2>2. fg_state' \in PayloadStates
    BY <1>3 DEF GenClock, FgMachine, FgIdle, FgHeader, FgWait, FgStart,
                WriteMore, WriteEnd, FgDone, Active, PayloadStates
  <2>3. Clk' = Clk + 1
    BY <1>1, <1>3, <2>2, DataMoves
  <2>4. rdreqs[mux_sel] <=> Clk >= 2 /\ Clk <= payload_length + 1
    BY <1>3 DEF ReadsPicked
  <2>5. PICK c \in Nat, L \in Nat : c = Clk /\ L = payload_length /\ L >= 1
    BY <1>1, <2>1
  <2>6. /\ Out = IF c <= 2 THEN 0 ELSE AtMost(L, c - 2)
        /\ Out' = IF c + 1 <= 2 THEN 0 ELSE AtMost(L, (c + 1) - 2)
    BY <1>1, <2>3, <2>5 DEF Out
  <2>7. rdreqs[mux_sel] <=> c >= 2 /\ c <= L + 1
    BY <2>4, <2>5
  <2> QED BY <2>5, <2>6, <2>7 DEF AtMost
<1> QED BY <1>2, <1>3 DEF Active

\* A clock of the header puts a word of the header on the line, or none.
LEMMA HeaderOnLine ==
  ASSUME GenInv, FromPicked, GenClock, fg_state = "PAYLOAD_HEADER", wrreq'
  PROVE  frame_word' = frame'[sent'] /\ frame_word'.kind # "payload"
<1>1. FgHeader
  BY DEF GenClock, FgMachine, FgIdle, FgWait, FgStart, WriteMore, WriteEnd, FgDone
<1>2. /\ frame_word' = header_data /\ header_valid
  BY <1>1 DEF FgHeader
<1>3. frame' = frame /\ sent' = sent + 1
  BY DEF GenClock, FrameHistory
<1>4. sent \in Nat /\ sent + 1 = Before(hg_state) /\ header_data = frame[sent + 1]
  BY <1>2 DEF GenInv, HeaderPhase
<1>5. hg_state \in HgStates /\ Enabled(hg_state) /\ HeadLen \in Nat
  BY LenFacts DEF GenInv, Sync
<1>6. Before(hg_state) <= HeadLen
  <2>1. CASE hg_state \in WordStates \cup Pauses
    BY <1>5, <2>1, AfterFacts
  <2>2. CASE hg_state = "IDLE"
    BY <1>5, <2>2, IdleFacts
  <2>3. CASE hg_state = "DONE"
    BY <1>5, <2>3 DEF Before, Pauses
  <2> QED BY <1>5, <2>1, <2>2, <2>3 DEF HgStates
<1>7. sent + 1 \in 1 .. HeadLen
  BY <1>4, <1>5, <1>6
<1>8. fg_state \in Active
  BY DEF Active
<1>9. Enabled("UDP0") => frame[Before("UDP0") + 1].kind = "UDP0"
  BY <1>8 DEF FromPicked, Word
<1>10. frame[sent + 1].kind # "payload"
  BY <1>7, <1>8, <1>9, HeaderKinds DEF GenInv
<1> QED BY <1>2, <1>3, <1>4, <1>10

\* The words of the frame are read from the picked FIFO, and no others.
LEMMA FrameReads ==
  ASSUME DataTypeOK, GenInv, GenInv', FromPicked, GenClock, GoesOn, ReadsPicked,
         ReadFifos, mux_sel' = mux_sel, fg_state \in Active, fg_state' \in Active,
         \A i \in Fifos : written[i] <= written'[i], written' \in [Fifos -> Nat]
  PROVE  /\ Base \in Nat /\ Base' = Base
         /\ Out \in Nat /\ Out <= payload_length /\ read[mux_sel] = Base + Out
         /\ \A i \in Fifos : i # mux_sel => read'[i] = read[i]
         /\ rdreqs[mux_sel] => fifo_outs'[mux_sel] = read'[mux_sel]
         /\ ~rdreqs[mux_sel] => /\ fifo_outs'[mux_sel] = fifo_outs[mux_sel]
                                /\ read'[mux_sel] = read[mux_sel]
         /\ FromPicked'
<1>1. /\ mux_sel \in Fifos /\ read \in [Fifos -> Nat] /\ written \in [Fifos -> Nat]
      /\ fifo_outs \in [Fifos -> Nat]
  BY Fill DEF DataTypeOK
<1>2. /\ Base \in Nat /\ Base + payload_length <= written[mux_sel]
      /\ \A k \in 1 .. payload_length :
           frame[HeadLen + k] = Payload(WordNo(mux_sel, Base + k))
      /\ Enabled("UDP0") => frame[Before("UDP0") + 1] = Word("UDP0", mux_sel)
  BY DEF FromPicked
<1>3. frame' = frame /\ payload_length' = payload_length /\ payload_length \in Nat
  BY DEF GoesOn
<1>4. /\ Out \in Nat /\ Out <= payload_length
      /\ rdreqs[mux_sel] => Out' = Out + 1 /\ Out < payload_length
      /\ ~rdreqs[mux_sel] => Out' = Out
  BY <1>1, OutStep
<1>5. read[mux_sel] = Base + Out
  BY <1>1, <1>2, <1>4 DEF Base
<1>6. \A i \in Fifos :
        /\ (rdreqs[i] /\ rdusedw(i) > 0) =>
             read'[i] = read[i] + 1 /\ fifo_outs'[i] = read[i] + 1
        /\ ~rdreqs[i] => read'[i] = read[i] /\ fifo_outs'[i] = fifo_outs[i]
  <2>1. fg_state # "IDLE"
    BY DEF Active, PayloadStates
  <2> QED BY <1>1, <2>1, SameNumbers DEF ReadFifos, Reads
<1>7. \A i \in Fifos : i # mux_sel => ~rdreqs[i]
  BY DEF ReadsPicked
<1>8. rdreqs[mux_sel] => rdusedw(mux_sel) > 0
  BY <1>1, <1>2, <1>3, <1>4, <1>5, Fill
<1>9. Base' = Base
  <2>1. Base' = read'[mux_sel] - Out'
    BY DEF Base
  <2>2. CASE rdreqs[mux_sel]
    <3>1. read'[mux_sel] = read[mux_sel] + 1 /\ Out' = Out + 1
      BY <1>1, <1>4, <1>6, <1>8, <2>2
    <3> QED BY <1>2, <1>4, <1>5, <2>1, <3>1
  <2>3. CASE ~rdreqs[mux_sel]
    <3>1. read'[mux_sel] = read[mux_sel] /\ Out' = Out
      BY <1>1, <1>4, <1>6, <2>3
    <3> QED BY <1>2, <1>4, <1>5, <2>1, <3>1
  <2> QED BY <2>2, <2>3
<1>10. FromPicked'
  <2>1. Base' + payload_length' <= written'[mux_sel']
    <3>1. written[mux_sel] <= written'[mux_sel] /\ written[mux_sel] \in Nat
          /\ written'[mux_sel] \in Nat
      BY <1>1
    <3>2. PICK b \in Nat, L \in Nat : b = Base /\ L = payload_length
      BY <1>2, <1>3
    <3> QED BY <1>2, <1>3, <1>9, <3>1, <3>2
  <2> QED BY <1>2, <1>3, <1>9, <2>1 DEF FromPicked
<1> QED BY <1>1, <1>2, <1>4, <1>5, <1>6, <1>7, <1>8, <1>9, <1>10

\* They follow one another through the registers to the line.
LEMMA WayStep ==
  ASSUME DataTypeOK, GenInv, GenInv', FromPicked, GenClock, GoesOn, ReadsPicked,
         ReadFifos, OnTheWay, DataPipeline, mux_sel' = mux_sel,
         fg_state \in Active, fg_state' \in Active,
         \A i \in Fifos : written[i] <= written'[i], written' \in [Fifos -> Nat]
  PROVE  OnTheWay'
<1>1. /\ Base \in Nat /\ Out \in Nat /\ read[mux_sel] = Base + Out
      /\ rdreqs[mux_sel] => fifo_outs'[mux_sel] = read'[mux_sel]
      /\ ~rdreqs[mux_sel] => /\ fifo_outs'[mux_sel] = fifo_outs[mux_sel]
                             /\ read'[mux_sel] = read[mux_sel]
  BY FrameReads
<1>2. /\ frame' = frame /\ payload_length' = payload_length /\ payload_length \in Nat
      /\ Sync' /\ mux_sel \in Fifos
  BY DEF GoesOn, GenInv, DataTypeOK
<1>3. pipe'[3] = data_out /\ pipe'[4] = pipe[3]
  <2>1. 3 \in DOMAIN pipe /\ 4 \in DOMAIN pipe
    BY DataBlockAssumption DEF DataTypeOK, Stages
  <2> QED BY <2>1 DEF DataPipeline
<1>4. ASSUME fg_state' \in PayloadStates, fg_state \in PayloadStates
      PROVE  /\ Clk' >= 3 => fifo_outs'[mux_sel'] = read'[mux_sel']
             /\ \A i \in 3 .. 4 : Clk' > i =>
                  pipe'[i] = frame'[HeadLen + AtMost(payload_length', Clk' - i)]
  <2>1. PICK c \in Nat, L \in Nat : /\ c = Clk /\ L = payload_length /\ L >= 1
                                    /\ Clk' = c + 1
    BY <1>2, <1>4, ClkFacts, DataMoves
  <2>2. rdreqs[mux_sel] <=> c >= 2 /\ c <= L + 1
    BY <1>2, <1>4, <2>1 DEF ReadsPicked
  <2>3. /\ c >= 3 => fifo_outs[mux_sel] = read[mux_sel]
        /\ c > 3 => pipe[3] = frame[HeadLen + AtMost(L, c - 3)]
    BY <1>4, <2>1 DEF OnTheWay
  <2>4. c + 1 >= 3 => fifo_outs'[mux_sel] = read'[mux_sel]
    <3>1. CASE rdreqs[mux_sel]
      BY <1>1, <3>1
    <3>2. CASE ~rdreqs[mux_sel]
      <4>1. c + 1 >= 3 => c >= 3
        BY <2>1, <2>2, <3>2
      <4> QED BY <1>1, <2>3, <3>2, <4>1
    <3> QED BY <3>1, <3>2
  <2>5. ASSUME c + 1 > 3
        PROVE  pipe'[3] = frame[HeadLen + AtMost(L, (c + 1) - 3)]
    <3>1. c >= 3 /\ (c + 1) - 3 = c - 2
      BY <2>5
    <3>2. Out = AtMost(L, c - 2)
      BY <2>1, <3>1 DEF Out
    <3>3. Out \in 1 .. payload_length
      BY <2>1, <3>1, <3>2 DEF AtMost
    <3>4. frame[HeadLen + Out] = Payload(WordNo(mux_sel, Base + Out))
      BY <3>3 DEF FromPicked
    <3>5. data_out = Payload(WordNo(mux_sel, Base + Out))
      BY <1>1, <2>3, <3>1 DEF data_out
    <3> QED BY <1>3, <3>1, <3>2, <3>4, <3>5
  <2>6. ASSUME c + 1 > 4
        PROVE  pipe'[4] = frame[HeadLen + AtMost(L, (c + 1) - 4)]
    <3>1. c > 3 /\ (c + 1) - 4 = c - 3
      BY <2>6
    <3> QED BY <1>3, <2>3, <3>1
  <2>7. \A i \in 3 .. 4 : i = 3 \/ i = 4
    OBVIOUS
  <2>8. \A i \in 3 .. 4 : c + 1 > i =>
          pipe'[i] = frame[HeadLen + AtMost(L, (c + 1) - i)]
    BY <2>5, <2>6, <2>7
  <2> QED BY <1>2, <2>1, <2>4, <2>8
<1>5. ASSUME fg_state' \in PayloadStates, fg_state \notin PayloadStates
      PROVE  Clk' = 0
  BY <1>2, <1>5, DataMoves
<1>6. ASSUME wrreq'
      PROVE  frame_word' = frame'[sent']
  <2>1. CASE fg_state = "PAYLOAD_HEADER"
    BY <1>6, <2>1, HeaderOnLine
  <2>2. CASE fg_state \in PayloadStates
    <3>1. fg_state' \in PayloadStates
      BY <2>2 DEF GenClock, FgMachine, FgIdle, FgHeader, FgWait, FgStart,
                  WriteMore, WriteEnd, FgDone, Active, PayloadStates
    <3>2. fg_state' = "WRITE_PAYLOAD"
      BY <1>2, <1>6, <2>2, <3>1, DataMoves DEF PayloadStates
    <3>3. PICK w \in Nat, L \in Nat : /\ w = fg_words' /\ L = payload_length /\ w < L
                                      /\ Clk = 5 + w /\ frame_word' = pipe[4]
      BY <1>2, <3>1, <3>2, DataMoves
    <3> w \in Nat /\ L \in Nat /\ w < L
      BY <3>3
    <3>4. sent' = HeadLen + w + 1
      BY <3>1, <3>2, <3>3 DEF GenInv, PayloadPhase
    <3>5. 4 \in 3 .. 4 /\ 5 + w > 4 /\ (5 + w) - 4 = w + 1 /\ w + 1 <= L
      OBVIOUS
    <3>8. AtMost(L, w + 1) = w + 1
      BY <3>5 DEF AtMost
    <3>6. pipe[4] = frame[HeadLen + (w + 1)]
      BY <2>2, <3>3, <3>5, <3>8 DEF OnTheWay
    <3>7. HeadLen + (w + 1) = HeadLen + w + 1
      BY LenFacts
    <3> QED BY <1>2, <3>3, <3>4, <3>6, <3>7
  <2> QED BY <2>1, <2>2 DEF Active
<1>7. Clk' = 0 => ~(Clk' >= 3) /\ \A i \in 3 .. 4 : ~(Clk' > i)
  OBVIOUS
<1> QED BY <1>4, <1>5, <1>6, <1>7 DEF OnTheWay

\* What has reached the MAC grows by the word on the line.
LEMMA AccountStep ==
  ASSUME DataTypeOK, FifoBounds, GenInv, GenInv', FromPicked, GenClock, GoesOn,
         ReadsPicked, ReadFifos, OnTheWay', Account, Delivered, mux_sel' = mux_sel,
         fg_state \in Active, fg_state' \in Active,
         \A i \in Fifos : written[i] <= written'[i], written' \in [Fifos -> Nat]
  PROVE  Account' /\ delivered' \in [Fifos -> Nat]
<1>1. /\ Base \in Nat /\ Base' = Base
      /\ \A i \in Fifos : i # mux_sel => read'[i] = read[i]
  BY FrameReads
<1>2. /\ frame' = frame /\ payload_length' = payload_length /\ payload_length \in Nat
      /\ Sync' /\ mux_sel \in Fifos /\ delivered \in [Fifos -> Nat]
  BY DEF GoesOn, GenInv, DataTypeOK
<1>3. /\ \A i \in Fifos : i # mux_sel => delivered[i] = read[i]
      /\ delivered[mux_sel] = Base + Gone
  BY DEF Account
<1>0. /\ ~Settled
      /\ [i \in Fifos |-> IF Settled THEN 0 ELSE delivered[i]] = delivered
  <2>1. ~Settled
    BY SameNumbers DEF Active, PayloadStates
  <2> QED BY <1>2, <2>1
<1>4. CASE fg_state' = "WRITE_PAYLOAD"
  <2>1. fg_state' \in PayloadStates
    BY <1>4 DEF PayloadStates
  <2>2. /\ fg_state \in PayloadStates
        /\ fg_words' \in Nat /\ fg_words' < payload_length
    BY <1>2, <1>4, <2>1, DataMoves
  <2>3. PICK w \in Nat, b \in Nat, L \in Nat :
          w = fg_words' /\ b = Base /\ L = payload_length /\ w < L
    BY <1>1, <1>2, <2>2
  <2> w \in Nat /\ b \in Nat /\ L \in Nat /\ w < L
    BY <2>3
  <2>4. wrreq'
    BY <1>4, <2>2 DEF GenClock, FgMachine, FgIdle, FgHeader, FgWait, FgStart,
                      WriteMore, WriteEnd, FgDone, PayloadStates
  <2>5. sent' = HeadLen + w + 1
    BY <1>4, <2>1, <2>3 DEF GenInv, PayloadPhase
  <2>6. w + 1 \in 1 .. payload_length /\ HeadLen + w + 1 = HeadLen + (w + 1)
    <3>1. w + 1 \in 1 .. L
      OBVIOUS
    <3>2. L = payload_length
      BY <2>3
    <3> QED BY <3>1, <3>2, LenFacts
  <2>7. frame_word' = frame[HeadLen + (w + 1)]
    BY <1>2, <2>4, <2>5, <2>6 DEF OnTheWay
  <2>8. frame[HeadLen + (w + 1)] = Payload(WordNo(mux_sel, Base + (w + 1)))
    BY <2>6 DEF FromPicked
  <2>9. b + (w + 1) \in 0 .. MaxWords
    <3>1. /\ written[mux_sel] \in Nat /\ Accepted(mux_sel) <= MaxWords
          /\ written[mux_sel] <= Accepted(mux_sel) /\ Accepted(mux_sel) \in Nat
          /\ MaxWords \in Nat
      BY <1>2, Fill, DataBlockAssumption DEF FifoBounds, Accepted
    <3>2. b + L <= written[mux_sel]
      BY <2>3 DEF FromPicked
    <3> QED BY <3>1, <3>2
  <2>10. PICK n \in 0 .. MaxWords : n = b + (w + 1)
    BY <2>9
  <2>11. /\ frame_word'.kind = "payload" /\ frame_word'.n = WordNo(mux_sel, n)
    BY <2>3, <2>7, <2>8, <2>10 DEF Payload, Word
  <2>12. /\ WordNo(mux_sel, n) \div (MaxWords + 1) = mux_sel
         /\ WordNo(mux_sel, n) % (MaxWords + 1) = n
    BY <1>2, WordParts
  <2>13. delivered' = [delivered EXCEPT ![mux_sel] = n]
    BY <2>4, <2>11, <2>12 DEF Delivered
  <2>14. n = Base' + Gone'
    BY <1>1, <1>4, <2>3, <2>10 DEF Gone
  <2>15. n \in Nat
    BY <2>10
  <2> QED BY <1>1, <1>2, <1>3, <2>13, <2>14, <2>15 DEF Account
<1>5. CASE fg_state' # "WRITE_PAYLOAD"
  <2>1. delivered' = delivered
    <3>1. CASE ~wrreq'
      BY <1>0, <3>1 DEF Delivered
    <3>2. CASE wrreq'
      <4>1. fg_state = "PAYLOAD_HEADER"
        BY <1>5, <3>2 DEF GenClock, FgMachine, FgIdle, FgHeader, FgWait, FgStart,
                          WriteMore, WriteEnd, FgDone, Active, PayloadStates
      <4> QED BY <1>0, <3>2, <4>1, HeaderOnLine DEF Delivered
    <3> QED BY <3>1, <3>2
  <2>2. fg_state # "WRITE_PAYLOAD"
    BY <1>5 DEF GenClock, FgMachine, FgIdle, FgHeader, FgWait, FgStart,
                WriteMore, WriteEnd, FgDone, Active, PayloadStates
  <2>3. Gone' = 0 /\ Gone = 0
    BY <1>5, <2>2 DEF Gone
  <2> QED BY <1>1, <1>2, <1>3, <2>1, <2>3 DEF Account
<1> QED BY <1>4, <1>5

-----------------------------------------------------------------------------
(* A clock in which a frame starts or ends, and one between frames *)

\* Between frames all that was read has been delivered.
LEMMA AtRest ==
  ASSUME DataTypeOK, Account, fg_state \notin Active
  PROVE  /\ delivered = read
         /\ fg_state = "IDLE" => Settled
<1>1. delivered \in [Fifos -> Nat] /\ read \in [Fifos -> Nat]
  BY DEF DataTypeOK
<1>2. \A i \in Fifos : delivered[i] = read[i]
  BY DEF Account
<1> QED BY <1>1, <1>2 DEF Settled

\* A frame starts: its words are the next of the picked FIFO.
LEMMA BeginStep ==
  ASSUME DataTypeOK, FifoBounds, GenInv, GenInv', FromPicked, GenClock,
         ReadsPicked, ReadFifos, Account, Delivered, mux_sel' = mux_sel,
         fg_state \notin Active, fg_state' \in Active,
         \A i \in Fifos : LastRead(i) + used[i] <= written'[i], written' \in [Fifos -> Nat]
  PROVE  FromPicked' /\ OnTheWay' /\ Account' /\ delivered' \in [Fifos -> Nat]
<1>1. /\ fg_state = "IDLE" /\ fg_state' = "PAYLOAD_HEADER" /\ ~wrreq'
      /\ payload_length' \in Nat /\ payload_length' <= usedw_out
  BY DataStarts
<1>2. Starts(mux_sel, WordNo(mux_sel, LastRead(mux_sel) + 1))
  BY DataGen
<1>3. /\ mux_sel \in Fifos /\ used[mux_sel] \in Nat /\ written'[mux_sel] \in Nat
  BY DEF DataTypeOK
<1>4. LastRead(mux_sel) = 0 /\ read' = All(0) /\ delivered' = All(0)
  <2>1. Settled
    BY <1>1, AtRest
  <2>2. \A i \in Fifos : ~rdreqs[i]
    BY <1>1 DEF ReadsPicked, PayloadStates
  <2> QED BY <1>1, <2>1, <2>2 DEF ReadFifos, Reads, Delivered, LastRead, All
<1>5. Clk' = 0 /\ Out' = 0 /\ Gone' = 0 /\ fg_state' \notin PayloadStates
  BY <1>1 DEF Clk, Out, Gone, PayloadStates
<1>6. /\ \A i \in Fifos : read'[i] = 0 /\ delivered'[i] = 0
      /\ delivered' \in [Fifos -> Nat] /\ Base' = 0
  BY <1>3, <1>4, <1>5 DEF Base, All
<1>7. FromPicked'
  <2>1. payload_length' <= written'[mux_sel]
    BY <1>1, <1>3, <1>4 DEF usedw_out, rdusedw
  <2>2. ASSUME NEW k \in 1 .. payload_length'
        PROVE  frame'[HeadLen + k] = Payload(WordNo(mux_sel', Base' + k))
    <3>1. frame'[HeadLen + k] = Payload(WordNo(mux_sel, 0 + 1) + k - 1)
      BY <1>2, <1>4 DEF Starts
    <3>2. k \in Nat
      BY <1>1
    <3>3. WordNo(mux_sel, 0 + 1) + k - 1 = WordNo(mux_sel, 0 + k)
      BY <1>3, <3>2, NextWord
    <3> QED BY <1>6, <3>1, <3>3
  <2>3. Base' \in Nat /\ Base' + payload_length' <= written'[mux_sel']
    BY <1>1, <1>3, <1>6, <2>1
  <2> QED BY <1>2, <2>2, <2>3 DEF FromPicked, Starts
<1>8. OnTheWay'
  BY <1>1, <1>5 DEF OnTheWay
<1>9. Account'
  BY <1>3, <1>5, <1>6 DEF Account
<1> QED BY <1>6, <1>7, <1>8, <1>9

\* A frame ends: all that was read of it has been delivered.
LEMMA FinishStep ==
  ASSUME DataTypeOK, FifoBounds, GenInv, GenInv', FromPicked, GenClock,
         ReadsPicked, ReadFifos, Account, Delivered, mux_sel' = mux_sel,
         fg_state \in Active, fg_state' \notin Active
  PROVE  FromPicked' /\ OnTheWay' /\ Account' /\ delivered' \in [Fifos -> Nat]
<1>1. /\ Out = payload_length /\ Gone = payload_length /\ payload_length \in Nat
      /\ fg_state \in PayloadStates => ~wrreq' /\ Clk > payload_length + 1
  BY DataEnds
<1>2. /\ mux_sel \in Fifos /\ read \in [Fifos -> Nat]
      /\ delivered \in [Fifos -> Nat] /\ fifo_outs \in [Fifos -> Nat]
  BY DEF DataTypeOK
<1>0. ~Settled /\ \A i \in Fifos : LastRead(i) = read[i]
  BY SameNumbers DEF Active, PayloadStates
<1>3. read' = read
  <2>1. \A i \in Fifos : ~rdreqs[i]
    <3>1. CASE fg_state \in PayloadStates
      <4>1. Clk \in Nat
        BY <3>1, ClkFacts
      <4>2. ~(Clk <= payload_length + 1)
        BY <1>1, <3>1, <4>1
      <4> QED BY <4>2 DEF ReadsPicked
    <3>2. CASE fg_state \notin PayloadStates
      BY <3>2 DEF ReadsPicked
    <3> QED BY <3>1, <3>2
  <2> QED BY <1>0, <1>2, <2>1 DEF ReadFifos, Reads
<1>4. fg_state = "PAYLOAD_HEADER" \/ ~wrreq'
  BY <1>1 DEF Active
<1>5. wrreq' => frame_word' = frame'[sent'] /\ frame_word'.kind # "payload"
  BY <1>4, HeaderOnLine
<1>6. delivered' = delivered
  BY <1>0, <1>2, <1>5 DEF Delivered
<1>7. \A i \in Fifos : delivered[i] = read[i]
  <2>1. PICK r \in Nat, L \in Nat : r = read[mux_sel] /\ L = payload_length
    BY <1>1, <1>2
  <2>2. delivered[mux_sel] = (r - L) + L
    BY <1>1, <2>1 DEF Account, Base
  <2> QED BY <1>2, <2>1, <2>2 DEF Account
<1>8. fg_state' \notin PayloadStates
  BY DEF Active
<1> QED BY <1>2, <1>3, <1>5, <1>6, <1>7, <1>8 DEF FromPicked, OnTheWay, Account

\* Between frames nothing is read or written, and another FIFO may be picked.
LEMMA RestStep ==
  ASSUME DataTypeOK, GenInv, GenClock, ReadsPicked, ReadFifos, Account, Delivered,
         mux_sel' \in Fifos, fg_state \notin Active, fg_state' \notin Active
  PROVE  FromPicked' /\ OnTheWay' /\ Account' /\ delivered' \in [Fifos -> Nat]
<1>1. ~wrreq'
  BY DEF GenClock, FgMachine, FgIdle, FgHeader, FgWait, FgStart, WriteMore,
         WriteEnd, FgDone, Active, PayloadStates
<1>2. delivered = read /\ read \in [Fifos -> Nat]
  BY AtRest DEF DataTypeOK
<1>3. /\ read' = [i \in Fifos |-> LastRead(i)]
      /\ delivered' = [i \in Fifos |-> LastRead(i)]
  <2>1. \A i \in Fifos : ~rdreqs[i]
    BY DEF ReadsPicked, Active
  <2> QED BY <1>1, <1>2, <2>1 DEF ReadFifos, Reads, Delivered, LastRead
<1>4. \A i \in Fifos : LastRead(i) \in Nat
  BY <1>2 DEF LastRead
<1>5. /\ \A i \in Fifos : delivered'[i] = read'[i]
      /\ delivered' \in [Fifos -> Nat]
  BY <1>3, <1>4
<1>6. fg_state' \notin PayloadStates
  BY DEF Active
<1> QED BY <1>1, <1>5, <1>6 DEF FromPicked, OnTheWay, Account

-----------------------------------------------------------------------------
(* The data block *)

\* A clock.
LEMMA DataTickStep ==
  ASSUME DataInv, NEW edges \in WriteEdges, NEW tx_ready \in BOOLEAN,
         DataTick(edges, tx_ready)
  PROVE  DataInv'
<1>1. /\ DataTypeOK /\ FifoBounds /\ PickedBetween /\ GenInv
      /\ ReadsPicked /\ FromPicked /\ OnTheWay /\ Account
  BY DEF DataInv, DataControl
<1>2. /\ FifoGen(edges) /\ WriteClocks(edges) /\ TriggerPayloadRdy(fg_busy \/ ~tx_ready)
      /\ ReadReqMultiplexer(rdreq) /\ ReadFifos
      /\ FgMachine(ifm_payload_rdy, usedw_out) /\ GenClock /\ DataPipeline
      /\ Delivered
  BY DEF DataTick, IfmClock, GenClock, dest_port
<1>3. /\ used' \in [Fifos -> Nat] /\ read' \in [Fifos -> Nat]
      /\ fifo_outs' \in [Fifos -> Nat] /\ wrreqs_sig' \in [Fifos -> BOOLEAN]
      /\ FifoBounds'
      /\ written' \in [Fifos -> Nat]
      /\ \A i \in Fifos : LastRead(i) + used[i] <= written'[i]
  <2>1. FifoBounds'
    BY DEF DataTick, FifoBounds
  <2> QED BY <1>1, <1>2, <2>1, FifoStep, InRegStep
<1>4. /\ mux_sel' \in Fifos /\ fullest_fifo' \in Fifos \cup {NFIFOS}
      /\ ifm_payload_rdy' \in BOOLEAN /\ fg_busy' \in BOOLEAN
      /\ PickedBetween'
      /\ mux_sel' # mux_sel => fg_state = "IDLE" /\ fg_state' = "IDLE"
  <2>1. Sync
    BY <1>1 DEF GenInv
  <2>2. PICK busy : busy = (fg_busy \/ ~tx_ready)
    OBVIOUS
  <2>3. (fg_busy => busy) /\ TriggerPayloadRdy(busy)
    BY <1>2, <2>2
  <2> QED BY <1>1, <1>2, <2>1, <2>3, ScanStep
<1>5. /\ GenInv'
      /\ (fg_state \in Active /\ fg_state' \in Active) => GoesOn
  BY <1>1, <1>2, DataGen
<1>6. ReadsPicked'
  BY <1>1, <1>2, <1>4, ReadsStep
<1>7. DOMAIN pipe' = Stages
  BY <1>1, <1>2 DEF DataTypeOK, DataPipeline
<1>8. (fg_state \in Active \/ fg_state' \in Active) => mux_sel' = mux_sel
  BY <1>4 DEF Active, PayloadStates
<1>9. FromPicked' /\ OnTheWay' /\ Account' /\ delivered' \in [Fifos -> Nat]
  <2>1. CASE fg_state \in Active /\ fg_state' \in Active
    <3>0. \A i \in Fifos : written[i] <= written'[i]
      <4>1. \A i \in Fifos : LastRead(i) = read[i]
        BY <2>1, SameNumbers DEF Active, PayloadStates
      <4>2. \A i \in Fifos : written[i] = read[i] + used[i]
        BY DEF written
      <4> QED BY <1>3, <4>1, <4>2
    <3>1. FromPicked'
      BY <1>1, <1>2, <1>3, <1>5, <1>8, <2>1, <3>0, FrameReads
    <3>2. OnTheWay'
      BY <1>1, <1>2, <1>3, <1>5, <1>8, <2>1, <3>0, WayStep
    <3>3. Account' /\ delivered' \in [Fifos -> Nat]
      BY <1>1, <1>2, <1>3, <1>5, <1>8, <2>1, <3>0, <3>2, AccountStep
    <3> QED BY <3>1, <3>2, <3>3
  <2>2. CASE fg_state \notin Active /\ fg_state' \in Active
    BY <1>1, <1>2, <1>3, <1>5, <1>8, <2>2, BeginStep
  <2>3. CASE fg_state \in Active /\ fg_state' \notin Active
    BY <1>1, <1>2, <1>5, <1>8, <2>3, FinishStep
  <2>4. CASE fg_state \notin Active /\ fg_state' \notin Active
    BY <1>1, <1>2, <1>4, <2>4, RestStep
  <2> QED BY <2>1, <2>2, <2>3, <2>4
<1>10. DataTypeOK'
  BY <1>3, <1>4, <1>7, <1>9 DEF DataTypeOK
<1> QED BY <1>3, <1>4, <1>5, <1>6, <1>9, <1>10 DEF DataInv, DataControl

\* A state in which all is idle and every FIFO empty.
Blank ==
  /\ mux_sel = 0 /\ fullest_fifo = NFIFOS /\ ifm_payload_rdy = FALSE
  /\ used = All(0) /\ read = All(0) /\ fifo_outs = All(0)
  /\ delivered = All(0) /\ rdreqs = All(FALSE)
  /\ pipe = [i \in Stages |-> NoWord]
  /\ fg_state = "IDLE" /\ wrreq = FALSE
  /\ GenInv /\ fg_busy \in BOOLEAN /\ wrreqs_sig \in [Fifos -> BOOLEAN]
  /\ \A i \in Fifos : wrreqs_sig[i] => 1 <= MaxWords

\* It satisfies the invariant.
LEMMA BlankInv == Blank => DataInv
<1> SUFFICES ASSUME Blank PROVE DataInv
  OBVIOUS
<1>1. 0 \in Fifos /\ MaxWords \in Nat
  BY IfmAssumption, DataBlockAssumption DEF Fifos
<1>2. DataTypeOK
  BY <1>1 DEF Blank, DataTypeOK, All
<1>3. FifoBounds
  <2> SUFFICES ASSUME NEW i \in Fifos
               PROVE  Accepted(i) <= MaxWords
    BY DEF FifoBounds
  <2>1. written[i] = 0
    BY DEF Blank, All, written
  <2>2. wrreqs_sig[i] => 1 <= MaxWords
    BY DEF Blank
  <2> QED BY <1>1, <2>1, <2>2 DEF Accepted
<1>4. PickedBetween
  BY DEF Blank, PickedBetween
<1>5. fg_state \notin Active /\ fg_state \notin PayloadStates
  BY DEF Blank, Active, PayloadStates
<1>6. ReadsPicked /\ FromPicked /\ OnTheWay
  BY <1>5 DEF Blank, ReadsPicked, FromPicked, OnTheWay, All
<1>7. Account
  BY <1>1, <1>5 DEF Blank, Account, All
<1> QED BY <1>2, <1>3, <1>4, <1>6, <1>7 DEF Blank, DataInv, DataControl

\* A reset.
LEMMA DataResetStep ==
  ASSUME DataInv, DataReset
  PROVE  DataInv'
<1>1. /\ DataTypeOK /\ FifoBounds
      /\ ~header_start /\ IfmReset /\ FgReset /\ HgReset
      /\ read' = All(0) /\ fifo_outs' = All(0) /\ delivered' = All(0)
  BY DEF DataInv, DataControl, DataReset
<1>2. GenInv'
  BY <1>1, GenReset
<1>4. fg_busy' = fg_busy /\ wrreqs_sig' = wrreqs_sig
  BY <1>1 DEF IfmReset, FgReset
<1>5. /\ fg_busy \in BOOLEAN /\ wrreqs_sig \in [Fifos -> BOOLEAN]
      /\ written \in [Fifos -> Nat] /\ MaxWords \in Nat
  BY <1>1, Fill, DataBlockAssumption DEF DataTypeOK
<1>6. \A i \in Fifos : wrreqs_sig[i] => 1 <= MaxWords
  BY <1>1, <1>5 DEF FifoBounds, Accepted
<1>7. Blank'
  BY <1>1, <1>2, <1>4, <1>5, <1>6 DEF Blank, IfmReset, FgReset, All
<1> QED BY <1>7, BlankInv, PTL

\* The initial state.
LEMMA DataInitInv ==
  ASSUME DataInit
  PROVE  DataInv
<1>1. GenInv
  BY GenInit DEF DataInit
<1>3. fg_busy \in BOOLEAN /\ wrreqs_sig \in [Fifos -> BOOLEAN]
      /\ \A i \in Fifos : ~wrreqs_sig[i]
  BY DEF DataInit, IfmInit, FgInit, All
<1>4. Blank
  BY <1>1, <1>3 DEF DataInit, IfmInit, FgInit, Blank, All
<1> QED BY <1>4, BlankInv

\* A step that changes nothing.
LEMMA DataStutter ==
  ASSUME DataInv, UNCHANGED dataVars
  PROVE  DataInv'
<1>1. UNCHANGED <<hgVars, fgVars>>
  BY DEF dataVars
<1>2. /\ UNCHANGED <<used, read, fifo_outs, wrreqs_sig, ifm_step, fullest_fifo,
                      mux_sel, ifm_payload_rdy, rdreqs, delivered>>
      /\ written' = written
  BY DEF dataVars, ifmVars, wordVars, written
<1>3. UNCHANGED <<fg_state, payload_length, delay_counter, fg_words, wrreq,
                  frame_word, fg_busy, pipe, frame, sent>>
  BY <1>1 DEF fgVars
<1>4. GenInv' = GenInv
  BY <1>1, GenStutter
<1>5. Clk' = Clk
  BY <1>3 DEF Clk
<1>6. Out' = Out /\ Gone' = Gone
  BY <1>3, <1>5 DEF Out, Gone
<1>7. Base' = Base
  BY <1>2, <1>6 DEF Base
<1>8. DataTypeOK' = DataTypeOK /\ PickedBetween' = PickedBetween
  BY <1>2, <1>3 DEF DataTypeOK, PickedBetween
<1>9. FifoBounds' = FifoBounds
  BY <1>2 DEF FifoBounds, Accepted
<1>10. ReadsPicked' = ReadsPicked /\ OnTheWay' = OnTheWay
  BY <1>2, <1>3, <1>5 DEF ReadsPicked, OnTheWay
<1>11. FromPicked' = FromPicked /\ Account' = Account
  BY <1>2, <1>3, <1>6, <1>7 DEF FromPicked, Account
<1> QED BY <1>4, <1>8, <1>9, <1>10, <1>11 DEF DataInv, DataControl

(***************************************************************************)
(* Whatever the write clocks, the flags and the transmitter do, only the   *)
(* FIFO that mux_sel picked is read, mux_sel changes between frames only,  *)
(* and every word between a FIFO and the MAC is accounted for.             *)
(***************************************************************************)
THEOREM DataInvariance == DataSpec => []DataInv
<1>1. DataInit => DataInv
  BY DataInitInv
<1>2. DataInv /\ [DataNext]_dataVars => DataInv'
  <2> SUFFICES ASSUME DataInv, [DataNext]_dataVars
               PROVE  DataInv'
    OBVIOUS
  <2>1. CASE \E edges \in WriteEdges, tx_ready \in BOOLEAN : DataTick(edges, tx_ready)
    BY <2>1, DataTickStep
  <2>2. CASE DataReset
    BY <2>2, DataResetStep
  <2>3. CASE UNCHANGED dataVars
    BY <2>3, DataStutter
  <2> QED BY <2>1, <2>2, <2>3 DEF DataNext
<1> QED BY <1>1, <1>2, PTL DEF DataSpec

(***************************************************************************)
(* SentFromItsFifo for every configuration: the word that                  *)
(* eth_frame_generator puts on the line is the next one of the header and  *)
(* words of the FIFO picked when the frame was started, although           *)
(* trigger_payload_rdy goes on scanning meanwhile.                         *)
(***************************************************************************)
THEOREM FramesFromTheirFifo == DataSpec => []SentFromItsFifo
<1>1. DataInv => SentFromItsFifo
  BY DEF DataInv, DataControl, OnTheWay, GenInv, Written, SentFromItsFifo
<1> QED BY <1>1, DataInvariance, PTL

(***************************************************************************)
(* The frames of the data block are whole: eth_frame_generator presents    *)
(* each word of a frame in order and once, and marks the first and the     *)
(* last, although the words come two clocks later than rdreq asks for them *)
(* and from a FIFO behind a multiplexer.                                   *)
(***************************************************************************)
THEOREM DataFramesWhole == DataSpec => WholeFrames
<1>1. DataInit => Link!LinkInit
  BY GenInit DEF DataInit
<1>2. DataInv /\ DataInv' /\ [DataNext]_dataVars =>
        [Link!LinkNext]_<<[valid |-> wrreq, sop |-> sop, eop |-> eop,
                           word |-> frame_word], frame, sent>>
  <2> SUFFICES ASSUME DataInv, DataInv', [DataNext]_dataVars
               PROVE  \/ Link!LinkNext
                      \/ UNCHANGED <<wrreq, sop, eop, frame_word, frame, sent>>
    OBVIOUS
  <2>1. ASSUME NEW edges \in WriteEdges, NEW tx_ready \in BOOLEAN,
               DataTick(edges, tx_ready)
        PROVE  Link!LinkNext
    <3>1. GenClock
      BY <2>1 DEF DataTick, GenClock, dest_port
    <3>2. Framed
      BY <3>1, DataGen DEF DataInv, DataControl
    <3>3. wrreq' => frame_word' = frame'[sent']
      BY DEF DataInv, OnTheWay
    <3> QED BY <3>2, <3>3, FramedLink
  <2>2. CASE DataReset
    BY <2>2, GenReset DEF DataReset
  <2>3. CASE UNCHANGED dataVars
    BY <2>3 DEF dataVars, fgVars
  <2> QED BY <2>1, <2>2, <2>3 DEF DataNext
<1> QED BY <1>1, <1>2, DataInvariance, PTL
        DEF DataSpec, WholeFrames, Link!LinkSpec

(***************************************************************************)
(* NoWordSkipped for every configuration: when the frame generator is idle *)
(* every FIFO has been read exactly as far as its words have been sent,    *)
(* so the delays between rdreq and payload_word neither lose nor repeat a  *)
(* word.                                                                   *)
(***************************************************************************)
THEOREM NoneSkipped == DataSpec => []NoWordSkipped
<1>1. DataInv => NoWordSkipped
  <2> SUFFICES ASSUME DataInv, fg_state = "IDLE"
               PROVE  delivered = read
    BY DEF NoWordSkipped
  <2>1. delivered \in [Fifos -> Nat] /\ read \in [Fifos -> Nat] /\ Account
    BY DEF DataInv, DataControl, DataTypeOK
  <2>2. fg_state \notin Active
    BY DEF Active, PayloadStates
  <2>3. \A i \in Fifos : delivered[i] = read[i]
    BY <2>1, <2>2 DEF Account
  <2> QED BY <2>1, <2>3
<1> QED BY <1>1, DataInvariance, PTL
=============================================================================
