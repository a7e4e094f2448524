--------------------------- MODULE FrameGenerator ---------------------------
(***************************************************************************)
(* The frame generator (ethernet/ethernet_frame_generator.vhd) with its    *)
(* header generator: reads the payload from a FIFO and writes header and   *)
(* payload to the MAC.  A word asked for with rdreq reaches payload_word   *)
(* IN_DLY - 1 clocks later, through the FIFO's output register and the     *)
(* registers after it (pipe); the generator starts and stops rdreq that    *)
(* much ahead of the words it writes.                                      *)
(*                                                                         *)
(* gen_crc is tied to '0' in every instance of the generator, so the       *)
(* WRITE_CRC state is left out, as are the outputs frame_length and        *)
(* frame_rdy, which nothing reads.                                         *)
(***************************************************************************)
EXTENDS HeaderGenerator

CONSTANTS
  IN_DLY,            \* FIFO_in_dly: 3 for UDP and ICMP, 5 for data and ARP
  OUT_DLY,           \* FIFO_out_dly: 0, for ARP 5
  PAYLOAD_MAX_LEN    \* payload_max_len

ASSUME FrameAssumption ==
  /\ IN_DLY \in Nat /\ IN_DLY >= 2
  /\ OUT_DLY \in Nat
  /\ PAYLOAD_MAX_LEN \in Nat

VARIABLES
  fg_state,          \* next_state of the state machine
  payload_length,
  delay_counter, frame_size, fg_words,   \* process variables (fg_words is
                                         \* words_read in the code)
  rdreq, wrreq, sop, eop, frame_word,    \* registered outputs
  header_start, fg_busy,
  pipe,              \* words on their way from the FIFO; the last stage is
                     \* payload_word
  frame, sent        \* history: the frame the current start calls for, and
                     \* the words of it written so far

fgVars == <<fg_state, payload_length, delay_counter, frame_size, fg_words,
            rdreq, wrreq, sop, eop, frame_word, header_start, fg_busy, pipe,
            frame, sent>>

Stages == 1 .. (IN_DLY - 1)
payload_word == pipe[IN_DLY - 1]
Payload(n) == Word("payload", n)

FgInit ==
  /\ fg_state = "IDLE"
  /\ payload_length = 0
  /\ delay_counter = 0 /\ frame_size = 0 /\ fg_words = 0
  /\ rdreq = FALSE /\ wrreq = FALSE /\ sop = FALSE /\ eop = FALSE
  /\ frame_word = NoWord
  /\ header_start = FALSE /\ fg_busy = FALSE
  /\ pipe = [i \in Stages |-> NoWord]
  /\ frame = <<>> /\ sent = 0

-----------------------------------------------------------------------------
\* The FIFO's output register takes word w when read; the other stages follow.
Pipeline(read, w) ==
  pipe' = [i \in Stages |-> IF i > 1 THEN pipe[i - 1]
                            ELSE IF read THEN w ELSE pipe[1]]

FgIdle(payload_rdy, usedw) ==
  /\ fg_state = "IDLE"
  /\ delay_counter' = 0 /\ frame_size' = 0 /\ fg_words' = 0
  /\ wrreq' = FALSE /\ rdreq' = FALSE /\ sop' = FALSE /\ eop' = FALSE
  /\ header_start' = payload_rdy
  /\ fg_busy' = payload_rdy
  /\ fg_state' = IF payload_rdy THEN "PAYLOAD_HEADER" ELSE "IDLE"
  /\ payload_length' = IF ~payload_rdy THEN payload_length
                       ELSE IF usedw >= PAYLOAD_MAX_LEN THEN PAYLOAD_MAX_LEN
                       ELSE usedw
  /\ UNCHANGED frame_word

FgHeader ==
  /\ fg_state = "PAYLOAD_HEADER"
  /\ header_start' = FALSE
  /\ frame_word' = header_data
  /\ wrreq' = header_valid
  /\ sop' = IF header_valid THEN frame_size = 0 ELSE sop
  /\ frame_size' = IF header_valid THEN frame_size + 1 ELSE frame_size
  /\ fg_state' = IF ~header_done THEN "PAYLOAD_HEADER"
                 ELSE IF payload_length = 0 THEN "DONE" ELSE "PAYLOAD_WAIT"
  /\ eop' = IF header_done /\ payload_length = 0 THEN TRUE ELSE eop
  /\ UNCHANGED <<payload_length, delay_counter, fg_words, rdreq, fg_busy>>

FgWait ==
  /\ fg_state = "PAYLOAD_WAIT"
  /\ rdreq' = (delay_counter < payload_length)
  /\ sop' = FALSE
  /\ frame_size' = IF delay_counter = 0 THEN frame_size + payload_length
                                        ELSE frame_size
  /\ delay_counter' = delay_counter + 1
  /\ fg_state' = IF delay_counter + 1 >= IN_DLY THEN "PAYLOAD_START"
                                                ELSE "PAYLOAD_WAIT"
  /\ wrreq' = FALSE
  /\ fg_words' = 0
  /\ UNCHANGED <<payload_length, eop, frame_word, header_start, fg_busy>>

\* Mutant: no end of packet for a payload of a single word.
FgStartNoEop ==
  /\ fg_state = "PAYLOAD_START"
  /\ wrreq' = TRUE
  /\ rdreq' = (payload_length > IN_DLY)
  /\ frame_word' = payload_word
  /\ fg_state' = "WRITE_PAYLOAD"
  /\ UNCHANGED <<payload_length, delay_counter, frame_size, fg_words, sop, eop,
                 header_start, fg_busy>>

FgStart ==
  /\ fg_state = "PAYLOAD_START"
  /\ wrreq' = TRUE
  /\ rdreq' = (payload_length > IN_DLY)
  /\ frame_word' = payload_word
  /\ fg_state' = "WRITE_PAYLOAD"
  /\ eop' = IF payload_length = 1 THEN TRUE ELSE eop
  /\ UNCHANGED <<payload_length, delay_counter, frame_size, fg_words, sop,
                 header_start, fg_busy>>

\* WRITE_PAYLOAD with words left, and after the last.
WriteMore ==
  /\ fg_state = "WRITE_PAYLOAD"
  /\ fg_words' = fg_words + 1
  /\ fg_words' < payload_length
  /\ frame_word' = payload_word
  /\ wrreq' = TRUE
  /\ eop' = IF fg_words' = payload_length - 1 THEN TRUE ELSE eop
  /\ rdreq' = (fg_words' < payload_length - IN_DLY)
  /\ UNCHANGED <<fg_state, payload_length, delay_counter, frame_size, sop,
                 header_start, fg_busy>>

WriteEnd ==
  /\ fg_state = "WRITE_PAYLOAD"
  /\ fg_words' = fg_words + 1
  /\ fg_words' >= payload_length
  /\ delay_counter' = 0
  /\ fg_state' = "DONE"
  /\ wrreq' = FALSE /\ eop' = FALSE
  /\ frame_word' = NoWord
  /\ rdreq' = (fg_words' < payload_length - IN_DLY)
  /\ UNCHANGED <<payload_length, frame_size, sop, header_start, fg_busy>>

FgDone ==
  /\ fg_state = "DONE"
  /\ IF delay_counter >= OUT_DLY
       THEN fg_state' = "IDLE" /\ delay_counter' = 0
       ELSE delay_counter' = delay_counter + 1 /\ UNCHANGED fg_state
  /\ eop' = FALSE /\ rdreq' = FALSE /\ wrreq' = FALSE
  /\ fg_words' = 0
  /\ UNCHANGED <<payload_length, frame_size, sop, frame_word, header_start,
                 fg_busy>>

\* Asynchronous reset; header_start and fg_busy have none.
FgReset ==
  /\ fg_state' = "IDLE"
  /\ payload_length' = 0
  /\ delay_counter' = 0 /\ frame_size' = 0 /\ fg_words' = 0
  /\ wrreq' = FALSE /\ rdreq' = FALSE /\ sop' = FALSE /\ eop' = FALSE
  /\ frame_word' = NoWord
  /\ pipe' = [i \in Stages |-> NoWord]
  /\ frame' = <<>> /\ sent' = 0
  /\ UNCHANGED <<header_start, fg_busy>>

\* History: the frame to be sent is fixed when the generator starts, as the
\* header for its length and port, and the next words of the FIFO.
FrameHistory(first, dest_port) ==
  IF fg_state = "IDLE" /\ fg_state' # "IDLE"
    THEN /\ frame' = Header(payload_length', dest_port)
                       \o [i \in 1 .. payload_length' |-> Payload(first + i - 1)]
         /\ sent' = 0
    ELSE /\ sent' = IF wrreq' THEN sent + 1 ELSE sent
         /\ UNCHANGED frame

\* The state machine at one clock edge.
FgMachine(payload_rdy, usedw) ==
  \/ FgIdle(payload_rdy, usedw) \/ FgHeader \/ FgWait \/ FgStart
  \/ WriteMore \/ WriteEnd \/ FgDone

\* One clock edge of frame generator and header generator.  next is the
\* number of the next word in the FIFO, read whether rdreq takes it.
FgClock(payload_rdy, usedw, dest_port, next, read) ==
  /\ FgMachine(payload_rdy, usedw)
  /\ Pipeline(read, Payload(next))
  /\ HgClock(header_start, payload_length, dest_port)
  /\ FrameHistory(next, dest_port)

-----------------------------------------------------------------------------
(***************************************************************************)
(* What the MAC sees is a sequence of whole frames, each its header and    *)
(* then exactly the next payload_length words of the FIFO in order.        *)
(***************************************************************************)
Link == INSTANCE FrameLink WITH
          line <- [valid |-> wrreq, sop |-> sop, eop |-> eop,
                   word |-> frame_word],
          Frames <- LAMBDA f : f # <<>>
WholeFrames == Link!LinkSpec

(***************************************************************************)
(* What the MAC sees of every frame, whatever the FIFO delivers: its       *)
(* header word by word, then as many words as the header announces, start  *)
(* and end of packet on the first and the last.  Only the contents of the  *)
(* payload are taken as they should be.                                    *)
(***************************************************************************)
InPayload == wrreq /\ sent > Len(frame) - payload_length
Marks == INSTANCE FrameLink WITH
           line <- [valid |-> wrreq, sop |-> sop, eop |-> eop,
                    word |-> IF InPayload THEN frame[sent] ELSE frame_word],
           Frames <- LAMBDA f : f # <<>>
FramesMarked == Marks!LinkSpec
=============================================================================
