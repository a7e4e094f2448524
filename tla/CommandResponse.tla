-------------------------- MODULE CommandResponse ---------------------------
(***************************************************************************)
(* The command response generator                                          *)
(* (controller/command_response_generator.vhd) as a client of the UDP      *)
(* arbiter.  It echoes every acknowledged command, follows some echoes by  *)
(* data words and a DON, and reports command_done (DON) and command_error  *)
(* (ERR) when the controller raises them.  The other clients of the        *)
(* arbiter are arbitrary: any bus value at any clock.                      *)
(*                                                                         *)
(* A command is known by the reply it calls for:                           *)
(*   plain     echo only                     (most valid commands)         *)
(*   selfdone  echo, DON                     (CEC, RSC, ESA, ERB)          *)
(*   data      echo, one data word, DON      (GCT, GEC, GUT)               *)
(*   list      echo, NListed words, DON      (GCL)                         *)
(*   invalid   echo, INV                     (not in VALID_COMMANDS)       *)
(***************************************************************************)
EXTENDS UdpArbiter, Sequences

CONSTANTS
  Commands,       \* the kinds of command the environment sends
  Reports,        \* which of "DON" and "ERR" the controller raises
  NListed,        \* length of VALID_COMMANDS, the reply to "list"
  CmdFifoDepth,   \* words the command FIFO holds (16 in the code)
  MaxBurst        \* bound: inputs taken without the generator going idle

ASSUME CommandsAssumption ==
  Commands \subseteq {"plain", "selfdone", "data", "list", "invalid"}
ASSUME ReportsAssumption == Reports \subseteq {"DON", "ERR"}
ASSUME NListedAssumption == NListed \in Nat \ {0}
ASSUME MaxBurstAssumption == MaxBurst \in Nat \ {0}
ASSUME CmdFifoDepthAssumption == CmdFifoDepth \in Nat \ {0}

COMMAND_RESP == 1
NoWord == "none"
NoCommand == "nocommand"

VARIABLES
  rsp,                \* registers the state machine drives: its state, busy_sig,
                      \* tx_req, udp_data/valid_sig, cmdbuff_rdreq, replied_*
  curr_command,       \* command being answered
  cmd_idx,            \* position in the command list reply
  data_out,           \* word on the bus to the arbiter, or NoWord
  cmdbuff,            \* contents of the command FIFO
  cmdbuff_q,          \* its output register
  cmdbuff_wr,         \* registered send_cmd_ack and data_in, or NoCommand
  command_done_reg, command_error_reg, error_sent,
  error_level,        \* command_error at the last clock
  owed,               \* history: acknowledged commands not yet echoed and
                      \* not lost
  burst,              \* history: inputs since the generator was last idle
  lost                \* history: answers with a word presented while the
                      \* line was not ours: "reply" and "report"

rspVars == <<rsp, curr_command, cmd_idx, data_out, cmdbuff, cmdbuff_q,
             cmdbuff_wr, command_done_reg, command_error_reg, error_sent,
             error_level, owed, burst, lost>>
vars == <<arbVars, rspVars>>

\* The values every output takes unless the current state says otherwise.
RspDefault ==
  [state |-> "IDLE", busy |-> TRUE, req |-> FALSE, word |-> NoWord,
   rdreq |-> FALSE, replied_done |-> FALSE, replied_error |-> FALSE]

RspInit ==
  /\ rsp = [RspDefault EXCEPT !.busy = FALSE]
  /\ curr_command = NoCommand
  /\ cmd_idx = 0
  /\ data_out = NoWord
  /\ cmdbuff = <<>>
  /\ cmdbuff_q = NoCommand
  /\ cmdbuff_wr = NoCommand
  /\ command_done_reg = FALSE
  /\ command_error_reg = FALSE
  /\ error_sent = FALSE
  /\ error_level = FALSE
  /\ owed = <<>>
  /\ burst = 0
  /\ lost = {}

\* The bus to the arbiter.
RspBus == [req |-> rsp.req, busy |-> rsp.busy, valid |-> data_out # NoWord]

-----------------------------------------------------------------------------
(***************************************************************************)
(* output_register: pipeline registers and the done and error latches.     *)
(***************************************************************************)
DoneLatch(done) ==
  command_done_reg' = (done \/ (command_done_reg /\ ~rsp.replied_done))

ErrorLatch(error) ==
  /\ command_error_reg' =
       (~rsp.replied_error /\ (command_error_reg \/ (error /\ ~error_sent)))
  /\ error_sent' = (rsp.replied_error \/ (error_sent /\ error))

OutputRegister(ack, done, error) ==
  /\ data_out' = rsp.word
  /\ cmdbuff_wr' = ack
  /\ DoneLatch(done)
  /\ ErrorLatch(error)

\* A command that the full FIFO does not take: its full flag is not connected
\* and send_cmd_ack does not wait.
Overflow == cmdbuff_wr # NoCommand /\ Len(cmdbuff) >= CmdFifoDepth

\* Mutant: reading a command does not remove it.
CommandFifoKeeps ==
  LET reads  == rsp.rdreq /\ cmdbuff # <<>>
      writes == cmdbuff_wr # NoCommand /\ Len(cmdbuff) < CmdFifoDepth
  IN  /\ cmdbuff_q' = IF reads THEN Head(cmdbuff) ELSE cmdbuff_q
      /\ cmdbuff' = IF writes THEN Append(cmdbuff, cmdbuff_wr) ELSE cmdbuff

\* Mutant: the write request lasts two clocks and stores the command twice.
CommandFifoTwice ==
  LET reads  == rsp.rdreq /\ cmdbuff # <<>>
      rest   == IF reads THEN Tail(cmdbuff) ELSE cmdbuff
      writes == cmdbuff_wr # NoCommand /\ Len(cmdbuff) < CmdFifoDepth
  IN  /\ cmdbuff_q' = IF reads THEN Head(cmdbuff) ELSE cmdbuff_q
      /\ cmdbuff' = IF writes THEN rest \o <<cmdbuff_wr, cmdbuff_wr>> ELSE rest

\* The command FIFO (scfifo_32x16): a read shows its word one clock later, a
\* write to a full FIFO and a read from an empty one do nothing.
CommandFifo ==
  LET reads  == rsp.rdreq /\ cmdbuff # <<>>
      rest   == IF reads THEN Tail(cmdbuff) ELSE cmdbuff
      writes == cmdbuff_wr # NoCommand /\ Len(cmdbuff) < CmdFifoDepth
  IN  /\ cmdbuff_q' = IF reads THEN Head(cmdbuff) ELSE cmdbuff_q
      /\ cmdbuff' = IF writes THEN Append(rest, cmdbuff_wr) ELSE rest

-----------------------------------------------------------------------------
(***************************************************************************)
(* state_machine, one action per state and branch.                         *)
(***************************************************************************)
LeaveHwReset ==
  /\ rsp.state = "HW_RESET"
  /\ rsp' = [RspDefault EXCEPT !.busy = FALSE]
  /\ UNCHANGED <<curr_command, cmd_idx>>

StartCommand ==
  /\ rsp.state = "IDLE"
  /\ cmdbuff # <<>>
  /\ rsp' = [RspDefault EXCEPT !.state = "WAIT_BUFFER", !.rdreq = TRUE]
  /\ UNCHANGED <<curr_command, cmd_idx>>

ErrorPending == command_error_reg /\ ~rsp.replied_error
DonePending  == command_done_reg /\ ~rsp.replied_done

StartReport ==
  /\ rsp.state = "IDLE"
  /\ cmdbuff = <<>>
  /\ ErrorPending \/ DonePending
  /\ rsp' = [RspDefault EXCEPT !.state = "TX_REQ_WAIT"]
  /\ curr_command' = IF ErrorPending THEN "ERR" ELSE "DON"
  /\ UNCHANGED cmd_idx

RspIdle ==
  /\ rsp.state = "IDLE"
  /\ cmdbuff = <<>> /\ ~ErrorPending /\ ~DonePending
  /\ rsp' = [RspDefault EXCEPT !.busy = FALSE]
  /\ UNCHANGED <<curr_command, cmd_idx>>

WaitBuffer ==
  /\ rsp.state = "WAIT_BUFFER"
  /\ rsp' = [RspDefault EXCEPT !.state = "READ_BUFFER"]
  /\ UNCHANGED <<curr_command, cmd_idx>>

ReadBuffer ==
  /\ rsp.state = "READ_BUFFER"
  /\ rsp' = [RspDefault EXCEPT !.state = "TX_REQ_WAIT", !.req = TRUE]
  /\ curr_command' = cmdbuff_q
  /\ UNCHANGED cmd_idx

\* Mutant: the reply starts one clock after the request, granted or not.
TxReqWaitUngranted(ready) ==
  /\ rsp.state = "TX_REQ_WAIT"
  /\ rsp' = IF ready \/ rsp.req
              THEN [RspDefault EXCEPT !.state = "PROCESS_REPLY"]
              ELSE [RspDefault EXCEPT !.state = "TX_REQ_WAIT", !.req = TRUE]
  /\ UNCHANGED <<curr_command, cmd_idx>>

TxReqWait(ready) ==
  /\ rsp.state = "TX_REQ_WAIT"
  /\ rsp' = IF ready
              THEN [RspDefault EXCEPT !.state = "PROCESS_REPLY"]
              ELSE [RspDefault EXCEPT !.state = "TX_REQ_WAIT", !.req = TRUE]
  /\ UNCHANGED <<curr_command, cmd_idx>>

AfterEcho ==
  [plain    |-> "IDLE",       selfdone |-> "REPLY_DONE",
   data     |-> "REPLY_DATA", list     |-> "REPLY_CMD_LIST",
   invalid  |-> "REPLY_INVALID", DON   |-> "IDLE", ERR |-> "IDLE"]

ProcessReply ==
  /\ rsp.state = "PROCESS_REPLY"
  /\ rsp' = [RspDefault EXCEPT
               !.state = AfterEcho[curr_command],
               !.word = curr_command,
               !.replied_done = (curr_command = "DON"),
               !.replied_error = (curr_command = "ERR")]
  /\ cmd_idx' = IF curr_command = "list" THEN 0 ELSE cmd_idx
  /\ UNCHANGED curr_command

\* REPLY_TIMESTAMP, REPLY_ERROR_CODE and REPLY_UPTIME: one word, then DON.
ReplyData ==
  /\ rsp.state = "REPLY_DATA"
  /\ rsp' = [RspDefault EXCEPT !.state = "REPLY_DONE", !.word = "word"]
  /\ UNCHANGED <<curr_command, cmd_idx>>

ReplyCmdList ==
  /\ rsp.state = "REPLY_CMD_LIST"
  /\ IF cmd_idx >= NListed - 1
       THEN /\ rsp' = [RspDefault EXCEPT !.state = "REPLY_DONE",
                                         !.word = "word"]
            /\ UNCHANGED cmd_idx
       ELSE /\ rsp' = [RspDefault EXCEPT !.state = "REPLY_CMD_LIST",
                                         !.word = "word"]
            /\ cmd_idx' = cmd_idx + 1
  /\ UNCHANGED curr_command

\* The DON that closes a reply is "done" here, to tell it from the report.
ReplyLast ==
  /\ rsp.state \in {"REPLY_DONE", "REPLY_INVALID"}
  /\ rsp' = [RspDefault EXCEPT
               !.word = IF rsp.state = "REPLY_DONE" THEN "done" ELSE "INV"]
  /\ UNCHANGED <<curr_command, cmd_idx>>

RspMachine(ready) ==
  \/ LeaveHwReset \/ StartCommand \/ StartReport \/ RspIdle
  \/ WaitBuffer   \/ ReadBuffer   \/ TxReqWait(ready)
  \/ ProcessReply \/ ReplyData    \/ ReplyCmdList \/ ReplyLast

-----------------------------------------------------------------------------
(***************************************************************************)
(* History: commands owed an echo, inputs per burst and lost words.  A     *)
(* command is owed from its acknowledgement on, until it is echoed or the  *)
(* FIFO has not taken it.                                                  *)
(***************************************************************************)
Count(P) == IF P THEN 1 ELSE 0

History(ack, done, error) ==
  /\ owed' = LET kept == IF Overflow THEN SubSeq(owed, 1, Len(owed) - 1) ELSE owed
                 left == IF rsp.state = "PROCESS_REPLY" /\ curr_command \in Commands
                           THEN Tail(kept) ELSE kept
             IN  IF ack = NoCommand THEN left ELSE Append(left, ack)
  /\ error_level' = error
  /\ burst' = (IF rsp.busy \/ owed # <<>> \/ command_done_reg \/ command_error_reg
                 THEN burst ELSE 0) + Count(ack # NoCommand)
                + Count(done) + Count(error /\ ~error_level)
  /\ lost' = IF data_out # NoWord /\ current_client # COMMAND_RESP
                  /\ rsp.state # "HW_RESET"
               THEN lost \cup {IF data_out \in {"DON", "ERR"}
                                 THEN "report" ELSE "reply"}
               ELSE lost

\* The generator's clock edge, given what the controller drives.
RspClock(ack, done, error) ==
  /\ OutputRegister(ack, done, error)
  /\ CommandFifo
  /\ RspMachine(udp_ready(COMMAND_RESP))
  /\ History(ack, done, error)
  /\ burst' <= MaxBurst

\* The controller acknowledges every command when it comes, at any clock and
\* whether or not the FIFO has room.
Acks == {NoCommand} \cup Commands

\* Buses of all clients: ours, and anything on the others.  Levels that no
\* register takes at this edge are low.
BusesWith(c, own) ==
  {[d \in Clients |-> IF d = c THEN own ELSE others[d]] :
     others \in {o \in [Clients \ {c} -> ClientBus] :
       \A d \in Clients \ {c} :
         /\ o[d].req => next_state = "IDLE"
         /\ o[d].busy \/ o[d].valid => current_client = d}}

RspTick ==
  \E bus \in BusesWith(COMMAND_RESP, RspBus) :
  \E ack \in Acks, done, error \in BOOLEAN :
    /\ done => "DON" \in Reports
    /\ error => "ERR" \in Reports
    /\ StateMachine(bus)
    /\ RspClock(ack, done, error)
    /\ UNCHANGED silence

(***************************************************************************)
(* A clock edge with reset held, here and in the arbiter.  The state       *)
(* machine's reset branch leaves busy_sig, tx_req and replied_error alone; *)
(* output_register has no reset; the FIFO is cleared.                      *)
(***************************************************************************)
RspReset ==
  \E bus \in BusesWith(COMMAND_RESP, RspBus) :
    /\ ResetPulse(bus, TRUE)
    /\ rsp' = [rsp EXCEPT !.state = "HW_RESET", !.word = NoWord,
                          !.rdreq = FALSE, !.replied_done = FALSE]
    /\ cmdbuff' = <<>>
    /\ cmdbuff_q' = NoCommand
    /\ OutputRegister(NoCommand, FALSE, FALSE)
    /\ owed' = <<>>
    /\ error_level' = FALSE
    /\ UNCHANGED <<curr_command, cmd_idx, burst, lost, silence>>

RspNext == RspTick \/ RspReset
RspSpec == ArbInit /\ RspInit /\ [][RspNext]_vars

-----------------------------------------------------------------------------
(***************************************************************************)
(* Commands are answered in the order they were acknowledged, each once,   *)
(* except those that came to a full FIFO: the command being echoed is the  *)
(* oldest one still owed an answer, also after others have been lost.      *)
(***************************************************************************)
EchoInOrder ==
  (rsp.state = "PROCESS_REPLY" /\ curr_command \in Commands)
    => owed # <<>> /\ curr_command = Head(owed)

(***************************************************************************)
(* The controller does not look whether the FIFO is full, so commands can  *)
(* be lost; but none is as long as no more than CmdFifoDepth (16) inputs,  *)
(* commands, DONs and ERRs together, come in before the generator has      *)
(* answered all and is idle again.                                         *)
(***************************************************************************)
LostOnlyInLongBurst == Overflow => burst > CmdFifoDepth

(***************************************************************************)
(* No word of the answer to a command is presented to the arbiter while    *)
(* the line is not granted to the command response generator.              *)
(***************************************************************************)
CommandReplyDelivered == "reply" \notin lost
=============================================================================
