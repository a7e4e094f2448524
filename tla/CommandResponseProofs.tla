------------------------ MODULE CommandResponseProofs -----------------------
(***************************************************************************)
(* First the arbiter's safety, for every number of clients and every       *)
(* timeout.  Then the command response generator behind it, for every      *)
(* length of the command list and every depth of the command FIFO too:     *)
(* commands are echoed in the order they were acknowledged, also when the  *)
(* FIFO overflows; it does so only in a burst longer than the FIFO is      *)
(* deep; and no word of an answer is presented while the line is not ours. *)
(***************************************************************************)
EXTENDS CommandResponse, TLAPS

-----------------------------------------------------------------------------
(* The arbiter with arbitrary clients *)

\* The registers' power-up values satisfy the inductive invariant.
LEMMA ArbInvInit == ArbInit => ArbInv
<1> SUFFICES ASSUME ArbInit PROVE ArbInv
  OBVIOUS
<1>1. /\ udp_tx_busy \in BOOLEAN /\ client_busy \in BOOLEAN
      /\ client_dval \in BOOLEAN /\ ~client_busy /\ ~client_dval
  BY Zenon DEF ArbInit
<1>2. /\ next_state = "HW_RESET" /\ current_client = 0 /\ timeout_count = 0
      /\ mux_client = 0 /\ silence = 0
  BY DEF ArbInit, NONE
<1> QED
  BY <1>1, <1>2, NClientsAssumption, MaxTimeoutAssumption
  DEF ArbInv, TypeOK, States, NONE, Clients, Granted

\* The multiplexer loads well-typed registers, and a busy or valid level
\* only from an owner.
LEMMA MultiplexerTypes ==
  ASSUME NEW bus \in Buses, TypeOK, OutputMultiplexer(bus)
  PROVE  /\ mux_client' = current_client
         /\ mux_client' \in Clients \cup {NONE}
         /\ client_busy' \in BOOLEAN
         /\ client_dval' \in BOOLEAN
         /\ client_busy' \/ client_dval' => mux_client' # NONE
  BY DEF OutputMultiplexer, TypeOK, Buses, ClientBus

\* One clock edge, or a reset, keeps the inductive invariant.
LEMMA ArbInvStep == ArbInv /\ [ArbNext]_arbVars => ArbInv'
<1> SUFFICES ASSUME ArbInv, [ArbNext]_arbVars PROVE ArbInv'
  OBVIOUS
<1> USE NClientsAssumption, MaxTimeoutAssumption DEF ArbInv, TypeOK, States, CountSilence, Granted
<1>1. ASSUME NEW bus \in Buses, StateMachine(bus), CountSilence
      PROVE  ArbInv'
  <2>0. OutputMultiplexer(bus)
    BY <1>1 DEF StateMachine, LeaveReset, Grant, StayIdle, ClientStarts,
       WaitTimeout, WaitClient, ClientDone, ClientSilent, ClientSends
  <2>m. /\ mux_client' = current_client
        /\ mux_client' \in Clients \cup {NONE}
        /\ client_busy' \in BOOLEAN
        /\ client_dval' \in BOOLEAN
        /\ client_busy' \/ client_dval' => mux_client' # NONE
    BY <2>0, MultiplexerTypes
  <2>b. udp_tx_busy' \in BOOLEAN
    BY <1>1, Zenon DEF StateMachine, LeaveReset, Grant, StayIdle, ClientStarts,
       WaitTimeout, WaitClient, ClientDone, ClientSilent, ClientSends
  <2>1. CASE LeaveReset(bus)
    BY <1>1, <2>1, <2>m, <2>b DEF LeaveReset
  <2>2. CASE Grant(bus)
    BY <1>1, <2>2, <2>m, <2>b DEF Grant, Clients, NONE
  <2>3. CASE StayIdle(bus)
    BY <1>1, <2>3, <2>m, <2>b DEF StayIdle, Release
  <2>4. CASE ClientStarts(bus)
    BY <1>1, <2>4, <2>m, <2>b DEF ClientStarts
  <2>5. CASE WaitTimeout(bus)
    BY <1>1, <2>5, <2>m, <2>b DEF WaitTimeout, Release
  <2>6. CASE WaitClient(bus)
    BY <1>1, <2>6, <2>m, <2>b DEF WaitClient
  <2>7. CASE ClientDone(bus)
    BY <1>1, <2>7, <2>m, <2>b DEF ClientDone, Release
  <2>8. CASE ClientSilent(bus)
    BY <1>1, <2>8, <2>m, <2>b DEF ClientSilent
  <2>9. CASE ClientSends(bus)
    BY <1>1, <2>9, <2>m, <2>b DEF ClientSends
  <2> QED
    BY <1>1, <2>1, <2>2, <2>3, <2>4, <2>5, <2>6, <2>7, <2>8, <2>9
    DEF StateMachine
<1>2. ASSUME NEW bus \in Buses, NEW edge \in BOOLEAN, ResetPulse(bus, edge),
             CountSilence
      PROVE  ArbInv'
  <2>b. udp_tx_busy' \in BOOLEAN
    BY <1>2, Zenon DEF ResetPulse
  <2>1. CASE edge
    <3>1. OutputMultiplexer(bus)
      BY <1>2, <2>1 DEF ResetPulse
    <3> QED
      BY <1>2, <2>b, <3>1, MultiplexerTypes DEF ResetPulse
  <2>2. CASE ~edge
    BY <1>2, <2>b, <2>2 DEF ResetPulse, muxVars
  <2> QED BY <2>1, <2>2
<1>3. CASE UNCHANGED arbVars
  BY <1>3 DEF arbVars
<1> QED
  BY <1>1, <1>2, <1>3 DEF ArbNext, Tick, Reset

\* Every reachable state of the arbiter satisfies the inductive invariant.
THEOREM ArbInvariance == ArbSpec => []ArbInv
  BY ArbInvInit, ArbInvStep, PTL DEF ArbSpec

\* The arbiter's registers keep their types, timeout_count its range.
THEOREM ArbTypeCorrect == ArbSpec => []TypeOK
<1>1. ArbInv => TypeOK
  BY DEF ArbInv
<1> QED BY <1>1, ArbInvariance, PTL

\* A busy level the state machine acts on is the granted client's own.
THEOREM ArbBusyIsOwners == ArbSpec => []BusyIsOwners
<1>1. ArbInv => BusyIsOwners
  BY DEF ArbInv, BusyIsOwners, TypeOK
<1> QED BY <1>1, ArbInvariance, PTL

\* No client is told the line is ready while another one owns it.
THEOREM ArbReadyIsExclusive == ArbSpec => []ReadyIsExclusive
<1>1. ArbInv => ReadyIsExclusive
  BY NClientsAssumption DEF ArbInv, ReadyIsExclusive, TypeOK, udp_ready, Clients, NONE
<1> QED BY <1>1, ArbInvariance, PTL

\* Of the clocks of one grant, TX_WAIT and TX_BUSY together, at most
\* 2 * MAX_TIMEOUT + 1 pass without a word from the client, whatever it does.
THEOREM ArbSilenceBounded == ArbSpec => []SilenceBounded
<1>1. ArbInv => SilenceBounded
  BY MaxTimeoutAssumption DEF ArbInv, SilenceBounded, TypeOK, States, Granted
<1> QED BY <1>1, ArbInvariance, PTL

-----------------------------------------------------------------------------
(***************************************************************************)
(* The response generator behind it: the inductive invariant.              *)
(***************************************************************************)
ReportWords == {"DON", "ERR"}
Words == Commands \cup {"word", "done", "DON", "ERR", "INV"}
ReplyStates == {"REPLY_DATA", "REPLY_CMD_LIST", "REPLY_DONE", "REPLY_INVALID"}
RspStates == {"HW_RESET", "IDLE", "WAIT_BUFFER", "READ_BUFFER", "TX_REQ_WAIT",
              "PROCESS_REPLY"} \cup ReplyStates

\* The arbiter's registers, as far as the generator depends on them.
LineInv ==
  /\ next_state \in States
  /\ current_client \in Clients \cup {NONE}
  /\ timeout_count \in 0 .. MAX_TIMEOUT
  /\ mux_client \in Clients \cup {NONE}
  /\ client_busy \in BOOLEAN
  /\ client_dval \in BOOLEAN
  /\ next_state \in {"TX_WAIT", "TX_BUSY"} <=> current_client # NONE
  /\ current_client # NONE => mux_client \in {NONE, current_client}
  /\ next_state = "TX_BUSY" => mux_client = current_client
  /\ client_busy \/ client_dval => mux_client # NONE
  /\ current_client # NONE /\ mux_client = NONE => timeout_count = 0

RspTypeOK ==
  /\ rsp \in [state : RspStates, busy : BOOLEAN, req : BOOLEAN,
              word : Words \cup {NoWord}, rdreq : BOOLEAN,
              replied_done : BOOLEAN, replied_error : BOOLEAN]
  /\ curr_command \in Commands \cup ReportWords \cup {NoCommand}
  /\ cmd_idx \in Nat
  /\ data_out \in Words \cup {NoWord}
  /\ cmdbuff \in Seq(Commands)
  /\ cmdbuff_q \in Commands \cup {NoCommand}
  /\ cmdbuff_wr \in Commands \cup {NoCommand}
  /\ command_done_reg \in BOOLEAN
  /\ command_error_reg \in BOOLEAN
  /\ error_sent \in BOOLEAN
  /\ error_level \in BOOLEAN
  /\ owed \in Seq(Commands)
  /\ burst \in 0 .. MaxBurst

\* What the registers of the state machine hold in each of its states.
Shape ==
  /\ rsp.state = "HW_RESET" => rsp.word = NoWord /\ ~rsp.rdreq
  /\ rsp.state # "HW_RESET" =>
       /\ rsp.rdreq <=> rsp.state = "WAIT_BUFFER"
       /\ rsp.req => rsp.state = "TX_REQ_WAIT"
       /\ rsp.busy <=> (rsp.state # "IDLE" \/ rsp.word # NoWord)
       /\ rsp.replied_done \/ rsp.replied_error
            => rsp.state = "IDLE" /\ rsp.word # NoWord
       /\ rsp.word # NoWord
            => /\ curr_command # NoCommand
               /\ rsp.word \in ReportWords <=> curr_command \in ReportWords
  /\ rsp.state \in ReplyStates => rsp.word # NoWord /\ curr_command \in Commands
  /\ rsp.state \in {"WAIT_BUFFER", "READ_BUFFER", "TX_REQ_WAIT", "PROCESS_REPLY"}
       => rsp.word = NoWord
  /\ rsp.state \in {"READ_BUFFER", "PROCESS_REPLY"} => data_out = NoWord
  /\ rsp.state = "WAIT_BUFFER" => cmdbuff # <<>>
  /\ rsp.state = "READ_BUFFER" => cmdbuff_q # NoCommand
  /\ rsp.state \in {"TX_REQ_WAIT", "PROCESS_REPLY"} => curr_command # NoCommand

\* The command taken from the FIFO and not yet echoed.
Answering ==
  \/ rsp.state = "READ_BUFFER"
  \/ rsp.state \in {"TX_REQ_WAIT", "PROCESS_REPLY"} /\ curr_command \in Commands
Asked == IF rsp.state = "READ_BUFFER" THEN cmdbuff_q ELSE curr_command
Offset == IF Answering THEN 1 ELSE 0

\* o is k commands, then the FIFO's contents c, then the input register w.
Chain(o, k, c, w) ==
  /\ Len(o) = k + Len(c) + (IF w = NoCommand THEN 0 ELSE 1)
  /\ \A i \in 1 .. Len(c) : o[k + i] = c[i]
  /\ w # NoCommand => o[Len(o)] = w

\* The commands owed an echo are the one being answered, those in the FIFO
\* and the one in its input register, in this order.
Pipeline ==
  /\ Chain(owed, Offset, cmdbuff, cmdbuff_wr)
  /\ Answering => owed[1] = Asked

EchoInv == RspTypeOK /\ Shape /\ Pipeline

\* Who owns the line in each state of the generator.
Line ==
  /\ rsp.state = "HW_RESET" => next_state = "HW_RESET"
  /\ current_client = COMMAND_RESP
       => /\ mux_client # COMMAND_RESP \/ next_state = "TX_WAIT"
               => rsp.state = "TX_REQ_WAIT" /\ rsp.req
          /\ rsp.state = "WAIT_BUFFER" /\ client_busy => data_out # NoWord
          /\ rsp.state = "READ_BUFFER" => client_busy /\ client_dval
  /\ rsp.state = "TX_REQ_WAIT" /\ rsp.req /\ mux_client = COMMAND_RESP
       => current_client = COMMAND_RESP /\ client_busy
  /\ rsp.state = "TX_REQ_WAIT" /\ curr_command \notin ReportWords => rsp.req
  /\ rsp.state # "HW_RESET" /\ curr_command \notin ReportWords
       => (rsp.state = "PROCESS_REPLY" \/ rsp.word # NoWord
             => current_client = COMMAND_RESP /\ client_busy)
  /\ rsp.state # "HW_RESET" /\ data_out # NoWord /\ data_out \notin ReportWords
       => current_client = COMMAND_RESP

\* Answers that inputs of this burst still call for.
Pending == Len(owed) + Count(DonePending) + Count(ErrorPending)

\* Every answer still owed is for an input of the burst, every report under
\* way for a latch that is set.
Burst ==
  /\ Pending <= burst
  /\ rsp.state \in {"TX_REQ_WAIT", "PROCESS_REPLY"}
       => /\ curr_command = "DON" => command_done_reg
          /\ curr_command = "ERR" => command_error_reg
  /\ error_level => command_error_reg \/ error_sent

\* Silent clocks of the answer under way, less the four each answer may use.
Phase ==
  IF rsp.state = "PROCESS_REPLY" THEN 0
  ELSE IF rsp.word # NoWord /\ data_out = NoWord THEN -3
  ELSE IF data_out # NoWord /\ ~client_dval THEN -2
  ELSE -1

\* Every answer costs at most four silent clocks of the grant.
Budget ==
  current_client = COMMAND_RESP /\ next_state = "TX_BUSY" /\ client_busy
    => timeout_count <= 4 * (burst - Pending) + Phase

RspInv == EchoInv /\ Burst /\ LineInv /\ Line /\ Budget /\ CommandReplyDelivered

-----------------------------------------------------------------------------
(* Sequences *)

\* What Tail and Append return.
LEMMA SeqFacts ==
  ASSUME NEW S, NEW s \in Seq(S)
  PROVE  /\ Len(s) \in Nat
         /\ s # <<>> => /\ Tail(s) \in Seq(S)
                        /\ Len(Tail(s)) = Len(s) - 1
                        /\ Len(s) >= 1
                        /\ \A i \in 1 .. (Len(s) - 1) : Tail(s)[i] = s[i + 1]
                        /\ Head(s) = s[1]
                        /\ s[1] \in S
         /\ \A e \in S : /\ Append(s, e) \in Seq(S)
                         /\ Len(Append(s, e)) = Len(s) + 1
                         /\ \A i \in 1 .. Len(s) : Append(s, e)[i] = s[i]
                         /\ Append(s, e)[Len(s) + 1] = e
  OBVIOUS

\* The input register moves into the FIFO, an acknowledged command into the
\* register and to the end of what is owed.
LEMMA ChainMove ==
  ASSUME NEW S, NoCommand \notin S, NEW o \in Seq(S), NEW c \in Seq(S),
         NEW w \in S \cup {NoCommand}, NEW ack \in S \cup {NoCommand},
         NEW k \in {0, 1}, Chain(o, k, c, w)
  PROVE  Chain(IF ack = NoCommand THEN o ELSE Append(o, ack), k,
               IF w = NoCommand THEN c ELSE Append(c, w), ack)
<1> DEFINE c2 == IF w = NoCommand THEN c ELSE Append(c, w)
           o2 == IF ack = NoCommand THEN o ELSE Append(o, ack)
<1>1. Len(o) \in Nat /\ Len(c) \in Nat
  BY SeqFacts
<1>2. Len(c2) = Len(c) + (IF w = NoCommand THEN 0 ELSE 1)
  BY <1>1, SeqFacts
<1>3. Len(o) = k + Len(c2)
  BY <1>1, <1>2 DEF Chain
<1>4. \A i \in 1 .. Len(c2) : o[k + i] = c2[i]
  <2> SUFFICES ASSUME NEW i \in 1 .. Len(c2) PROVE o[k + i] = c2[i]
    OBVIOUS
  <2>1. CASE i \in 1 .. Len(c)
    BY <2>1, <1>1, SeqFacts DEF Chain
  <2>2. CASE i \notin 1 .. Len(c)
    <3>1. w # NoCommand /\ i = Len(c) + 1 /\ k + i = Len(o)
      BY <2>2, <1>1, <1>2, <1>3
    <3>2. c2[i] = w
      BY <3>1, SeqFacts
    <3> QED BY <3>1, <3>2 DEF Chain
  <2> QED BY <2>1, <2>2
<1>5. CASE ack = NoCommand
  BY <1>3, <1>4, <1>5 DEF Chain
<1>6. CASE ack # NoCommand
  <2>1. o2 = Append(o, ack) /\ ack \in S
    BY <1>6
  <2>2. /\ Len(o2) = Len(o) + 1 /\ o2[Len(o2)] = ack
        /\ \A i \in 1 .. Len(o) : o2[i] = o[i]
    BY <2>1, SeqFacts
  <2>3. \A i \in 1 .. Len(c2) : k + i \in 1 .. Len(o)
    BY <1>1, <1>2, <1>3
  <2>4. \A i \in 1 .. Len(c2) : o2[k + i] = c2[i]
    BY <1>4, <2>2, <2>3
  <2>5. Len(o2) = k + Len(c2) + 1
    BY <1>1, <1>3, <2>2
  <2> HIDE DEF o2, c2
  <2>6. Chain(o2, k, c2, ack)
    BY <1>6, <2>2, <2>4, <2>5 DEF Chain
  <2> QED BY <2>6 DEF o2, c2
<1> QED BY <1>5, <1>6

\* A command the FIFO does not take is the last of those owed: without it,
\* what is owed is still what is answered, then what the FIFO holds.
LEMMA ChainDrop ==
  ASSUME NEW S, NEW o \in Seq(S), NEW c \in Seq(S), NEW w, w # NoCommand,
         NEW k \in {0, 1}, Chain(o, k, c, w)
  PROVE  /\ SubSeq(o, 1, Len(o) - 1) \in Seq(S)
         /\ Len(SubSeq(o, 1, Len(o) - 1)) = k + Len(c)
         /\ Len(o) = k + Len(c) + 1
         /\ Chain(SubSeq(o, 1, Len(o) - 1), k, c, NoCommand)
         /\ \A i \in 1 .. (k + Len(c)) : SubSeq(o, 1, Len(o) - 1)[i] = o[i]
<1> DEFINE n == k + Len(c)
           s == SubSeq(o, 1, n)
<1>1. Len(o) \in Nat /\ Len(c) \in Nat /\ Len(o) = n + 1 /\ n \in Nat
  BY SeqFacts DEF Chain
<1>2. n = Len(o) - 1
  BY <1>1
<1>3. s \in Seq(S) /\ Len(s) = n /\ \A i \in 1 .. n : s[i] = o[i]
  <2>1. n <= Len(o)
    BY <1>1
  <2> HIDE DEF n
  <2> QED BY <1>1, <2>1
<1>4. \A i \in 1 .. Len(c) : k + i \in 1 .. n
  BY <1>1
<1>5. \A i \in 1 .. Len(c) : s[k + i] = c[i]
  BY <1>3, <1>4 DEF Chain
<1>6. Chain(s, k, c, NoCommand)
  BY <1>1, <1>3, <1>5 DEF Chain
<1> QED BY <1>1, <1>2, <1>3, <1>6

\* Reading the FIFO takes the oldest command not being answered.
LEMMA ChainRead ==
  ASSUME NEW S, NEW o \in Seq(S), NEW c \in Seq(S), NEW w,
         Chain(o, 0, c, w), c # <<>>
  PROVE  Chain(o, 1, Tail(c), w) /\ o[1] = Head(c) /\ Tail(c) \in Seq(S)
<1>1. /\ Len(o) \in Nat /\ Len(c) \in Nat /\ Len(c) >= 1
      /\ Len(Tail(c)) = Len(c) - 1 /\ Head(c) = c[1]
      /\ Tail(c) \in Seq(S)
      /\ \A i \in 1 .. (Len(c) - 1) : Tail(c)[i] = c[i + 1]
  BY SeqFacts
<1>2. 1 \in 1 .. Len(c) /\ \A i \in 1 .. (Len(c) - 1) : i + 1 \in 1 .. Len(c)
  BY <1>1
<1>3. \A i \in 1 .. Len(c) : o[i] = c[i]
  BY <1>1 DEF Chain
<1>4. \A i \in 1 .. (Len(c) - 1) : o[1 + i] = Tail(c)[i]
  BY <1>1, <1>2, <1>3
<1>5. Chain(o, 1, Tail(c), w)
  BY <1>1, <1>4 DEF Chain
<1> QED BY <1>1, <1>2, <1>3, <1>5

\* Echoing the command being answered leaves the others owed.
LEMMA ChainPop ==
  ASSUME NEW S, NEW o \in Seq(S), NEW c \in Seq(S), NEW w,
         Chain(o, 1, c, w)
  PROVE  Chain(Tail(o), 0, c, w) /\ o # <<>> /\ Tail(o) \in Seq(S)
<1>1. Len(o) \in Nat /\ Len(c) \in Nat /\ Len(o) >= 1
  BY SeqFacts DEF Chain
<1>2. o # <<>>
  BY <1>1
<1>3. /\ Len(Tail(o)) = Len(o) - 1 /\ Tail(o) \in Seq(S)
      /\ \A i \in 1 .. (Len(o) - 1) : Tail(o)[i] = o[i + 1]
  BY <1>2, SeqFacts
<1>4. \A i \in 1 .. Len(c) : i \in 1 .. (Len(o) - 1) /\ i + 1 = 1 + i
  BY <1>1 DEF Chain
<1>5. \A i \in 1 .. Len(c) : Tail(o)[0 + i] = c[i]
  BY <1>3, <1>4 DEF Chain
<1>6. ASSUME w # NoCommand PROVE Tail(o)[Len(o) - 1] = w
  <2>1. Len(o) - 1 \in 1 .. (Len(o) - 1) /\ (Len(o) - 1) + 1 = Len(o)
    BY <1>1, <1>6 DEF Chain
  <2> QED BY <2>1, <1>3, <1>6 DEF Chain
<1> QED BY <1>1, <1>2, <1>3, <1>5, <1>6 DEF Chain

-----------------------------------------------------------------------------
(* Echoes *)

\* Commands, words and reports are told apart from their absence.
LEMMA CommandFacts ==
  /\ NoCommand \notin Commands /\ "DON" \notin Commands /\ "ERR" \notin Commands
  /\ NoWord \notin Words /\ Commands \subseteq Words
  /\ NoCommand \notin ReportWords
  BY CommandsAssumption DEF NoCommand, NoWord, Words, ReportWords

\* The power-up state satisfies the invariant.
LEMMA EchoInit == RspInit => EchoInv
<1> SUFFICES ASSUME RspInit PROVE EchoInv
  OBVIOUS
<1>1. /\ rsp.state = "IDLE" /\ ~rsp.busy /\ ~rsp.req /\ rsp.word = NoWord
      /\ ~rsp.rdreq /\ ~rsp.replied_done /\ ~rsp.replied_error
  BY DEF RspInit, RspDefault
<1>2. RspTypeOK
  <2>1. rsp \in [state : RspStates, busy : BOOLEAN, req : BOOLEAN,
                 word : Words \cup {NoWord}, rdreq : BOOLEAN,
                 replied_done : BOOLEAN, replied_error : BOOLEAN]
    BY DEF RspInit, RspDefault, RspStates
  <2>2. /\ command_done_reg \in BOOLEAN /\ command_error_reg \in BOOLEAN
        /\ error_sent \in BOOLEAN /\ error_level \in BOOLEAN
    BY Zenon DEF RspInit
  <2> QED BY <2>1, <2>2, MaxBurstAssumption DEF RspInit, RspTypeOK
<1>3. Shape
  BY <1>1 DEF Shape, ReplyStates
<1>4. Pipeline
  BY <1>1 DEF RspInit, Pipeline, Chain, Answering, Offset
<1> QED BY <1>2, <1>3, <1>4 DEF EchoInv

\* Whatever the state machine does, its registers keep their types.
LEMMA MachineTypes ==
  ASSUME RspTypeOK, Shape, NEW ready, RspMachine(ready)
  PROVE  /\ rsp' \in [state : RspStates, busy : BOOLEAN, req : BOOLEAN,
                      word : Words \cup {NoWord}, rdreq : BOOLEAN,
                      replied_done : BOOLEAN, replied_error : BOOLEAN]
         /\ curr_command' \in Commands \cup ReportWords \cup {NoCommand}
         /\ cmd_idx' \in Nat
<1> USE DEF RspTypeOK, RspDefault, RspStates, ReplyStates
<1>1. CASE LeaveHwReset
  BY <1>1 DEF LeaveHwReset
<1>2. CASE StartCommand
  BY <1>2 DEF StartCommand
<1>3. CASE StartReport
  BY <1>3 DEF StartReport, ReportWords
<1>4. CASE RspIdle
  BY <1>4 DEF RspIdle
<1>5. CASE WaitBuffer
  BY <1>5 DEF WaitBuffer
<1>6. CASE ReadBuffer
  BY <1>6 DEF ReadBuffer
<1>7. CASE TxReqWait(ready)
  BY <1>7 DEF TxReqWait
<1>8. CASE ProcessReply
  <2>1. curr_command \in Commands \cup ReportWords
    BY <1>8 DEF ProcessReply, Shape
  <2>2. AfterEcho[curr_command] \in RspStates
    BY <2>1, CommandsAssumption DEF AfterEcho, ReportWords
  <2>3. curr_command \in Words
    BY <2>1 DEF Words, ReportWords
  <2> QED BY <1>8, <2>2, <2>3 DEF ProcessReply
<1>9. CASE ReplyData
  BY <1>9 DEF ReplyData, Words
<1>10. CASE ReplyCmdList
  <2>1. /\ \/ rsp' = [RspDefault EXCEPT !.state = "REPLY_DONE", !.word = "word"]
           \/ rsp' = [RspDefault EXCEPT !.state = "REPLY_CMD_LIST", !.word = "word"]
        /\ curr_command' = curr_command
        /\ cmd_idx' \in {cmd_idx, cmd_idx + 1}
    BY <1>10 DEF ReplyCmdList
  <2>2. /\ curr_command' \in Commands \cup ReportWords \cup {NoCommand}
        /\ cmd_idx' \in Nat
    BY <2>1
  <2>3. rsp' \in [state : RspStates, busy : BOOLEAN, req : BOOLEAN,
                  word : Words \cup {NoWord}, rdreq : BOOLEAN,
                  replied_done : BOOLEAN, replied_error : BOOLEAN]
    BY <2>1 DEF Words
  <2> QED BY <2>2, <2>3
<1>11. CASE ReplyLast
  BY <1>11 DEF ReplyLast, Words
<1> QED
  BY <1>1, <1>2, <1>3, <1>4, <1>5, <1>6, <1>7, <1>8, <1>9, <1>10, <1>11
  DEF RspMachine

\* The registers of the state machine fit its new state.
LEMMA MachineShape ==
  ASSUME RspTypeOK, Shape, NEW ready, RspMachine(ready), CommandFifo,
         data_out' = rsp.word
  PROVE  Shape'
<1> USE CommandFacts DEF RspDefault, ReplyStates, Shape, CommandFifo
<1>0. cmdbuff # <<>> => Head(cmdbuff) \in Commands
  BY SeqFacts DEF RspTypeOK
<1>1. CASE LeaveHwReset
  BY <1>1 DEF LeaveHwReset
<1>2. CASE StartCommand
  <2>1. rsp.state = "IDLE" /\ cmdbuff # <<>> /\ ~rsp.rdreq
    BY <1>2 DEF StartCommand
  <2>2. cmdbuff' # <<>>
    BY <2>1, SeqFacts DEF RspTypeOK
  <2> QED BY <1>2, <2>2 DEF StartCommand
<1>3. CASE StartReport
  BY <1>3 DEF StartReport, ReportWords
<1>4. CASE RspIdle
  BY <1>4 DEF RspIdle
<1>5. CASE WaitBuffer
  BY <1>0, <1>5 DEF WaitBuffer
<1>6. CASE ReadBuffer
  BY <1>6 DEF ReadBuffer
<1>7. CASE TxReqWait(ready)
  BY <1>7 DEF TxReqWait
<1>8. CASE ProcessReply
  <2>1. curr_command \in Commands \cup ReportWords
    BY <1>8 DEF ProcessReply, RspTypeOK
  <2>2. curr_command # NoWord
    BY <2>1 DEF ReportWords, Words
  <2>3. /\ AfterEcho[curr_command] \in ReplyStates \cup {"IDLE"}
        /\ AfterEcho[curr_command] # "IDLE" => curr_command \in Commands
        /\ curr_command \in ReportWords => AfterEcho[curr_command] = "IDLE"
    BY <2>1, CommandsAssumption DEF AfterEcho, ReportWords
  <2> QED BY <1>8, <2>1, <2>2, <2>3 DEF ProcessReply, ReportWords
<1>9. CASE ReplyData
  BY <1>9 DEF ReplyData, NoWord, ReportWords
<1>10. CASE ReplyCmdList
  <2>1. /\ \/ rsp' = [RspDefault EXCEPT !.state = "REPLY_DONE", !.word = "word"]
           \/ rsp' = [RspDefault EXCEPT !.state = "REPLY_CMD_LIST", !.word = "word"]
        /\ curr_command' = curr_command
        /\ rsp.state = "REPLY_CMD_LIST"
    BY <1>10 DEF ReplyCmdList
  <2>2. rsp.rdreq = FALSE /\ curr_command \in Commands
    BY <2>1 DEF RspTypeOK
  <2>3. CASE rsp' = [RspDefault EXCEPT !.state = "REPLY_DONE", !.word = "word"]
    BY <2>1, <2>2, <2>3 DEF NoWord, ReportWords
  <2>4. CASE rsp' = [RspDefault EXCEPT !.state = "REPLY_CMD_LIST", !.word = "word"]
    BY <2>1, <2>2, <2>4 DEF NoWord, ReportWords
  <2> QED BY <2>1, <2>3, <2>4
<1>11. CASE ReplyLast
  BY <1>11 DEF ReplyLast, NoWord, ReportWords
<1> QED
  BY <1>1, <1>2, <1>3, <1>4, <1>5, <1>6, <1>7, <1>8, <1>9, <1>10, <1>11
  DEF RspMachine

\* A command starts to be answered when it is read from the FIFO, and stops
\* when it is echoed; in between it stays the same.
LEMMA MachineAnswering ==
  ASSUME RspTypeOK, Shape, NEW ready, RspMachine(ready), CommandFifo
  PROVE  \/ /\ rsp.state = "WAIT_BUFFER" /\ ~Answering
            /\ Answering' /\ Asked' = cmdbuff_q'
         \/ /\ rsp.state = "PROCESS_REPLY" /\ curr_command \in Commands
            /\ Answering /\ ~Answering'
         \/ /\ rsp.state # "WAIT_BUFFER"
            /\ ~(rsp.state = "PROCESS_REPLY" /\ curr_command \in Commands)
            /\ Answering' <=> Answering
            /\ Answering => Asked' = Asked
<1> USE CommandFacts DEF RspDefault, Answering, Asked
<1>1. CASE LeaveHwReset
  BY <1>1 DEF LeaveHwReset
<1>2. CASE StartCommand
  BY <1>2 DEF StartCommand
<1>3. CASE StartReport
  BY <1>3 DEF StartReport, ReportWords
<1>4. CASE RspIdle
  BY <1>4 DEF RspIdle
<1>5. CASE WaitBuffer
  BY <1>5 DEF WaitBuffer
<1>6. CASE ReadBuffer
  <2>1. cmdbuff_q \in Commands
    BY <1>6 DEF ReadBuffer, RspTypeOK, Shape
  <2> QED BY <1>6, <2>1 DEF ReadBuffer
<1>7. CASE TxReqWait(ready)
  BY <1>7 DEF TxReqWait
<1>8. CASE ProcessReply
  <2>1. curr_command \in Commands \cup ReportWords
    BY <1>8 DEF ProcessReply, RspTypeOK, Shape
  <2>2. AfterEcho[curr_command] \in ReplyStates \cup {"IDLE"}
    BY <2>1, CommandsAssumption DEF AfterEcho, ReportWords, ReplyStates
  <2> QED BY <1>8, <2>2 DEF ProcessReply, ReplyStates
<1>9. CASE ReplyData
  BY <1>9 DEF ReplyData
<1>10. CASE ReplyCmdList
  <2>1. /\ rsp.state = "REPLY_CMD_LIST"
        /\ rsp'.state = "REPLY_DONE" \/ rsp'.state = "REPLY_CMD_LIST"
    BY <1>10 DEF ReplyCmdList
  <2> QED BY <2>1
<1>11. CASE ReplyLast
  BY <1>11 DEF ReplyLast
<1> QED
  BY <1>1, <1>2, <1>3, <1>4, <1>5, <1>6, <1>7, <1>8, <1>9, <1>10, <1>11
  DEF RspMachine

\* A command lost to a full FIFO was the last one owed, and not the one
\* being answered: without it the chain is that of a FIFO that took its input.
LEMMA KeptFacts ==
  ASSUME RspTypeOK, Pipeline
  PROVE  LET kept == IF Overflow THEN SubSeq(owed, 1, Len(owed) - 1) ELSE owed
             wr   == IF Overflow THEN NoCommand ELSE cmdbuff_wr
         IN  /\ kept \in Seq(Commands) /\ Len(kept) \in Nat
             /\ Chain(kept, Offset, cmdbuff, wr)
             /\ Answering => Len(kept) >= 1 /\ kept[1] = Asked
             /\ Len(kept) <= Len(owed) /\ Len(owed) \in Nat
             /\ Overflow => Len(owed) = Offset + Len(cmdbuff) + 1
<1>1. /\ owed \in Seq(Commands) /\ cmdbuff \in Seq(Commands)
      /\ Len(owed) \in Nat /\ Len(cmdbuff) \in Nat
      /\ Chain(owed, Offset, cmdbuff, cmdbuff_wr)
      /\ Answering => owed[1] = Asked
      /\ Offset \in {0, 1} /\ (Answering => Offset = 1)
  BY SeqFacts DEF RspTypeOK, Pipeline, Offset
<1>2. CASE Overflow
  <2>1. cmdbuff_wr # NoCommand
    BY <1>2 DEF Overflow
  <2> DEFINE s == SubSeq(owed, 1, Len(owed) - 1)
  <2>2. /\ s \in Seq(Commands)
        /\ Len(s) = Offset + Len(cmdbuff)
        /\ Len(owed) = Offset + Len(cmdbuff) + 1
        /\ Chain(s, Offset, cmdbuff, NoCommand)
        /\ \A i \in 1 .. (Offset + Len(cmdbuff)) : s[i] = owed[i]
    BY <1>1, <2>1, ChainDrop
  <2> HIDE DEF s
  <2>3. Answering => 1 \in 1 .. (Offset + Len(cmdbuff))
    BY <1>1
  <2>4. /\ Len(s) \in Nat /\ Len(s) <= Len(owed)
        /\ Answering => Len(s) >= 1 /\ s[1] = Asked
    BY <1>1, <2>2, <2>3
  <2> QED BY <1>1, <1>2, <2>2, <2>4 DEF s
<1>3. CASE ~Overflow
  <2>1. Answering => Len(owed) >= 1
    BY <1>1 DEF Chain
  <2> QED BY <1>1, <1>3, <2>1
<1> QED BY <1>2, <1>3

\* What is owed stays the chain of what is being answered and what waits.
LEMMA PipelineStep ==
  ASSUME EchoInv, NEW ack \in Acks, NEW done \in BOOLEAN,
         NEW error \in BOOLEAN, RspClock(ack, done, error)
  PROVE  /\ Pipeline'
         /\ cmdbuff' \in Seq(Commands) /\ owed' \in Seq(Commands)
         /\ cmdbuff_q' \in Commands \cup {NoCommand}
         /\ cmdbuff_wr' \in Commands \cup {NoCommand}
<1> DEFINE rest == IF rsp.rdreq /\ cmdbuff # <<>> THEN Tail(cmdbuff) ELSE cmdbuff
           kept == IF Overflow THEN SubSeq(owed, 1, Len(owed) - 1) ELSE owed
           wr   == IF Overflow THEN NoCommand ELSE cmdbuff_wr
           left == IF rsp.state = "PROCESS_REPLY" /\ curr_command \in Commands
                     THEN Tail(kept) ELSE kept
<1>1. /\ cmdbuff \in Seq(Commands) /\ wr \in Commands \cup {NoCommand}
      /\ cmdbuff_q \in Commands \cup {NoCommand}
      /\ Len(cmdbuff) \in Nat
  BY SeqFacts DEF EchoInv, RspTypeOK
<1>2. ack \in Commands \cup {NoCommand}
  BY DEF Acks
<1>3. /\ kept \in Seq(Commands) /\ Len(kept) \in Nat
      /\ Chain(kept, Offset, cmdbuff, wr)
      /\ Answering => Len(kept) >= 1 /\ kept[1] = Asked
  BY KeptFacts DEF EchoInv
<1>4. /\ cmdbuff' = IF wr = NoCommand THEN rest ELSE Append(rest, wr)
      /\ cmdbuff_q' = IF rsp.rdreq /\ cmdbuff # <<>> THEN Head(cmdbuff) ELSE cmdbuff_q
  <2>1. (cmdbuff_wr # NoCommand /\ Len(cmdbuff) < CmdFifoDepth) <=> wr # NoCommand
    BY <1>1, CmdFifoDepthAssumption DEF Overflow
  <2> QED BY <2>1 DEF RspClock, CommandFifo
<1>5. owed' = IF ack = NoCommand THEN left ELSE Append(left, ack)
  BY DEF RspClock, History
<1>6. cmdbuff_wr' = ack
  BY DEF RspClock, OutputRegister
<1>7. Shape /\ RspTypeOK /\ CommandFifo
  BY DEF EchoInv, RspClock
<1>8. PICK ready : RspMachine(ready)
  BY DEF RspClock
<1>9. rsp.rdreq <=> rsp.state = "WAIT_BUFFER"
  BY <1>7 DEF Shape
<1> HIDE DEF kept, wr
<1>10. /\ Chain(left, Offset', rest, wr)
       /\ left \in Seq(Commands) /\ rest \in Seq(Commands)
       /\ Answering' => Len(left) >= 1 /\ left[1] = Asked'
  <2>1. CASE /\ rsp.state = "WAIT_BUFFER" /\ ~Answering
             /\ Answering' /\ Asked' = cmdbuff_q'
    <3>1. cmdbuff # <<>>
      BY <1>7, <2>1 DEF Shape
    <3>2. Offset = 0 /\ Offset' = 1
      BY <2>1 DEF Offset
    <3>3. rest = Tail(cmdbuff) /\ left = kept /\ cmdbuff_q' = Head(cmdbuff)
      BY <1>4, <1>9, <2>1, <3>1
    <3>4. Chain(kept, 1, Tail(cmdbuff), wr) /\ kept[1] = Head(cmdbuff)
            /\ Tail(cmdbuff) \in Seq(Commands)
      BY <1>1, <1>3, <3>1, <3>2, ChainRead
    <3>5. Len(kept) >= 1
      BY <1>1, <1>3, <3>1, <3>2, SeqFacts DEF Chain
    <3> QED BY <1>1, <1>3, <2>1, <3>2, <3>3, <3>4, <3>5
  <2>2. CASE /\ rsp.state = "PROCESS_REPLY" /\ curr_command \in Commands
             /\ Answering /\ ~Answering'
    <3>1. Offset = 1 /\ Offset' = 0
      BY <2>2 DEF Offset
    <3>2. rest = cmdbuff /\ left = Tail(kept)
      BY <1>9, <2>2
    <3>3. Chain(Tail(kept), 0, cmdbuff, wr) /\ Tail(kept) \in Seq(Commands)
      BY <1>1, <1>3, <3>1, ChainPop
    <3> QED BY <1>1, <2>2, <3>1, <3>2, <3>3
  <2>3. CASE /\ rsp.state # "WAIT_BUFFER"
             /\ ~(rsp.state = "PROCESS_REPLY" /\ curr_command \in Commands)
             /\ Answering' <=> Answering
             /\ Answering => Asked' = Asked
    <3>1. Offset' = Offset
      BY <2>3 DEF Offset
    <3>2. rest = cmdbuff /\ left = kept
      BY <1>9, <2>3
    <3> QED BY <1>1, <1>3, <2>3, <3>1, <3>2
  <2> QED BY <1>7, <1>8, <2>1, <2>2, <2>3, MachineAnswering
<1> HIDE DEF rest, left
<1>11. Offset' \in {0, 1}
  BY DEF Offset
<1>12. Chain(owed', Offset', cmdbuff', cmdbuff_wr')
  BY <1>1, <1>2, <1>4, <1>5, <1>6, <1>10, <1>11, CommandFacts, ChainMove
<1>13. Len(left) \in Nat /\ (ack # NoCommand => Len(owed') = Len(left) + 1)
         /\ owed' \in Seq(Commands) /\ cmdbuff' \in Seq(Commands)
  BY <1>1, <1>2, <1>4, <1>5, <1>10, SeqFacts
<1>14. ASSUME Answering' PROVE owed'[1] = Asked'
  <2>1. Len(left) >= 1 /\ left[1] = Asked'
    BY <1>10, <1>14
  <2>2. 1 \in 1 .. Len(left)
    BY <1>13, <2>1
  <2>3. ack # NoCommand => Append(left, ack)[1] = left[1]
    BY <1>2, <1>10, <2>2, SeqFacts
  <2> QED BY <1>5, <2>1, <2>3
<1>15. cmdbuff_q' \in Commands \cup {NoCommand}
  BY <1>1, <1>4, SeqFacts
<1> QED
  BY <1>2, <1>6, <1>12, <1>13, <1>14, <1>15 DEF Pipeline

\* The latches and the outputs keep their types.
LEMMA LatchTypes ==
  ASSUME RspTypeOK, NEW ack \in Acks, NEW done \in BOOLEAN,
         NEW error \in BOOLEAN, RspClock(ack, done, error)
  PROVE  /\ command_done_reg' \in BOOLEAN /\ command_error_reg' \in BOOLEAN
         /\ error_sent' \in BOOLEAN /\ error_level' \in BOOLEAN
         /\ data_out' \in Words \cup {NoWord}
         /\ burst' \in 0 .. MaxBurst
<1>1. /\ command_done_reg' \in BOOLEAN /\ command_error_reg' \in BOOLEAN
      /\ error_sent' \in BOOLEAN /\ error_level' \in BOOLEAN
  BY Zenon DEF RspClock, OutputRegister, DoneLatch, ErrorLatch, History
<1>2. data_out' \in Words \cup {NoWord}
  BY DEF RspTypeOK, RspClock, OutputRegister
<1>3. burst' \in Nat /\ burst' <= MaxBurst
  <2>1. burst \in Nat
    BY MaxBurstAssumption DEF RspTypeOK
  <2>2. /\ Count(ack # NoCommand) \in Nat /\ Count(done) \in Nat
        /\ Count(error /\ ~error_level) \in Nat
    BY DEF Count
  <2>3. (IF rsp.busy \/ owed # <<>> \/ command_done_reg \/ command_error_reg
          THEN burst ELSE 0) \in Nat
    BY <2>1
  <2> QED BY <2>2, <2>3 DEF RspClock, History
<1> QED BY <1>1, <1>2, <1>3, MaxBurstAssumption

\* A clock edge keeps the invariant of the echoes.
LEMMA EchoTick ==
  ASSUME EchoInv, NEW ack \in Acks, NEW done \in BOOLEAN,
         NEW error \in BOOLEAN, RspClock(ack, done, error)
  PROVE  EchoInv'
<1>1. RspTypeOK /\ Shape /\ CommandFifo /\ data_out' = rsp.word
  BY DEF EchoInv, RspClock, OutputRegister
<1>2. PICK ready : RspMachine(ready)
  BY DEF RspClock
<1>3. Shape'
  BY <1>1, <1>2, MachineShape
<1>4. RspTypeOK'
  BY <1>1, <1>2, MachineTypes, LatchTypes, PipelineStep DEF RspTypeOK
<1> QED BY <1>3, <1>4, PipelineStep DEF EchoInv

\* So does a reset.
LEMMA EchoReset == EchoInv /\ RspReset => EchoInv'
<1> SUFFICES ASSUME EchoInv, RspReset PROVE EchoInv'
  OBVIOUS
<1>1. /\ rsp' = [rsp EXCEPT !.state = "HW_RESET", !.word = NoWord,
                            !.rdreq = FALSE, !.replied_done = FALSE]
      /\ cmdbuff' = <<>> /\ owed' = <<>> /\ cmdbuff_q' = NoCommand
      /\ cmdbuff_wr' = NoCommand /\ data_out' = rsp.word /\ error_level' = FALSE
      /\ UNCHANGED <<curr_command, cmd_idx, burst>>
  BY DEF RspReset, OutputRegister
<1>2. /\ command_done_reg' \in BOOLEAN /\ command_error_reg' \in BOOLEAN
      /\ error_sent' \in BOOLEAN /\ error_level' \in BOOLEAN
  BY Zenon DEF RspReset, OutputRegister, DoneLatch, ErrorLatch
<1>3. rsp' \in [state : RspStates, busy : BOOLEAN, req : BOOLEAN,
                word : Words \cup {NoWord}, rdreq : BOOLEAN,
                replied_done : BOOLEAN, replied_error : BOOLEAN]
  BY <1>1 DEF EchoInv, RspTypeOK, RspStates
<1>4. RspTypeOK'
  BY <1>1, <1>2, <1>3 DEF EchoInv, RspTypeOK
<1>5. rsp'.state = "HW_RESET" /\ rsp'.word = NoWord /\ ~rsp'.rdreq
  BY <1>1 DEF EchoInv, RspTypeOK
<1>6. Shape'
  BY <1>5 DEF Shape, ReplyStates
<1>7. Pipeline'
  BY <1>1, <1>5 DEF Pipeline, Chain, Answering, Offset
<1> QED BY <1>4, <1>6, <1>7 DEF EchoInv

\* Every step keeps the invariant of the echoes.
LEMMA EchoStep == EchoInv /\ [RspNext]_vars => EchoInv'
<1> SUFFICES ASSUME EchoInv, [RspNext]_vars PROVE EchoInv'
  OBVIOUS
<1>1. CASE RspTick
  BY <1>1, EchoTick DEF RspTick
<1>2. CASE RspReset
  BY <1>2, EchoReset
<1>3. CASE UNCHANGED vars
  <2> USE <1>3 DEF vars, rspVars, EchoInv
  <2>1. RspTypeOK'
    <3>1. /\ command_done_reg' \in BOOLEAN /\ command_error_reg' \in BOOLEAN
          /\ error_sent' \in BOOLEAN /\ error_level' \in BOOLEAN
      BY Zenon DEF RspTypeOK
    <3> QED BY <3>1 DEF RspTypeOK
  <2>2. Shape'
    BY DEF Shape
  <2>3. Pipeline'
    BY DEF Pipeline, Chain, Offset, Answering, Asked
  <2> QED BY <2>1, <2>2, <2>3
<1> QED BY <1>1, <1>2, <1>3 DEF RspNext

\* What is owed is what is being answered, then what waits in the FIFO, also
\* when commands come to a full FIFO and are lost.
THEOREM EchoInvariance == RspSpec => []EchoInv
  BY EchoInit, EchoStep, PTL DEF RspSpec

(***************************************************************************)
(* Commands are echoed in the order in which they were acknowledged, each  *)
(* once but for those lost to a full FIFO, whatever the arbiter and its    *)
(* other clients do and however fast commands come: the command in         *)
(* PROCESS_REPLY is the oldest one owed an answer.                         *)
(***************************************************************************)
THEOREM EchoesInOrder == RspSpec => []EchoInOrder
<1>1. EchoInv => EchoInOrder
  <2> SUFFICES ASSUME EchoInv, rsp.state = "PROCESS_REPLY",
                      curr_command \in Commands
               PROVE  owed # <<>> /\ curr_command = Head(owed)
    BY DEF EchoInOrder
  <2>1. Answering /\ Asked = curr_command /\ Offset = 1
    BY DEF Answering, Asked, Offset
  <2>2. /\ owed \in Seq(Commands) /\ cmdbuff \in Seq(Commands)
        /\ Chain(owed, 1, cmdbuff, cmdbuff_wr) /\ owed[1] = curr_command
    BY <2>1 DEF EchoInv, RspTypeOK, Pipeline
  <2>3. owed # <<>>
    BY <2>2, ChainPop
  <2> QED BY <2>2, <2>3, SeqFacts
<1> QED BY <1>1, EchoInvariance, PTL

-----------------------------------------------------------------------------
(* The line *)

\* The command response generator is one of the clients, and its bus among
\* the buses of all clients carries its own registers.
LEMMA BusFacts ==
  ASSUME RspTypeOK, NEW bus \in BusesWith(COMMAND_RESP, RspBus)
  PROVE  /\ COMMAND_RESP \in Clients /\ COMMAND_RESP # NONE
         /\ bus[COMMAND_RESP] = RspBus
         /\ bus \in Buses
<1>1. COMMAND_RESP \in Clients /\ COMMAND_RESP # NONE
  BY NClientsAssumption DEF COMMAND_RESP, Clients, NONE
<1>2. RspBus \in ClientBus
  BY DEF RspTypeOK, RspBus, ClientBus
<1> QED BY <1>1, <1>2 DEF BusesWith, Buses

\* What the generator shows on its bus.
LEMMA BusFields ==
  ASSUME NEW b, b = RspBus
  PROVE  (b.busy <=> rsp.busy) /\ (b.req <=> rsp.req)
           /\ (b.valid <=> data_out # NoWord)
<1>1. RspBus.busy = rsp.busy /\ RspBus.req = rsp.req
  BY DEF RspBus
<1>2. RspBus.valid <=> data_out # NoWord
  BY DEF RspBus
<1> QED BY <1>1, <1>2

\* The multiplexer registers the owner's bus, or nothing.
LEMMA MuxStep ==
  ASSUME LineInv, NEW bus \in Buses, OutputMultiplexer(bus)
  PROVE  /\ mux_client' = current_client
         /\ client_busy' \in BOOLEAN /\ client_dval' \in BOOLEAN
         /\ current_client # NONE => /\ client_busy' <=> bus[current_client].busy
                                     /\ client_dval' <=> bus[current_client].valid
         /\ current_client = NONE => ~client_busy' /\ ~client_dval'
<1>1. client_busy' \in BOOLEAN /\ client_dval' \in BOOLEAN
  BY Zenon DEF OutputMultiplexer
<1> QED BY <1>1 DEF OutputMultiplexer

\* What one edge of the arbiter does to the grant of one client.
LEMMA GrantStep ==
  ASSUME LineInv, NEW bus \in Buses, NEW c \in Clients, StateMachine(bus)
  PROVE  /\ LineInv'
         /\ OutputMultiplexer(bus)
         /\ next_state = "HW_RESET" => next_state' = "IDLE"
         /\ current_client' = c /\ current_client # c
              => next_state = "IDLE" /\ bus[c].req /\ next_state' = "TX_WAIT"
         /\ current_client = c /\ next_state = "TX_WAIT" /\ client_busy
              => current_client' = c /\ next_state' = "TX_BUSY" /\ timeout_count' = 0
         /\ current_client = c /\ next_state = "TX_WAIT" /\ ~client_busy
              => /\ next_state' # "TX_BUSY"
                 /\ timeout_count < MAX_TIMEOUT
                      => current_client' = c /\ next_state' = "TX_WAIT"
         /\ current_client = c /\ next_state = "TX_BUSY"
              => /\ client_busy /\ timeout_count < MAX_TIMEOUT
                      => /\ current_client' = c /\ next_state' = "TX_BUSY"
                         /\ timeout_count' = IF client_dval THEN timeout_count
                                                            ELSE timeout_count + 1
                 /\ ~client_busy => current_client' = NONE
<1>0. OutputMultiplexer(bus)
  BY DEF StateMachine, LeaveReset, Grant, StayIdle, ClientStarts,
     WaitTimeout, WaitClient, ClientDone, ClientSilent, ClientSends
<1>m. /\ mux_client' = current_client
      /\ client_busy' \in BOOLEAN /\ client_dval' \in BOOLEAN
      /\ current_client = NONE => ~client_busy' /\ ~client_dval'
  BY <1>0, MuxStep
<1>n. c # NONE /\ NONE \notin Clients
  BY NClientsAssumption DEF Clients, NONE
<1> USE NClientsAssumption, MaxTimeoutAssumption DEF LineInv, States
<1>1. CASE LeaveReset(bus)
  BY <1>0, <1>1, <1>m, <1>n DEF LeaveReset
<1>2. CASE Grant(bus)
  <2>1. PICK d \in Clients : IsFirst(d, Requesting(bus)) /\ current_client' = d
    BY <1>2 DEF Grant
  <2>2. bus[d].req /\ d # NONE
    BY <2>1, <1>n DEF IsFirst, Requesting
  <2>3. /\ next_state = "IDLE" /\ next_state' = "TX_WAIT" /\ timeout_count' = 0
        /\ current_client = NONE
    BY <1>2 DEF Grant
  <2> QED BY <1>0, <1>m, <1>n, <2>1, <2>2, <2>3
<1>3. CASE StayIdle(bus)
  BY <1>0, <1>3, <1>m, <1>n DEF StayIdle, Release
<1>4. CASE ClientStarts(bus)
  BY <1>0, <1>4, <1>m, <1>n DEF ClientStarts
<1>5. CASE WaitTimeout(bus)
  BY <1>0, <1>5, <1>m, <1>n DEF WaitTimeout, Release
<1>6. CASE WaitClient(bus)
  BY <1>0, <1>6, <1>m, <1>n DEF WaitClient
<1>7. CASE ClientDone(bus)
  BY <1>0, <1>7, <1>m, <1>n DEF ClientDone, Release
<1>8. CASE ClientSilent(bus)
  BY <1>0, <1>8, <1>m, <1>n DEF ClientSilent
<1>9. CASE ClientSends(bus)
  BY <1>0, <1>9, <1>m, <1>n DEF ClientSends
<1> QED
  BY <1>1, <1>2, <1>3, <1>4, <1>5, <1>6, <1>7, <1>8, <1>9 DEF StateMachine

\* What the state machine's edge does to the registers the line depends on.
LEMMA MachineMoves ==
  ASSUME RspTypeOK, Shape, NEW ready, RspMachine(ready)
  PROVE  /\ rsp'.state # "HW_RESET"
         /\ rsp'.state = "WAIT_BUFFER" => rsp.state = "IDLE"
         /\ rsp'.state = "READ_BUFFER" => rsp.state = "WAIT_BUFFER"
         /\ rsp'.state = "TX_REQ_WAIT"
              => \/ rsp.state = "READ_BUFFER" /\ rsp'.req
                 \/ rsp.state = "TX_REQ_WAIT" /\ ~ready /\ rsp'.req
                 \/ rsp.state = "IDLE" /\ ~rsp'.req /\ curr_command' \in ReportWords
         /\ rsp'.state = "PROCESS_REPLY"
              => rsp.state = "TX_REQ_WAIT" /\ ready /\ curr_command' = curr_command
         /\ rsp'.word # NoWord
              => /\ rsp.state \in {"PROCESS_REPLY"} \cup ReplyStates
                 /\ curr_command' = curr_command
         /\ curr_command' # curr_command
              => curr_command' \in ReportWords \/ rsp.state = "READ_BUFFER"
         /\ rsp.state = "TX_REQ_WAIT"
              => /\ ~ready => rsp'.state = "TX_REQ_WAIT" /\ rsp'.req
                 /\ ready => rsp'.state = "PROCESS_REPLY"
         /\ rsp.state = "PROCESS_REPLY"
              => rsp'.word # NoWord /\ rsp'.state # "PROCESS_REPLY"
<1> USE CommandFacts DEF RspDefault, ReplyStates
<1>1. CASE LeaveHwReset
  BY <1>1 DEF LeaveHwReset
<1>2. CASE StartCommand
  BY <1>2 DEF StartCommand
<1>3. CASE StartReport
  BY <1>3 DEF StartReport, ReportWords
<1>4. CASE RspIdle
  BY <1>4 DEF RspIdle
<1>5. CASE WaitBuffer
  BY <1>5 DEF WaitBuffer
<1>6. CASE ReadBuffer
  BY <1>6 DEF ReadBuffer
<1>7. CASE TxReqWait(ready)
  BY <1>7 DEF TxReqWait
<1>8. CASE ProcessReply
  <2>1. curr_command \in Commands \cup ReportWords
    BY <1>8 DEF ProcessReply, RspTypeOK, Shape
  <2>2. AfterEcho[curr_command] \in ReplyStates \cup {"IDLE"}
    BY <2>1, CommandsAssumption DEF AfterEcho, ReportWords
  <2>3. curr_command # NoWord
    BY <2>1 DEF Words, ReportWords
  <2> QED BY <1>8, <2>2, <2>3 DEF ProcessReply
<1>9. CASE ReplyData
  BY <1>9 DEF ReplyData
<1>10. CASE ReplyCmdList
  <2>1. /\ rsp.state = "REPLY_CMD_LIST"
        /\ rsp'.state = "REPLY_DONE" \/ rsp'.state = "REPLY_CMD_LIST"
        /\ curr_command' = curr_command
    BY <1>10 DEF ReplyCmdList
  <2> QED BY <2>1
<1>11. CASE ReplyLast
  BY <1>11 DEF ReplyLast
<1> QED
  BY <1>1, <1>2, <1>3, <1>4, <1>5, <1>6, <1>7, <1>8, <1>9, <1>10, <1>11
  DEF RspMachine

\* Reports are told to their latches when their word is sent, and only then.
LEMMA MachineReplies ==
  ASSUME RspTypeOK, Shape, NEW ready, RspMachine(ready)
  PROVE  /\ rsp.state = "PROCESS_REPLY" /\ curr_command = "DON" => rsp'.replied_done
         /\ rsp.state = "PROCESS_REPLY" /\ curr_command = "ERR" => rsp'.replied_error
         /\ rsp'.state = "TX_REQ_WAIT" /\ rsp.state = "IDLE"
              => /\ curr_command' = "DON" => DonePending
                 /\ curr_command' = "ERR" => ErrorPending
<1>1. CASE StartReport
  BY <1>1 DEF StartReport, RspDefault
<1>2. CASE ProcessReply
  BY <1>2 DEF ProcessReply, RspDefault
<1>3. CASE rsp.state = "IDLE" /\ ~StartReport
  <2>1. StartCommand \/ RspIdle
    BY <1>3 DEF RspMachine, LeaveHwReset, WaitBuffer, ReadBuffer, TxReqWait,
       ProcessReply, ReplyData, ReplyCmdList, ReplyLast
  <2> QED BY <1>3, <2>1 DEF StartCommand, RspIdle, RspDefault
<1>4. CASE rsp.state = "PROCESS_REPLY" /\ ~ProcessReply
  BY <1>4 DEF RspMachine, LeaveHwReset, WaitBuffer, ReadBuffer, TxReqWait,
     StartCommand, StartReport, RspIdle, ReplyData, ReplyCmdList, ReplyLast
<1> QED BY <1>1, <1>2, <1>3, <1>4

-----------------------------------------------------------------------------
(* The budget of silent clocks *)

\* Done and error reports: a latch is set by an input that the burst counts,
\* and cleared when its report is sent.
LEMMA LatchStep ==
  ASSUME EchoInv, Burst, NEW ack \in Acks, NEW done \in BOOLEAN,
         NEW error \in BOOLEAN, RspClock(ack, done, error)
  PROVE  /\ DonePending' => ~(rsp.state = "PROCESS_REPLY" /\ curr_command = "DON")
         /\ DonePending' => DonePending \/ done
         /\ ErrorPending' => ~(rsp.state = "PROCESS_REPLY" /\ curr_command = "ERR")
         /\ ErrorPending' => ErrorPending \/ (error /\ ~error_level)
         /\ rsp.state = "PROCESS_REPLY" =>
              /\ curr_command = "DON" => DonePending
              /\ curr_command = "ERR" => ErrorPending
         /\ error_level' => command_error_reg' \/ error_sent'
         /\ rsp'.state \in {"TX_REQ_WAIT", "PROCESS_REPLY"} =>
              /\ curr_command' = "DON" => command_done_reg'
              /\ curr_command' = "ERR" => command_error_reg'
<1>1. RspTypeOK /\ Shape /\ RspMachine(udp_ready(COMMAND_RESP))
  BY DEF EchoInv, RspClock
<1>2. /\ command_done_reg' = (done \/ (command_done_reg /\ ~rsp.replied_done))
      /\ command_error_reg' =
           (~rsp.replied_error /\ (command_error_reg \/ (error /\ ~error_sent)))
      /\ error_sent' = (rsp.replied_error \/ (error_sent /\ error))
      /\ error_level' = error
  BY DEF RspClock, OutputRegister, DoneLatch, ErrorLatch, History
<1>3. error_level => command_error_reg \/ error_sent
  BY DEF Burst
<1>4. /\ DonePending' => DonePending \/ done
      /\ ErrorPending' => ErrorPending \/ (error /\ ~error_level)
      /\ error_level' => command_error_reg' \/ error_sent'
  BY <1>2, <1>3 DEF DonePending, ErrorPending
<1>5. /\ DonePending' => ~(rsp.state = "PROCESS_REPLY" /\ curr_command = "DON")
      /\ ErrorPending' => ~(rsp.state = "PROCESS_REPLY" /\ curr_command = "ERR")
  BY <1>1, MachineReplies DEF DonePending, ErrorPending
<1>6. rsp.state \in {"TX_REQ_WAIT", "PROCESS_REPLY"} =>
         /\ curr_command = "DON" => DonePending
         /\ curr_command = "ERR" => ErrorPending
  BY <1>1 DEF Burst, Shape, DonePending, ErrorPending
<1>7. ASSUME rsp'.state \in {"TX_REQ_WAIT", "PROCESS_REPLY"}
      PROVE  /\ curr_command' = "DON" => command_done_reg'
             /\ curr_command' = "ERR" => command_error_reg'
  <2>1. /\ DonePending => command_done_reg'
        /\ ErrorPending => command_error_reg'
    BY <1>2 DEF DonePending, ErrorPending
  <2>2. CASE rsp.state = "READ_BUFFER"
    <3>1. curr_command' \in Commands
      BY <1>1, <2>2 DEF RspTypeOK, Shape, RspMachine, LeaveHwReset, StartCommand,
         StartReport, RspIdle, WaitBuffer, ReadBuffer, TxReqWait, ProcessReply,
         ReplyData, ReplyCmdList, ReplyLast
    <3> QED BY <3>1, CommandFacts
  <2>3. CASE rsp.state = "TX_REQ_WAIT"
    <3>1. curr_command' = curr_command
      BY <1>1, <2>3 DEF RspTypeOK, Shape, RspMachine, LeaveHwReset, StartCommand,
         StartReport, RspIdle, WaitBuffer, ReadBuffer, TxReqWait, ProcessReply,
         ReplyData, ReplyCmdList, ReplyLast
    <3> QED BY <1>6, <2>1, <2>3, <3>1
  <2>4. CASE rsp.state = "IDLE" /\ rsp'.state = "TX_REQ_WAIT"
    BY <1>1, <2>1, <2>4, MachineReplies
  <2> QED BY <1>1, <1>7, <2>2, <2>3, <2>4, MachineMoves
<1> QED BY <1>4, <1>5, <1>6, <1>7

\* An answer is owed for every input of the burst at most once, so what the
\* finished answers may have used grows by one answer when one is begun.
LEMMA BurstStep ==
  ASSUME EchoInv, Burst, NEW ack \in Acks, NEW done \in BOOLEAN,
         NEW error \in BOOLEAN, RspClock(ack, done, error)
  PROVE  /\ Pending \in Nat /\ Pending' \in Nat /\ burst \in Nat /\ burst' \in Nat
         /\ Pending' <= burst'
         /\ rsp.state = "PROCESS_REPLY" => Pending >= 1
         /\ rsp.busy => burst' - Pending' >= burst - Pending
         /\ rsp.busy /\ rsp.state = "PROCESS_REPLY"
              => burst' - Pending' >= (burst - Pending) + 1
<1> DEFINE a == Count(ack # NoCommand)
           d == Count(done)
           e == Count(error /\ ~error_level)
           echo == Count(rsp.state = "PROCESS_REPLY" /\ curr_command \in Commands)
           don  == Count(rsp.state = "PROCESS_REPLY" /\ curr_command = "DON")
           err  == Count(rsp.state = "PROCESS_REPLY" /\ curr_command = "ERR")
           base == IF rsp.busy \/ owed # <<>> \/ command_done_reg \/ command_error_reg
                     THEN burst ELSE 0
           dp == Count(DonePending)
           ep == Count(ErrorPending)
           dp2 == Count(DonePending')
           ep2 == Count(ErrorPending')
<1>1. /\ RspTypeOK /\ Shape /\ Pipeline /\ EchoInv' /\ Pending <= burst
      /\ burst \in Nat
  BY EchoTick, MaxBurstAssumption DEF EchoInv, Burst, RspTypeOK
<1>2. /\ a \in {0, 1} /\ d \in {0, 1} /\ e \in {0, 1}
      /\ echo \in {0, 1} /\ don \in {0, 1} /\ err \in {0, 1}
      /\ dp \in {0, 1} /\ ep \in {0, 1} /\ dp2 \in {0, 1} /\ ep2 \in {0, 1}
  BY DEF Count
<1>3. echo + don + err = IF rsp.state = "PROCESS_REPLY" THEN 1 ELSE 0
  <2>1. rsp.state = "PROCESS_REPLY" => curr_command \in Commands \cup {"DON", "ERR"}
    BY <1>1 DEF RspTypeOK, Shape, ReportWords
  <2> QED BY <2>1, CommandFacts DEF Count
<1>4. Len(owed) \in Nat /\ Len(owed') \in Nat /\ Len(owed') <= Len(owed) + a - echo
        /\ echo <= Len(owed)
  <2> DEFINE kept == IF Overflow THEN SubSeq(owed, 1, Len(owed) - 1) ELSE owed
             wr   == IF Overflow THEN NoCommand ELSE cmdbuff_wr
  <2>1. /\ kept \in Seq(Commands) /\ cmdbuff \in Seq(Commands)
        /\ Len(kept) \in Nat /\ Len(owed) \in Nat /\ Len(kept) <= Len(owed)
        /\ Chain(kept, Offset, cmdbuff, wr)
    BY <1>1, KeptFacts DEF RspTypeOK
  <2>2. ack \in Commands \cup {NoCommand}
    BY DEF Acks
  <2>3. owed' = LET o == IF rsp.state = "PROCESS_REPLY" /\ curr_command \in Commands
                           THEN Tail(kept) ELSE kept
                IN  IF ack = NoCommand THEN o ELSE Append(o, ack)
    BY DEF RspClock, History
  <2> HIDE DEF kept, wr
  <2>4. CASE rsp.state = "PROCESS_REPLY" /\ curr_command \in Commands
    <3>1. Chain(kept, 1, cmdbuff, wr)
      BY <2>1, <2>4 DEF Offset, Answering
    <3>2. kept # <<>> /\ Tail(kept) \in Seq(Commands)
      BY <2>1, <3>1, ChainPop
    <3>3. Len(Tail(kept)) = Len(kept) - 1 /\ Len(kept) >= 1
      BY <2>1, <3>2, SeqFacts
    <3>4. ack # NoCommand => Len(Append(Tail(kept), ack)) = Len(Tail(kept)) + 1
      BY <2>2, <3>2, SeqFacts
    <3> QED BY <2>1, <2>3, <2>4, <3>3, <3>4 DEF Count
  <2>5. CASE ~(rsp.state = "PROCESS_REPLY" /\ curr_command \in Commands)
    <3>1. ack # NoCommand => Len(Append(kept, ack)) = Len(kept) + 1
      BY <2>1, <2>2, SeqFacts
    <3>2. echo = 0 /\ a = IF ack = NoCommand THEN 0 ELSE 1
      BY <2>5 DEF Count
    <3>3. owed' = IF ack = NoCommand THEN kept ELSE Append(kept, ack)
      BY <2>3, <2>5
    <3>4. Len(owed') = Len(kept) + a
      BY <2>1, <3>1, <3>2, <3>3
    <3> HIDE DEF a, echo
    <3> QED BY <1>2, <2>1, <3>2, <3>4
  <2> QED BY <2>4, <2>5
<1>5. dp2 <= dp + d - don /\ don <= dp
  <2>1. /\ DonePending' => ~(rsp.state = "PROCESS_REPLY" /\ curr_command = "DON")
        /\ DonePending' => DonePending \/ done
        /\ rsp.state = "PROCESS_REPLY" /\ curr_command = "DON" => DonePending
    BY LatchStep
  <2> HIDE DEF DonePending
  <2> QED BY <2>1 DEF Count
<1>6. ep2 <= ep + e - err /\ err <= ep
  <2>1. /\ ErrorPending' => ~(rsp.state = "PROCESS_REPLY" /\ curr_command = "ERR")
        /\ ErrorPending' => ErrorPending \/ (error /\ ~error_level)
        /\ rsp.state = "PROCESS_REPLY" /\ curr_command = "ERR" => ErrorPending
    BY LatchStep
  <2> QED BY <2>1 DEF Count
<1>7. Pending = Len(owed) + dp + ep /\ Pending' = Len(owed') + dp2 + ep2
  BY DEF Pending, Count
<1>8. burst' = base + a + d + e
  BY DEF RspClock, History
<1>9. base \in Nat /\ Pending <= base /\ (rsp.busy => base = burst)
  <2>1. CASE rsp.busy \/ owed # <<>> \/ command_done_reg \/ command_error_reg
    BY <1>1, <2>1
  <2>2. CASE ~(rsp.busy \/ owed # <<>> \/ command_done_reg \/ command_error_reg)
    <3>1. Len(owed) = 0 /\ dp = 0 /\ ep = 0
      BY <2>2 DEF DonePending, ErrorPending, Count
    <3> QED BY <1>7, <2>2, <3>1
  <2> QED BY <2>1, <2>2
<1> HIDE DEF a, d, e, echo, don, err, base, dp, ep, dp2, ep2
<1> QED BY <1>1, <1>2, <1>3, <1>4, <1>5, <1>6, <1>7, <1>8, <1>9

\* A reset forgets what was owed and sets no latch.
LEMMA BurstReset == EchoInv /\ Burst /\ RspReset => Burst'
<1> SUFFICES ASSUME EchoInv, Burst, RspReset PROVE Burst'
  OBVIOUS
<1>1. RspTypeOK
  BY DEF EchoInv
<1>0. /\ rsp'.state = "HW_RESET" /\ ~rsp'.replied_done
      /\ rsp'.replied_error <=> rsp.replied_error
  BY <1>1 DEF RspTypeOK, RspReset
<1>2. /\ Len(owed') = 0 /\ error_level' = FALSE
      /\ DonePending' => DonePending
      /\ ErrorPending' => ErrorPending
      /\ burst' = burst /\ lost' = lost
  <2>1. owed' = <<>> /\ error_level' = FALSE /\ burst' = burst /\ lost' = lost
    BY DEF RspReset
  <2>2. /\ command_done_reg' = (FALSE \/ (command_done_reg /\ ~rsp.replied_done))
        /\ command_error_reg' =
             (~rsp.replied_error /\ (command_error_reg \/ (FALSE /\ ~error_sent)))
    BY DEF RspReset, OutputRegister, DoneLatch, ErrorLatch
  <2> QED BY <1>0, <2>1, <2>2 DEF DonePending, ErrorPending
<1>3. Pending' <= burst'
  <2>1. Len(owed) \in Nat /\ burst \in Nat
    BY <1>1, SeqFacts, MaxBurstAssumption DEF RspTypeOK
  <2>2. /\ Count(DonePending)' \in {0, 1} /\ Count(DonePending) \in {0, 1}
        /\ Count(ErrorPending)' \in {0, 1} /\ Count(ErrorPending) \in {0, 1}
    BY DEF Count
  <2>3. /\ Count(DonePending)' <= Count(DonePending)
        /\ Count(ErrorPending)' <= Count(ErrorPending)
    BY <1>2 DEF Count
  <2>4. Len(owed) + Count(DonePending) + Count(ErrorPending) <= burst
    BY <1>1 DEF Burst, Pending
  <2> QED BY <1>2, <2>1, <2>2, <2>3, <2>4 DEF Pending
<1> QED BY <1>0, <1>2, <1>3 DEF Burst

\* The inputs of a burst cover the answers owed at power-up and after every
\* step, whatever the line does.
LEMMA BurstInit == RspInit => Burst
<1> SUFFICES ASSUME RspInit PROVE Burst
  OBVIOUS
<1>1. ~DonePending /\ ~ErrorPending /\ Len(owed) = 0 /\ burst = 0 /\ ~error_level
  BY DEF RspInit, DonePending, ErrorPending
<1>2. rsp.state = "IDLE"
  BY DEF RspInit, RspDefault
<1> QED BY <1>1, <1>2 DEF Burst, Pending, Count

LEMMA BurstKept == EchoInv /\ Burst /\ [RspNext]_vars => Burst'
<1> SUFFICES ASSUME EchoInv, Burst, [RspNext]_vars PROVE Burst'
  OBVIOUS
<1>1. CASE RspTick
  BY <1>1, LatchStep, BurstStep DEF RspTick, Burst
<1>2. CASE RspReset
  BY <1>2, BurstReset
<1>3. CASE UNCHANGED vars
  BY <1>3 DEF vars, rspVars, Burst, Pending, DonePending, ErrorPending
<1> QED BY <1>1, <1>2, <1>3 DEF RspNext

(***************************************************************************)
(* However deep the command FIFO is: as long as no more than its depth of  *)
(* commands, DONs and ERRs come in before the generator is idle again, it  *)
(* never receives a command while it is full, so every acknowledged        *)
(* command is answered, although nobody looks at the full flag.            *)
(***************************************************************************)
THEOREM CommandsLostOnlyInLongBurst == RspSpec => []LostOnlyInLongBurst
<1>1. EchoInv /\ Burst => LostOnlyInLongBurst
  <2> SUFFICES ASSUME EchoInv, Burst, Overflow PROVE burst > CmdFifoDepth
    BY DEF LostOnlyInLongBurst
  <2>1. /\ Len(owed) = Offset + Len(cmdbuff) + 1 /\ Len(owed) \in Nat
        /\ Len(cmdbuff) \in Nat /\ Len(cmdbuff) >= CmdFifoDepth
        /\ Offset \in {0, 1} /\ burst \in Nat
    BY KeptFacts, SeqFacts, MaxBurstAssumption
    DEF EchoInv, RspTypeOK, Overflow, Offset
  <2>2. Count(DonePending) \in {0, 1} /\ Count(ErrorPending) \in {0, 1}
    BY DEF Count
  <2>3. Len(owed) + Count(DonePending) + Count(ErrorPending) <= burst
    BY DEF Burst, Pending
  <2> QED BY <2>1, <2>2, <2>3, CmdFifoDepthAssumption
<1>2. EchoInv /\ Burst /\ [RspNext]_vars => EchoInv' /\ Burst'
  BY EchoStep, BurstKept
<1>3. ArbInit /\ RspInit => EchoInv /\ Burst
  BY EchoInit, BurstInit
<1> QED BY <1>1, <1>2, <1>3, PTL DEF RspSpec

-----------------------------------------------------------------------------
(* Delivery *)

\* The timeout outlasts a burst: an answer uses four silent clocks.
BurstFits == 4 * MaxBurst <= MAX_TIMEOUT

\* One clock edge of both, as the proofs below use it.
Edge(bus, ack, done, error) ==
  /\ bus \in BusesWith(COMMAND_RESP, RspBus)
  /\ ack \in Acks /\ done \in BOOLEAN /\ error \in BOOLEAN
  /\ StateMachine(bus)
  /\ RspClock(ack, done, error)

\* A grant whose busy level is seen is kept: it has not used up its timeout.
LEMMA GrantKept ==
  ASSUME BurstFits, RspInv, NEW bus, NEW ack, NEW done, NEW error,
         Edge(bus, ack, done, error), current_client = COMMAND_RESP, client_busy
  PROVE  /\ current_client' = COMMAND_RESP /\ next_state' = "TX_BUSY"
         /\ next_state = "TX_BUSY" => timeout_count < MAX_TIMEOUT
<1>1. /\ EchoInv /\ LineInv /\ Burst /\ Budget /\ RspTypeOK
      /\ bus \in Buses /\ COMMAND_RESP \in Clients /\ COMMAND_RESP # NONE
  BY BusFacts DEF RspInv, EchoInv, Edge
<1>2. next_state \in {"TX_WAIT", "TX_BUSY"}
  BY <1>1 DEF LineInv
<1>3. ASSUME next_state = "TX_BUSY" PROVE timeout_count < MAX_TIMEOUT
  <2>1. timeout_count <= 4 * (burst - Pending) + Phase
    BY <1>1, <1>3 DEF Budget
  <2>2. /\ Pending \in Nat /\ burst \in Nat
        /\ rsp.state = "PROCESS_REPLY" => Pending >= 1
    BY <1>1, BurstStep DEF Edge
  <2>3. burst <= MaxBurst /\ MaxBurst \in Nat /\ MAX_TIMEOUT \in Nat
          /\ timeout_count \in Nat
    BY <1>1, MaxBurstAssumption, MaxTimeoutAssumption DEF RspTypeOK, LineInv
  <2>4. Phase \in {0, -1, -2, -3} /\ (rsp.state # "PROCESS_REPLY" => Phase <= -1)
    BY DEF Phase
  <2> QED BY <2>1, <2>2, <2>3, <2>4 DEF BurstFits
<1> QED BY <1>1, <1>2, <1>3, GrantStep DEF Edge

\* Who owns the line, after an edge.
LEMMA LineStep ==
  ASSUME BurstFits, RspInv, NEW bus, NEW ack, NEW done, NEW error,
         Edge(bus, ack, done, error)
  PROVE  LineInv' /\ Line'
<1> DEFINE c == COMMAND_RESP
<1>1. /\ EchoInv /\ LineInv /\ Line /\ Budget /\ RspTypeOK /\ Shape
      /\ bus \in Buses /\ c \in Clients /\ c # NONE /\ bus[c] = RspBus
      /\ OutputMultiplexer(bus)
  BY BusFacts, GrantStep DEF RspInv, EchoInv, Edge
<1>2. LineInv'
  BY <1>1, GrantStep DEF Edge
<1>3. /\ mux_client' = current_client
      /\ current_client = c => /\ client_busy' <=> rsp.busy
                               /\ client_dval' <=> data_out # NoWord
  <2>1. (bus[c].busy <=> rsp.busy) /\ (bus[c].valid <=> data_out # NoWord)
    BY <1>1, BusFields
  <2>2. /\ mux_client' = current_client
        /\ current_client = c => /\ client_busy' <=> bus[c].busy
                                 /\ client_dval' <=> bus[c].valid
    BY <1>1, MuxStep
  <2> QED BY <2>1, <2>2
<1>4. /\ RspMachine(mux_client = c) /\ data_out' = rsp.word
  BY DEF Edge, RspClock, OutputRegister, udp_ready
<1>5. current_client = c /\ client_busy => current_client' = c /\ next_state' = "TX_BUSY"
  BY GrantKept
<1>6. current_client' = c /\ current_client # c
        => /\ next_state = "IDLE" /\ rsp.req /\ rsp.state = "TX_REQ_WAIT"
           /\ mux_client # c
  <2>1. current_client' = c /\ current_client # c => next_state = "IDLE" /\ rsp.req
    BY <1>1, GrantStep DEF Edge, RspBus
  <2> QED BY <1>1, <2>1 DEF Shape, Line
<1>7. current_client = c /\ current_client' = c /\ ~client_busy
        => next_state = "TX_WAIT" /\ mux_client # c /\ rsp.state = "TX_REQ_WAIT"
  <2>1. current_client = c => next_state \in {"TX_WAIT", "TX_BUSY"}
    BY <1>1 DEF LineInv
  <2>2. current_client = c /\ current_client' = c /\ ~client_busy
           => next_state = "TX_WAIT"
    BY <1>1, <2>1, GrantStep DEF Edge
  <2> QED BY <1>1, <2>2 DEF Line
<1>8. current_client = c /\ mux_client # c
        => current_client' = c /\ rsp.state = "TX_REQ_WAIT"
  <2> SUFFICES ASSUME current_client = c, mux_client # c
               PROVE  current_client' = c /\ rsp.state = "TX_REQ_WAIT"
    OBVIOUS
  <2>1. mux_client = NONE /\ timeout_count = 0 /\ ~client_busy
          /\ next_state = "TX_WAIT"
    BY <1>1 DEF LineInv
  <2>2. timeout_count < MAX_TIMEOUT
    BY <2>1, MaxTimeoutAssumption
  <2>3. current_client' = c
    BY <1>1, <2>1, <2>2, GrantStep DEF Edge
  <2> QED BY <1>1, <2>3 DEF Line
<1> HIDE DEF c
<1>m. /\ rsp'.state # "HW_RESET"
      /\ rsp'.state = "WAIT_BUFFER" => rsp.state = "IDLE"
      /\ rsp'.state = "READ_BUFFER" => rsp.state = "WAIT_BUFFER"
      /\ rsp'.state = "TX_REQ_WAIT"
           => \/ rsp.state = "READ_BUFFER" /\ rsp'.req
              \/ rsp.state = "TX_REQ_WAIT" /\ mux_client # c /\ rsp'.req
              \/ rsp.state = "IDLE" /\ ~rsp'.req /\ curr_command' \in ReportWords
      /\ rsp'.state = "PROCESS_REPLY"
           => rsp.state = "TX_REQ_WAIT" /\ mux_client = c /\ curr_command' = curr_command
      /\ rsp'.word # NoWord
           => /\ rsp.state \in {"PROCESS_REPLY"} \cup ReplyStates
              /\ curr_command' = curr_command
      /\ curr_command' # curr_command
           => curr_command' \in ReportWords \/ rsp.state = "READ_BUFFER"
      /\ rsp.state = "TX_REQ_WAIT" /\ mux_client # c
           => rsp'.state = "TX_REQ_WAIT" /\ rsp'.req
  BY <1>1, <1>4, MachineMoves
<1>9. current_client' = c /\ (mux_client' # c \/ next_state' = "TX_WAIT")
        => rsp'.state = "TX_REQ_WAIT" /\ rsp'.req
  <2>1. CASE current_client # c
    BY <1>6, <1>m, <2>1
  <2>2. CASE current_client = c
    BY <1>3, <1>5, <1>7, <1>m, <2>2
  <2> QED BY <2>1, <2>2
<1>10. current_client' = c /\ rsp'.state = "WAIT_BUFFER" /\ client_busy'
         => data_out' # NoWord
  BY <1>1, <1>3, <1>4, <1>6, <1>m DEF Shape
<1>11. current_client' = c /\ rsp'.state = "READ_BUFFER"
         => client_busy' /\ client_dval'
  <2> SUFFICES ASSUME current_client' = c, rsp'.state = "READ_BUFFER"
               PROVE  client_busy' /\ client_dval'
    OBVIOUS
  <2>1. rsp.state = "WAIT_BUFFER" /\ current_client = c
    BY <1>6, <1>m
  <2>2. client_busy
    BY <1>7, <2>1
  <2>3. data_out # NoWord /\ rsp.busy
    BY <1>1, <2>1, <2>2 DEF Line, Shape, c
  <2> QED BY <1>3, <2>1, <2>3
<1>12. rsp'.state = "TX_REQ_WAIT" /\ rsp'.req /\ mux_client' = c
         => current_client' = c /\ client_busy'
  <2> SUFFICES ASSUME rsp'.state = "TX_REQ_WAIT", rsp'.req, mux_client' = c
               PROVE  current_client' = c /\ client_busy'
    OBVIOUS
  <2>1. current_client = c
    BY <1>3
  <2>2. CASE rsp.state = "READ_BUFFER"
    <3>1. client_busy /\ rsp.busy
      BY <1>1, <2>1, <2>2 DEF Line, Shape, c
    <3> QED BY <1>3, <1>5, <2>1, <3>1
  <2>3. CASE rsp.state = "TX_REQ_WAIT" /\ mux_client # c
    <3>1. rsp.busy
      BY <1>1, <2>3 DEF Shape
    <3> QED BY <1>3, <1>8, <2>1, <2>3, <3>1
  <2> QED BY <1>m, <2>2, <2>3
<1>13. rsp'.state = "TX_REQ_WAIT" /\ curr_command' \notin ReportWords => rsp'.req
  BY <1>m
<1>14. ASSUME curr_command' \notin ReportWords,
              rsp'.state = "PROCESS_REPLY" \/ rsp'.word # NoWord
       PROVE  current_client' = c /\ client_busy'
  <2>1. curr_command' = curr_command /\ rsp.state # "HW_RESET" /\ rsp.busy
    BY <1>1, <1>m, <1>14 DEF Shape, ReplyStates
  <2>2. CASE rsp'.state = "PROCESS_REPLY"
    <3>1. current_client = c /\ client_busy
      BY <1>1, <1>m, <1>14, <2>1, <2>2 DEF Line, c
    <3> QED BY <1>3, <1>5, <2>1, <3>1
  <2>3. CASE rsp'.word # NoWord
    <3>1. rsp.state = "PROCESS_REPLY" \/ rsp.word # NoWord
      BY <1>1, <1>m, <2>3 DEF Shape
    <3>2. current_client = c /\ client_busy
      BY <1>1, <1>14, <2>1, <3>1 DEF Line, c
    <3> QED BY <1>3, <1>5, <2>1, <3>2
  <2> QED BY <1>14, <2>2, <2>3
<1>15. ASSUME data_out' \notin ReportWords, data_out' # NoWord
       PROVE  current_client' = c
  <2>1. rsp.word # NoWord
    BY <1>4, <1>15
  <2>2. rsp.state # "HW_RESET" /\ rsp.state # "READ_BUFFER"
    BY <1>1, <2>1 DEF Shape
  <2>3. curr_command \notin ReportWords
    BY <1>1, <1>4, <1>15, <2>1, <2>2 DEF Shape
  <2>4. current_client = c /\ client_busy
    BY <1>1, <2>1, <2>2, <2>3 DEF Line, c
  <2> QED BY <1>5, <2>4
<1>16. Line'
  BY <1>9, <1>10, <1>11, <1>12, <1>13, <1>14, <1>15, <1>m DEF Line, c
<1> QED BY <1>2, <1>16

\* What the grant's silent clocks may add up to, after an edge.
LEMMA BudgetStep ==
  ASSUME BurstFits, RspInv, NEW bus, NEW ack, NEW done, NEW error,
         Edge(bus, ack, done, error)
  PROVE  Budget'
<1> DEFINE c == COMMAND_RESP
<1>1. /\ EchoInv /\ LineInv /\ Line /\ Burst /\ Budget /\ RspTypeOK /\ Shape
      /\ bus \in Buses /\ c \in Clients /\ c # NONE /\ bus[c] = RspBus
      /\ OutputMultiplexer(bus) /\ LineInv'
      /\ ack \in Acks /\ done \in BOOLEAN /\ error \in BOOLEAN
      /\ RspClock(ack, done, error) /\ StateMachine(bus)
  BY BusFacts, GrantStep DEF RspInv, EchoInv, Edge
<1>2. /\ Pending \in Nat /\ Pending' \in Nat /\ burst \in Nat /\ burst' \in Nat
      /\ Pending' <= burst' /\ Pending <= burst
      /\ rsp.busy => burst' - Pending' >= burst - Pending
      /\ rsp.busy /\ rsp.state = "PROCESS_REPLY"
           => burst' - Pending' >= (burst - Pending) + 1
  BY <1>1, BurstStep DEF Burst
<1> DEFINE g == burst - Pending
           h == burst' - Pending'
<1>g. /\ g \in Nat /\ h \in Nat /\ (rsp.busy => h >= g)
      /\ (rsp.busy /\ rsp.state = "PROCESS_REPLY" => h >= g + 1)
  <2>0. \A m, n \in Nat : n <= m => m - n \in Nat
    OBVIOUS
  <2>1. g \in Nat /\ h \in Nat
    BY <1>2, <2>0
  <2>2. rsp.busy => h >= g
    BY <1>2
  <2>3. rsp.busy /\ rsp.state = "PROCESS_REPLY" => h >= g + 1
    BY <1>2
  <2> QED BY <2>1, <2>2, <2>3
<1> HIDE DEF g, h
<1>3. ASSUME current_client' = c, next_state' = "TX_BUSY", client_busy'
      PROVE  timeout_count' <= 4 * h + Phase'
  <2>1. current_client = c /\ client_busy
    <3>1. current_client = c
      BY <1>1, <1>3, GrantStep
    <3>2. next_state \in {"TX_WAIT", "TX_BUSY"}
      BY <1>1, <3>1 DEF LineInv
    <3> QED BY <1>1, <1>3, <3>1, <3>2, GrantStep
  <2>2. rsp.busy /\ (client_dval' <=> data_out # NoWord)
    <3>1. (bus[c].busy <=> rsp.busy) /\ (bus[c].valid <=> data_out # NoWord)
      BY <1>1, BusFields
    <3>2. (client_busy' <=> bus[c].busy) /\ (client_dval' <=> bus[c].valid)
      BY <1>1, <2>1, MuxStep
    <3> QED BY <1>3, <3>1, <3>2
  <2>3. RspMachine(mux_client = c) /\ data_out' = rsp.word
    BY <1>1 DEF RspClock, OutputRegister, udp_ready
  <2>m. /\ rsp'.state = "PROCESS_REPLY" => rsp.state = "TX_REQ_WAIT"
        /\ rsp'.word # NoWord => rsp.state \in {"PROCESS_REPLY"} \cup ReplyStates
        /\ rsp.state = "TX_REQ_WAIT" /\ mux_client = c => rsp'.state = "PROCESS_REPLY"
        /\ rsp.state = "PROCESS_REPLY"
             => rsp'.word # NoWord /\ rsp'.state # "PROCESS_REPLY"
    BY <1>1, <2>3, MachineMoves
  <2>4. timeout_count \in Nat /\ timeout_count' \in Nat
    BY <1>1, MaxTimeoutAssumption DEF LineInv
  <2>5. CASE next_state = "TX_WAIT"
    <3>1. timeout_count' = 0
      BY <1>1, <2>1, <2>5, GrantStep
    <3>2. rsp.state = "TX_REQ_WAIT" /\ mux_client = c
      BY <1>1, <2>1, <2>5 DEF Line, LineInv
    <3>3. Phase' = 0
      BY <2>m, <3>2 DEF Phase
    <3> QED BY <1>g, <3>1, <3>3
  <2>6. CASE next_state = "TX_BUSY"
    <3>1. /\ timeout_count < MAX_TIMEOUT
          /\ timeout_count <= 4 * g + Phase
      BY <1>1, <2>1, <2>6, GrantKept DEF Budget, g
    <3>2. timeout_count' = IF client_dval THEN timeout_count ELSE timeout_count + 1
      BY <1>1, <2>1, <2>6, <3>1, GrantStep
    <3>3. /\ rsp.state \in ReplyStates => rsp.word # NoWord
          /\ rsp.state = "PROCESS_REPLY" => rsp.word = NoWord /\ data_out = NoWord
          /\ rsp.state = "TX_REQ_WAIT" => rsp.word = NoWord
      BY <1>1 DEF Shape
    <3>4. CASE rsp.state = "PROCESS_REPLY"
      <4>1. Phase = 0 /\ Phase' = -3
        BY <2>3, <2>m, <3>3, <3>4 DEF Phase
      <4> QED BY <1>g, <2>2, <2>4, <3>1, <3>2, <3>4, <4>1
    <3>5. CASE /\ rsp.state # "PROCESS_REPLY"
               /\ rsp.word # NoWord /\ data_out = NoWord
      <4>1. Phase = -3 /\ Phase' = -2
        BY <2>2, <2>3, <2>m, <3>3, <3>5 DEF Phase
      <4> QED BY <1>g, <2>2, <2>4, <3>1, <3>2, <3>5, <4>1
    <3>6. CASE /\ rsp.state # "PROCESS_REPLY"
               /\ data_out # NoWord /\ ~client_dval
      <4>1. Phase = -2 /\ (Phase' = 0 \/ Phase' = -1)
        BY <2>2, <2>3, <2>m, <3>3, <3>6 DEF Phase
      <4> QED BY <1>g, <2>2, <2>4, <3>1, <3>2, <3>6, <4>1
    <3>7. CASE /\ rsp.state # "PROCESS_REPLY"
               /\ ~(rsp.word # NoWord /\ data_out = NoWord)
               /\ client_dval
      <4>1. Phase = -1 /\ (Phase' = 0 \/ Phase' = -1)
        BY <2>2, <2>3, <2>m, <3>3, <3>7 DEF Phase
      <4> QED BY <1>g, <2>2, <2>4, <3>1, <3>2, <3>7, <4>1
    <3>8. CASE /\ rsp.state # "PROCESS_REPLY"
               /\ rsp.word = NoWord /\ data_out = NoWord /\ ~client_dval
      <4>1. rsp.state = "TX_REQ_WAIT"
        <5>1. rsp.state # "WAIT_BUFFER" /\ rsp.state # "READ_BUFFER"
          BY <1>1, <2>1, <3>8 DEF Line
        <5>2. rsp.state # "HW_RESET"
          BY <1>1, <2>6 DEF Line
        <5>3. rsp.state # "IDLE"
          BY <1>1, <2>2, <3>8, <5>2 DEF Shape
        <5> QED BY <1>1, <3>3, <3>8, <5>1, <5>2, <5>3 DEF RspTypeOK, RspStates
      <4>2. mux_client = c
        BY <1>1, <2>1, <2>6 DEF LineInv
      <4>3. Phase = -1 /\ Phase' = 0
        BY <2>m, <3>8, <4>1, <4>2 DEF Phase
      <4> QED BY <1>g, <2>2, <2>4, <3>1, <3>2, <3>8, <4>3
    <3> QED BY <3>4, <3>5, <3>6, <3>7, <3>8
  <2> QED BY <1>1, <2>1, <2>5, <2>6 DEF LineInv
<1> QED BY <1>3 DEF Budget, h

\* A reset frees the line and forgets what was owed.
LEMMA LineReset ==
  ASSUME RspInv, RspReset
  PROVE  LineInv' /\ Line' /\ Budget' /\ CommandReplyDelivered'
<1>1. EchoInv /\ LineInv /\ RspTypeOK /\ CommandReplyDelivered
  BY DEF RspInv, EchoInv
<1>2. PICK bus \in BusesWith(COMMAND_RESP, RspBus) : ResetPulse(bus, TRUE)
  BY DEF RspReset
<1>3. /\ next_state' = "HW_RESET" /\ current_client' = NONE
      /\ timeout_count' = timeout_count /\ OutputMultiplexer(bus)
      /\ bus \in Buses /\ COMMAND_RESP # NONE
  BY <1>1, <1>2, BusFacts DEF ResetPulse
<1>4. LineInv'
  <2>1. /\ mux_client' = current_client
        /\ client_busy' \in BOOLEAN /\ client_dval' \in BOOLEAN
        /\ current_client = NONE => ~client_busy' /\ ~client_dval'
    BY <1>1, <1>3, MuxStep
  <2> QED BY <1>1, <1>3, <2>1 DEF LineInv, States
<1>5. /\ rsp'.state = "HW_RESET" /\ rsp'.word = NoWord /\ ~rsp'.replied_done
      /\ rsp'.replied_error <=> rsp.replied_error
  BY <1>1 DEF RspTypeOK, RspReset
<1>6. Line'
  BY <1>3, <1>5 DEF Line, COMMAND_RESP, NONE
<1>7. Budget'
  BY <1>3 DEF Budget
<1>8. CommandReplyDelivered'
  BY <1>1 DEF RspReset, CommandReplyDelivered
<1> QED BY <1>4, <1>6, <1>7, <1>8

\* The power-up state satisfies the invariant.
LEMMA RspInvInit == ArbInit /\ RspInit => RspInv
<1> SUFFICES ASSUME ArbInit, RspInit PROVE RspInv
  OBVIOUS
<1>1. EchoInv
  BY EchoInit
<1>2. client_busy \in BOOLEAN /\ client_dval \in BOOLEAN /\ ~client_busy /\ ~client_dval
  BY Zenon DEF ArbInit
<1>3. LineInv
  BY <1>2, MaxTimeoutAssumption DEF ArbInit, LineInv, States
<1>4. rsp.state = "IDLE" /\ rsp.word = NoWord /\ data_out = NoWord
  BY DEF RspInit, RspDefault
<1>5. Line
  BY <1>4 DEF Line, ArbInit, COMMAND_RESP, NONE
<1>6. Burst
  BY BurstInit
<1>7. Budget
  BY DEF Budget, ArbInit, COMMAND_RESP, NONE
<1>8. CommandReplyDelivered
  BY DEF RspInit, CommandReplyDelivered
<1> QED BY <1>1, <1>3, <1>5, <1>6, <1>7, <1>8 DEF RspInv

\* Every step keeps the invariant.
LEMMA RspInvStep ==
  ASSUME BurstFits
  PROVE  RspInv /\ [RspNext]_vars => RspInv'
<1> SUFFICES ASSUME RspInv, [RspNext]_vars PROVE RspInv'
  OBVIOUS
<1>1. EchoInv' /\ Burst'
  BY EchoStep, BurstKept DEF RspInv
<1>2. CASE RspTick
  <2>1. PICK bus, ack, done, error : Edge(bus, ack, done, error)
    BY <1>2 DEF RspTick, Edge
  <2>2. LineInv' /\ Line' /\ Budget'
    BY <2>1, LineStep, BudgetStep
  <2>3. CommandReplyDelivered'
    <3>1. /\ data_out # NoWord /\ rsp.state # "HW_RESET" /\ current_client # COMMAND_RESP
               => data_out \in {"DON", "ERR"}
          /\ "reply" \notin lost
      BY DEF RspInv, Line, ReportWords, CommandReplyDelivered
    <3>2. lost' = lost \/ (lost' = lost \cup {"report"})
      BY <2>1, <3>1 DEF Edge, RspClock, History
    <3> QED BY <3>1, <3>2 DEF CommandReplyDelivered
  <2> QED BY <1>1, <2>2, <2>3 DEF RspInv
<1>3. CASE RspReset
  BY <1>1, <1>3, LineReset DEF RspInv
<1>4. CASE UNCHANGED vars
  <2> USE <1>4 DEF vars, arbVars, rspVars
  <2>1. LineInv'
    <3>1. client_busy' \in BOOLEAN /\ client_dval' \in BOOLEAN
      BY Zenon DEF RspInv, LineInv
    <3> QED BY <3>1 DEF RspInv, LineInv
  <2>2. Line'
    BY DEF RspInv, Line
  <2>3. Budget'
    BY DEF RspInv, Budget, Pending, Phase, DonePending, ErrorPending
  <2>4. CommandReplyDelivered'
    BY DEF RspInv, CommandReplyDelivered
  <2> QED BY <1>1, <2>1, <2>2, <2>3, <2>4 DEF RspInv
<1> QED BY <1>2, <1>3, <1>4 DEF RspNext

(***************************************************************************)
(* If the timeout is at least four clocks per answer of a burst (1000 in   *)
(* the code, so up to 250 answers before the generator goes idle), every   *)
(* word of the answer to a command is presented while the arbiter has the  *)
(* line granted to the generator, whatever the other clients do.           *)
(***************************************************************************)
THEOREM RepliesDelivered ==
  ASSUME BurstFits
  PROVE  RspSpec => []CommandReplyDelivered
<1>1. RspInv /\ [RspNext]_vars => RspInv'
  BY RspInvStep
<1>2. RspInv => CommandReplyDelivered
  BY DEF RspInv
<1> QED BY <1>1, <1>2, RspInvInit, PTL DEF RspSpec
=============================================================================
