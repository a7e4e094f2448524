----------------------------- MODULE UdpArbiter -----------------------------
(***************************************************************************)
(* The UDP data arbiter (ethernet/udp_data_arbiter.vhd): the blocks of the *)
(* board that send UDP data share one transmit line.  A client raises      *)
(* tx_req, waits for udp_ready, holds tx_busy while it sends words, and    *)
(* drops tx_busy when it is done.                                          *)
(*                                                                         *)
(* One step is one rising clock edge: every register of both processes is  *)
(* loaded at once from the values before the edge.  Clients are numbered   *)
(* in the order in which the IDLE state looks at their requests            *)
(* (1 = command response, 2 = CCD interface, 3 = configuration scanner,    *)
(* 4 = EPCQIO, 5 = monitoring).  Payload bits, port and eop travel with a  *)
(* word and are not told apart: a word on the line is known by the client  *)
(* the multiplexer took it from.                                           *)
(***************************************************************************)
EXTENDS Integers

CONSTANTS
  NClients,     \* number of clients of the arbiter (5 on the board)
  MAX_TIMEOUT   \* clocks a client may stay silent (1000 in the code)

ASSUME NClientsAssumption == NClients \in Nat \ {0}
ASSUME MaxTimeoutAssumption == MAX_TIMEOUT \in Nat \ {0}

Clients == 1 .. NClients
NONE == 0

\* What a client drives on its input bus, as far as the arbiter reads it.
ClientBus == [req : BOOLEAN, busy : BOOLEAN, valid : BOOLEAN]

VARIABLES
  next_state,      \* register of the state machine
  current_client,  \* client that owns the line, or NONE
  timeout_count,   \* process variable of the state machine
  udp_tx_busy,     \* output: the line is in use
  mux_client,      \* client whose bus the multiplexer registers hold
  client_busy,     \* multiplexer register read by the state machine
  client_dval,     \* multiplexer register; also udp_valid_out
  silence          \* history: clocks of this grant without a word

smVars  == <<next_state, current_client, timeout_count, udp_tx_busy>>
muxVars == <<mux_client, client_busy, client_dval>>
arbVars == <<next_state, current_client, timeout_count, udp_tx_busy,
             mux_client, client_busy, client_dval, silence>>

States == {"HW_RESET", "IDLE", "TX_WAIT", "TX_BUSY"}

\* udp_ready_<c>: raised by the multiplexer for the client it selected.
udp_ready(c) == mux_client = c
udp_valid_out == client_dval

ArbInit ==
  /\ next_state = "HW_RESET"
  /\ current_client = NONE
  /\ timeout_count = 0
  /\ udp_tx_busy = FALSE
  /\ mux_client = NONE
  /\ client_busy = FALSE
  /\ client_dval = FALSE
  /\ silence = 0

-----------------------------------------------------------------------------
\* Mutant: with no current client the multiplexer keeps the last one's ready.
OutputMultiplexerHolds(bus) ==
  /\ mux_client' = IF current_client = NONE THEN mux_client ELSE current_client
  /\ client_busy' = (current_client # NONE /\ bus[current_client].busy)
  /\ client_dval' = (current_client # NONE /\ bus[current_client].valid)

\* output_multiplexer: registers the bus of current_client, or zeroes.
OutputMultiplexer(bus) ==
  /\ mux_client' = current_client
  /\ client_busy' = (current_client # NONE /\ bus[current_client].busy)
  /\ client_dval' = (current_client # NONE /\ bus[current_client].valid)

Requesting(bus) == {c \in Clients : bus[c].req}

\* The IF/ELSIF chain of the IDLE state: the lowest number wins.
IsFirst(c, S) == c \in S /\ \A d \in S : c <= d

\* Mutant: the line is released without clearing current_client.
ReleaseKeepsClient == next_state' = "IDLE" /\ UNCHANGED current_client

Release == next_state' = "IDLE" /\ current_client' = NONE

LeaveReset(bus) ==
  /\ next_state = "HW_RESET"
  /\ next_state' = "IDLE"
  /\ udp_tx_busy' = FALSE
  /\ OutputMultiplexer(bus)
  /\ UNCHANGED <<current_client, timeout_count>>

Grant(bus) ==
  /\ next_state = "IDLE"
  /\ \E c \in Clients : IsFirst(c, Requesting(bus)) /\ current_client' = c
  /\ next_state' = "TX_WAIT"
  /\ timeout_count' = 0
  /\ udp_tx_busy' = FALSE
  /\ OutputMultiplexer(bus)

StayIdle(bus) ==
  /\ next_state = "IDLE"
  /\ Requesting(bus) = {}
  /\ Release
  /\ timeout_count' = 0
  /\ udp_tx_busy' = FALSE
  /\ OutputMultiplexer(bus)

\* TX_WAIT: wait for the client to raise tx_busy, up to MAX_TIMEOUT clocks.
ClientStarts(bus) ==
  /\ next_state = "TX_WAIT"
  /\ client_busy
  /\ next_state' = "TX_BUSY"
  /\ timeout_count' = 0
  /\ udp_tx_busy' = TRUE
  /\ OutputMultiplexer(bus)
  /\ UNCHANGED current_client

\* Mutant: the timeout restarts the wait instead of ending the grant.
WaitTimeoutRestarts(bus) ==
  /\ next_state = "TX_WAIT"
  /\ ~client_busy
  /\ timeout_count >= MAX_TIMEOUT
  /\ timeout_count' = 0
  /\ udp_tx_busy' = TRUE
  /\ OutputMultiplexer(bus)
  /\ UNCHANGED <<next_state, current_client>>

WaitTimeout(bus) ==
  /\ next_state = "TX_WAIT"
  /\ ~client_busy
  /\ timeout_count >= MAX_TIMEOUT
  /\ Release
  /\ udp_tx_busy' = TRUE
  /\ OutputMultiplexer(bus)
  /\ UNCHANGED timeout_count

WaitClient(bus) ==
  /\ next_state = "TX_WAIT"
  /\ ~client_busy
  /\ timeout_count < MAX_TIMEOUT
  /\ timeout_count' = timeout_count + 1
  /\ udp_tx_busy' = TRUE
  /\ OutputMultiplexer(bus)
  /\ UNCHANGED <<next_state, current_client>>

\* TX_BUSY: the client sends until it drops tx_busy or uses up the timeout.
\* timeout_count counts every clock without a word and is not reset by one.
ClientDone(bus) ==
  /\ next_state = "TX_BUSY"
  /\ ~client_busy \/ timeout_count >= MAX_TIMEOUT
  /\ Release
  /\ udp_tx_busy' = TRUE
  /\ OutputMultiplexer(bus)
  /\ UNCHANGED timeout_count

ClientSilent(bus) ==
  /\ next_state = "TX_BUSY"
  /\ client_busy /\ timeout_count < MAX_TIMEOUT
  /\ ~client_dval
  /\ timeout_count' = timeout_count + 1
  /\ udp_tx_busy' = TRUE
  /\ OutputMultiplexer(bus)
  /\ UNCHANGED <<next_state, current_client>>

ClientSends(bus) ==
  /\ next_state = "TX_BUSY"
  /\ client_busy /\ timeout_count < MAX_TIMEOUT
  /\ client_dval
  /\ udp_tx_busy' = TRUE
  /\ OutputMultiplexer(bus)
  /\ UNCHANGED <<next_state, current_client, timeout_count>>

\* Asynchronous reset.  With edge, a clock edge falls inside the pulse and
\* the multiplexer, which has no reset, still loads its registers.
ResetPulse(bus, edge) ==
  /\ next_state' = "HW_RESET"
  /\ udp_tx_busy' = FALSE
  /\ current_client' = NONE
  /\ IF edge THEN OutputMultiplexer(bus) ELSE UNCHANGED muxVars
  /\ UNCHANGED timeout_count

StateMachine(bus) ==
  \/ LeaveReset(bus)   \/ Grant(bus)        \/ StayIdle(bus)
  \/ ClientStarts(bus) \/ WaitTimeout(bus)  \/ WaitClient(bus)
  \/ ClientDone(bus)   \/ ClientSilent(bus) \/ ClientSends(bus)

-----------------------------------------------------------------------------
(***************************************************************************)
(* The arbiter against arbitrary clients: at every edge each bus may carry *)
(* any combination of request, busy and valid.                             *)
(***************************************************************************)
Buses == [Clients -> ClientBus]

\* History: the clocks of a grant, from its first in TX_WAIT, without a word;
\* those beyond the bound of SilenceBounded are counted as one.
Granted == next_state \in {"TX_WAIT", "TX_BUSY"}
CountSilence ==
  silence' = IF ~Granted \/ ~Granted' THEN 0
             ELSE IF client_dval \/ silence > 2 * MAX_TIMEOUT + 1 THEN silence
             ELSE silence + 1

Tick == (\E bus \in Buses : StateMachine(bus)) /\ CountSilence
Reset == (\E bus \in Buses, edge \in BOOLEAN : ResetPulse(bus, edge))
           /\ CountSilence

ArbNext == Tick \/ Reset
ArbSpec == ArbInit /\ [][ArbNext]_arbVars
FairArbSpec == ArbSpec /\ WF_arbVars(Tick)

-----------------------------------------------------------------------------
\* Type invariant of the arbiter's registers.
TypeOK ==
  /\ next_state \in States
  /\ current_client \in Clients \cup {NONE}
  /\ timeout_count \in 0 .. MAX_TIMEOUT
  /\ udp_tx_busy \in BOOLEAN
  /\ mux_client \in Clients \cup {NONE}
  /\ client_busy \in BOOLEAN
  /\ client_dval \in BOOLEAN
  /\ silence \in Nat

(***************************************************************************)
(* The state machine decides on client_busy, which the multiplexer         *)
(* registered one clock earlier.  A busy level seen while a grant is open  *)
(* is the granted client's own, never the tail of the previous owner's.    *)
(***************************************************************************)
BusyIsOwners ==
  (next_state \in {"TX_WAIT", "TX_BUSY"} /\ client_busy)
    => mux_client = current_client

(***************************************************************************)
(* The line has an owner exactly while a grant is open; udp_ready may      *)
(* outlive the grant, but then the line is free and no other client has    *)
(* been chosen for at least that clock.                                    *)
(***************************************************************************)
ReadyIsExclusive ==
  \A c \in Clients :
    (udp_ready(c) /\ current_client # c) => current_client = NONE

(***************************************************************************)
(* A client that holds the line but sends nothing loses it: of all the     *)
(* clocks of one grant, at most MAX_TIMEOUT + 1 in TX_WAIT and MAX_TIMEOUT *)
(* in TX_BUSY pass without a word, however it spreads its words.           *)
(***************************************************************************)
SilenceBounded == silence <= 2 * MAX_TIMEOUT + 1

(***************************************************************************)
(* Nobody keeps the line without using it: again and again the line is     *)
(* free or carries a word, whatever the clients do with their buses.       *)
(***************************************************************************)
LineNotHeldSilently == []<>(current_client = NONE \/ client_dval)

(***************************************************************************)
(* The strengthening that makes the three safety properties inductive:     *)
(* a grant is open exactly in the TX states, the multiplexer then holds    *)
(* the owner's bus or (for the first clock) nothing, a busy level comes    *)
(* from somebody, and the silent clocks are among those counted, in        *)
(* TX_BUSY after those of TX_WAIT.                                         *)
(***************************************************************************)
ArbInv ==
  /\ TypeOK
  /\ (next_state \in {"TX_WAIT", "TX_BUSY"}) <=> (current_client # NONE)
  /\ current_client # NONE => mux_client \in {NONE, current_client}
  /\ client_busy \/ client_dval => mux_client # NONE
  /\ next_state = "TX_WAIT" => silence <= timeout_count
  /\ next_state = "TX_BUSY" => silence <= MAX_TIMEOUT + 1 + timeout_count
  /\ ~Granted => silence = 0
=============================================================================
