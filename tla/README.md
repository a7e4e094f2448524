# A TLA+ verification of FPGA-Ethernet

The repository holds the VHDL of the ODILE board's Ethernet interface (CCD data,
configuration and commands over UDP) and a C++ library and tools for the
computer at the other end. This directory holds TLA+ modules that model the
data path of the firmware and the whole of the server side down to the parsing
of its command lines and files, TLC configurations that check them on small
instances, and proofs for the parts whose properties are worth having for every
size. `PROJECT.json` maps definitions to source lines and lists components,
runs, hazards and theorems.

## 1. Inventory

On the board one clock domain carries nearly everything: a step of those models
is one rising clock edge, at which every register of every process is loaded from the values
before the edge. What is hard there is not threads but *pipelines*: a signal
that is registered is seen one clock later, and several processes act on
different ages of the same fact. The rest of the difficulty comes from the
outside: frames that come in at any time, clients that ask for the line at any
time, resets, and FIFOs of limited depth.

### Transmit side

| component | state | operations | talks to | correct when |
|---|---|---|---|---|
| UDP data arbiter (`udp_data_arbiter.vhd`) | owner, state, timeout, registered bus of the owner | grant by priority, wait, pass words, time out, reset | five clients (request, busy, valid / ready), the UDP data block | one owner at a time, decisions are made on the owner's own signals, a silent owner loses the line |
| command response generator (`command_response_generator.vhd`) | command FIFO, reply state, done and error registers | queue a command, echo it, list, report DON or ERR | controller, arbiter | commands echoed in order, once; reports not lost |
| UDP data buffer (`udp_data_buffer.vhd`) | data FIFO, info FIFO, packet under way, stale counter | accept a word, close a packet (port change, length, eop, staleness), hand out words | arbiter, frame generator | every word is in exactly one announced packet, of its port |
| UDP data block (`udp_data_block.vhd`) | the buffer, a frame and a header generator | | transmit multiplexer | words leave under the header of their port and with the right length |
| header generator (`header_generator.vhd`) | header words, checksum steps | start, one word per clock, checksum | frame generator | the checksum belongs to the header and is accepted |
| frame generator (`ethernet_frame_generator.vhd`) | state, delay and word counters, payload stages | start, wait for the header, read ahead, write, end | FIFO, header generator, MAC | whole frames, no FIFO word lost or read ahead, a frame ends |
| input FIFO manager (`input_fifo_manager.vhd`) | five FIFOs, near-full, stale and flush registers, scan | write, flag a FIFO stale, scan, pick, read | CCD data streams (own clocks), frame generator | frames are made of one FIFO, none is empty, small data leaves too |
| data block (`ethernet_data_block.vhd`) | manager, frame and header generator | | transmit multiplexer | as the UDP block |
| transmit multiplexer (`ethernet_block.vhd`) | registered MAC ready, selected block | choose by busy lines | all blocks, MAC | blocks do not overlap |

### Receive side

| component | state | operations | talks to | correct when |
|---|---|---|---|---|
| frame receiver (`ethernet_frame_reciever.vhd`) | word counter, header registers | parse word n, pass payload, pulse at the end of a frame | MAC, ARP and ICMP block, data router | payload is passed whole under its own port; pulses belong to a whole frame |
| ARP block and replier (`arp_block.vhd`, `arp_replier.vhd`) | waiting reply, its addresses, request timer, replier state | take a request, wait for the transmitter, send, ask for the server | receiver, cache, transmitter | the reply names and reaches who asked |
| ARP cache (`arp_cache.vhd`) | address, valid, age | update, go stale, clear on new configuration | receiver, data blocks | the address is the server's, whole |
| ICMP block (`icmp_block.vhd`) | payload FIFO, running sum, waiting reply | collect, sum, answer | receiver, transmitter | the echo is what came in, with its checksum, to its sender |
| data router (`ethernet_data_router.vhd`) | source interface | pass the word of the first interface that has one | receivers, controller | nothing is dropped silently |

### Control side

`odile_controller.vhd` decodes two-word commands and pulses start/stop lines;
`config_register_block.vhd`, `config_block_scanner.vhd`,
`config_read_multiplexer.vhd` and `config_data_manager.vhd` hold, scan, select
and write configuration registers; `ethernet_ccdcontrol_interface.vhd`,
`ethernet_cabac_buffer.vhd`, `ethernet_croc_buffer.vhd` and
`ethernet_monitoring_interface.vhd` are the board's other interfaces;
`epcqio_control.vhd` and `remote_update_control.vhd` rewrite and reboot the
FPGA; `tse_config_controller.vhd` initialises the vendor's MAC;
`reset_controller.vhd`, `uptime_counter.vhd` and `ethernet_led_signaler.vhd`
are counters.

### Server side (`server/`)

| component | state | operations | talks to | correct when |
|---|---|---|---|---|
| flash dialogues (`ODILEServer.cpp`: `writeFirmware`, `writeEPCQ`, `readEPCQ`, `getCompileTime`) | the call under way, its page, the data to compare | send a command, wait for its DON, send a page, read it back, compare | sockets, the board's controller and flash control | a write that reports success is in the flash; nothing else is touched; a call ends |
| receive threads (`launchAsyncThread`, `asyncRecieve`, `closeAsyncThread`, the destructor) | per thread an argument block shared without a lock, the socket, words read | launch, receive, write, poll, stop, join, delete | board, output file, the tools | arguments outlive their thread; destroying the object is enough; the image is complete before its header |
| configuration (`ODILEServer.cpp`, `ConfigBlockList.cpp`, `ConfigRegisterBlock.cpp`) | a table of seven blocks of registers | read and write an INI file, set, send, save to a flash page | INI reader, board registers, flash page loader | the board has what the file and the program said |
| INI reader (`ini.cpp`, `INIReader.cpp`) | section, name being continued, first error, tables | parse a line, look up | configuration | a value belongs to the name it was written for |
| sockets (`udp_client_server.cpp`) | bound ports, buffers | bind, send, receive (blocking or timed), close | kernel | |
| tools (`main/*.cpp`) | their arguments | six mains | TCLAP, the library | the library is asked for what the line says |
| TCLAP (`include/tclap`) | argument list, tokens, required count | offer each token to each argument | tools | a line is accepted exactly if it is well formed, with its values |

### Hard behaviours

- *Ages of a fact*: ready, busy and fill levels are used one or more clocks
  after they were true (arbiter and its clients, the scan of the FIFO manager).
- *Read-ahead*: the frame generator stops reading `IN_DLY` clocks before the
  last word arrives, so the number of stages between `rdreq` and the data is
  part of the contract.
- *Inputs in the middle of something*: frames that come in while an answer to an
  earlier one waits; commands and errors while a reply is sent; a flag that is
  changed while its FIFO holds data.
- *Limits*: FIFOs whose full flag is not looked at, checksums whose fold
  carries, packets of length zero, timeouts.
- *Something must eventually leave*: small packets, waiting replies, the line
  held by a silent client.
- *Answers that come late, twice, to nobody or never*: the server opens a socket
  for every receive, so a DON or a page can come before it listens, or belong to a
  command of a call that was killed.
- *Memory shared between threads*: `stop`, `finished` and `nread` are read and
  written without a lock, and argument blocks are deleted by another thread.
- *State kept between tokens or lines*: the name being continued in an INI file,
  the letters blanked in a group of switches, the count of required arguments.

`PROJECT.json` lists each of these as a hazard at its line, with the properties
that would catch it, or why none does yet.

## 2. Modules

```
UdpArbiter <- CommandResponse            FrameReceiver <-+- ArpBlock
                                                         +- IcmpBlock
                                         HeaderGenerator <- FrameGenerator
                                           FrameGenerator <-+- FrameStream
                                                            +- ArpBlock, IcmpBlock
UdpDataBuffer, FrameGenerator <- UdpDataBlock               +- UdpDataBlock
InputFifoManager, FrameGenerator <- DataBlock               +- DataBlock
IpChecksum                                 FrameGenerator -> FrameLink

UdpSockets <-+- OdileFlash -> EpcqControl        IniFile <- ConfigBlockList <- ServerConfig
             +- AsyncReceive
TclapCmdLine <- CmdLineMeaning <- OdileTools
```

The theorems are in modules of their own, which extend the modules they are about
and each other:

```
CommandResponseProofs (CommandResponse, UdpArbiter)     FrameReceiverProofs <-+- ArpBlockProofs
FrameStreamProofs   <-+- UdpDataBlockProofs (UdpDataBuffer too)                +- IcmpBlockProofs
(IpChecksum too)      +- DataBlockProofs
                      +- ArpBlockProofs                 ServerProofs (OdileFlash, EpcqControl,
                      +- IcmpBlockProofs                              UdpSockets, AsyncReceive)
```

- **UdpArbiter**: `output_multiplexer` and `state_machine` of the arbiter, one
  action per branch of the state machine, the registered multiplexer in each of
  them. Clients may drive anything at any clock. The multiplexer has no reset in
  the code, and none here.
- **CommandResponse**: the response generator as client 1 of the arbiter, with
  the other clients arbitrary. A command is known by the kind of reply it calls
  for. `lost` records an answer that put a word on its bus while the line was not its
  own. **CommandResponseProofs** holds its theorems and the arbiter's.
- **UdpDataBuffer**: the process of `udp_data_buffer.vhd`, its two FIFOs and an
  assumed consumer (`Consumer`), who reads the words of the front packet and then
  finishes it. Words are numbered by `log`, which keeps the port of each; a
  packet is its start, length and port. `overflowed` records a write to a full FIFO.
  **UdpDataBlockProofs** holds its theorems.
- **HeaderGenerator**, **FrameGenerator**: the two state machines. A word is a
  kind and a number; `pipe` holds the stages between `rdreq` and the payload
  word; `frame` and `sent` are history (the frame that was asked for, and how
  much of it has been written). `f_next_state` is a chain of alternatives in the order of
  the code's `if`, since its conditions overlap.
- **FrameLink**: the abstract specification of what the MAC may see: whole
  frames, first word marked sop, last marked eop, nothing in between missing. FrameGenerator
  has two refinement mappings to it. `WholeFrames` maps the words; `FramesMarked` only the
  header, the number of payload words and the marks, and so says what is still true when the FIFO delivers
  something else than it should. The run `frame` checks the first; for the blocks both are theorems (section 5).
- **FrameStream**: the two generators with an arbitrary FIFO. **FrameStreamProofs** holds
  their theorems, those of the checksum, and the lemmas that the blocks around them use.
- **UdpDataBlock**: buffer and generators wired as in the block. Here the
  consumer is the frame generator, and `BlockImplementsBuffer` shows that it
  is the consumer the buffer's specification assumes, so what is proved of the
  buffer holds in the block. **UdpDataBlockProofs** proves it.
- **IpChecksum**: the checksum arithmetic of the header generator in its width (`HalfRange`
  is 2^16 in the code, `HighRange` 2^7), against the receiver's test (one's complement sum of
  all half words).
- **FrameReceiver**: the parser behind a MAC that delivers words with gaps and
  frames back to back. Halves of an address are known by the station they came
  from, so that a torn address is visible. `RxSpec` is the receiver on its own;
  **FrameReceiverProofs** holds its theorems.
- **ArpBlock**: ARP block, replier and cache behind the receiver, with their
  frame and header generator. **ArpBlockProofs** holds its theorems.
- **IcmpBlock**: the ICMP block behind the receiver. The sum is the set of words
  summed (the TODO about its carry at `icmp_block.vhd:323` is the same arithmetic
  as IpChecksum's). **IcmpBlockProofs** holds its theorems.
- **InputFifoManager**, **DataBlock**: the manager with its write clocks, and
  the data block around it. The manager knows a FIFO by its fill, the data block numbers
  the words, and numbers them afresh (`Settled`) whenever all that was read has been sent, so
  that the streams need not end. **DataBlockProofs** holds its theorems.

- **UdpSockets**: sockets as functions on what the program has open: bind, a
  bounded buffer per port, receive, close. A packet for a port nobody has open is
  dropped, as the kernel does.
- **EpcqControl**: the board's end of the flash dialogue: address, the two
  buffers, erase of a sector, programming (which only clears bits: a word written
  over another is `Corrupt`), reading, the erase that is refused, the start that times out.
  `Data` is what a word of the flash may be, `Words` what a read returns.
- **OdileFlash**: the server's end. A call is made of parts, numbered by `part`: what comes before
  its loop over the pages, each page, and what comes after. Each library routine is an operator that gives
  the steps of part `p` (`Steps`): send a command, wait for its DON, send a page, receive, compare, store, return;
  `at` is the step the program is at. `IsCall` says which calls make sense (a write stays within the flash);
  `CallsAssumption` admits no others. Network steps lose or deliver packets; `Kill` stops a call between any two
  steps and the next call starts on whatever is left. `missed`, `refused` and `lost` are
  history: an answer to a closed socket, a command the busy board did not take, lost
  packets.
- **AsyncReceive**: threads, shared arguments, the close sequence (test, stop and
  join, delete), the destructor's loop, take_image's loop, and an arbitrary other
  program. Deleted arguments stay in the list, as in the code; a read of them sets
  `dangling` and finds anything. A new argument block's `nread` is zero or `Garbage` until the
  thread has set it. **ServerProofs** holds the theorems of OdileFlash and of AsyncReceive.
- **IniFile**: the parser line by line and the reader's tables, and beside them a
  reference definition of the value a file gives to a name.
- **ConfigBlockList**: the whole table of `ConfigBlockList.cpp` and the operations on it.
- **ServerConfig**: file, server object, board registers and flash pages.
- **TclapCmdLine**: `CmdLine::parse`, one action per `processArg`. **CmdLineMeaning** says
  what a line means without the order of offers. **OdileTools**: the arguments and mains
  of the six tools.

The `MC*` modules (**MCUdpArbiter**, **MCCommandResponse**, **MCFrameStream**,
**MCIpChecksum**, **MCUdpDataBlock**, **MCArpBlock**, **MCIcmpBlock**,
**MCDataBlock**, **MCOdileFlash**, **MCAsyncReceive**, **MCServerConfig**,
**MCOdileTools**) give the frames, headers, flags, calls, file lines and command
lines of the instances. A definition with the comment "Mutant" is a plausible wrong
version of the one that follows it; no specification uses it.

## 3. Runs

| run | configuration | result | distinct states |
|---|---|---|---|
| arbiter | 3 clients, timeout 3 | pass | 371 |
| response | 2 clients, data and list commands, ERR, FIFO of 2, bursts of 3 | pass | 599,375 |
| frame | IPv4/UDP headers, payloads 0 to 6 | pass | 4,754 |
| checksum | half words of 4 bits | pass | 33,024 |
| block | 2 ports, 4 words, packets of up to 2 words and one more | pass | 111,451 |
| arp | 2 stations, 4 frames | pass | 157,672 |
| ping | 2 stations, 4 frames | pass | 30,781 |
| data | 5 FIFOs, 2 written without end, one on a slower clock | pass | 109,592 |
| flash | 2 calls of 7 and 3 kinds, 2 sectors of 2 pages, 1 lost packet | pass | 383,217 |
| async | 2 threads, 2 ports, images of 3 words | pass | 306,372 |
| config | files of 3 edited lines, 4 operations, 2 blocks, 2 pages | pass | 35,927 |
| tools | 8 programs, lines of up to 3 tokens | pass | 88,101 |

**arbiter**: `BusyIsOwners` (the busy level acted on is never the last owner's),
`ReadyIsExclusive` (udp_ready outlives a grant only while the line is free),
`LineNotHeldSilently`. Three clients are enough for an owner,
a predecessor and a competitor; the theorems of section 5 remove the bound.

**response**: `EchoInOrder`, `LostOnlyInLongBurst` (a command comes to the full FIFO only in
a burst longer than the FIFO is deep), `CommandReplyDelivered` (no word of a command's reply
misses its grant) with one other client that does anything. The controller acknowledges
at any clock. With `CmdFifoDepth = 2` and bursts of `MaxBurst = 3` inputs the FIFO overflows,
and commands arrive in every state of an earlier one's reply; `MAX_TIMEOUT = 12` is longer than
the replies of a burst, as in the code.

**frame**: `WholeFrames` (refinement of FrameLink), `ChecksumOfThisHeader`,
`FrameEnds`. `IN_DLY = 3` as in the UDP block; payloads from
empty over shorter than `IN_DLY` to longer than it, and up to
`PAYLOAD_MAX_LEN`, where frames are split.

**checksum**: `WrongExactlyOnLostCarry`: over all lengths and low destination
halves, the checksum is rejected exactly if the fold carries. Half words below 16 are enough for
sums with every carry; section 5 has it for every width.

**block**: `EveryWordInOnePacket`, `SentToItsPort`,
`BlockImplementsBuffer`, `EveryWordIsSent`. Four words on two ports make up to
four packets, cut by every cause; the info FIFO (depth 2) can overflow.

**arp**: `CacheIsServers`, `ReplyNamesRequester`, `ArpIsSent`.
Two stations are enough for a torn or foreign address; the timer constants are
small so that requests of our own and cache expiry fall between any two frames.

**ping**: `UdpPayloadDelivered`, `PingEchoed`, `PingIsAnswered`. The constraint
`OnePingAtATime` cuts behaviours once words of a second ping have come in
before the first was answered: the code keeps one FIFO and one sum, and nothing is
claimed then, by the invariants or by `PingIsAnswered`.

**data**: `SentFromItsFifo`, `NoWordSkipped`, `NoneLeftBehind`. Five
FIFOs give the scan its real length against a frame. FIFO 1 has priority and FIFO 4 has not, both
are written without end, and the clock of FIFO 4 misses any number of edges of the read clock.
So FIFO 1 may be ready at every scan, and a frame of FIFO 4 may begin and end between two
edges of its write clock: `NoneLeftBehind` is violated without its exception `LeftBehind` by the first
and without `Stalled` by the second (section 4). Outside these cases it shows
that what is too little for a frame leaves through the flush. A FIFO holds up to three
words, one more than a frame takes (`PAYLOAD_MAX_LEN`) and so one that may be kept back; `MaxWords = 5`
cuts no behaviour (the states are the same with any larger value).

**flash**: `WriteVerified`, `CommandsCarriedOut`, `FileIsFlash`, `OthersUntouched`,
`CallEnds`. The first call is any of: a page that is exactly full, a sector that is, more
than a sector, a firmware ending in its second page, one that does not start at a sector,
a read that ends in a page, a query; the second writes the same words, with or without an
erase, over what the first has left, so that a late answer looks right, or reads them. One lost packet and one killed call
are enough for every single failure; the properties that need more say so in
their antecedent. `WriteVerified` and `FileIsFlash` are claimed for programs of which no call was killed (see
section 4): the words a killed call was reading can be taken for the next one's. `OthersUntouched` names the one way in which a foreign word can be
erased.

**async**: `ArgsOutliveThread`, `DestructorIsEnough`, `HeaderAfterImage`, `CloseEnds`,
`ImageEnds`. Two threads on two ports are a thread that is closed and one that is not, or
two that want the same port; packets of 2 words and an image of 3 make the last packet
go beyond the image. The theorems of section 5 remove these bounds for the three
invariants.

**config**: `ReadsWhatFileSays` (against the reference definition, over every file the
edits make), `FileRoundTrip`, `BoardAsConfigured`, `LoadedFromFlash`. The
table of the instance keeps a name given twice, an address given twice and the settings
take_image counts with. `BoardAsConfigured` is about a packet sent alone and about take_image's, whose
count of words comes from the table the board then agrees with; how many words the board's sequencer
sends is not in the repository. A page can be loaded up to any word, as after a timeout. `WholeTable` evaluates the operators on the real table. Three lines are
a section, a value and its continuation or contradiction.

**tools**: `AcceptedIffWellFormed`, `ValuesAsTyped`, `ReaderWhereBoardAnswers`. Three tokens,
some with their value behind the option, hold an option with its value and another, a
repeated or exclusive pair, or a group of switches after "--". Two more programs use the kinds
of argument that the tools do not (multiple, exclusive, unlabelled). The run stops when the
main has ended, hence no deadlock check; the same holds for the other three server runs.

Bounds (`MaxWords`, `MaxTaken`, `MaxUsed`, `MaxBurst`, `FifoDepth` and the small
thresholds) are constants named in the modules. A reset sets the word counters
back, so behaviours go on for ever within them.

### Fairness

The clock goes on: weak fairness of the tick (`FairArbSpec`, `FairStreamSpec`,
`FairBlockSpec`, `FairArpSpec`, `FairIcmpSpec`). In the blocks the tick is the one
with tx_ready: the MAC frees its FIFO and the other blocks end their frames, so a
block that waits finds the transmitter free at some clock; a frame under way
does not look at tx_ready. In DataBlock the scan looks at the transmitter only in
one clock out of seven; `FairDataSpec` therefore has strong fairness of "the
decision finds the transmitter free", that is, nothing else sends in step with the
scan for ever, and the write clocks go on as well. Inputs are never fair: nobody has to
send anything.

On the server side the operating system runs a process or thread that can run:
`FairAsyncSpec` has weak fairness of each thread's step and of the program while it is inside
the library or in take_image's loop, not of the calls of another program nor of the
board's sending. In OdileFlash the server's step, the board's and the delivery of a packet
are fair, losses and kills are not; `CallEnds` is claimed while nothing was lost.

## 4. Disagreements found

Where the code does not do what a comment, a name or its counterpart says. The
models do what the code does; the properties are stated around these cases, and
where a property has an exception, the exception is one of them.

On the board:

- `command_response_generator.vhd:239`: a DON or ERR report requested right after a
  reply takes the udp_ready of the grant that is ending for its own and is sent when
  the line is no longer the generator's. `udp_data_arbiter.vhd:28-30` has clients wait for a
  response to their request. `CommandReplyDelivered` is therefore about command replies only.
- `odile_controller.vhd:469` acknowledges every single-word command at once, and
  `command_response_generator.vhd:188-196` leaves the full flag of the command FIFO, 16 words deep,
  unconnected: a command that comes while it is full is carried out but never answered, where
  183-187 has the buffer hold the commands that cannot be answered yet. `owed` drops it, `EchoInOrder`
  holds for the others, and `LostOnlyInLongBurst` says when it can happen.
- `header_generator.vhd:362`: the carry of the fold is dropped; for the board's
  address this makes the checksum of a one-word packet to 192.168.58.122 wrong.
- `arp_block.vhd:238`: the Ethernet destination of a reply is the receiver's live register,
  which a frame that comes in while the reply waits overwrites; 319-320 says it is registered.
- `input_fifo_manager.vhd:325`: the flush of a stale FIFO does not look at its flags, so a FIFO that
  was disabled while it held words is read; 55-56 says it will not be.
- `udp_data_arbiter.vhd:304-311`: in TX_BUSY the timeout counter is not cleared by
  a word, so pauses of a transfer add up; the comment at 254-255 speaks of a
  client that stops sending.
- `udp_data_buffer.vhd:222`: wrfull is open and the info FIFO's full flag unused.
  After an overflow lengths and words no longer match until a reset. All
  properties of the buffer are claimed while `~overflowed`.
- `udp_data_buffer.vhd:154`: `info_valid` survives a reset, so a packet of no words
  may be announced after it.
- `ethernet_frame_generator.vhd:152`: `header_start` survives a reset; a reset in
  exactly the clock in which it is high starts a header without a frame, and
  the next frame gets its rest. The reset actions of all block modules exclude
  this clock (`~header_start`).
- `input_fifo_manager.vhd:251`: with write clocks slower than the read clock, a
  read request can fall between two edges of the write clock; then an empty FIFO can
  be flushed (an empty frame), or the flush stays latched (`flush_latch` is cleared when
  `fifo_flush` is seen low, and that stays high while nothing is written) and the words that are left
  stay until the stream goes on; 44-46 has a buffer leave that is not written for a time. This is
  `Stalled` in `NoneLeftBehind`.
- `input_fifo_manager.vhd:322-328`: the scan takes the first FIFO, in order of number, that has priority
  or is to be flushed. While a low one is ready at every scan the ones above it are never read, their
  own priority or flush included (`LeftBehind`); once full they drop what is written.
- `input_fifo_manager.vhd:241`: "excessively full" (`IN_FIFO_AFULL`, 1948 words) is never reached,
  because writes are dropped from 1920 words on (214).
- `icmp_block.vhd:199`, `352`: pings longer than the FIFO (`PingsFit`), and a
  second ping during an answer.
- `epcqio_control.vhd`: `last_address` is compared but never assigned, so an erase right after an
  erase is refused without an answer.

On the server, flash and commands:

- A killed call leaves read data and DONs on their way. The next call can compare a page with
  them and report a write that did not happen (`WriteVerified` excludes it).
- `ODILEServer.cpp:436-437`: the wait for ERB is commented out. Its DON can end the wait for the
  ESA behind it; if that ESA is lost, the sector of the old address is erased
  (`EarlyDone` in `OthersUntouched`). A retried write whose first try was killed after its erase
  hangs, because the second ESE is refused.
- `ODILEServer.cpp:87`: `waitForDone(cmd, -1)` divides its timeout by ten and asks for a timeout
  of 0, which is a blocking receive; every receive opens and closes a socket of its own, so
  answers in between are lost and the wait does not end. `send_command -r` opens its socket after
  sending, and waits for an answer even if no command went out.
- `udp_client_server.cpp:309-351`: `timed_recv` has the socket in select's write set as well, which
  is always ready: it never waits.
- `ODILEServer.cpp:543`: the last words of `readEPCQ` are counted as bytes, a quarter is written.
  `writeEPCQ` writes one more page when the data fill their last page; `writeFirmware` ends
  without a return value. `launchAsyncThread` is declared with (ncols, nrows) and defined with
  (nrows, ncols).

On the server, configuration and tools:

- `ODILEServer.cpp:649` counts the words behind a block's header, `config_data_manager.vhd:190` the
  header too: the last word of each block is not loaded (`LoadedFromFlash` claims the others).
- `ConfigBlockList.cpp:78-79` gives MDIO_WaitCycles the addresses 0x0C and 0x0D, the board
  (`tse_config_controller.vhd:361-362`) register 7; lines 68-75 use names twice, so a file cannot set the
  entries behind. The defaults make `getWordsToRead` zero. `write_config -w` writes the current
  configuration to default.ini. `readConfigData` reads the file twice, so that
  an error is printed for the first and returned for the second.
- `take_image.cpp:34-35` gives ncols and nrows the default of the port; `-r 0` divides by
  zero at 78, after the configuration was sent. `write_firmware.cpp:44-49` warns without
  `--force` and writes all the same; a file name without ".rpd" ends it with an exception.
  `send_command` has no reader for GCR, never sends a second word 0xFFFFFFFF and ignores a
  prefix outside 1 to 255.
- TCLAP: a number option with an empty text keeps its default silently; an exclusive switch in
  a group counts only if it is offered last; what follows "--" is ignored silently if there is
  no unlabelled argument (`CmdLineMeaning` states these three as they are).

## 5. Proofs

TLC checked every inductive invariant below on a small instance before it was proved. Each
theorem holds for every value of the constants that the named assumptions admit, and without the state
constraints of the runs. They are about the specifications without fairness (`ArbSpec`, `BlockSpec`,
...), but for those of OdileFlash, which has only `FairSpec`; none of them uses fairness.

### Arbiter and command response generator (`CommandResponseProofs`)

For every number of clients and every `MAX_TIMEOUT` greater than zero: `ArbInvariance`, and
from it `ArbTypeCorrect`, `ArbBusyIsOwners`,
`ArbReadyIsExclusive` and `ArbSilenceBounded`. The inductive invariant `ArbInv` adds
to the types that a grant is open exactly in the two TX states, that the
multiplexer holds the owner's bus or none while it is open, that a busy or valid
level comes from somebody, and that the silent clocks are among those counted.
Without the second fact BusyIsOwners does not survive a grant that follows another
at once; without the last the bound on silence is not inductive, because the code
compares its own counter, which it sets back between TX_WAIT and TX_BUSY, not the silence. `silence`
counts both: a client may be silent for MAX_TIMEOUT + 1 clocks before its first
word or busy level and for MAX_TIMEOUT after it, and TLC finds both used up in one grant.

Of the response generator behind it: `EchoInvariance`, `EchoesInOrder` and
`CommandsLostOnlyInLongBurst` (for every burst and every depth of the FIFO), and
`RepliesDelivered`. The first three need only the generator: the answers owed are those of the
command in the reply under way, of those in the FIFO and of the one in its input register (`Chain`); a
command that the full FIFO does not take is the last of the chain, so that the chain without it is the
chain after the step (`ChainDrop`). `Burst` counts them: no more answers are owed than inputs came in
since the generator was idle. `RepliesDelivered` needs both machines in step, state by state: what the arbiter sees of the
generator is one clock old, and in each state of the reply its timeout counter is
bounded by the clocks spent since the request. It assumes `BurstFits`, `4 * MaxBurst <= MAX_TIMEOUT`: an
answer takes the line for at most four clocks of silence, and pauses add up. The bound is tight (with `MaxBurst =
2` TLC finds a lost word at `MAX_TIMEOUT = 7`); with the code's 1000 clocks it admits 250 answers in one burst,
more than its command FIFO holds.

### UDP data buffer

`UdpDataBlockProofs` proves, for all ports, packet lengths, FIFO depths and
thresholds (`BufferAssumption`), `BufInvariance` and from it `BufTypeCorrect`,
`WordsGoToTheirPorts` and `WordsInOnePacket`. `BufInv` says that while no FIFO has
overflowed the packets form a chain: the entries of the info FIFO are contiguous,
the entry in its input register starts where they end, the packet just closed
starts where that one ends, the one being collected starts there and ends with
the last word written, and the reader stands inside the front entry (`Chain`);
and all words of each of these packets have its port (`PortsMatch`). A packet
passes through three places on its way into the info FIFO, which is why an
invariant about the FIFO alone is not inductive. The proof has one lemma for
each part of the chain and each kind of clock edge, over lemmas on `Head`, `Tail`
and `Append` of contiguous sequences.

### Generators (`FrameStreamProofs`)

For every header configuration, delay and payload length: `StreamInvariance`, `FramesWhole` (the
refinement `WholeFrames` of FrameLink) and `ChecksumIsOwn`. The invariant has two parts. `GenInv` is the *control*: the
two state machines are in step (`Sync`), the words of the header made and written
are those counted (`HeaderPhase`), and `rdreq` is high exactly for the first `payload_length` clocks of the payload
phase, counted by `Clk` through its three states (`PayloadPhase`); it holds whatever the FIFO delivers. `GenData` is the *data*: stage
`i` of the pipeline holds the word asked for `i` clocks ago, and the word on the line is the one counted. It is kept by a clock in which the
FIFO delivers the word asked for (`Fed`). `GenStep` states both for one clock, and is what the blocks cite: each has
only to say what its FIFO does.

`ChecksumIsOwn` assumes `EthBeforeIp`, that IPv4 is not enabled without Ethernet: the checksum takes eight clocks, and without
the four Ethernet words the checksum word goes out first. The UDP block's configuration is X"00000007" (`udp_data_block.vhd:176`),
the ICMP block's enables both (`icmp_block.vhd:147`); that of the data block is configuration register 10
(`ethernet_block.vhd:397`, `:528`), which has to be set so.

### Checksum (`FrameStreamProofs`)

`ArithInvariance`, and from it `WrongOnLostCarry` (the run's `WrongExactlyOnLostCarry`), for every width and every
header. `ArithInv` says that the sum never wraps: after `n` steps it is the sum of the first `2n`
half words, ten of them at most, so that its high part is at most 9, which is why one fold and a carry
fit; after the first fold it is low plus high, less `HalfRange` exactly if that carries; and the second fold
finds nothing above. The rest is arithmetic modulo `HalfRange - 1`: `Total = Low + High` there, so the receiver's sum is 0
if no carry was lost and 1 if one was, and 1 is not divisible (`HalfRange` is more than 2). The solvers find none of this with `\div` and
`%` in sight; the proof gives quotient and remainder names first.

### UDP data block (`UdpDataBlockProofs`)

`BlockInvariance`, `BlockIsBuffer` (the refinement `BlockImplementsBuffer`) and `WordsLeaveForTheirPort`. `BlockInv` joins
`BufInv` and `GenInv`: while a frame is in hand it is that of the front entry of the info FIFO, as long as that says, and buffer
and generator have counted the same words (`InHand`); eop comes once per frame (`EndsOnce`), so
that exactly one entry is taken off; no packet is longer than `PAYLOAD_MAX_LEN`, so that none is split (`LengthBound`). While nothing has
overflowed, the words of the frame are those of the packet (`FromFifo`). The last theorem assumes
`NoDataHeader`, true of X"00000007". `BlockFramesMarked` says that the MAC sees whole frames even when words were lost: it
needs `GenInv` only, since the generators go by the length they took when they started.

### Data block (`DataBlockProofs`)

`DataInvariance`, and from it `FramesFromTheirFifo` (`SentFromItsFifo`), `NoneSkipped` (`NoWordSkipped`) and `DataFramesWhole`
(`WholeFrames`), for every number of FIFOs, configuration, threshold and write clocks. What is hard here is that
the scan goes on while a frame is sent, and that a word is two registers further away than in the
other blocks. For the first, `PickedBetween`: the selection changes only at the end of a scan, and `payload_rdy` stays up until then, so that
the frame generator, once it has taken it, is busy through the next decision. For the second, the account of words: of the words
asked for, `Out` have come out of the FIFO (two clocks behind `rdreq`, by `Clk`), `Gone` have gone to the MAC, `Base` were read before the
frame; the frame is made of the words behind `Base` (`FromPicked`), the ones between are in the
FIFO's output, the multiplexer's register and the pipeline (`OnTheWay`), and when the frame is over what was read was delivered (`Account`).
`NoWordSkipped` alone is not inductive because it speaks only of the clocks in which nothing is on its way.

### Receive side (`FrameReceiverProofs`, `ArpBlockProofs`, `IcmpBlockProofs`)

`RxInvariance` says, for every set of frames, what the registers hold after `n` words of the
frame on the line (`Parsed`), whatever came before; `PayloadDelivered` follows. The registers are
cleared with word 0 except the IPv4 protocol, and the parser decides by registers and not by
the frame, which is why the invariant has to speak of every word number.

`ArpInvariance` adds what the reply buffer, the replier and the cache took from those registers;
`CacheHoldsServer` and `RequesterNamed` follow. The pulses of the receiver come with the
end of a frame, when the registers are the frame's own; the invariant carries that to
the clocks in which they are used. `ArpLineInvariance` adds the generators and the words: the replier
is started by the first `rdreq` and then counts by itself, so that both have to agree on the clock of each
of the seven words (`ReplierAt`), and the replier is idle again before the frame ends. `ArpFramesWhole` follows.

`IcmpInvariance` and `PingsEchoed`, for pings of any length that fits (`PingsFit`), from any stations. `IcmpInv`
consists of `RxInv` and `GenInv`; of the words collected and the sum of them, which is handed over one clock after the last word
(`RxPing`, `SumInv`); of the control of the answer (`ControlInv`), whatever the FIFO
holds; and, while no words of two pings met (`~mixed`), of where each word of the ping in hand is (`OwnPing`): in the
FIFO while it is collected and waits, then some in the FIFO, one in its output register and two in the
pipeline. Here the FIFO does not deliver the words that `GenData` asks for (the first
word is made up, the others come one read late), so that only the control part of `GenStep` is used and the data
are followed by hand. The theorem does not need the run's constraint `OnePingAtATime`. `IcmpFramesMarked`: whatever
two pings do to each other's words, the frames are whole and marked.

The four block modules extend FrameStreamProofs for its lemmas; FrameStream's own variable `taken` and its bounds
occur in none of their theorems.

### Flash dialogues (`ServerProofs`)

For every set of calls, every flash, any number of losses and kills: `FlashInvariance`, and from it `WritesVerified`
(`WriteVerified`), `FilesAreFlash` (`FileIsFlash`) and `AllCarriedOut` (`CommandsCarriedOut`); and `WritesInPlace`
(`OthersUntouched`).

A dialogue is a sequence of exchanges, and the invariant says so.

- `Base`: the types, and that the program stands at a step of a part of its call. What the parts look like is said once
  (`StepOK`): a command is followed by the wait for its answer, a page by the command that programs
  it, a read by its use. `WriteFit` and `ReadFit` say which command, with which address and
  length, stands where.
- `Line`: what is under way. At a wait, it is that of one `Exchange`: the command, or the board at work
  on it, or its answers, each in its place on the way, and nothing else; an answer that ends the wait means that the board
  is done. Between waits it is nothing (`Quiet`), or the page just sent. The one exception is `Loud`: the
  first page of writeFirmware, while the DON of the ERB that nobody waits for is still owed. There the
  invariant is an account of DONs: at most one more than waits, and none left when the page is read
  back, because the word that ends the wait for a read comes on another port.
- `Memory`: the board's address register is the page's own as soon as its ESA has been waited for; what was received
  is what the flash holds there; the pages before the current one are as wanted. It is kept by later erases and
  programs because they touch only words behind.
- `Carried`: nothing was refused, and where the call can be while the last thing that the board did was an erase. Without the
  latter an ESE might meet the rule that refuses a second erase.

`Line` and `Memory` are claimed while no call was killed. That a comparison that succeeds means a page that is right follows
from `Memory`: nothing the network does can make a wrong page look right, it can only stop the call.

`WritesInPlace` has to hold after kills, too, when `Line` says nothing. It needs another invariant, `InOrder`, kept as
long as no ESA was lost: packets do not overtake each other, so an erase or program in the queue, or in the
board, works at the last ESA before it, which is the one that its own call has sent, killed or not, and all
words it touches are words some call was asked to write (`Allowed`). If an ESA was lost and no firmware written nor call killed,
`FlashInv` takes over: the wait for that ESA never ended. What remains is the case that `OthersUntouched` excepts.

### Receive threads

`ServerProofs` proves, for any number of threads, ports, packet and image sizes,
`AsyncInvariant` and from it `ArgsOutliveThreadThm`, `DestructorIsEnoughThm` and
`HeaderAfterImageThm`. `AsyncInv` adds to the types: the `Lifetimes` of threads and arguments (a
finished thread was stopped, a join is of arguments not yet deleted, a delete follows
the thread's exit); where the destructor's loop stands and that everything below it is
deleted, nothing above it stopped (`DestructorInv`); and the account of words (`ImageInv`): what is
counted is in the file or in the packet being written until the image is full.
`ArgsOutliveThread` is not inductive by itself, because the delete only looks at its
place in the close sequence; `DestructorIsEnough` needs that the loop has closed each
thread once, since a second close would read what the first deleted; and
`HeaderAfterImage` speaks of the file while take_image looks at a counter.

### Only model-checked

All liveness properties (the prover has no fairness). ServerConfig, the INI reader and TCLAP, whose results are recursive functions of their
input, and with them the tools (`AcceptedIffWellFormed`, `ValuesAsTyped`, `ReaderWhereBoardAnswers`): induction over data
is out of the prover's reach.

## 6. Not modelled

Vendor cores (MAC, transceivers, PLLs, FIFOs as such) are the environment.
`ethernet_sgmii_block.vhd`, `ethernet_optical_block.vhd` and `top_ethernet.vhd` are
wiring around them; LED signaler and uptime counter have no effect on the data
path. The testbenches are stimuli. Of the server, the pixel output and `writeFitsHeader` are
calls of CFITSIO, the TCLAP output formats (`StdOutput.h`, `DocBookOutput.h`,
`ZshCompletionOutput.h`) format text, and the address resolution in
`udp_client_server.cpp` is the operating system's. The transmit multiplexer, the data router, the
configuration scanner, the CCD, CABAC, CROC and monitoring interfaces, the remote update and
the MAC's configuration script are not modelled; of the controller, the flash control and
the configuration registers only what the server's dialogues meet.

## 7. Plan

1. **EthernetBlock**: the transmit multiplexer, tx_ready and mac_ready_reg over
   abstract blocks; blocks must not overlap. Abstract specification: the MAC sees
   FrameLink's frames, of one block each.
2. **DataRouter**, the rest of the controller, CCD control interface, CABAC and CROC buffers.
3. Scanner and read multiplexer as clients of UdpArbiter.
4. With EthernetBlock, theorems: that blocks do not overlap, and from `WholeFrames` and `FramesMarked` of
   the blocks that the MAC sees FrameLink's frames.
