----------------------------- MODULE OdileFlash -----------------------------
(***************************************************************************)
(* The DAQ server's dialogue with the board's flash                        *)
(* (server/src/ODILEServer.cpp): writeFirmware, writeEPCQ, readEPCQ and    *)
(* getCompileTime, run step by step against the flash controller of the    *)
(* board over UDP.  A call is made of parts: what comes before its loop    *)
(* over the pages, each page, and what comes after.                        *)
(*                                                                         *)
(* Each recieveData binds a socket of its own, takes one packet and closes *)
(* it, so an answer that comes between two of them is dropped.  Packets    *)
(* may also be lost on the way.  The program may be killed and started     *)
(* again; the board and what is under way stay as they are.                *)
(***************************************************************************)
EXTENDS EpcqControl, UdpSockets

CONSTANTS
  Calls,       \* bound: the calls the first, second, ... use of a tool may make
  MaxLost,     \* bound: packets lost on the way
  Flash0       \* what the flash may hold at first

COMMAND_PORT == 12288   \* 0x3000
FIRMWARE_PORT == 16384  \* 0x4000

VARIABLES
  part, at,    \* the part of the call under way, and the step of it
  read_page,   \* words received for the page being read
  outfile,     \* what readEPCQ has written: words, and bytes of one more
  result,      \* what became of the call
  open_sockets, \* the sockets of the program
  toBoard,     \* packets under way to the board
  fromBoard,   \* packets under way to the server
  calls,       \* history: the calls made, the last one is the current
  lost,        \* history: packets lost on the way, "ESA" or "other"
  killed,      \* history: some call was killed
  missed,      \* history: an answer the call needs was dropped here
  refused      \* history: the board did not carry out a command

serverVars == <<part, at, read_page, outfile, result, open_sockets, calls>>
netVars == <<toBoard, fromBoard>>
whatVars == <<killed, lost, missed, refused>>
flashVars == <<epcqVars, serverVars, netVars, whatVars>>

Init ==
  /\ EpcqInit
  /\ flash \in Flash0
  /\ part = 0 /\ at = 0
  /\ read_page = << >> /\ outfile = << >> /\ result = "none"
  /\ open_sockets = NoSockets
  /\ toBoard = << >> /\ fromBoard = << >>
  /\ calls = << >> /\ lost = << >> /\ killed = FALSE /\ missed = FALSE /\ refused = FALSE

-----------------------------------------------------------------------------
\* The steps a call is made of.
Command(cmd, prefix, word) ==
  [do |-> "sendCommand", cmd |-> cmd, prefix |-> prefix, word |-> word]
WaitForDone == [do |-> "waitForDone"]
SendPage(page) == [do |-> "sendData", page |-> page]
Receive(port) == [do |-> "recieveData", port |-> port]
Compare(page) == [do |-> "compare", page |-> page]
Store(bytes) == [do |-> "store", bytes |-> bytes]
Return(value) == [do |-> "return", value |-> value]

\* Mutant: the page just written is not compared with what was sent.
PageStepsUnchecked(address, page) ==
  SubSeq(<< Command("ESA", 0, address), WaitForDone, SendPage(page),
     Command("EWR", PageWords, 0), WaitForDone,
     Command("ERD", PageWords, 0), Receive(FIRMWARE_PORT), Compare(page) >>, 1, 7)

\* One page: set the address, send the words, program, read back, compare.
PageSteps(address, page) ==
  << Command("ESA", 0, address), WaitForDone, SendPage(page),
     Command("EWR", PageWords, 0), WaitForDone,
     Command("ERD", PageWords, 0), Receive(FIRMWARE_PORT), Compare(page) >>

\* Where page p of a call is.
PageAt(call, p) == call.start + (p - 1) * PageWords

EpcqPage(data, p) ==
  [k \in 1 .. PageWords |-> LET i == (p - 1) * PageWords + k
                            IN IF i > Len(data) THEN Blank ELSE data[i]]
EpcqPages(data) == Len(data) \div PageWords + 1

\* Mutant: the sector is erased before the address is set.
writeEPCQErasesFirst(call, p) ==
  IF Len(call.data) > SectorWords THEN << Return("error") >>
  ELSE IF p = 0
       THEN << Command("ERB", 0, 0), WaitForDone >>
            \o (IF call.erase THEN << Command("ESE", 0, 0), WaitForDone >> ELSE << >>)
            \o << Command("ESA", 0, call.start), WaitForDone >>
  ELSE IF p <= EpcqPages(call.data)
       THEN PageSteps(PageAt(call, p), EpcqPage(call.data, p))
       ELSE << Return("ok") >>

writeEPCQ(call, p) ==
  IF Len(call.data) > SectorWords THEN << Return("error") >>
  ELSE IF p = 0
       THEN << Command("ERB", 0, 0), WaitForDone,
               Command("ESA", 0, call.start), WaitForDone >>
            \o (IF call.erase THEN << Command("ESE", 0, 0), WaitForDone >> ELSE << >>)
  ELSE IF p <= EpcqPages(call.data)
       THEN PageSteps(PageAt(call, p), EpcqPage(call.data, p))
       ELSE << Return("ok") >>

\* Reading past the end of the file leaves the last word in the variable.
FirmwarePage(file, p) ==
  [k \in 1 .. PageWords |-> LET i == (p - 1) * PageWords + k
                            IN file[IF i > Len(file) THEN Len(file) ELSE i]]
FirmwarePages(end_address) == end_address \div PageWords + 1

\* The answer to ERB is not waited for; a page at a sector edge erases first.
writeFirmware(call, p) ==
  IF call.start % SectorWords # 0 THEN << Return("error") >>
  ELSE IF p = 0 THEN << Command("ERB", 0, 0) >>
  ELSE IF p <= FirmwarePages(call.end)
       THEN << Command("ESA", 0, PageAt(call, p)), WaitForDone >>
            \o (IF PageAt(call, p) % SectorWords = 0
                THEN << Command("ESE", 0, 0), WaitForDone >> ELSE << >>)
            \o PageSteps(PageAt(call, p), FirmwarePage(call.data, p))
       ELSE << Return("ok") >>

\* Mutant: the address of the page just read is set again.
readEPCQSamePage(call, p) ==
  IF p = 0
  THEN << Command("ERB", 0, 0), WaitForDone,
          Command("ESA", 0, call.start), WaitForDone >>
  ELSE IF p <= call.words \div PageWords
       THEN << Command("ERD", PageWords, 0), Receive(FIRMWARE_PORT),
               Store(4 * PageWords), Command("ESA", 0, PageAt(call, p)), WaitForDone >>
       ELSE << Command("ERD", call.words % PageWords, 0), Receive(FIRMWARE_PORT),
               Store(call.words % PageWords), Return("ok") >>

\* The last part is written with a count of words taken as one of bytes.
readEPCQ(call, p) ==
  IF p = 0
  THEN << Command("ERB", 0, 0), WaitForDone,
          Command("ESA", 0, call.start), WaitForDone >>
  ELSE IF p <= call.words \div PageWords
       THEN << Command("ERD", PageWords, 0), Receive(FIRMWARE_PORT),
               Store(4 * PageWords), Command("ESA", 0, PageAt(call, p + 1)), WaitForDone >>
       ELSE << Command("ERD", call.words % PageWords, 0), Receive(FIRMWARE_PORT),
               Store(call.words % PageWords), Return("ok") >>

\* Mutant: the answer is waited for first, as for the other commands.
getCompileTimeWaits(p) ==
  IF p = 0 THEN << Command("GCT", 0, 0), WaitForDone >>
  ELSE << Receive(COMMAND_PORT), Return("ok") >>

getCompileTime(p) ==
  IF p = 0 THEN << Command("GCT", 0, 0), Receive(COMMAND_PORT) >>
  ELSE << Return("ok") >>

\* The calls that make sense: a write stays within the flash.
IsCall(call) ==
  \/ /\ call.op = "writeEPCQ"
     /\ call.data \in Seq(Data) /\ call.start \in Nat /\ call.erase \in BOOLEAN
     /\ call.start + EpcqPages(call.data) * PageWords <= FlashWords
  \/ /\ call.op = "writeFirmware"
     /\ call.data \in Seq(Data) /\ Len(call.data) > 0
     /\ call.start \in Nat /\ call.end \in Nat
     /\ call.start + FirmwarePages(call.end) * PageWords <= FlashWords
  \/ call.op = "readEPCQ" /\ call.start \in Nat /\ call.words \in Nat
  \/ call.op = "getCompileTime"

ASSUME CallsAssumption ==
  /\ Len(Calls) \in Nat
  /\ \A i \in 1 .. Len(Calls) : \A call \in Calls[i] : IsCall(call)
  /\ Flash0 \subseteq [0 .. FlashWords - 1 -> Data]

\* The steps of part p of a call.
Steps(call, p) ==
  CASE call.op = "writeEPCQ" -> writeEPCQ(call, p)
    [] call.op = "writeFirmware" -> writeFirmware(call, p)
    [] call.op = "readEPCQ" -> readEPCQ(call, p)
    [] call.op = "getCompileTime" -> getCompileTime(p)

-----------------------------------------------------------------------------
\* The server.
Running == result = "running"
current == calls[Len(calls)]
Now == Steps(current, part)[at]
Doing(what) == Running /\ Now.do = what
Advance ==
  IF at < Len(Steps(current, part)) THEN at' = at + 1 /\ part' = part
  ELSE at' = 1 /\ part' = part + 1
Stop == part' = 0 /\ at' = 0

Call(call) ==
  /\ ~Running
  /\ calls' = Append(calls, call)
  /\ part' = 0 /\ at' = 1 /\ result' = "running"
  /\ read_page' = << >> /\ outfile' = << >>
  /\ missed' = FALSE /\ refused' = FALSE
  /\ UNCHANGED <<epcqVars, open_sockets, netVars, killed, lost>>

\* The second word is sent only when it is not all ones.
sendCommand ==
  /\ Doing("sendCommand")
  /\ toBoard' = Append(toBoard, [cmd |-> Now.cmd, n |-> Now.prefix,
                                 address |-> Now.word, words |-> << >>])
  /\ Advance
  /\ UNCHANGED <<epcqVars, read_page, outfile, result, open_sockets, calls, fromBoard, whatVars>>

sendData ==
  /\ Doing("sendData")
  /\ toBoard' = Append(toBoard, [cmd |-> "data", n |-> 0, address |-> 0,
                                 words |-> Now.page])
  /\ Advance
  /\ UNCHANGED <<epcqVars, read_page, outfile, result, open_sockets, calls, fromBoard, whatVars>>

\* recieveData binds its socket ...
Listening == IF Now.do = "recieveData" THEN Now.port ELSE COMMAND_PORT
OpenSocket ==
  /\ Doing("waitForDone") \/ Doing("recieveData")
  /\ can_bind(open_sockets, Listening)
  /\ open_sockets' = udp_server(open_sockets, Listening)
  /\ UNCHANGED <<epcqVars, part, at, read_page, outfile, result, calls, netVars, whatVars>>

\* Would this packet end the next wait of the call?
Waits(step) == step.do \in {"waitForDone", "recieveData"}
Mentions(words, w) == \E i \in 1 .. Len(words) : words[i] = w
Ends(wait, port, words) ==
  IF wait.do = "recieveData" THEN wait.port = port
  ELSE port = COMMAND_PORT /\ Mentions(words, "DON")
Needed(port, words) ==
  LET rest == SubSeq(Steps(current, part), at, Len(Steps(current, part)))
      waits == SelectSeq(rest \o Steps(current, part + 1), Waits)
  IN Running /\ waits # << >> /\ Ends(waits[1], port, words)
ClosesOver(port) ==
  \E i \in 2 .. Len(open_sockets[port]) : Needed(port, open_sockets[port][i])

\* ... and blocks in recv until a packet is there; then the socket is closed.
\* waitForDone repeats that until a packet has the word DON in it.
recieveData ==
  /\ Doing("recieveData") /\ has_packet(open_sockets, Listening)
  /\ read_page' = read_page \o recv(open_sockets, Listening)
  /\ Advance
  /\ open_sockets' = udp_server_close(open_sockets, Listening)
  /\ UNCHANGED <<epcqVars, outfile, result, calls, netVars, whatVars>>

\* Mutant: the first packet that comes ends the wait.
waitForAnyPacket ==
  /\ Doing("waitForDone") /\ has_packet(open_sockets, COMMAND_PORT)
  /\ Advance
  /\ open_sockets' = udp_server_close(open_sockets, COMMAND_PORT)
  /\ UNCHANGED <<epcqVars, read_page, outfile, result, calls, netVars, whatVars>>

waitForDone ==
  /\ Doing("waitForDone") /\ has_packet(open_sockets, COMMAND_PORT)
  /\ \/ /\ Mentions(recv(open_sockets, COMMAND_PORT), "DON")
        /\ Advance /\ UNCHANGED missed
     \/ /\ ~Mentions(recv(open_sockets, COMMAND_PORT), "DON")
        /\ UNCHANGED <<part, at>>
        /\ missed' = (missed \/ ClosesOver(COMMAND_PORT))
  /\ open_sockets' = udp_server_close(open_sockets, COMMAND_PORT)
  /\ UNCHANGED <<epcqVars, read_page, outfile, result, calls, netVars, killed, lost, refused>>

comparePage ==
  /\ Doing("compare")
  /\ IF read_page = Now.page
     THEN Advance /\ read_page' = << >> /\ UNCHANGED result
     ELSE Stop /\ result' = "mismatch" /\ UNCHANGED read_page
  /\ UNCHANGED <<epcqVars, outfile, open_sockets, calls, netVars, whatVars>>

\* outfile.write of a number of bytes from read_page: whole words, and a part.
storePage ==
  /\ Doing("store")
  /\ outfile' = outfile \o SubSeq(read_page, 1, Now.bytes \div 4)
  /\ read_page' = << >>
  /\ Advance
  /\ UNCHANGED <<epcqVars, result, open_sockets, calls, netVars, whatVars>>

return ==
  /\ Doing("return")
  /\ result' = Now.value /\ Stop
  /\ UNCHANGED <<epcqVars, read_page, outfile, open_sockets, calls, netVars, whatVars>>

\* The user stops the program.
Kill ==
  /\ Running
  /\ result' = "killed" /\ Stop /\ read_page' = << >>
  /\ open_sockets' = NoSockets /\ killed' = TRUE
  /\ UNCHANGED <<epcqVars, outfile, calls, netVars, lost, missed, refused>>

-----------------------------------------------------------------------------
\* The board.
Answer(words) == fromBoard' = Append(fromBoard, Packet(COMMAND_PORT, words))

BoardReceive ==
  /\ toBoard # << >>
  /\ LET m == Head(toBoard) IN
       \/ m.cmd = "data" /\ EpcqData(m.words) /\ UNCHANGED fromBoard
       \/ m.cmd = "ESA" /\ EpcqSetAddress(m.address) /\ Answer(<<"ESA", "DON">>)
       \/ m.cmd = "ERB" /\ EpcqClearBuffers /\ Answer(<<"ERB", "DON">>)
       \/ m.cmd \in {"ESE", "EWR", "ERD"} /\ EpcqStart(m.cmd, m.n) /\ Answer(<<m.cmd>>)
       \/ m.cmd = "GCT" /\ UNCHANGED epcqVars /\ Answer(<<"GCT", "EPOCH", "DON">>)
  /\ refused' = (refused \/ (Head(toBoard).cmd \in {"ESE", "EWR", "ERD"} /\ job # Idle))
  /\ toBoard' = Tail(toBoard)
  /\ UNCHANGED <<serverVars, killed, lost, missed>>

\* A finished erase or write is reported; a read is reported, then sent.
BoardFinish ==
  /\ \/ (EpcqErase \/ EpcqWrite) /\ Answer(<<"DON">>)
     \/ /\ EpcqRead
        /\ fromBoard' = fromBoard \o <<Packet(COMMAND_PORT, <<"DON">>),
                                       Packet(FIRMWARE_PORT, Contents(job.address, job.nwords))>>
  /\ UNCHANGED <<serverVars, toBoard, whatVars>>

BoardGivesUp ==
  /\ EpcqStartTimeout
  /\ refused' = TRUE
  /\ UNCHANGED <<serverVars, netVars, killed, lost, missed>>

-----------------------------------------------------------------------------
\* The network.
Deliver ==
  /\ fromBoard # << >>
  /\ open_sockets' = arrive(open_sockets, Head(fromBoard))
  /\ missed' = \/ missed
               \/ /\ ~accepted(open_sockets, Head(fromBoard))
                  /\ Needed(Head(fromBoard).port, Head(fromBoard).words)
  /\ fromBoard' = Tail(fromBoard)
  /\ UNCHANGED <<epcqVars, part, at, read_page, outfile, result, calls, toBoard, killed, lost, refused>>

LoseToBoard ==
  /\ toBoard # << >> /\ Len(lost) < MaxLost
  /\ lost' = Append(lost, IF Head(toBoard).cmd = "ESA" THEN "ESA" ELSE "other")
  /\ toBoard' = Tail(toBoard)
  /\ UNCHANGED <<epcqVars, serverVars, fromBoard, killed, missed, refused>>

LoseFromBoard ==
  /\ fromBoard # << >> /\ Len(lost) < MaxLost
  /\ lost' = Append(lost, "other")
  /\ fromBoard' = Tail(fromBoard)
  /\ UNCHANGED <<epcqVars, serverVars, toBoard, killed, missed, refused>>

-----------------------------------------------------------------------------
ServerStep ==
  \/ sendCommand \/ sendData \/ OpenSocket \/ recieveData \/ waitForDone
  \/ comparePage \/ storePage \/ return
BoardStep == BoardReceive \/ BoardFinish \/ BoardGivesUp

Next ==
  \/ Len(calls) < Len(Calls) /\ \E call \in Calls[Len(calls) + 1] : Call(call)
  \/ ServerStep \/ Kill \/ BoardStep \/ Deliver \/ LoseToBoard \/ LoseFromBoard

(***************************************************************************)
(* The program runs, the board works through its commands and the network  *)
(* carries what it has not lost.  Nobody has to make a call or kill one.   *)
(***************************************************************************)
FairSpec ==
  /\ Init /\ [][Next]_flashVars
  /\ WF_flashVars(ServerStep) /\ WF_flashVars(BoardReceive)
  /\ WF_flashVars(BoardFinish \/ BoardGivesUp) /\ WF_flashVars(Deliver)

-----------------------------------------------------------------------------
Succeeded(op) == result = "ok" /\ current.op = op

\* Words a call may erase or program.
Pages(start, n) == start .. start + n * PageWords - 1
Target(call) ==
  CASE call.op = "writeEPCQ" ->
         Pages(call.start, EpcqPages(call.data))
         \cup (IF call.erase THEN SectorOf(call.start) ELSE {})
    [] call.op = "writeFirmware" ->
         UNION {SectorOf(a) : a \in Pages(call.start, FirmwarePages(call.end))}
    [] OTHER -> {}

(***************************************************************************)
(* A write that reports success has left in the flash what it was asked to *)
(* write, whatever was lost on the way or missed.  Only a call that was    *)
(* killed before can deceive it: the words that one was reading come in    *)
(* late and are taken for the new call's.                                  *)
(***************************************************************************)
WriteVerified ==
  ~killed =>
  /\ Succeeded("writeEPCQ") =>
       \A i \in 1 .. Len(current.data) : flash[current.start + i - 1] = current.data[i]
  /\ Succeeded("writeFirmware") =>
       \A i \in 1 .. FirmwarePages(current.end) * PageWords :
         flash[current.start + i - 1] =
           current.data[IF i > Len(current.data) THEN Len(current.data) ELSE i]

(***************************************************************************)
(* No word changes outside what some call was asked to write.  The one way *)
(* it can: an ESA is lost and its wait is ended by an answer that belongs  *)
(* to an earlier command, the ERB writeFirmware does not wait for or a     *)
(* command of a call that was killed.                                      *)
(***************************************************************************)
EarlyDone == killed \/ \E i \in 1 .. Len(calls) : calls[i].op = "writeFirmware"
OthersUntouched ==
  [][\A a \in DOMAIN flash :
       flash'[a] # flash[a] =>
         \/ \E i \in 1 .. Len(calls) : a \in Target(calls[i])
         \/ EarlyDone /\ \E i \in 1 .. Len(lost) : lost[i] = "ESA"]_flashVars

(***************************************************************************)
(* The waits of writeEPCQ and readEPCQ are enough: none of their commands  *)
(* reaches the board while it is busy with another, even when a packet is  *)
(* lost, unless something is left over from an earlier call.               *)
(***************************************************************************)
CommandsCarriedOut == refused => EarlyDone

(***************************************************************************)
(* A read that returns has written to its file, page by page, the words of *)
(* the flash; of the words after the last full page only a quarter.  Again *)
(* unless a call was killed before, whose answers are still under way.     *)
(***************************************************************************)
FileIsFlash ==
  (~killed /\ Succeeded("readEPCQ")) =>
    LET left == current.words % PageWords
    IN outfile = Words(current.start, current.words - left + left \div 4)

(***************************************************************************)
(* No call waits for ever, unless a packet was lost on the way, the answer *)
(* it needs came while no socket was open for it, or the board did not     *)
(* carry out a command.                                                    *)
(***************************************************************************)
CallEnds == Running ~> (~Running \/ missed \/ refused \/ lost # << >>)
=============================================================================
