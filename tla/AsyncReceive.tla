---------------------------- MODULE AsyncReceive ----------------------------
(***************************************************************************)
(* The receive threads of the DAQ server (server/src/ODILEServer.cpp):     *)
(* launchAsyncThread, asyncRecieve, getWordsRead, closeAsyncThread and the *)
(* destructor, and take_image, the tool that waits for an image.           *)
(*                                                                         *)
(* A thread and the program share the thread's arguments: the program sets *)
(* stop and reads nread and finished without a lock.  Deleted arguments    *)
(* stay in the list, so a later call reads freed memory; what it finds     *)
(* there is arbitrary.                                                     *)
(***************************************************************************)
EXTENDS Integers, UdpSockets

CONSTANTS
  MaxThreads,  \* bound: threads launched
  Ports,       \* ports the threads listen on
  NPix,        \* words of the image take_image waits for
  MaxWords,    \* bound: words the board sends
  PacketWords, \* words a packet may hold
  Garbage      \* what uninitialised memory may hold

ASSUME ThreadsAssumption == MaxThreads \in Nat \ {0}
ASSUME NPixAssumption == NPix \in Nat \ {0}
ASSUME MaxWordsAssumption == MaxWords \in Nat
ASSUME PacketWordsAssumption == PacketWords \subseteq Nat \ {0}
ASSUME GarbageAssumption == Garbage \in Nat

Ids == 1 .. MaxThreads

VARIABLES
  tool,        \* the program: "take_image", or any other user of the library
  pc,          \* where the program is
  cur,         \* the thread closeAsyncThread is closing
  destroyed,   \* threads the destructor has closed, or -1 outside of it
  launched,    \* thread_args.size()
  npixRead,    \* the last answer of getWordsRead for the first thread
  header,      \* take_image has written the FITS header
  thread,      \* where each thread is
  stop, finished, nread, port, pix,   \* the arguments of each thread
  freed,       \* the arguments have been deleted
  written,     \* words of each thread handed to its file
  packet,      \* words received, counted in nread and not written yet
  sockets,     \* bound ports and what waits in them
  sent,        \* history: words the board has sent
  explicit,    \* history: closeAsyncThread was called by the program itself
  dangling,    \* history: deleted arguments were read
  uninit       \* history: nread was read before the thread had set it

progVars == <<tool, pc, cur, destroyed, launched, npixRead, header>>
argVars == <<stop, finished, nread, port, pix, freed>>
threadVars == <<thread, written, packet>>
histVars == <<explicit, dangling, uninit>>
asyncVars == <<progVars, argVars, threadVars, sockets, sent, histVars>>

AsyncInit ==
  /\ tool \in {"take_image", "other"}
  /\ pc = "user" /\ cur = 1 /\ destroyed = -1 /\ launched = 0
  /\ npixRead = 0 /\ header = FALSE
  /\ thread = [id \in Ids |-> "none"]
  /\ stop = [id \in Ids |-> FALSE] /\ finished = [id \in Ids |-> FALSE]
  /\ nread = [id \in Ids |-> 0]
  /\ port = [id \in Ids |-> 0] /\ pix = [id \in Ids |-> 0]
  /\ freed = [id \in Ids |-> FALSE]
  /\ written = [id \in Ids |-> 0] /\ packet = [id \in Ids |-> 0]
  /\ sockets = NoSockets /\ sent = 0
  /\ explicit = FALSE /\ dangling = FALSE /\ uninit = FALSE

\* The process lives: main has not returned and nothing has terminated it.
Alive == pc \notin {"returned", "terminated", "undefined"}

-----------------------------------------------------------------------------
\* The thread.

\* The file is opened (a binary one gets its header), then nread is set.
ThreadStart(id) ==
  /\ thread[id] = "start"
  /\ nread' = [nread EXCEPT ![id] = 0]
  /\ thread' = [thread EXCEPT ![id] = "bind"]
  /\ UNCHANGED <<progVars, stop, finished, port, pix, freed, written, packet,
                 sockets, sent, histVars>>

ThreadBind(id) ==
  /\ thread[id] = "bind" /\ can_bind(sockets, port[id])
  /\ sockets' = udp_server(sockets, port[id])
  /\ thread' = [thread EXCEPT ![id] = "loop"]
  /\ UNCHANGED <<progVars, argVars, written, packet, sent, histVars>>

\* The constructor throws, nobody catches it: std::terminate.
ThreadBindFails(id) ==
  /\ thread[id] = "bind" /\ ~can_bind(sockets, port[id])
  /\ pc' = "terminated"
  /\ UNCHANGED <<tool, cur, destroyed, launched, npixRead, header, argVars,
                 threadVars, sockets, sent, histVars>>

\* timed_recv found a packet. (It never waits; without one the loop repeats.)
ThreadReceive(id) ==
  /\ thread[id] = "loop" /\ ~stop[id] /\ has_packet(sockets, port[id])
  /\ packet' = [packet EXCEPT ![id] = recv(sockets, port[id])]
  /\ nread' = [nread EXCEPT ![id] = @ + recv(sockets, port[id])]
  /\ sockets' = after_recv(sockets, port[id])
  /\ thread' = [thread EXCEPT ![id] = "write"]
  /\ UNCHANGED <<progVars, stop, finished, port, pix, freed, written, sent, histVars>>

\* A FITS file takes words only until the image is full (curr_pix).
\* Mutant: the last packet is left out when it would fill the image.
TakesPacketButLast(id) == pix[id] = 0 \/ written[id] + packet[id] < pix[id]
TakesPacket(id) == pix[id] = 0 \/ written[id] + 1 <= pix[id]

ThreadWrite(id) ==
  /\ thread[id] = "write"
  /\ written' = [written EXCEPT ![id] = IF TakesPacket(id) THEN @ + packet[id] ELSE @]
  /\ packet' = [packet EXCEPT ![id] = 0]
  /\ thread' = [thread EXCEPT ![id] = "loop"]
  /\ UNCHANGED <<progVars, argVars, sockets, sent, histVars>>

\* Mutant: the thread waits for a packet before it looks at stop.
ThreadFinishBlocking(id) ==
  /\ thread[id] = "loop" /\ stop[id] /\ has_packet(sockets, port[id])
  /\ finished' = [finished EXCEPT ![id] = TRUE]
  /\ thread' = [thread EXCEPT ![id] = "ending"]
  /\ UNCHANGED <<progVars, stop, nread, port, pix, freed, written, packet,
                 sockets, sent, histVars>>

\* The file is closed and finished set ...
ThreadFinish(id) ==
  /\ thread[id] = "loop" /\ stop[id]
  /\ finished' = [finished EXCEPT ![id] = TRUE]
  /\ thread' = [thread EXCEPT ![id] = "ending"]
  /\ UNCHANGED <<progVars, stop, nread, port, pix, freed, written, packet,
                 sockets, sent, histVars>>

\* ... and pthread_exit unwinds the stack, which closes the socket.
ThreadExit(id) ==
  /\ thread[id] = "ending"
  /\ sockets' = udp_server_close(sockets, port[id])
  /\ thread' = [thread EXCEPT ![id] = "exited"]
  /\ UNCHANGED <<progVars, argVars, written, packet, sent, histVars>>

ThreadStep(id) ==
  /\ Alive
  /\ \/ ThreadStart(id) \/ ThreadBind(id) \/ ThreadBindFails(id)
     \/ ThreadReceive(id) \/ ThreadWrite(id) \/ ThreadFinish(id) \/ ThreadExit(id)

-----------------------------------------------------------------------------
\* The library, called by the program.

\* nread is not initialised: it is what the memory held.
launchAsyncThread(p, pixels) ==
  /\ launched < MaxThreads
  /\ launched' = launched + 1
  /\ \E memory \in {0, Garbage} : nread' = [nread EXCEPT ![launched'] = memory]
  /\ port' = [port EXCEPT ![launched'] = p]
  /\ pix' = [pix EXCEPT ![launched'] = pixels]
  /\ thread' = [thread EXCEPT ![launched'] = "start"]
  /\ UNCHANGED <<tool, pc, cur, destroyed, npixRead, header, stop, finished, freed,
                 written, packet, sockets, sent, histVars>>

\* Deleted memory: finished may read as either.
finishedSeen(id) == IF freed[id] THEN BOOLEAN ELSE {finished[id]}
isValidThread(id, seen) == id <= launched /\ ~seen

\* Mutant: the count is given out only when the thread has finished.
getWordsReadFinished(id) ==
  /\ npixRead' = IF id # 1 THEN npixRead ELSE IF finished[id] THEN nread[id] ELSE -1
  /\ UNCHANGED <<tool, pc, cur, destroyed, launched, header, argVars, threadVars,
                 sockets, sent, histVars>>

getWordsRead(id) ==
  /\ \E seen \in finishedSeen(id) :
       npixRead' = IF id # 1 THEN npixRead
                   ELSE IF ~isValidThread(id, seen) THEN -1
                   ELSE IF freed[id] THEN Garbage ELSE nread[id]
  /\ uninit' = (uninit \/ thread[id] = "start")
  /\ dangling' = (dangling \/ freed[id])
  /\ UNCHANGED <<tool, pc, cur, destroyed, launched, header, argVars, threadVars,
                 sockets, sent, explicit>>

\* closeAsyncThread, called by the program (explicit) or by the destructor.
closeAsyncThread(id) ==
  /\ pc' = "close" /\ cur' = id
  /\ UNCHANGED <<tool, launched, npixRead, header, argVars, threadVars,
                 sockets, sent, dangling, uninit>>

CloseReturns == pc' = IF destroyed >= 0 THEN "destroy" ELSE "user"

CloseCheck ==
  /\ pc = "close"
  /\ dangling' = (dangling \/ (cur <= launched /\ freed[cur]))
  /\ \E seen \in finishedSeen(cur) :
       \/ /\ ~isValidThread(cur, seen) /\ CloseReturns /\ UNCHANGED stop
       \* stop, join and delete of what is deleted already
       \/ /\ isValidThread(cur, seen) /\ freed[cur]
          /\ pc' = "undefined" /\ UNCHANGED stop
       \/ /\ isValidThread(cur, seen) /\ ~freed[cur]
          /\ stop' = [stop EXCEPT ![cur] = TRUE] /\ pc' = "join"
  /\ UNCHANGED <<tool, cur, destroyed, launched, npixRead, header, finished, nread,
                 port, pix, freed, threadVars, sockets, sent, explicit, uninit>>

\* Mutant: the arguments are deleted once the thread says it is finished.
CloseJoinFinished ==
  /\ pc = "join" /\ finished[cur]
  /\ pc' = "delete"
  /\ UNCHANGED <<tool, cur, destroyed, launched, npixRead, header, argVars,
                 threadVars, sockets, sent, histVars>>

CloseJoin ==
  /\ pc = "join" /\ thread[cur] = "exited"
  /\ pc' = "delete"
  /\ UNCHANGED <<tool, cur, destroyed, launched, npixRead, header, argVars,
                 threadVars, sockets, sent, histVars>>

CloseDelete ==
  /\ pc = "delete"
  /\ freed' = [freed EXCEPT ![cur] = TRUE]
  /\ CloseReturns
  /\ UNCHANGED <<tool, cur, destroyed, launched, npixRead, header, stop, finished,
                 nread, port, pix, threadVars, sockets, sent, histVars>>

\* Mutant: the last thread of the list is left out.
DestroyStepOffByOne ==
  /\ pc = "destroy"
  /\ IF destroyed + 1 < launched
     THEN /\ destroyed' = destroyed + 1
          /\ closeAsyncThread(destroyed + 1)
     ELSE /\ pc' = "returned"
          /\ UNCHANGED <<tool, cur, destroyed, launched, npixRead, header, argVars,
                         threadVars, sockets, sent, dangling, uninit>>
  /\ UNCHANGED explicit

\* The destructor closes every thread of the list, in order.
DestroyStep ==
  /\ pc = "destroy"
  /\ IF destroyed < launched
     THEN /\ destroyed' = destroyed + 1
          /\ closeAsyncThread(destroyed + 1)
     ELSE /\ pc' = "returned"
          /\ UNCHANGED <<tool, cur, destroyed, launched, npixRead, header, argVars,
                         threadVars, sockets, sent, dangling, uninit>>
  /\ UNCHANGED explicit

Destroy ==
  /\ pc' = "destroy" /\ destroyed' = 0
  /\ UNCHANGED <<tool, cur, launched, npixRead, header, argVars, threadVars,
                 sockets, sent, histVars>>

LibraryStep == CloseCheck \/ CloseJoin \/ CloseDelete \/ DestroyStep

-----------------------------------------------------------------------------
\* The programs.

\* take_image: one FITS thread, polled until all pixels are there; then the
\* compile time of the firmware is asked for and the header written, while the
\* thread still has the file open; the destructor ends the thread.
TakeImage ==
  /\ tool = "take_image"
  /\ \/ /\ pc = "user" /\ launched = 0
        /\ \E p \in Ports : launchAsyncThread(p, NPix)
     \/ /\ pc = "user" /\ launched = 1 /\ npixRead < NPix
        /\ getWordsRead(1)
     \/ /\ pc = "user" /\ launched = 1 /\ npixRead >= NPix /\ ~header
        \* the answer is read, or it was missed: recv blocks for ever
        /\ \/ header' = TRUE /\ UNCHANGED pc
           \/ pc' = "blocked" /\ UNCHANGED header
        /\ UNCHANGED <<tool, cur, destroyed, launched, npixRead, argVars,
                       threadVars, sockets, sent, histVars>>
     \/ pc = "user" /\ header /\ Destroy

\* Any other user of the class: calls in any order.
OtherProgram ==
  /\ tool = "other" /\ pc = "user"
  /\ \/ \E p \in Ports, pixels \in {0, NPix} : launchAsyncThread(p, pixels)
     \/ \E id \in Ids : id <= launched /\ getWordsRead(id)
     \/ \E id \in Ids : /\ closeAsyncThread(id)
                        /\ explicit' = TRUE /\ UNCHANGED destroyed
     \/ Destroy

\* The board sends a packet of words; the machine may have to drop it.
BoardSends(p, n) ==
  /\ sent + n <= MaxWords
  /\ sent' = sent + n
  /\ sockets' = arrive(sockets, Packet(p, n))
  /\ UNCHANGED <<progVars, argVars, threadVars, histVars>>

AsyncNext ==
  \/ \E id \in Ids : ThreadStep(id)
  \/ LibraryStep \/ TakeImage \/ OtherProgram
  \/ Alive /\ \E p \in Ports, n \in PacketWords : BoardSends(p, n)

AsyncSpec == AsyncInit /\ [][AsyncNext]_asyncVars

(***************************************************************************)
(* The operating system runs every thread, and the program while it is in  *)
(* the library or, as take_image, in a loop of its own.  The board need    *)
(* not send anything and no other program need make a call.                *)
(***************************************************************************)
FairAsyncSpec ==
  /\ AsyncSpec
  /\ \A id \in Ids : WF_asyncVars(ThreadStep(id))
  /\ WF_asyncVars(LibraryStep) /\ WF_asyncVars(TakeImage)

-----------------------------------------------------------------------------
SocketsOK(socks) == \A p \in DOMAIN socks : socks[p] \in Seq(PacketWords)

ProgramTypeOK ==
  /\ tool \in {"take_image", "other"}
  /\ pc \in {"user", "close", "join", "delete", "destroy", "blocked",
             "returned", "terminated", "undefined"}
  /\ cur \in Ids /\ destroyed \in -1 .. MaxThreads /\ launched \in 0 .. MaxThreads
  /\ npixRead \in Int /\ header \in BOOLEAN
  /\ explicit \in BOOLEAN /\ dangling \in BOOLEAN /\ uninit \in BOOLEAN

ThreadTypeOK ==
  /\ thread \in [Ids -> {"none", "start", "bind", "loop", "write", "ending", "exited"}]
  /\ stop \in [Ids -> BOOLEAN] /\ finished \in [Ids -> BOOLEAN]
  /\ freed \in [Ids -> BOOLEAN]
  /\ nread \in [Ids -> Nat] /\ pix \in [Ids -> Nat]
  /\ written \in [Ids -> Nat] /\ packet \in [Ids -> Nat]
  /\ SocketsOK(sockets)

AsyncTypeOK == ProgramTypeOK /\ ThreadTypeOK

(***************************************************************************)
(* A thread that has not ended never finds its arguments deleted: delete   *)
(* comes after the join, and no thread is ever launched on deleted ones.   *)
(***************************************************************************)
ArgsOutliveThread == \A id \in Ids : freed[id] => thread[id] = "exited"

(***************************************************************************)
(* A program that leaves the closing to the destructor, as all the tools   *)
(* do, never reads deleted arguments, and when it returns every thread has *)
(* been joined and its arguments deleted.                                  *)
(***************************************************************************)
DestructorIsEnough ==
  ~explicit =>
    /\ ~dangling /\ pc # "undefined"
    /\ pc = "returned" => \A id \in 1 .. launched : thread[id] = "exited" /\ freed[id]

(***************************************************************************)
(* take_image writes its header only when the words of the whole image     *)
(* have been handed to the file, but for a last packet that is counted     *)
(* before it is written; unless it read nread before the thread had set    *)
(* it.                                                                     *)
(***************************************************************************)
HeaderAfterImage ==
  (header /\ ~uninit) => written[1] + packet[1] >= NPix

(***************************************************************************)
(* closeAsyncThread returns: the thread looks at stop whether or not words *)
(* come in.                                                                *)
(***************************************************************************)
CloseEnds == (pc \in {"close", "join", "delete"}) ~> (pc \notin {"close", "join", "delete"})

(***************************************************************************)
(* An image that has come in completely is seen by take_image, which then  *)
(* writes the header and returns, or blocks for want of the compile time.  *)
(***************************************************************************)
ImageEnds ==
  (tool = "take_image" /\ thread[1] = "loop" /\ nread[1] >= NPix)
    ~> (pc \in {"returned", "blocked"})

-----------------------------------------------------------------------------
(***************************************************************************)
(* The inductive invariant behind the three safety properties.             *)
(***************************************************************************)
Closing == {"close", "join", "delete"}

\* Threads and their arguments: what is launched, stopped and joined when.
Lifetimes ==
  /\ ArgsOutliveThread
  /\ \A id \in Ids :
       /\ (thread[id] = "none") <=> (id > launched)
       /\ finished[id] => stop[id]
       /\ thread[id] \in {"ending", "exited"} => stop[id]
  /\ pc \in {"join", "delete"} => cur <= launched /\ ~freed[cur]
  /\ pc = "delete" => thread[cur] = "exited"
  /\ pc = "destroy" => destroyed >= 0

\* A program that never closes: the destructor works through the list once.
InDestructor ==
  /\ pc \in Closing => cur = destroyed /\ destroyed >= 1
  /\ pc \in {"destroy", "returned"} => destroyed >= 0
  /\ pc \in {"user", "blocked"} => destroyed = -1
  /\ pc = "returned" => destroyed = launched
  /\ pc = "close" => ~stop[cur] /\ ~freed[cur]
  /\ destroyed <= launched
  /\ \A id \in Ids :
       /\ id > destroyed => ~freed[id] /\ ~stop[id]
       /\ id < destroyed => freed[id]
       /\ pc \in {"destroy", "returned"} /\ id = destroyed => freed[id]

DestructorInv == ~explicit => InDestructor /\ ~dangling /\ pc # "undefined"

\* Words: all that are counted are in the file or on their way to it, until a
\* FITS image is full.
Counted(id) ==
  /\ thread[id] \in {"none", "start", "bind"} => written[id] = 0
  /\ thread[id] # "write" => packet[id] = 0
  /\ thread[id] \notin {"none", "start"} /\ (pix[id] = 0 \/ written[id] < pix[id])
       => nread[id] = written[id] + packet[id]

ImageInv ==
  /\ \A id \in Ids : Counted(id)
  /\ tool = "take_image" => /\ ~explicit /\ launched <= 1
                            /\ launched = 1 => pix[1] = NPix
                            /\ launched = 0 => npixRead = 0
  /\ header => tool = "take_image" /\ npixRead >= NPix
  /\ (tool = "take_image" /\ npixRead >= NPix /\ ~uninit) =>
       written[1] + packet[1] >= NPix

AsyncInv == AsyncTypeOK /\ Lifetimes /\ DestructorInv /\ ImageInv
=============================================================================
