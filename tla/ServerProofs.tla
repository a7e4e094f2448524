---------------------------- MODULE ServerProofs ----------------------------
(***************************************************************************)
(* The DAQ server library: first the dialogues with the flash of the       *)
(* board, for every set of calls, flash and number of lost packets, then   *)
(* the receive threads, for every number of threads and packet size.       *)
(*                                                                         *)
(* The invariant of the dialogues is the conjunction of                    *)
(*   Base      where the program is, and what every variable may hold;     *)
(*   Line      what is under way: at most one command, its answer or       *)
(*             neither (Exchange), or nothing (Quiet); on the first page   *)
(*             of writeFirmware also the answer to the ERB nobody waited   *)
(*             for (Loud);                                                 *)
(*   Memory    which address the board knows, and what was read, stored    *)
(*             and programmed up to the current page;                      *)
(*   Carried   no command meets a busy board.                              *)
(* Line and Memory speak of programs of which none was killed: what a      *)
(* killed call has asked for arrives in the next one.                      *)
(* After a kill a second invariant, InOrder, is left: packets do not       *)
(* overtake each other, so that every erase and program still works at     *)
(* the address its own call has sent.                                      *)
(*                                                                         *)
(* The receive threads: no thread outlives its arguments, the destructor   *)
(* joins and deletes each thread once, and take_image writes its header    *)
(* behind a complete image.                                                *)
(***************************************************************************)
EXTENDS AsyncReceive, OdileFlash, TLAPS

-----------------------------------------------------------------------------
(* The steps of a call *)

LEMMA Concatenated ==
  ASSUME NEW S, NEW s \in Seq(S), NEW t \in Seq(S), NEW m, NEW n,
         Len(s) = m, Len(t) = n
  PROVE  /\ s \o t \in Seq(S)
         /\ Len(s \o t) = m + n
         /\ \A i \in 1 .. m : (s \o t)[i] = s[i]
         /\ \A i \in 1 .. n : (s \o t)[m + i] = t[i]
  OBVIOUS

LEMMA Setup ==
  ASSUME NEW a, NEW b, NEW c, NEW d, NEW e, NEW f
  PROVE  \A r : r = << a, b, c, d >> \o << e, f >>
                => /\ Len(r) = 6
                   /\ r[1] = a /\ r[2] = b /\ r[3] = c /\ r[4] = d /\ r[5] = e /\ r[6] = f
<1> DEFINE S == {a, b, c, d, e, f}
           s == << a, b, c, d >>
           t == << e, f >>
           m == 4
           n == 2
<1>1. s \in Seq(S) /\ t \in Seq(S) /\ Len(s) = m /\ Len(t) = n
  OBVIOUS
<1>2. s[1] = a /\ s[2] = b /\ s[3] = c /\ s[4] = d /\ t[1] = e /\ t[2] = f
  OBVIOUS
<1>3. m = 4 /\ n = 2
  OBVIOUS
<1> HIDE DEF S, s, t, m, n
<1>4. /\ Len(s \o t) = m + n
      /\ \A i \in 1 .. m : (s \o t)[i] = s[i]
      /\ \A i \in 1 .. n : (s \o t)[m + i] = t[i]
  BY <1>1, Concatenated
<1> DEFINE q == s \o t
<1>5. << a, b, c, d >> \o << e, f >> = q
  BY DEF s, t
<1>6. /\ Len(q) = m + n
      /\ \A i \in 1 .. m : q[i] = s[i]
      /\ \A i \in 1 .. n : q[m + i] = t[i]
  BY <1>4
<1> HIDE DEF q
<1>7. /\ Len(q) = 6
      /\ \A i \in 1 .. 4 : q[i] = s[i]
      /\ \A i \in 1 .. 2 : q[4 + i] = t[i]
  BY <1>3, <1>6
<1>8. Len(q) = 6 /\ q[1] = a /\ q[2] = b /\ q[3] = c /\ q[4] = d /\ q[5] = e /\ q[6] = f
  BY <1>2, <1>7
<1> QED BY <1>5, <1>8

LEMMA Cat0 ==
  ASSUME NEW a, NEW b
  PROVE  /\ << a, b >> \o << >> = << a, b >>
         /\ \A c, d : << a, b, c, d >> \o << >> = << a, b, c, d >>
<1>1. << a, b >> \in Seq({a, b})
  OBVIOUS
<1>2. \A c, d : << a, b, c, d >> \in Seq({a, b, c, d})
  OBVIOUS
<1>3. \A S : \A s \in Seq(S) : s \o << >> = s
  OBVIOUS
<1> QED BY <1>1, <1>2, <1>3

\* r is two steps, two more, and the eight of u; or two, and the eight of u.
Joined(a, b, c, d, u, r) ==
  Len(u) = 8 /\ u \in Seq({u[i] : i \in 1 .. 8}) /\ r = (<< a, b >> \o << c, d >>) \o u
JoinedShort(a, b, u, r) ==
  Len(u) = 8 /\ u \in Seq({u[i] : i \in 1 .. 8}) /\ r = (<< a, b >> \o << >>) \o u

LEMMA FirstPage ==
  ASSUME NEW a, NEW b, NEW c, NEW d, NEW u, NEW r
  PROVE  Joined(a, b, c, d, u, r)
         => /\ Len(r) = 12
            /\ r[1] = a /\ r[2] = b /\ r[3] = c /\ r[4] = d
            /\ \A i \in 1 .. 8 : r[4 + i] = u[i]
<1> HAVE Joined(a, b, c, d, u, r)
<1>0. Len(u) = 8 /\ u \in Seq({u[i] : i \in 1 .. 8}) /\ r = (<< a, b >> \o << c, d >>) \o u
  BY DEF Joined
<1> DEFINE S == {a, b, c, d} \cup {u[i] : i \in 1 .. 8}
           s == << a, b >>
           t == << c, d >>
           m == 2
           k == 4
           n == 8
<1>1. s \in Seq(S) /\ t \in Seq(S) /\ u \in Seq(S) /\ Len(s) = m /\ Len(t) = m /\ Len(u) = n
  BY <1>0
<1>2. s[1] = a /\ s[2] = b /\ t[1] = c /\ t[2] = d
  OBVIOUS
<1>3. m = 2 /\ n = 8 /\ k = 4 /\ k = m + m
  OBVIOUS
<1> HIDE DEF S, s, t, m, n, k
<1>4. /\ s \o t \in Seq(S) /\ Len(s \o t) = m + m
      /\ \A i \in 1 .. m : (s \o t)[i] = s[i]
      /\ \A i \in 1 .. m : (s \o t)[m + i] = t[i]
  BY <1>1, Concatenated
<1> DEFINE q == s \o t
<1>5. r = q \o u
  BY <1>0 DEF s, t
<1>6. /\ q \in Seq(S) /\ Len(q) = k
      /\ \A i \in 1 .. m : q[i] = s[i]
      /\ \A i \in 1 .. m : q[m + i] = t[i]
  BY <1>3, <1>4
<1> HIDE DEF q
<1>7. q[1] = a /\ q[2] = b /\ q[3] = c /\ q[4] = d
  <2>1. /\ \A i \in 1 .. 2 : q[i] = s[i]
        /\ \A i \in 1 .. 2 : q[2 + i] = t[i]
    BY <1>3, <1>6
  <2> QED BY <1>2, <2>1
<1>8. /\ Len(q \o u) = k + n
      /\ \A i \in 1 .. k : (q \o u)[i] = q[i]
      /\ \A i \in 1 .. n : (q \o u)[k + i] = u[i]
  BY <1>1, <1>6, Concatenated
<1> DEFINE v == q \o u
<1>9. /\ Len(v) = k + n
      /\ \A i \in 1 .. k : v[i] = q[i]
      /\ \A i \in 1 .. n : v[k + i] = u[i]
  BY <1>8
<1>10. r = v
  BY <1>5
<1> HIDE DEF v
<1>11. /\ Len(v) = 12
       /\ \A i \in 1 .. 4 : v[i] = q[i]
       /\ \A i \in 1 .. 8 : v[4 + i] = u[i]
  BY <1>3, <1>9
<1> QED BY <1>7, <1>10, <1>11

LEMMA LaterPage ==
  ASSUME NEW a, NEW b, NEW u, NEW r
  PROVE  JoinedShort(a, b, u, r)
         => /\ Len(r) = 10
            /\ r[1] = a /\ r[2] = b
            /\ \A i \in 1 .. 8 : r[2 + i] = u[i]
<1> HAVE JoinedShort(a, b, u, r)
<1>0. Len(u) = 8 /\ u \in Seq({u[i] : i \in 1 .. 8}) /\ r = (<< a, b >> \o << >>) \o u
  BY DEF JoinedShort
<1> DEFINE S == {a, b} \cup {u[i] : i \in 1 .. 8}
           s == << a, b >>
           m == 2
           n == 8
<1>1. s \in Seq(S) /\ u \in Seq(S) /\ Len(s) = m /\ Len(u) = n
  BY <1>0
<1>2. s[1] = a /\ s[2] = b
  OBVIOUS
<1>3. m = 2 /\ n = 8
  OBVIOUS
<1>5. r = s \o u
  BY <1>0, Cat0
<1> HIDE DEF S, s, m, n
<1>8. /\ Len(s \o u) = m + n
      /\ \A i \in 1 .. m : (s \o u)[i] = s[i]
      /\ \A i \in 1 .. n : (s \o u)[m + i] = u[i]
  BY <1>1, Concatenated
<1> DEFINE v == s \o u
<1>9. /\ Len(v) = m + n
      /\ \A i \in 1 .. m : v[i] = s[i]
      /\ \A i \in 1 .. n : v[m + i] = u[i]
  BY <1>8
<1>10. r = v
  BY <1>5
<1> HIDE DEF v
<1>11. /\ Len(v) = 10
       /\ \A i \in 1 .. 2 : v[i] = s[i]
       /\ \A i \in 1 .. 8 : v[2 + i] = u[i]
  BY <1>3, <1>9
<1> QED BY <1>2, <1>10, <1>11

\* The eight steps of a page, from step o + 1 of a part.
IsPage(s, o, address, page) ==
  /\ s[o + 1] = Command("ESA", 0, address) /\ s[o + 2] = WaitForDone
  /\ s[o + 3] = SendPage(page)
  /\ s[o + 4] = Command("EWR", PageWords, 0) /\ s[o + 5] = WaitForDone
  /\ s[o + 6] = Command("ERD", PageWords, 0) /\ s[o + 7] = Receive(FIRMWARE_PORT)
  /\ s[o + 8] = Compare(page)

LEMMA PageRow ==
  ASSUME NEW address, NEW page
  PROVE  /\ Len(PageSteps(address, page)) = 8
         /\ IsPage(PageSteps(address, page), 0, address, page)
         /\ PageSteps(address, page) \in Seq({PageSteps(address, page)[i] : i \in 1 .. 8})
<1>1. Len(PageSteps(address, page)) = 8 /\ IsPage(PageSteps(address, page), 0, address, page)
  BY DEF PageSteps, IsPage
<1>2. \A a, b, c, d, e, f, g, h, s : s = << a, b, c, d, e, f, g, h >> => s \in Seq({s[i] : i \in 1 .. 8})
  OBVIOUS
<1>3. PageSteps(address, page) \in Seq({PageSteps(address, page)[i] : i \in 1 .. 8})
  BY <1>2 DEF PageSteps
<1> QED BY <1>1, <1>3

\* writeEPCQ: the preparation, the pages, the return.
LEMMA EpcqRow ==
  ASSUME NEW c, c.op = "writeEPCQ", NEW p \in Nat, NEW s, s = Steps(c, p)
  PROVE  /\ Len(c.data) > SectorWords => s = << Return("error") >>
         /\ (~(Len(c.data) > SectorWords) /\ p = 0) =>
              /\ Len(s) = (IF c.erase THEN 6 ELSE 4)
              /\ s[1] = Command("ERB", 0, 0) /\ s[2] = WaitForDone
              /\ s[3] = Command("ESA", 0, c.start) /\ s[4] = WaitForDone
              /\ c.erase => s[5] = Command("ESE", 0, 0) /\ s[6] = WaitForDone
         /\ (~(Len(c.data) > SectorWords) /\ p # 0 /\ p <= EpcqPages(c.data)) =>
              Len(s) = 8 /\ IsPage(s, 0, PageAt(c, p), EpcqPage(c.data, p))
         /\ (~(Len(c.data) > SectorWords) /\ p # 0 /\ ~(p <= EpcqPages(c.data))) =>
              s = << Return("ok") >>
<1>1. s = writeEPCQ(c, p)
  BY DEF Steps
<1>2. CASE ~(Len(c.data) > SectorWords) /\ p = 0 /\ c.erase
  <2>1. s = << Command("ERB", 0, 0), WaitForDone, Command("ESA", 0, c.start), WaitForDone >>
              \o << Command("ESE", 0, 0), WaitForDone >>
    BY <1>1, <1>2 DEF writeEPCQ
  <2> QED BY <2>1, <1>2, Setup
<1>3. CASE ~(Len(c.data) > SectorWords) /\ p = 0 /\ ~c.erase
  <2>1. s = << Command("ERB", 0, 0), WaitForDone, Command("ESA", 0, c.start), WaitForDone >> \o << >>
    BY <1>1, <1>3 DEF writeEPCQ
  <2>2. s = << Command("ERB", 0, 0), WaitForDone, Command("ESA", 0, c.start), WaitForDone >>
    BY <2>1, Cat0
  <2> QED BY <2>2, <1>3
<1>4. CASE ~(Len(c.data) > SectorWords) /\ p # 0 /\ p <= EpcqPages(c.data)
  <2>1. s = PageSteps(PageAt(c, p), EpcqPage(c.data, p))
    BY <1>1, <1>4 DEF writeEPCQ
  <2> QED BY <2>1, <1>4, PageRow
<1>5. CASE ~(Len(c.data) > SectorWords) /\ p # 0 /\ ~(p <= EpcqPages(c.data))
  BY <1>1, <1>5 DEF writeEPCQ
<1>6. CASE Len(c.data) > SectorWords
  BY <1>1, <1>6 DEF writeEPCQ
<1> QED BY <1>2, <1>3, <1>4, <1>5, <1>6

\* writeFirmware: a page at the edge of a sector erases it first.
LEMMA FirmwareRow ==
  ASSUME NEW c, c.op = "writeFirmware", NEW p \in Nat, NEW s, s = Steps(c, p)
  PROVE  /\ c.start % SectorWords # 0 => s = << Return("error") >>
         /\ (c.start % SectorWords = 0 /\ p = 0) => s = << Command("ERB", 0, 0) >>
         /\ (c.start % SectorWords = 0 /\ p # 0 /\ p <= FirmwarePages(c.end)) =>
              /\ s[1] = Command("ESA", 0, PageAt(c, p)) /\ s[2] = WaitForDone
              /\ PageAt(c, p) % SectorWords = 0 =>
                   /\ Len(s) = 12
                   /\ s[3] = Command("ESE", 0, 0) /\ s[4] = WaitForDone
                   /\ IsPage(s, 4, PageAt(c, p), FirmwarePage(c.data, p))
              /\ PageAt(c, p) % SectorWords # 0 =>
                   /\ Len(s) = 10
                   /\ IsPage(s, 2, PageAt(c, p), FirmwarePage(c.data, p))
         /\ (c.start % SectorWords = 0 /\ p # 0 /\ ~(p <= FirmwarePages(c.end))) =>
              s = << Return("ok") >>
<1>1. s = writeFirmware(c, p)
  BY DEF Steps
<1> DEFINE u == PageSteps(PageAt(c, p), FirmwarePage(c.data, p))
<1>u. /\ Len(u) = 8 /\ IsPage(u, 0, PageAt(c, p), FirmwarePage(c.data, p))
      /\ u \in Seq({u[i] : i \in 1 .. 8})
  BY PageRow
<1>2. CASE c.start % SectorWords = 0 /\ p # 0 /\ p <= FirmwarePages(c.end) /\ PageAt(c, p) % SectorWords = 0
  <2>1. s = (<< Command("ESA", 0, PageAt(c, p)), WaitForDone >>
              \o << Command("ESE", 0, 0), WaitForDone >>) \o u
    BY <1>1, <1>2 DEF writeFirmware
  <2> HIDE DEF u
  <2>2. /\ Len(s) = 12
        /\ s[1] = Command("ESA", 0, PageAt(c, p)) /\ s[2] = WaitForDone
        /\ s[3] = Command("ESE", 0, 0) /\ s[4] = WaitForDone
        /\ \A i \in 1 .. 8 : s[4 + i] = u[i]
    <3>1. Joined(Command("ESA", 0, PageAt(c, p)), WaitForDone, Command("ESE", 0, 0), WaitForDone, u, s)
      BY <2>1, <1>u DEF Joined
    <3> QED BY <3>1, FirstPage
  <2>3. IsPage(s, 4, PageAt(c, p), FirmwarePage(c.data, p))
    BY <2>2, <1>u DEF IsPage
  <2> QED BY <2>2, <2>3, <1>2
<1>3. CASE c.start % SectorWords = 0 /\ p # 0 /\ p <= FirmwarePages(c.end) /\ PageAt(c, p) % SectorWords # 0
  <2>1. s = (<< Command("ESA", 0, PageAt(c, p)), WaitForDone >> \o << >>) \o u
    BY <1>1, <1>3 DEF writeFirmware
  <2> HIDE DEF u
  <2>2. /\ Len(s) = 10
        /\ s[1] = Command("ESA", 0, PageAt(c, p)) /\ s[2] = WaitForDone
        /\ \A i \in 1 .. 8 : s[2 + i] = u[i]
    <3>1. JoinedShort(Command("ESA", 0, PageAt(c, p)), WaitForDone, u, s)
      BY <2>1, <1>u DEF JoinedShort
    <3> QED BY <3>1, LaterPage
  <2>3. IsPage(s, 2, PageAt(c, p), FirmwarePage(c.data, p))
    BY <2>2, <1>u DEF IsPage
  <2> QED BY <2>2, <2>3, <1>3
<1>4. CASE c.start % SectorWords = 0 /\ p = 0
  BY <1>1, <1>4 DEF writeFirmware
<1>5. CASE c.start % SectorWords = 0 /\ p # 0 /\ ~(p <= FirmwarePages(c.end))
  BY <1>1, <1>5 DEF writeFirmware
<1>6. CASE c.start % SectorWords # 0
  BY <1>1, <1>6 DEF writeFirmware
<1> QED BY <1>2, <1>3, <1>4, <1>5, <1>6

\* readEPCQ: a page is stored, then the address of the next one is set.
LEMMA ReadRow ==
  ASSUME NEW c, c.op = "readEPCQ", NEW p \in Nat, NEW s, s = Steps(c, p)
  PROVE  /\ p = 0 => s = << Command("ERB", 0, 0), WaitForDone,
                            Command("ESA", 0, c.start), WaitForDone >>
         /\ (p # 0 /\ p <= c.words \div PageWords) =>
              s = << Command("ERD", PageWords, 0), Receive(FIRMWARE_PORT), Store(4 * PageWords),
                     Command("ESA", 0, PageAt(c, p + 1)), WaitForDone >>
         /\ (p # 0 /\ ~(p <= c.words \div PageWords)) =>
              s = << Command("ERD", c.words % PageWords, 0), Receive(FIRMWARE_PORT),
                     Store(c.words % PageWords), Return("ok") >>
  BY DEF Steps, readEPCQ

LEMMA TimeRow ==
  ASSUME NEW c, c.op = "getCompileTime", NEW p \in Nat, NEW s, s = Steps(c, p)
  PROVE  /\ p = 0 => s = << Command("GCT", 0, 0), Receive(COMMAND_PORT) >>
         /\ p # 0 => s = << Return("ok") >>
  BY DEF Steps, getCompileTime

-----------------------------------------------------------------------------
(***************************************************************************)
(* What the steps of every call have in common: a command is followed by   *)
(* the wait for its answer (but for the ERB of writeFirmware), a wait      *)
(* comes after its command, a page is sent between a wait and a command,   *)
(* and what is compared or stored was read just before.                    *)
(***************************************************************************)
Commands == {"ERB", "ESA", "ESE", "EWR", "ERD", "GCT"}
WaitOf(cmd) ==
  IF cmd = "ERD" THEN Receive(FIRMWARE_PORT)
  ELSE IF cmd = "GCT" THEN Receive(COMMAND_PORT) ELSE WaitForDone
IsCommand(step) ==
  step.do = "sendCommand" /\ step.cmd \in Commands /\ step.prefix \in Nat /\ step.word \in Nat

Sends(s, i) == IsCommand(s[i]) /\ i < Len(s) /\ s[i + 1] = WaitOf(s[i].cmd)
Clears(s, i) == IsCommand(s[i]) /\ s[i].cmd = "ERB" /\ i = 1 /\ Len(s) = 1
Awaits(s, i) == i >= 2 /\ IsCommand(s[i - 1]) /\ s[i] = WaitOf(s[i - 1].cmd)
Loads(s, i) ==
  /\ s[i].do = "sendData" /\ s[i].page \in Seq(Data)
  /\ i >= 2 /\ Waits(s[i - 1]) /\ i < Len(s) /\ IsCommand(s[i + 1])
Uses(s, i) ==
  /\ s[i].do \in {"compare", "store"} /\ i >= 3
  /\ s[i - 1] = Receive(FIRMWARE_PORT) /\ IsCommand(s[i - 2]) /\ s[i - 2].cmd = "ERD"
Ended(s, i) == s[i].do = "return" /\ s[i].value \in {"ok", "error"} /\ i = Len(s)

LastPart(call) ==
  CASE call.op = "writeEPCQ" ->
         IF Len(call.data) > SectorWords THEN 0 ELSE EpcqPages(call.data) + 1
    [] call.op = "writeFirmware" ->
         IF call.start % SectorWords # 0 THEN 0 ELSE FirmwarePages(call.end) + 1
    [] call.op = "readEPCQ" -> call.words \div PageWords + 1
    [] call.op = "getCompileTime" -> 1

StepOK(c, p, s, i) ==
  \/ Sends(s, i)
  \/ Clears(s, i) /\ c.op = "writeFirmware" /\ p = 0 /\ p < LastPart(c)
  \/ Awaits(s, i) \/ Loads(s, i) \/ Uses(s, i)
  \/ Ended(s, i) /\ p = LastPart(c)

PartOK(c, p, s) ==
  /\ Len(s) \in Nat \ {0}
  /\ s[1].do \in {"sendCommand", "return"}
  /\ p < LastPart(c) \/ Ended(s, Len(s))
  /\ \A i \in 1 .. Len(s) : StepOK(c, p, s, i)

\* How a command and a wait look.
LEMMA StepKinds ==
  /\ \A cmd, n, w : Command(cmd, n, w).do = "sendCommand" /\ Command(cmd, n, w).cmd = cmd
                    /\ Command(cmd, n, w).prefix = n /\ Command(cmd, n, w).word = w
  /\ \A cmd \in Commands, n \in Nat, w \in Nat : IsCommand(Command(cmd, n, w))
  /\ WaitForDone.do = "waitForDone" /\ Waits(WaitForDone)
  /\ \A lport : Receive(lport).do = "recieveData" /\ Receive(lport).port = lport /\ Waits(Receive(lport))
  /\ \A page : /\ SendPage(page).do = "sendData" /\ SendPage(page).page = page
               /\ Compare(page).do = "compare" /\ Compare(page).page = page
  /\ \A n : Store(n).do = "store" /\ Store(n).bytes = n
  /\ \A v : Return(v).do = "return" /\ Return(v).value = v
  /\ WaitOf("ERD") = Receive(FIRMWARE_PORT) /\ WaitOf("GCT") = Receive(COMMAND_PORT)
  /\ \A cmd \in {"ERB", "ESA", "ESE", "EWR"} : WaitOf(cmd) = WaitForDone
  BY DEF Command, IsCommand, WaitForDone, Waits, Receive, SendPage, Compare, Store, Return, WaitOf

\* The steps of a page.
HasPage(s, o, address, page) ==
  /\ o \in Nat /\ address \in Nat /\ page \in Seq(Data)
  /\ IsPage(s, o, address, page) /\ Len(s) = o + 8

LEMMA PageShape ==
  ASSUME NEW c, NEW p, NEW s, NEW o, NEW address, NEW page, HasPage(s, o, address, page)
  PROVE  \A i \in Nat : i > o /\ i <= Len(s) => StepOK(c, p, s, i)
<1>h. /\ o \in Nat /\ address \in Nat /\ page \in Seq(Data)
      /\ IsPage(s, o, address, page) /\ Len(s) = o + 8
  BY DEF HasPage
<1>c. {"ERB", "ESA", "ESE", "EWR", "ERD", "GCT"} = Commands
  BY DEF Commands
<1>p. /\ s[o + 1] = Command("ESA", 0, address) /\ s[o + 2] = WaitForDone
      /\ s[o + 3] = SendPage(page)
      /\ s[o + 4] = Command("EWR", PageWords, 0) /\ s[o + 5] = WaitForDone
      /\ s[o + 6] = Command("ERD", PageWords, 0) /\ s[o + 7] = Receive(FIRMWARE_PORT)
      /\ s[o + 8] = Compare(page)
  BY <1>h DEF IsPage
<1>1. /\ IsCommand(s[o + 1]) /\ s[o + 1].cmd = "ESA"
      /\ IsCommand(s[o + 4]) /\ s[o + 4].cmd = "EWR"
      /\ IsCommand(s[o + 6]) /\ s[o + 6].cmd = "ERD"
      /\ s[o + 2] = WaitOf("ESA") /\ s[o + 5] = WaitOf("EWR") /\ s[o + 7] = WaitOf("ERD")
      /\ s[o + 3].do = "sendData" /\ s[o + 3].page = page /\ Waits(s[o + 2])
      /\ s[o + 8].do = "compare"
  <2>1. \A n \in Nat, w \in Nat : /\ IsCommand(Command("ESA", n, w)) /\ Command("ESA", n, w).cmd = "ESA"
                                  /\ IsCommand(Command("EWR", n, w)) /\ Command("EWR", n, w).cmd = "EWR"
                                  /\ IsCommand(Command("ERD", n, w)) /\ Command("ERD", n, w).cmd = "ERD"
    BY DEF Command, IsCommand, Commands
  <2>2. 0 \in Nat /\ PageWords \in Nat
    BY FlashAssumption
  <2>3. /\ IsCommand(s[o + 1]) /\ s[o + 1].cmd = "ESA"
        /\ IsCommand(s[o + 4]) /\ s[o + 4].cmd = "EWR"
        /\ IsCommand(s[o + 6]) /\ s[o + 6].cmd = "ERD"
    BY <1>p, <1>h, <2>1, <2>2
  <2>4. WaitOf("ESA") = WaitForDone /\ WaitOf("EWR") = WaitForDone /\ WaitOf("ERD") = Receive(FIRMWARE_PORT)
    BY DEF WaitOf
  <2>5. Waits(WaitForDone)
    BY DEF Waits, WaitForDone
  <2>6. s[o + 3].do = "sendData" /\ s[o + 3].page = page /\ s[o + 8].do = "compare"
    <3>1. /\ SendPage(page).do = "sendData" /\ SendPage(page).page = page
          /\ Compare(page).do = "compare"
      BY DEF SendPage, Compare
    <3> QED BY <1>p, <3>1, Zenon
  <2> QED BY <1>p, <2>3, <2>4, <2>5, <2>6, Zenon
<1>e. /\ s[o + 7] = Receive(FIRMWARE_PORT) /\ Len(s) = o + 8
      /\ page \in Seq(Data) /\ o \in Nat
  BY <1>p, <1>h
<1>i. /\ o + 1 + 1 = o + 2 /\ o + 4 + 1 = o + 5 /\ o + 6 + 1 = o + 7 /\ o + 3 + 1 = o + 4
      /\ o + 2 - 1 = o + 1 /\ o + 5 - 1 = o + 4 /\ o + 7 - 1 = o + 6 /\ o + 3 - 1 = o + 2
      /\ o + 8 - 1 = o + 7 /\ o + 8 - 2 = o + 6
  BY <1>h
<1>j. /\ o + 2 >= 2 /\ o + 5 >= 2 /\ o + 7 >= 2 /\ o + 3 >= 2 /\ o + 8 >= 3
      /\ o + 1 < o + 8 /\ o + 4 < o + 8 /\ o + 6 < o + 8 /\ o + 3 < o + 8
  BY <1>h
<1>2. Sends(s, o + 1) /\ Sends(s, o + 4) /\ Sends(s, o + 6)
  BY <1>1, <1>e, <1>i, <1>j, Zenon DEF Sends
<1>w. /\ s[o + 2] = WaitOf(s[o + 2 - 1].cmd) /\ s[o + 5] = WaitOf(s[o + 5 - 1].cmd)
      /\ s[o + 7] = WaitOf(s[o + 7 - 1].cmd)
      /\ IsCommand(s[o + 2 - 1]) /\ IsCommand(s[o + 5 - 1]) /\ IsCommand(s[o + 7 - 1])
      /\ Waits(s[o + 3 - 1])
      /\ s[o + 8 - 1] = Receive(FIRMWARE_PORT) /\ IsCommand(s[o + 8 - 2]) /\ s[o + 8 - 2].cmd = "ERD"
  BY <1>1, <1>e, <1>i, Zenon
<1>k. /\ s[o + 2] = WaitOf(s[o + 1].cmd) /\ s[o + 5] = WaitOf(s[o + 4].cmd)
      /\ s[o + 7] = WaitOf(s[o + 6].cmd)
  BY <1>1, Zenon
<1>n. o + 1 \in Nat \ {0} /\ o + 2 \in Nat \ {0} /\ o + 4 \in Nat \ {0} /\ o + 6 \in Nat \ {0}
  BY <1>e
<1>3. Awaits(s, o + 2) /\ Awaits(s, o + 5) /\ Awaits(s, o + 7)
  <2>1. ASSUME NEW i \in Nat \ {0}, IsCommand(s[i]), s[i + 1] = WaitOf(s[i].cmd)
        PROVE  Awaits(s, i + 1)
    <3> DEFINE j == i + 1
    <3>1. j - 1 = i /\ j >= 2 /\ s[j] = WaitOf(s[i].cmd)
      BY <2>1
    <3> HIDE DEF j
    <3>2. Awaits(s, j)
      BY <2>1, <3>1 DEF Awaits
    <3> QED BY <3>2 DEF j
  <2>2. Awaits(s, o + 1 + 1) /\ Awaits(s, o + 4 + 1) /\ Awaits(s, o + 6 + 1)
    BY <1>1, <1>i, <1>k, <1>n, <2>1, Zenon
  <2> QED BY <1>i, <2>2, Zenon
<1>4. Loads(s, o + 3)
  <2>1. ASSUME NEW i \in Nat \ {0}, s[i + 1].do = "sendData", s[i + 1].page \in Seq(Data),
               Waits(s[i]), i + 1 < Len(s), IsCommand(s[i + 1 + 1])
        PROVE  Loads(s, i + 1)
    <3> DEFINE j == i + 1
    <3>1. j - 1 = i /\ j >= 2
      OBVIOUS
    <3>2. s[j].do = "sendData" /\ s[j].page \in Seq(Data) /\ j < Len(s) /\ IsCommand(s[j + 1])
      BY <2>1
    <3> HIDE DEF j
    <3>3. Loads(s, j)
      BY <2>1, <3>1, <3>2 DEF Loads
    <3> QED BY <3>3 DEF j
  <2>2. s[o + 3].page \in Seq(Data) /\ o + 3 < Len(s)
    <3>1. s[o + 3].page \in Seq(Data)
      BY <1>1, <1>e, Zenon
    <3>2. o + 3 < Len(s)
      BY <1>e
    <3> QED BY <3>1, <3>2
  <2>3. o + 2 + 1 = o + 3
    BY <1>e
  <2> QED BY <1>1, <1>i, <1>n, <2>1, <2>2, <2>3, Zenon
<1>5. Uses(s, o + 8)
  <2>1. s[o + 8].do \in {"compare", "store"}
    BY <1>1
  <2>2. /\ s[o + 8 - 1] = Receive(FIRMWARE_PORT) /\ IsCommand(s[o + 8 - 2]) /\ s[o + 8 - 2].cmd = "ERD"
    BY <1>w
  <2>3. o + 8 >= 3
    BY <1>e
  <2>4. o \in Nat
    BY <1>e
  <2> QED BY <2>1, <2>2, <2>3, <2>4 DEF Uses
<1>6. \A i \in Nat : i > o /\ i <= Len(s) =>
        \/ i = o + 1 \/ i = o + 2 \/ i = o + 3 \/ i = o + 4 \/ i = o + 5
        \/ i = o + 6 \/ i = o + 7 \/ i = o + 8
  BY <1>e
<1> QED BY <1>2, <1>3, <1>4, <1>5, <1>6, Zenon DEF StepOK

\* The pages of a call are words of the flash.
LEMMA PageWordsOK ==
  ASSUME NEW c, IsCall(c), NEW p \in Nat \ {0}
  PROVE  /\ c.op = "writeEPCQ" =>
              /\ EpcqPage(c.data, p) \in [1 .. PageWords -> Data] /\ PageAt(c, p) \in Nat
              /\ EpcqPages(c.data) \in Nat \ {0} /\ c.data \in Seq(Data) /\ c.start \in Nat
         /\ c.op = "writeFirmware" =>
              /\ FirmwarePage(c.data, p) \in [1 .. PageWords -> Data] /\ PageAt(c, p) \in Nat
              /\ FirmwarePages(c.end) \in Nat \ {0}
              /\ c.data \in Seq(Data) /\ c.start \in Nat
         /\ c.op = "readEPCQ" => PageAt(c, p) \in Nat /\ c.start \in Nat /\ c.words \in Nat
                                 /\ c.words \div PageWords \in Nat /\ c.words % PageWords \in Nat
<1> USE FlashAssumption
<1>p. \A a, b \in Nat : a * b \in Nat
  OBVIOUS
<1>d. \A a \in Nat : a \div PageWords \in Nat /\ a % PageWords \in Nat
  OBVIOUS
<1>q. (p - 1) * PageWords \in Nat
  BY <1>p
<1>a. c.start \in Nat => PageAt(c, p) \in Nat
  BY <1>q DEF PageAt
<1>1. ASSUME c.op = "writeEPCQ"
      PROVE  /\ EpcqPage(c.data, p) \in [1 .. PageWords -> Data] /\ PageAt(c, p) \in Nat
             /\ EpcqPages(c.data) \in Nat \ {0} /\ c.data \in Seq(Data) /\ c.start \in Nat
  <2>1. c.data \in Seq(Data) /\ c.start \in Nat
    BY <1>1 DEF IsCall
  <2>2. ASSUME NEW k \in 1 .. PageWords, NEW i, i = (p - 1) * PageWords + k
        PROVE  (IF i > Len(c.data) THEN Blank ELSE c.data[i]) \in Data
    <3>1. i \in Nat \ {0}
      BY <2>2, <1>q
    <3>2. \A j \in Nat \ {0} : ~(j > Len(c.data)) => c.data[j] \in Data
      BY <2>1
    <3> QED BY <3>1, <3>2
  <2>3. EpcqPage(c.data, p) \in [1 .. PageWords -> Data]
    BY <2>2 DEF EpcqPage
  <2>4. EpcqPages(c.data) \in Nat \ {0}
    <3>1. Len(c.data) \in Nat
      BY <2>1
    <3> DEFINE d == Len(c.data) \div PageWords
    <3>2. d \in Nat
      BY <3>1, <1>d
    <3>3. EpcqPages(c.data) = d + 1
      BY DEF EpcqPages
    <3> HIDE DEF d
    <3> QED BY <3>2, <3>3
  <2> QED BY <2>1, <2>3, <2>4, <1>a
<1>2. ASSUME c.op = "writeFirmware"
      PROVE  /\ FirmwarePage(c.data, p) \in [1 .. PageWords -> Data] /\ PageAt(c, p) \in Nat
             /\ FirmwarePages(c.end) \in Nat \ {0}
             /\ c.data \in Seq(Data) /\ c.start \in Nat
  <2>1. c.data \in Seq(Data) /\ c.start \in Nat /\ Len(c.data) > 0 /\ c.end \in Nat
    BY <1>2 DEF IsCall
  <2>2. ASSUME NEW k \in 1 .. PageWords, NEW i, i = (p - 1) * PageWords + k
        PROVE  c.data[IF i > Len(c.data) THEN Len(c.data) ELSE i] \in Data
    <3>1. i \in Nat \ {0}
      BY <2>2, <1>q
    <3>2. \A j \in Nat \ {0} : c.data[IF j > Len(c.data) THEN Len(c.data) ELSE j] \in Data
      BY <2>1
    <3> QED BY <3>1, <3>2
  <2>3. FirmwarePage(c.data, p) \in [1 .. PageWords -> Data]
    BY <2>2 DEF FirmwarePage
  <2>4. FirmwarePages(c.end) \in Nat \ {0}
    BY <2>1, <1>d DEF FirmwarePages
  <2> QED BY <2>1, <2>3, <2>4, <1>a
<1>3. ASSUME c.op = "readEPCQ"
      PROVE  PageAt(c, p) \in Nat /\ c.start \in Nat /\ c.words \in Nat
  BY <1>3, <1>a DEF IsCall
<1> QED BY <1>1, <1>2, <1>3, <1>d

\* A command and the wait for it.
IsPair(s, i, cmd, n, w) ==
  /\ i \in Nat \ {0} /\ Len(s) \in Nat /\ i + 1 <= Len(s)
  /\ cmd \in Commands /\ n \in Nat /\ w \in Nat
  /\ s[i] = Command(cmd, n, w) /\ s[i + 1] = WaitOf(cmd)

LEMMA PairShape ==
  ASSUME NEW s, NEW i, NEW cmd, NEW n, NEW w, IsPair(s, i, cmd, n, w)
  PROVE  \A c, p : StepOK(c, p, s, i) /\ StepOK(c, p, s, i + 1)
<1>1. IsCommand(s[i]) /\ s[i].cmd = cmd
  BY DEF Command, IsCommand, IsPair
<1>2. Sends(s, i)
  BY <1>1 DEF Sends, IsPair
<1>3. i + 1 - 1 = i /\ i + 1 >= 2
  BY DEF IsPair
<1>4. Awaits(s, i + 1)
  BY <1>1, <1>3 DEF Awaits, IsPair
<1> QED BY <1>2, <1>4 DEF StepOK

\* A step that returns, at the end of the last part.
IsReturn(s, i, v) ==
  i \in Nat \ {0} /\ Len(s) = i /\ s[i] = Return(v) /\ v \in {"ok", "error"}

LEMMA ReturnShape ==
  ASSUME NEW s, NEW i, NEW v, IsReturn(s, i, v), NEW c, NEW p, p = LastPart(c)
  PROVE  StepOK(c, p, s, i) /\ Ended(s, i)
<1>1. s[i].do = "return" /\ s[i].value \in {"ok", "error"}
  BY DEF Return, IsReturn
<1> QED BY <1>1 DEF Ended, StepOK, IsReturn

\* What comes first in a part.
LEMMA FirstShape ==
  /\ \A cmd, n, w : Command(cmd, n, w).do \in {"sendCommand", "return"}
  /\ \A v : Return(v).do \in {"sendCommand", "return"}
  BY DEF Command, Return

\* The words of commands and the waits for them.
LEMMA CommandFacts ==
  /\ Commands = {"ERB", "ESA", "ESE", "EWR", "ERD", "GCT"}
  /\ WaitOf("ERB") = WaitForDone /\ WaitOf("ESA") = WaitForDone /\ WaitOf("ESE") = WaitForDone
  /\ WaitOf("EWR") = WaitForDone /\ WaitOf("ERD") = Receive(FIRMWARE_PORT)
  /\ WaitOf("GCT") = Receive(COMMAND_PORT)
  BY DEF Commands, WaitOf

LEMMA EpcqShape ==
  ASSUME NEW c, IsCall(c), c.op = "writeEPCQ", NEW p \in 0 .. LastPart(c)
  PROVE  PartOK(c, p, Steps(c, p))
<1> DEFINE s == Steps(c, p)
<1>l. LastPart(c) = IF Len(c.data) > SectorWords THEN 0 ELSE EpcqPages(c.data) + 1
  BY DEF LastPart
<1>t. EpcqPages(c.data) \in Nat \ {0} /\ c.start \in Nat /\ p \in Nat /\ c.erase \in BOOLEAN
  <2>1. 1 \in Nat \ {0}
    OBVIOUS
  <2>2. EpcqPages(c.data) \in Nat \ {0} /\ c.start \in Nat
    BY <2>1, PageWordsOK
  <2>3. c.erase \in BOOLEAN
    BY DEF IsCall
  <2> QED BY <2>2, <2>3, <1>l
<1>1. CASE Len(c.data) > SectorWords
  <2>1. s = << Return("error") >> /\ p = LastPart(c)
    BY <1>1, <1>l, <1>t, EpcqRow
  <2>2. Len(s) = 1 /\ s[1] = Return("error")
    BY <2>1
  <2>r. IsReturn(s, 1, "error")
    BY <2>2 DEF IsReturn
  <2> HIDE DEF s
  <2>3. StepOK(c, p, s, 1) /\ Ended(s, 1)
    BY <2>1, <2>r, ReturnShape
  <2> QED BY <2>2, <2>3, FirstShape DEF PartOK, s
<1>2. CASE ~(Len(c.data) > SectorWords) /\ p = 0
  <2>1. /\ Len(s) = (IF c.erase THEN 6 ELSE 4)
        /\ s[1] = Command("ERB", 0, 0) /\ s[2] = WaitForDone
        /\ s[3] = Command("ESA", 0, c.start) /\ s[4] = WaitForDone
        /\ c.erase => s[5] = Command("ESE", 0, 0) /\ s[6] = WaitForDone
    BY <1>2, <1>t, EpcqRow
  <2>2. p < LastPart(c)
    BY <1>2, <1>l, <1>t
  <2> HIDE DEF s
  <2>p. /\ IsPair(s, 1, "ERB", 0, 0) /\ IsPair(s, 3, "ESA", 0, c.start)
        /\ c.erase => IsPair(s, 5, "ESE", 0, 0)
    BY <2>1, <1>t, CommandFacts DEF IsPair
  <2>3. StepOK(c, p, s, 1) /\ StepOK(c, p, s, 1 + 1)
    BY <2>p, PairShape
  <2>4. StepOK(c, p, s, 3) /\ StepOK(c, p, s, 3 + 1)
    BY <2>p, PairShape
  <2>5. c.erase => StepOK(c, p, s, 5) /\ StepOK(c, p, s, 5 + 1)
    BY <2>p, PairShape
  <2>6. \A i \in 1 .. Len(s) : StepOK(c, p, s, i)
    <3>1. CASE c.erase
      BY <2>1, <2>3, <2>4, <2>5, <3>1
    <3>2. CASE ~c.erase
      BY <2>1, <2>3, <2>4, <3>2
    <3> QED BY <3>1, <3>2
  <2>7. Len(s) \in Nat \ {0}
    BY <2>1
  <2>8. s[1].do \in {"sendCommand", "return"}
    BY <2>1, FirstShape
  <2> QED BY <2>2, <2>6, <2>7, <2>8 DEF PartOK, s
<1>3. CASE ~(Len(c.data) > SectorWords) /\ p # 0 /\ p <= EpcqPages(c.data)
  <2> DEFINE page == EpcqPage(c.data, p)
             address == PageAt(c, p)
  <2>1. Len(s) = 8 /\ IsPage(s, 0, address, page)
    BY <1>3, <1>t, EpcqRow
  <2>2. page \in Seq(Data) /\ address \in Nat
    <3>1. p \in Nat \ {0}
      BY <1>3, <1>t
    <3>2. page \in [1 .. PageWords -> Data] /\ address \in Nat
      BY <3>1, PageWordsOK
    <3>3. \A f \in [1 .. PageWords -> Data] : f \in Seq(Data)
      BY FlashAssumption
    <3> QED BY <3>2, <3>3
  <2>3. p < LastPart(c)
    BY <1>3, <1>l, <1>t
  <2>4. s[1].do \in {"sendCommand", "return"}
    <3>1. s[0 + 1] = Command("ESA", 0, address)
      BY <2>1 DEF IsPage
    <3> QED BY <3>1, FirstShape
  <2> HIDE DEF s, page, address
  <2>5. \A i \in 1 .. 8 : StepOK(c, p, s, i)
    <3>1. HasPage(s, 0, address, page)
      BY <2>1, <2>2 DEF HasPage
    <3>2. \A i \in Nat : i > 0 /\ i <= Len(s) => StepOK(c, p, s, i)
      BY <3>1, PageShape
    <3> QED BY <2>1, <3>2
  <2> QED BY <2>1, <2>3, <2>4, <2>5 DEF PartOK, s
<1>4. CASE ~(Len(c.data) > SectorWords) /\ p # 0 /\ ~(p <= EpcqPages(c.data))
  <2>1. s = << Return("ok") >> /\ p = LastPart(c)
    BY <1>4, <1>l, <1>t, EpcqRow
  <2>2. Len(s) = 1 /\ s[1] = Return("ok")
    BY <2>1
  <2>r. IsReturn(s, 1, "ok")
    BY <2>2 DEF IsReturn
  <2> HIDE DEF s
  <2>3. StepOK(c, p, s, 1) /\ Ended(s, 1)
    BY <2>1, <2>r, ReturnShape
  <2> QED BY <2>2, <2>3, FirstShape DEF PartOK, s
<1> QED BY <1>1, <1>2, <1>3, <1>4

LEMMA FirmwareShape ==
  ASSUME NEW c, IsCall(c), c.op = "writeFirmware", NEW p \in 0 .. LastPart(c)
  PROVE  PartOK(c, p, Steps(c, p))
<1> DEFINE s == Steps(c, p)
<1>l. LastPart(c) = IF c.start % SectorWords # 0 THEN 0 ELSE FirmwarePages(c.end) + 1
  BY DEF LastPart
<1>t. FirmwarePages(c.end) \in Nat \ {0} /\ c.start \in Nat /\ p \in Nat
  <2>1. 1 \in Nat \ {0}
    OBVIOUS
  <2>2. FirmwarePages(c.end) \in Nat \ {0} /\ c.start \in Nat
    BY <2>1, PageWordsOK
  <2> QED BY <2>2, <1>l
<1>1. CASE c.start % SectorWords # 0
  <2>1. s = << Return("error") >> /\ p = LastPart(c)
    BY <1>1, <1>l, <1>t, FirmwareRow
  <2>2. Len(s) = 1 /\ s[1] = Return("error")
    BY <2>1
  <2>r. IsReturn(s, 1, "error")
    BY <2>2 DEF IsReturn
  <2> HIDE DEF s
  <2>3. StepOK(c, p, s, 1) /\ Ended(s, 1)
    BY <2>1, <2>r, ReturnShape
  <2> QED BY <2>2, <2>3, FirstShape DEF PartOK, s
<1>2. CASE c.start % SectorWords = 0 /\ p = 0
  <2>1. s = << Command("ERB", 0, 0) >>
    BY <1>2, <1>t, FirmwareRow
  <2>2. Len(s) = 1 /\ s[1] = Command("ERB", 0, 0) /\ p < LastPart(c)
    BY <2>1, <1>2, <1>l, <1>t
  <2> HIDE DEF s
  <2>3. IsCommand(s[1]) /\ s[1].cmd = "ERB"
    BY <2>2 DEF Command, IsCommand, Commands
  <2>4. StepOK(c, p, s, 1)
    BY <2>2, <2>3, <1>2 DEF Clears, StepOK
  <2> QED BY <2>2, <2>4, FirstShape DEF PartOK, s
<1>3. CASE c.start % SectorWords = 0 /\ p # 0 /\ p <= FirmwarePages(c.end)
  <2> DEFINE page == FirmwarePage(c.data, p)
             address == PageAt(c, p)
  <2>2. page \in Seq(Data) /\ address \in Nat
    <3>1. p \in Nat \ {0}
      BY <1>3, <1>t
    <3>2. page \in [1 .. PageWords -> Data] /\ address \in Nat
      BY <3>1, PageWordsOK
    <3>3. \A f \in [1 .. PageWords -> Data] : f \in Seq(Data)
      BY FlashAssumption
    <3> QED BY <3>2, <3>3
  <2>1. /\ s[1] = Command("ESA", 0, address) /\ s[2] = WaitForDone
        /\ address % SectorWords = 0 =>
             /\ Len(s) = 12
             /\ s[3] = Command("ESE", 0, 0) /\ s[4] = WaitForDone
             /\ IsPage(s, 4, address, page)
        /\ address % SectorWords # 0 => Len(s) = 10 /\ IsPage(s, 2, address, page)
    BY <1>3, <1>t, FirmwareRow
  <2>3. p < LastPart(c)
    BY <1>3, <1>l, <1>t
  <2>4. s[1].do \in {"sendCommand", "return"}
    BY <2>1, FirstShape
  <2> HIDE DEF s, page, address
  <2>5. CASE address % SectorWords = 0
    <3>1. HasPage(s, 4, address, page)
      BY <2>1, <2>2, <2>5 DEF HasPage
    <3>2. \A i \in Nat : i > 4 /\ i <= Len(s) => StepOK(c, p, s, i)
      BY <3>1, PageShape
    <3>3. IsPair(s, 1, "ESA", 0, address) /\ IsPair(s, 3, "ESE", 0, 0)
      BY <2>1, <2>2, <2>5, CommandFacts DEF IsPair
    <3>4. StepOK(c, p, s, 1) /\ StepOK(c, p, s, 1 + 1)
      BY <3>3, PairShape
    <3>5. StepOK(c, p, s, 3) /\ StepOK(c, p, s, 3 + 1)
      BY <3>3, PairShape
    <3>6. Len(s) = 12
      BY <2>1, <2>5
    <3>7. \A i \in 1 .. Len(s) : StepOK(c, p, s, i)
      BY <3>2, <3>4, <3>5, <3>6
    <3> QED BY <2>3, <2>4, <3>6, <3>7 DEF PartOK, s
  <2>6. CASE address % SectorWords # 0
    <3>1. HasPage(s, 2, address, page)
      BY <2>1, <2>2, <2>6 DEF HasPage
    <3>2. \A i \in Nat : i > 2 /\ i <= Len(s) => StepOK(c, p, s, i)
      BY <3>1, PageShape
    <3>3. IsPair(s, 1, "ESA", 0, address)
      BY <2>1, <2>2, <2>6, CommandFacts DEF IsPair
    <3>4. StepOK(c, p, s, 1) /\ StepOK(c, p, s, 1 + 1)
      BY <3>3, PairShape
    <3>6. Len(s) = 10
      BY <2>1, <2>6
    <3>7. \A i \in 1 .. Len(s) : StepOK(c, p, s, i)
      BY <3>2, <3>4, <3>6
    <3> QED BY <2>3, <2>4, <3>6, <3>7 DEF PartOK, s
  <2> QED BY <2>5, <2>6
<1>4. CASE c.start % SectorWords = 0 /\ p # 0 /\ ~(p <= FirmwarePages(c.end))
  <2>1. s = << Return("ok") >> /\ p = LastPart(c)
    BY <1>4, <1>l, <1>t, FirmwareRow
  <2>2. Len(s) = 1 /\ s[1] = Return("ok")
    BY <2>1
  <2>r. IsReturn(s, 1, "ok")
    BY <2>2 DEF IsReturn
  <2> HIDE DEF s
  <2>3. StepOK(c, p, s, 1) /\ Ended(s, 1)
    BY <2>1, <2>r, ReturnShape
  <2> QED BY <2>2, <2>3, FirstShape DEF PartOK, s
<1> QED BY <1>1, <1>2, <1>3, <1>4

\* A page that is read and stored.
IsRead(s, n, m) ==
  /\ n \in Nat /\ Len(s) \in Nat /\ 3 <= Len(s)
  /\ s[1] = Command("ERD", n, 0) /\ s[2] = Receive(FIRMWARE_PORT) /\ s[3] = Store(m)

LEMMA StoreShape ==
  ASSUME NEW s, NEW n, NEW m, IsRead(s, n, m)
  PROVE  \A c, p : StepOK(c, p, s, 1) /\ StepOK(c, p, s, 2) /\ StepOK(c, p, s, 3)
<1>1. IsPair(s, 1, "ERD", n, 0)
  BY CommandFacts DEF IsRead, IsPair
<1>2. \A c, p : StepOK(c, p, s, 1) /\ StepOK(c, p, s, 1 + 1)
  BY <1>1, PairShape
<1>3. IsCommand(s[1]) /\ s[1].cmd = "ERD" /\ s[3].do = "store"
  BY DEF IsRead, Command, IsCommand, Commands, Store
<1>4. Uses(s, 3)
  BY <1>3 DEF IsRead, Uses
<1> QED BY <1>2, <1>4 DEF StepOK

LEMMA ReadShape ==
  ASSUME NEW c, IsCall(c), c.op = "readEPCQ", NEW p \in 0 .. LastPart(c)
  PROVE  PartOK(c, p, Steps(c, p))
<1> DEFINE s == Steps(c, p)
           d == c.words \div PageWords
           m == c.words % PageWords
<1>l. LastPart(c) = d + 1
  BY DEF LastPart
<1>t. d \in Nat /\ m \in Nat /\ c.start \in Nat /\ p \in Nat /\ PageAt(c, p + 1) \in Nat /\ PageWords \in Nat
  <2>1. 1 \in Nat \ {0}
    OBVIOUS
  <2>2. d \in Nat /\ m \in Nat /\ c.start \in Nat
    BY <2>1, PageWordsOK
  <2>3. p \in Nat
    BY <2>2, <1>l
  <2>4. p + 1 \in Nat \ {0}
    BY <2>3
  <2>5. PageAt(c, p + 1) \in Nat
    BY <2>4, PageWordsOK
  <2> QED BY <2>2, <2>3, <2>5, FlashAssumption
<1>1. /\ p = 0 => s = << Command("ERB", 0, 0), WaitForDone,
                         Command("ESA", 0, c.start), WaitForDone >>
      /\ (p # 0 /\ p <= d) =>
           s = << Command("ERD", PageWords, 0), Receive(FIRMWARE_PORT), Store(4 * PageWords),
                  Command("ESA", 0, PageAt(c, p + 1)), WaitForDone >>
      /\ (p # 0 /\ ~(p <= d)) =>
           s = << Command("ERD", m, 0), Receive(FIRMWARE_PORT), Store(m), Return("ok") >>
  BY <1>t, ReadRow
<1> HIDE DEF s, d, m
<1>2. CASE p = 0
  <2>1. /\ Len(s) = 4 /\ s[1] = Command("ERB", 0, 0) /\ s[2] = WaitForDone
        /\ s[3] = Command("ESA", 0, c.start) /\ s[4] = WaitForDone
    BY <1>1, <1>2
  <2>2. p < LastPart(c)
    BY <1>2, <1>l, <1>t
  <2>p. IsPair(s, 1, "ERB", 0, 0) /\ IsPair(s, 3, "ESA", 0, c.start)
    BY <2>1, <1>t, CommandFacts DEF IsPair
  <2>3. StepOK(c, p, s, 1) /\ StepOK(c, p, s, 1 + 1)
    BY <2>p, PairShape
  <2>4. StepOK(c, p, s, 3) /\ StepOK(c, p, s, 3 + 1)
    BY <2>p, PairShape
  <2>6. \A i \in 1 .. Len(s) : StepOK(c, p, s, i)
    BY <2>1, <2>3, <2>4
  <2>8. s[1].do \in {"sendCommand", "return"}
    BY <2>1, FirstShape
  <2> QED BY <2>1, <2>2, <2>6, <2>8 DEF PartOK, s
<1>3. CASE p # 0 /\ p <= d
  <2>1. /\ Len(s) = 5 /\ s[1] = Command("ERD", PageWords, 0) /\ s[2] = Receive(FIRMWARE_PORT)
        /\ s[3] = Store(4 * PageWords)
        /\ s[4] = Command("ESA", 0, PageAt(c, p + 1)) /\ s[5] = WaitForDone
    BY <1>1, <1>3
  <2>2. p < LastPart(c)
    BY <1>3, <1>l, <1>t
  <2>p. IsPair(s, 4, "ESA", 0, PageAt(c, p + 1)) /\ IsRead(s, PageWords, 4 * PageWords)
    BY <2>1, <1>t, CommandFacts DEF IsPair, IsRead
  <2>3. StepOK(c, p, s, 1) /\ StepOK(c, p, s, 2) /\ StepOK(c, p, s, 3)
    BY <2>p, StoreShape
  <2>4. StepOK(c, p, s, 4) /\ StepOK(c, p, s, 4 + 1)
    BY <2>p, PairShape
  <2>6. \A i \in 1 .. Len(s) : StepOK(c, p, s, i)
    BY <2>1, <2>3, <2>4
  <2>8. s[1].do \in {"sendCommand", "return"}
    BY <2>1, FirstShape
  <2> QED BY <2>1, <2>2, <2>6, <2>8 DEF PartOK, s
<1>4. CASE p # 0 /\ ~(p <= d)
  <2>1. /\ Len(s) = 4 /\ s[1] = Command("ERD", m, 0) /\ s[2] = Receive(FIRMWARE_PORT)
        /\ s[3] = Store(m) /\ s[4] = Return("ok")
    BY <1>1, <1>4
  <2>2. p = LastPart(c)
    BY <1>4, <1>l, <1>t
  <2>p. IsReturn(s, 4, "ok") /\ IsRead(s, m, m)
    BY <2>1, <1>t DEF IsReturn, IsRead
  <2>3. StepOK(c, p, s, 1) /\ StepOK(c, p, s, 2) /\ StepOK(c, p, s, 3)
    BY <2>p, StoreShape
  <2>4. StepOK(c, p, s, 4) /\ Ended(s, 4)
    BY <2>2, <2>p, ReturnShape
  <2>6. \A i \in 1 .. Len(s) : StepOK(c, p, s, i)
    BY <2>1, <2>3, <2>4
  <2>8. s[1].do \in {"sendCommand", "return"}
    BY <2>1, FirstShape
  <2> QED BY <2>1, <2>4, <2>6, <2>8 DEF PartOK, s
<1> QED BY <1>2, <1>3, <1>4

LEMMA TimeShape ==
  ASSUME NEW c, IsCall(c), c.op = "getCompileTime", NEW p \in 0 .. LastPart(c)
  PROVE  PartOK(c, p, Steps(c, p))
<1> DEFINE s == Steps(c, p)
<1>l. LastPart(c) = 1 /\ p \in Nat
  BY DEF LastPart
<1>1. /\ p = 0 => s = << Command("GCT", 0, 0), Receive(COMMAND_PORT) >>
      /\ p # 0 => s = << Return("ok") >>
  BY <1>l, TimeRow
<1> HIDE DEF s
<1>2. CASE p = 0
  <2>1. Len(s) = 2 /\ s[1] = Command("GCT", 0, 0) /\ s[2] = Receive(COMMAND_PORT) /\ p < LastPart(c)
    BY <1>1, <1>2, <1>l
  <2>2. IsPair(s, 1, "GCT", 0, 0)
    BY <2>1, CommandFacts DEF IsPair
  <2>3. StepOK(c, p, s, 1) /\ StepOK(c, p, s, 1 + 1)
    BY <2>2, PairShape
  <2> QED BY <2>1, <2>3, FirstShape DEF PartOK, s
<1>3. CASE p # 0
  <2>1. Len(s) = 1 /\ s[1] = Return("ok") /\ p = LastPart(c)
    BY <1>1, <1>3, <1>l
  <2>2. IsReturn(s, 1, "ok")
    BY <2>1 DEF IsReturn
  <2>3. StepOK(c, p, s, 1) /\ Ended(s, 1)
    BY <2>1, <2>2, ReturnShape
  <2> QED BY <2>1, <2>3, FirstShape DEF PartOK, s
<1> QED BY <1>2, <1>3

\* Every part of every call.
LEMMA StepFacts ==
  ASSUME NEW c, IsCall(c), NEW p \in 0 .. LastPart(c)
  PROVE  PartOK(c, p, Steps(c, p)) /\ LastPart(c) \in Nat
<1>1. c.op \in {"writeEPCQ", "writeFirmware", "readEPCQ", "getCompileTime"}
  BY DEF IsCall
<1>2. PartOK(c, p, Steps(c, p))
  BY <1>1, EpcqShape, FirmwareShape, ReadShape, TimeShape
<1>3. LastPart(c) \in Nat
  <2>1. 1 \in Nat \ {0}
    OBVIOUS
  <2>2. /\ c.op = "writeEPCQ" => EpcqPages(c.data) \in Nat
        /\ c.op = "writeFirmware" => FirmwarePages(c.end) \in Nat
        /\ c.op = "readEPCQ" => c.words \div PageWords \in Nat
    BY <2>1, PageWordsOK
  <2>3. CASE c.op = "writeEPCQ"
    BY <2>2, <2>3 DEF LastPart
  <2>4. CASE c.op = "writeFirmware"
    BY <2>2, <2>4 DEF LastPart
  <2>5. CASE c.op = "readEPCQ"
    <3> DEFINE d == c.words \div PageWords
    <3>1. LastPart(c) = d + 1 /\ d \in Nat
      BY <2>2, <2>5 DEF LastPart
    <3> HIDE DEF d
    <3> QED BY <3>1
  <2>6. CASE c.op = "getCompileTime"
    BY <2>6 DEF LastPart
  <2> QED BY <1>1, <2>3, <2>4, <2>5, <2>6
<1> QED BY <1>2, <1>3

-----------------------------------------------------------------------------
(* Types, and where a call can be *)

AnyWord == Data \cup Commands \cup {"DON", "EPOCH"}
CallPorts == {COMMAND_PORT, FIRMWARE_PORT}
ToBoard == [cmd : Commands \cup {"data"}, n : Nat, address : Nat, words : Seq(Data)]
FromBoard == [port : CallPorts, words : Seq(AnyWord)]
AllCalls == UNION {Calls[i] : i \in 1 .. Len(Calls)}
SocketsTypeOK(socks) ==
  /\ DOMAIN socks \subseteq CallPorts
  /\ \A p \in DOMAIN socks : socks[p] \in Seq(Seq(AnyWord))

BoardTypeOK ==
  /\ flash \in [0 .. FlashWords - 1 -> Data] /\ epcqio_address \in Nat
  /\ wrbuff \in Seq(Data)
  /\ job \in [cmd : {"IDLE", "ESE", "EWR", "ERD"}, nwords : Nat, address : Nat]
  /\ job.cmd = "IDLE" => job = Idle
NetTypeOK ==
  /\ toBoard \in Seq(ToBoard) /\ fromBoard \in Seq(FromBoard)
  /\ SocketsTypeOK(open_sockets)
CallTypeOK ==
  /\ calls \in Seq(AllCalls) /\ \A i \in 1 .. Len(calls) : IsCall(calls[i])
  /\ part \in Nat /\ at \in Nat
  /\ killed \in BOOLEAN /\ refused \in BOOLEAN

Here == Steps(current, part)
PcOK ==
  /\ Running => /\ Len(calls) >= 1 /\ part \in 0 .. LastPart(current)
                /\ at \in 1 .. Len(Here)
  /\ result = "ok" => Len(calls) >= 1

Base == BoardTypeOK /\ NetTypeOK /\ CallTypeOK /\ PcOK

\* The step a running call is at.
LEMMA NowFacts ==
  Base /\ Running =>
    /\ IsCall(current) /\ part \in 0 .. LastPart(current) /\ LastPart(current) \in Nat
    /\ at \in 1 .. Len(Here) /\ Len(Here) \in Nat
    /\ PartOK(current, part, Here) /\ StepOK(current, part, Here, at)
    /\ Now = Here[at]
<1> SUFFICES ASSUME Base, Running
             PROVE  /\ IsCall(current) /\ part \in 0 .. LastPart(current) /\ LastPart(current) \in Nat
                    /\ at \in 1 .. Len(Here) /\ Len(Here) \in Nat
                    /\ PartOK(current, part, Here) /\ StepOK(current, part, Here, at)
                    /\ Now = Here[at]
  OBVIOUS
<1>1. IsCall(current) /\ part \in 0 .. LastPart(current) /\ at \in 1 .. Len(Here)
  BY DEF Base, PcOK, CallTypeOK, current
<1>2. PartOK(current, part, Here) /\ LastPart(current) \in Nat
  BY <1>1, StepFacts DEF Here
<1>3. StepOK(current, part, Here, at) /\ Len(Here) \in Nat
  BY <1>1, <1>2 DEF PartOK
<1> QED BY <1>1, <1>2, <1>3 DEF Now, Here

\* A step that does not return has a next one.
LEMMA AdvancePc ==
  ASSUME Base, Running, Now.do # "return", Advance, UNCHANGED <<result, calls>>
  PROVE  /\ part' \in Nat /\ at' \in Nat /\ PcOK'
         /\ \/ at < Len(Here) /\ at' = at + 1 /\ part' = part /\ Here' = Here
            \/ at = Len(Here) /\ at' = 1 /\ part' = part + 1
               /\ PartOK(current, part', Here') /\ part' <= LastPart(current)
         /\ current' = current
<1>1. /\ IsCall(current) /\ part \in 0 .. LastPart(current) /\ LastPart(current) \in Nat
      /\ at \in 1 .. Len(Here) /\ Len(Here) \in Nat
      /\ PartOK(current, part, Here) /\ Now = Here[at]
  BY NowFacts
<1>2. current' = current
  BY DEF current
<1>3. CASE at < Len(Here)
  <2>1. at' = at + 1 /\ part' = part
    BY <1>3 DEF Advance, Here
  <2>2. Here' = Here
    BY <1>2, <2>1 DEF Here
  <2>3. PcOK'
    BY <1>1, <1>2, <1>3, <2>1, <2>2 DEF Base, PcOK, Running
  <2> QED BY <1>1, <1>2, <1>3, <2>1, <2>2, <2>3
<1>4. CASE ~(at < Len(Here))
  <2>1. at = Len(Here) /\ at' = 1 /\ part' = part + 1
    BY <1>1, <1>4 DEF Advance, Here
  <2>2. part < LastPart(current)
    BY <1>1, <2>1 DEF PartOK, Ended
  <2>3. part' \in 0 .. LastPart(current)
    BY <1>1, <2>1, <2>2
  <2>4. Here' = Steps(current, part')
    BY <1>2 DEF Here
  <2>5. PartOK(current, part', Here')
    BY <1>1, <2>3, <2>4, StepFacts
  <2>6. PcOK'
    BY <1>1, <1>2, <2>1, <2>3, <2>5 DEF Base, PcOK, Running, PartOK
  <2> QED BY <1>1, <1>2, <2>1, <2>3, <2>5, <2>6
<1> QED BY <1>3, <1>4

\* Sockets hold packets.
LEMMA FlashSockets ==
  ASSUME NEW socks, SocketsTypeOK(socks), NEW p \in CallPorts
  PROVE  /\ SocketsTypeOK(udp_server(socks, p)) /\ SocketsTypeOK(udp_server_close(socks, p))
         /\ SocketsTypeOK(NoSockets)
         /\ \A w \in Seq(AnyWord) : SocketsTypeOK(arrive(socks, Packet(p, w)))
         /\ \A pkt \in FromBoard : SocketsTypeOK(arrive(socks, pkt))
<1>1. SocketsTypeOK(udp_server(socks, p))
  BY DEF SocketsTypeOK, udp_server
<1>2. SocketsTypeOK(udp_server_close(socks, p))
  BY DEF SocketsTypeOK, udp_server_close
<1>3. SocketsTypeOK(NoSockets)
  BY DEF SocketsTypeOK, NoSockets
<1>4. ASSUME NEW pkt \in FromBoard PROVE SocketsTypeOK(arrive(socks, pkt))
  <2>1. pkt.port \in CallPorts /\ pkt.words \in Seq(AnyWord)
    BY DEF FromBoard
  <2> QED BY <2>1 DEF SocketsTypeOK, arrive, accepted
<1>5. \A w \in Seq(AnyWord) : Packet(p, w) \in FromBoard
  BY DEF Packet, FromBoard
<1> QED BY <1>1, <1>2, <1>3, <1>4, <1>5

\* Parts of a sequence.
LEMMA SubSeqType ==
  ASSUME NEW S, NEW s \in Seq(S), NEW m \in Nat, NEW n \in Nat, n <= Len(s), m >= 1
  PROVE  SubSeq(s, m, n) \in Seq(S)
  OBVIOUS

\* What the flash holds is words.
LEMMA ProgramType ==
  \A old \in Data, new \in Data : Program(old, new) \in Data
  BY FlashAssumption DEF Program

\* The words read from the flash.
LEMMA WordsType ==
  BoardTypeOK =>
    \A a \in Nat, n \in Nat :
      /\ Words(a, n) \in Seq(Data) /\ Len(Words(a, n)) = n
      /\ \A k \in 1 .. n : Words(a, n)[k] = flash[(a + k - 1) % FlashWords]
      /\ Contents(a, n) \in Seq(Data)
<1> SUFFICES ASSUME BoardTypeOK, NEW a \in Nat, NEW n \in Nat
             PROVE  /\ Words(a, n) \in Seq(Data) /\ Len(Words(a, n)) = n
                    /\ \A k \in 1 .. n : Words(a, n)[k] = flash[(a + k - 1) % FlashWords]
                    /\ Contents(a, n) \in Seq(Data)
  OBVIOUS
<1>1. ASSUME NEW m \in Nat
      PROVE  /\ Words(a, m) \in Seq(Data) /\ Len(Words(a, m)) = m
             /\ \A k \in 1 .. m : Words(a, m)[k] = flash[(a + k - 1) % FlashWords]
  <2>1. \A b \in Nat : b % FlashWords \in 0 .. FlashWords - 1
    BY FlashAssumption
  <2>2. \A k \in 1 .. m : a + k - 1 \in Nat
    OBVIOUS
  <2>3. \A k \in 1 .. m : flash[(a + k - 1) % FlashWords] \in Data
    BY <2>1, <2>2 DEF BoardTypeOK
  <2>4. Words(a, m) \in [1 .. m -> Data]
    BY <2>3 DEF Words
  <2>5. \A f \in [1 .. m -> Data] : f \in Seq(Data) /\ Len(f) = m
    OBVIOUS
  <2>6. \A k \in 1 .. m : Words(a, m)[k] = flash[(a + k - 1) % FlashWords]
    BY DEF Words
  <2> QED BY <2>4, <2>5, <2>6
<1>2. Contents(a, n) \in Seq(Data)
  BY <1>1, FlashAssumption DEF Contents
<1> QED BY <1>1, <1>2

\* The commands of the flash controller.
LEMMA EpcqTypes ==
  ASSUME BoardTypeOK
  PROVE  /\ \A a \in Nat : EpcqSetAddress(a) => BoardTypeOK'
         /\ EpcqClearBuffers => BoardTypeOK'
         /\ \A cmd \in {"ESE", "EWR", "ERD"}, n \in Nat : EpcqStart(cmd, n) => BoardTypeOK'
         /\ \A words \in Seq(Data) : EpcqData(words) => BoardTypeOK'
<1>1. ASSUME NEW a \in Nat, EpcqSetAddress(a) PROVE BoardTypeOK'
  BY <1>1 DEF BoardTypeOK, EpcqSetAddress
<1>2. ASSUME EpcqClearBuffers PROVE BoardTypeOK'
  BY <1>2 DEF BoardTypeOK, EpcqClearBuffers
<1>3. ASSUME NEW cmd \in {"ESE", "EWR", "ERD"}, NEW n \in Nat, EpcqStart(cmd, n) PROVE BoardTypeOK'
  BY <1>3 DEF BoardTypeOK, EpcqStart
<1>4. ASSUME NEW words \in Seq(Data), EpcqData(words) PROVE BoardTypeOK'
  <2>1. wrbuff \o words \in Seq(Data) /\ Len(wrbuff \o words) = Len(wrbuff) + Len(words)
        /\ Len(wrbuff) \in Nat /\ Len(words) \in Nat
    BY DEF BoardTypeOK
  <2> DEFINE w == wrbuff \o words
             k == IF Len(wrbuff) + Len(words) > WrDepth THEN WrDepth ELSE Len(wrbuff) + Len(words)
  <2>2. k \in Nat /\ k <= Len(w) /\ w \in Seq(Data)
    BY <2>1, FlashAssumption
  <2>3. wrbuff' = SubSeq(w, 1, k)
    BY <1>4 DEF EpcqData
  <2> HIDE DEF w, k
  <2>4. wrbuff' \in Seq(Data)
    BY <2>2, <2>3, SubSeqType
  <2> QED BY <1>4, <2>4 DEF BoardTypeOK, EpcqData
<1> QED BY <1>1, <1>2, <1>3, <1>4

\* What the flash controller does by itself.
LEMMA EpcqJobTypes ==
  ASSUME BoardTypeOK
  PROVE  /\ EpcqErase => BoardTypeOK'
         /\ EpcqWrite => BoardTypeOK'
         /\ EpcqRead => BoardTypeOK'
         /\ EpcqStartTimeout => BoardTypeOK'
<1>i. Idle \in [cmd : {"IDLE", "ESE", "EWR", "ERD"}, nwords : Nat, address : Nat]
  BY DEF Idle
<1>1. ASSUME EpcqErase PROVE BoardTypeOK'
  <2>1. flash' \in [0 .. FlashWords - 1 -> Data]
    BY <1>1, FlashAssumption DEF BoardTypeOK, EpcqErase, Erased
  <2> QED BY <1>1, <1>i, <2>1 DEF BoardTypeOK, EpcqErase
<1>2. ASSUME EpcqWrite PROVE BoardTypeOK'
  <2>1. PICK garbage \in {Blank, Corrupt} :
          flash' = Programmed(job.address, [k \in 1 .. job.nwords |->
                                              IF k <= Len(wrbuff) THEN wrbuff[k] ELSE garbage])
    BY <1>2 DEF EpcqWrite
  <2>2. job.nwords \in Nat /\ job.address \in Nat /\ Len(wrbuff) \in Nat
    BY DEF BoardTypeOK
  <2> DEFINE page == [k \in 1 .. job.nwords |-> IF k <= Len(wrbuff) THEN wrbuff[k] ELSE garbage]
  <2>3. page \in [1 .. job.nwords -> Data]
    BY FlashAssumption DEF BoardTypeOK
  <2>4. Len(page) = job.nwords
    BY <2>2
  <2> HIDE DEF page
  <2>5. \A i \in 0 .. FlashWords - 1 :
          i - job.address \in 0 .. Len(page) - 1 => page[i - job.address + 1] \in Data
    BY <2>2, <2>3, <2>4
  <2>6. Programmed(job.address, page) \in [0 .. FlashWords - 1 -> Data]
    BY <2>5, ProgramType DEF BoardTypeOK, Programmed
  <2>7. flash' \in [0 .. FlashWords - 1 -> Data]
    BY <2>1, <2>6 DEF page
  <2>8. wrbuff' \in Seq(Data)
    BY <1>2, <2>2, SubSeqType DEF EpcqWrite, BoardTypeOK
  <2> QED BY <1>2, <1>i, <2>7, <2>8 DEF BoardTypeOK, EpcqWrite
<1>3. ASSUME EpcqRead PROVE BoardTypeOK'
  BY <1>3, <1>i DEF BoardTypeOK, EpcqRead
<1>4. ASSUME EpcqStartTimeout PROVE BoardTypeOK'
  BY <1>4, <1>i DEF BoardTypeOK, EpcqStartTimeout
<1> QED BY <1>1, <1>2, <1>3, <1>4

-----------------------------------------------------------------------------
(* Types and places are kept *)

USE DEF epcqVars, serverVars, netVars, whatVars

LEMMA BaseInit == Init => Base
<1> SUFFICES ASSUME Init PROVE Base
  OBVIOUS
<1>1. BoardTypeOK
  BY CallsAssumption DEF Init, EpcqInit, BoardTypeOK, Idle
<1>2. NetTypeOK
  BY DEF Init, NetTypeOK, SocketsTypeOK, NoSockets
<1>3. CallTypeOK
  <2>1. killed \in BOOLEAN /\ refused \in BOOLEAN
    BY Zenon DEF Init
  <2> QED BY <2>1 DEF Init, CallTypeOK
<1>4. PcOK
  BY DEF Init, PcOK, Running
<1> QED BY <1>1, <1>2, <1>3, <1>4 DEF Base

LEMMA BaseCall ==
  ASSUME Base, Len(calls) < Len(Calls), NEW call \in Calls[Len(calls) + 1], Call(call)
  PROVE  Base' /\ calls' = Append(calls, call) /\ current' = call /\ IsCall(call)
         /\ Len(calls') = Len(calls) + 1 /\ Len(calls) \in Nat
<1>1. Len(calls) \in Nat /\ Len(calls) + 1 \in 1 .. Len(Calls)
  BY CallsAssumption DEF Base, CallTypeOK
<1>2. IsCall(call) /\ call \in AllCalls
  BY <1>1, CallsAssumption DEF AllCalls
<1>3. calls' = Append(calls, call) /\ Len(calls') = Len(calls) + 1 /\ calls' \in Seq(AllCalls)
  BY <1>2 DEF Call, Base, CallTypeOK
<1>4. current' = call
  BY <1>1, <1>3 DEF Base, CallTypeOK, current
<1>5. \A i \in 1 .. Len(calls') : IsCall(calls'[i])
  BY <1>1, <1>2, <1>3 DEF Base, CallTypeOK
<1>6. CallTypeOK'
  BY <1>3, <1>5 DEF Call, Base, CallTypeOK
<1>7. BoardTypeOK' /\ NetTypeOK'
  BY DEF Call, Base, BoardTypeOK, NetTypeOK
<1>8. PcOK'
  <2>1. LastPart(call) \in Nat
    <3>1. \/ call.op = "writeEPCQ" \/ call.op = "writeFirmware"
          \/ call.op = "readEPCQ" \/ call.op = "getCompileTime"
      BY <1>2 DEF IsCall
    <3>2. 1 \in Nat \ {0}
      OBVIOUS
    <3>3. /\ call.op = "writeEPCQ" => EpcqPages(call.data) \in Nat
          /\ call.op = "writeFirmware" => FirmwarePages(call.end) \in Nat
          /\ call.op = "readEPCQ" => call.words \div PageWords \in Nat
      BY <1>2, <3>2, PageWordsOK
    <3>4. CASE call.op = "writeEPCQ"
      BY <3>3, <3>4 DEF LastPart
    <3>5. CASE call.op = "writeFirmware"
      BY <3>3, <3>5 DEF LastPart
    <3>6. CASE call.op = "readEPCQ"
      <4> DEFINE d == call.words \div PageWords
      <4>1. LastPart(call) = d + 1 /\ d \in Nat
        BY <3>3, <3>6 DEF LastPart
      <4> HIDE DEF d
      <4> QED BY <4>1
    <3>7. CASE call.op = "getCompileTime"
      BY <3>7 DEF LastPart
    <3> QED BY <3>1, <3>4, <3>5, <3>6, <3>7
  <2>2. 0 \in 0 .. LastPart(call)
    BY <2>1
  <2>3. PartOK(call, 0, Steps(call, 0))
    BY <1>2, <2>2, StepFacts
  <2>4. Here' = Steps(call, 0)
    BY <1>4 DEF Here, Call
  <2>5. 1 \in 1 .. Len(Here')
    BY <2>3, <2>4 DEF PartOK
  <2>6. part' = 0 /\ at' = 1
    BY DEF Call
  <2> QED BY <1>1, <1>3, <1>4, <2>2, <2>5, <2>6 DEF PcOK
<1> QED BY <1>1, <1>2, <1>3, <1>4, <1>6, <1>7, <1>8 DEF Base

\* A command, as the board gets it.
Message(step) ==
  [cmd |-> step.cmd, n |-> step.prefix, address |-> step.word, words |-> << >>]
PageMessage(page) == [cmd |-> "data", n |-> 0, address |-> 0, words |-> page]

\* The steps that can be where a call is, by what they do.
LEMMA DoingFacts ==
  ASSUME Base, Running
  PROVE  /\ Now.do = "sendCommand" =>
              /\ IsCommand(Now) /\ Message(Now) \in ToBoard
              /\ \/ at < Len(Here) /\ Here[at + 1] = WaitOf(Now.cmd)
                 \/ /\ current.op = "writeFirmware" /\ part = 0 /\ part < LastPart(current)
                    /\ Now.cmd = "ERB" /\ at = 1 /\ Len(Here) = 1
         /\ Waits(Now) => at >= 2 /\ IsCommand(Here[at - 1]) /\ Now = WaitOf(Here[at - 1].cmd)
         /\ Now.do = "sendData" =>
              /\ PageMessage(Now.page) \in ToBoard /\ Now.page \in Seq(Data)
              /\ at >= 2 /\ Waits(Here[at - 1]) /\ at < Len(Here) /\ IsCommand(Here[at + 1])
         /\ Now.do \in {"compare", "store"} =>
              /\ at >= 3 /\ Here[at - 1] = Receive(FIRMWARE_PORT)
              /\ IsCommand(Here[at - 2]) /\ Here[at - 2].cmd = "ERD"
         /\ Now.do = "return" =>
              at = Len(Here) /\ part = LastPart(current) /\ Now.value \in {"ok", "error"}
<1>1. StepOK(current, part, Here, at) /\ Now = Here[at]
  BY NowFacts
<1>2. \A cmd : Waits(WaitOf(cmd)) /\ WaitOf(cmd).do \in {"waitForDone", "recieveData"}
  BY DEF WaitOf, Waits, Receive, WaitForDone
<1>3. ASSUME IsCommand(Now) PROVE Now.do = "sendCommand" /\ Message(Now) \in ToBoard
  BY <1>3 DEF IsCommand, Message, ToBoard
<1>4. ASSUME Now.page \in Seq(Data) PROVE PageMessage(Now.page) \in ToBoard
  BY <1>4 DEF PageMessage, ToBoard
<1>5. CASE Sends(Here, at)
  BY <1>1, <1>3, <1>5 DEF Sends, Waits
<1>6. CASE Clears(Here, at) /\ current.op = "writeFirmware" /\ part = 0 /\ part < LastPart(current)
  BY <1>1, <1>3, <1>6 DEF Clears, Waits
<1>7. CASE Awaits(Here, at)
  <2>1. at >= 2 /\ IsCommand(Here[at - 1]) /\ Now = WaitOf(Here[at - 1].cmd)
    BY <1>1, <1>7 DEF Awaits
  <2>2. Now.do \in {"waitForDone", "recieveData"}
    BY <1>2, <2>1
  <2> QED BY <2>1, <2>2
<1>8. CASE Loads(Here, at)
  BY <1>1, <1>4, <1>8 DEF Loads, Waits
<1>9. CASE Uses(Here, at)
  BY <1>1, <1>9 DEF Uses, Waits
<1>10. CASE Ended(Here, at) /\ part = LastPart(current)
  BY <1>1, <1>10 DEF Ended, Waits
<1> QED BY <1>1, <1>5, <1>6, <1>7, <1>8, <1>9, <1>10 DEF StepOK

\* The server sends and receives.
LEMMA BaseSend ==
  ASSUME Base, sendCommand \/ sendData
  PROVE  Base'
<1>1. Running /\ Now.do \in {"sendCommand", "sendData"} /\ Advance /\ UNCHANGED <<result, calls>>
  BY DEF sendCommand, sendData, Doing
<1>2. part' \in Nat /\ at' \in Nat /\ PcOK'
  BY <1>1, AdvancePc
<1>3. toBoard' \in Seq(ToBoard)
  <2>1. CASE sendCommand
    <3>1. toBoard' = Append(toBoard, Message(Now)) /\ Message(Now) \in ToBoard
      BY <1>1, <2>1, DoingFacts DEF sendCommand, Message, Doing
    <3> QED BY <3>1 DEF Base, NetTypeOK
  <2>2. CASE sendData
    <3>1. toBoard' = Append(toBoard, PageMessage(Now.page)) /\ PageMessage(Now.page) \in ToBoard
      BY <1>1, <2>2, DoingFacts DEF sendData, PageMessage, Doing
    <3> QED BY <3>1 DEF Base, NetTypeOK
  <2> QED BY <2>1, <2>2
<1>4. UNCHANGED <<epcqVars, calls, open_sockets, fromBoard, killed, refused>>
  BY DEF sendCommand, sendData
<1>5. BoardTypeOK'
  BY <1>4 DEF Base, BoardTypeOK
<1>6. NetTypeOK'
  BY <1>3, <1>4 DEF Base, NetTypeOK
<1>7. CallTypeOK'
  BY <1>2, <1>4 DEF Base, CallTypeOK
<1> QED BY <1>2, <1>5, <1>6, <1>7 DEF Base

LEMMA ListeningPort ==
  ASSUME Base, Running, Waits(Now)
  PROVE  Listening \in CallPorts
<1>1. Now = WaitOf(Here[at - 1].cmd)
  BY DoingFacts
<1>2. \A cmd : (IF WaitOf(cmd).do = "recieveData" THEN WaitOf(cmd).port ELSE COMMAND_PORT) \in CallPorts
  BY DEF WaitOf, Receive, WaitForDone, CallPorts
<1> QED BY <1>1, <1>2 DEF Listening

LEMMA BaseOpen ==
  ASSUME Base, OpenSocket
  PROVE  Base'
<1>1. Running /\ Waits(Now)
  BY DEF OpenSocket, Doing, Waits
<1>2. SocketsTypeOK(open_sockets')
  BY <1>1, ListeningPort, FlashSockets DEF OpenSocket, Base, NetTypeOK
<1>3. UNCHANGED <<epcqVars, calls, toBoard, fromBoard, part, at, result, killed, refused>>
  BY DEF OpenSocket
<1>4. BoardTypeOK'
  BY <1>3 DEF Base, BoardTypeOK
<1>5. NetTypeOK'
  BY <1>2, <1>3 DEF Base, NetTypeOK
<1>6. CallTypeOK'
  BY <1>3 DEF Base, CallTypeOK
<1>7. PcOK'
  BY <1>3 DEF Base, PcOK, Running, Here, current
<1> QED BY <1>4, <1>5, <1>6, <1>7 DEF Base

LEMMA BaseReceive ==
  ASSUME Base, recieveData \/ waitForDone
  PROVE  Base'
<1>1. Running /\ Waits(Now)
  BY DEF recieveData, waitForDone, Doing, Waits
<1>2. COMMAND_PORT \in CallPorts
  BY DEF CallPorts
<1>3. SocketsTypeOK(open_sockets')
  BY <1>1, <1>2, ListeningPort, FlashSockets DEF recieveData, waitForDone, Base, NetTypeOK
<1>4. UNCHANGED <<epcqVars, calls, toBoard, fromBoard, result, killed, refused>>
  BY DEF recieveData, waitForDone
<1>5. Advance \/ UNCHANGED <<part, at>>
  BY DEF recieveData, waitForDone
<1>6. part' \in Nat /\ at' \in Nat /\ PcOK'
  <2>1. CASE Advance
    BY <1>1, <1>4, <2>1, AdvancePc DEF Waits
  <2>2. CASE UNCHANGED <<part, at>>
    BY <1>4, <2>2 DEF Base, CallTypeOK, PcOK, Running, Here, current
  <2> QED BY <1>5, <2>1, <2>2
<1>7. BoardTypeOK'
  BY <1>4 DEF Base, BoardTypeOK
<1>8. NetTypeOK'
  BY <1>3, <1>4 DEF Base, NetTypeOK
<1>9. CallTypeOK'
  BY <1>4, <1>6 DEF Base, CallTypeOK
<1> QED BY <1>6, <1>7, <1>8, <1>9 DEF Base

LEMMA BaseUse ==
  ASSUME Base, comparePage \/ storePage \/ return \/ Kill
  PROVE  Base'
<1>1. Running
  BY DEF comparePage, storePage, return, Kill, Doing
<1>2. UNCHANGED <<epcqVars, calls, toBoard, fromBoard, refused>>
  BY DEF comparePage, storePage, return, Kill
<1>3. SocketsTypeOK(open_sockets') /\ killed' \in BOOLEAN
  <2>1. CASE Kill
    <3>1. killed' \in BOOLEAN
      BY <2>1, Zenon DEF Kill
    <3>2. SocketsTypeOK(NoSockets)
      BY DEF SocketsTypeOK, NoSockets
    <3> QED BY <2>1, <3>1, <3>2 DEF Kill
  <2>2. CASE comparePage \/ storePage \/ return
    BY <2>2 DEF comparePage, storePage, return, Base, NetTypeOK, CallTypeOK
  <2> QED BY <2>1, <2>2
<1>4. part' \in Nat /\ at' \in Nat /\ PcOK'
  <2>1. CASE Advance /\ Now.do # "return" /\ UNCHANGED result
    BY <1>1, <1>2, <2>1, AdvancePc
  <2>2. CASE Stop /\ ~Running'
    <3>1. Len(calls) >= 1
      BY <1>1 DEF Base, PcOK
    <3> QED BY <1>2, <2>2, <3>1 DEF Stop, PcOK
  <2>3. CASE comparePage
    BY <2>1, <2>2, <2>3 DEF comparePage, Doing, Running
  <2>4. CASE storePage
    BY <2>1, <2>4 DEF storePage, Doing
  <2>5. CASE return
    <3>1. Now.value \in {"ok", "error"}
      BY <1>1, <2>5, DoingFacts DEF return, Doing
    <3> QED BY <2>2, <2>5, <3>1 DEF return, Running
  <2>6. CASE Kill
    BY <2>2, <2>6 DEF Kill, Running
  <2> QED BY <2>3, <2>4, <2>5, <2>6
<1>5. BoardTypeOK'
  BY <1>2 DEF Base, BoardTypeOK
<1>6. NetTypeOK'
  BY <1>2, <1>3 DEF Base, NetTypeOK
<1>7. CallTypeOK'
  BY <1>2, <1>3, <1>4 DEF Base, CallTypeOK
<1> QED BY <1>4, <1>5, <1>6, <1>7 DEF Base

\* A call stays where it is when only the board or the network moves.
LEMMA PcStays ==
  ASSUME Base, UNCHANGED <<part, at, result, calls>>
  PROVE  PcOK'
  BY DEF Base, PcOK, Running, Here, current

\* What the board answers.
LEMMA AnswerType ==
  ASSUME Base, NEW words \in Seq(Commands \cup {"DON", "EPOCH"}), Answer(words)
  PROVE  fromBoard' \in Seq(FromBoard)
<1>1. words \in Seq(AnyWord)
  BY DEF AnyWord
<1>2. Packet(COMMAND_PORT, words) \in FromBoard
  BY <1>1 DEF Packet, FromBoard, CallPorts
<1> QED BY <1>2 DEF Answer, Base, NetTypeOK

LEMMA BaseBoardReceive ==
  ASSUME Base, BoardReceive
  PROVE  Base'
<1> DEFINE m == Head(toBoard)
<1>1. m \in ToBoard /\ Tail(toBoard) \in Seq(ToBoard)
  BY DEF BoardReceive, Base, NetTypeOK
<1>t. m.n \in Nat /\ m.address \in Nat /\ m.words \in Seq(Data)
  BY <1>1 DEF ToBoard
<1>2. /\ toBoard' = Tail(toBoard)
      /\ UNCHANGED <<part, at, result, calls, open_sockets, killed>>
  BY DEF BoardReceive
<1>3. \/ m.cmd = "data" /\ EpcqData(m.words) /\ UNCHANGED fromBoard
      \/ m.cmd = "ESA" /\ EpcqSetAddress(m.address) /\ Answer(<<"ESA", "DON">>)
      \/ m.cmd = "ERB" /\ EpcqClearBuffers /\ Answer(<<"ERB", "DON">>)
      \/ m.cmd \in {"ESE", "EWR", "ERD"} /\ EpcqStart(m.cmd, m.n) /\ Answer(<<m.cmd>>)
      \/ m.cmd = "GCT" /\ UNCHANGED epcqVars /\ Answer(<<"GCT", "EPOCH", "DON">>)
  BY DEF BoardReceive
<1> HIDE DEF m
<1>4. BoardTypeOK'
  <2>1. BoardTypeOK
    BY DEF Base
  <2>2. CASE m.cmd = "GCT" /\ UNCHANGED epcqVars
    BY <2>1, <2>2 DEF BoardTypeOK
  <2> QED BY <1>t, <1>3, <2>1, <2>2, EpcqTypes
<1>5. fromBoard' \in Seq(FromBoard)
  <2> DEFINE S == Commands \cup {"DON", "EPOCH"}
  <2>1. /\ <<"ESA", "DON">> \in Seq(S) /\ <<"ERB", "DON">> \in Seq(S)
        /\ <<"GCT", "EPOCH", "DON">> \in Seq(S)
        /\ m.cmd \in {"ESE", "EWR", "ERD"} => <<m.cmd>> \in Seq(S)
    BY CommandFacts
  <2>2. CASE UNCHANGED fromBoard
    BY <2>2 DEF Base, NetTypeOK
  <2> QED BY <1>3, <2>1, <2>2, AnswerType
<1>6. NetTypeOK'
  BY <1>1, <1>2, <1>5 DEF Base, NetTypeOK, m
<1>7. CallTypeOK'
  <2>1. refused' \in BOOLEAN
    BY Zenon DEF BoardReceive
  <2> QED BY <1>2, <2>1 DEF Base, CallTypeOK
<1> QED BY <1>2, <1>4, <1>6, <1>7, PcStays DEF Base

LEMMA BaseBoardFinish ==
  ASSUME Base, BoardFinish
  PROVE  Base'
<1>1. UNCHANGED <<part, at, result, calls, open_sockets, toBoard, killed, refused>>
  BY DEF BoardFinish
<1>2. \/ (EpcqErase \/ EpcqWrite) /\ Answer(<<"DON">>)
      \/ /\ EpcqRead
         /\ fromBoard' = fromBoard \o <<Packet(COMMAND_PORT, <<"DON">>),
                                        Packet(FIRMWARE_PORT, Contents(job.address, job.nwords))>>
  BY DEF BoardFinish
<1>3. BoardTypeOK'
  BY <1>2, EpcqJobTypes DEF Base
<1>4. fromBoard' \in Seq(FromBoard)
  <2>1. CASE Answer(<<"DON">>)
    <3>1. <<"DON">> \in Seq(Commands \cup {"DON", "EPOCH"})
      OBVIOUS
    <3> QED BY <2>1, <3>1, AnswerType
  <2>2. CASE fromBoard' = fromBoard \o <<Packet(COMMAND_PORT, <<"DON">>),
                                         Packet(FIRMWARE_PORT, Contents(job.address, job.nwords))>>
    <3>1. Contents(job.address, job.nwords) \in Seq(Data)
      BY WordsType DEF Base, BoardTypeOK
    <3>2. Contents(job.address, job.nwords) \in Seq(AnyWord) /\ <<"DON">> \in Seq(AnyWord)
      BY <3>1 DEF AnyWord
    <3>3. /\ Packet(COMMAND_PORT, <<"DON">>) \in FromBoard
          /\ Packet(FIRMWARE_PORT, Contents(job.address, job.nwords)) \in FromBoard
      BY <3>2 DEF Packet, FromBoard, CallPorts
    <3>4. <<Packet(COMMAND_PORT, <<"DON">>),
            Packet(FIRMWARE_PORT, Contents(job.address, job.nwords))>> \in Seq(FromBoard)
      BY <3>3
    <3> QED BY <2>2, <3>4 DEF Base, NetTypeOK
  <2> QED BY <1>2, <2>1, <2>2
<1>5. NetTypeOK'
  BY <1>1, <1>4 DEF Base, NetTypeOK
<1>6. CallTypeOK'
  BY <1>1 DEF Base, CallTypeOK
<1> QED BY <1>1, <1>3, <1>5, <1>6, PcStays DEF Base

LEMMA BaseRest ==
  ASSUME Base, BoardGivesUp \/ Deliver \/ LoseToBoard \/ LoseFromBoard
  PROVE  Base'
<1>1. UNCHANGED <<part, at, result, calls, killed>>
  BY DEF BoardGivesUp, Deliver, LoseToBoard, LoseFromBoard
<1>2. BoardTypeOK'
  <2>1. CASE BoardGivesUp
    BY <2>1, EpcqJobTypes DEF BoardGivesUp, Base
  <2>2. CASE UNCHANGED epcqVars
    BY <2>2 DEF Base, BoardTypeOK
  <2> QED BY <2>1, <2>2 DEF Deliver, LoseToBoard, LoseFromBoard
<1>3. NetTypeOK'
  <2>1. CASE BoardGivesUp
    BY <2>1 DEF BoardGivesUp, Base, NetTypeOK
  <2>2. CASE Deliver
    <3>1. Head(fromBoard) \in FromBoard /\ Tail(fromBoard) \in Seq(FromBoard)
      BY <2>2 DEF Deliver, Base, NetTypeOK
    <3>2. COMMAND_PORT \in CallPorts
      BY DEF CallPorts
    <3>3. SocketsTypeOK(arrive(open_sockets, Head(fromBoard)))
      BY <3>1, <3>2, FlashSockets DEF Base, NetTypeOK
    <3> QED BY <2>2, <3>1, <3>3 DEF Deliver, Base, NetTypeOK
  <2>3. CASE LoseToBoard
    BY <2>3 DEF LoseToBoard, Base, NetTypeOK
  <2>4. CASE LoseFromBoard
    BY <2>4 DEF LoseFromBoard, Base, NetTypeOK
  <2> QED BY <2>1, <2>2, <2>3, <2>4
<1>4. CallTypeOK'
  <2>1. refused' \in BOOLEAN
    <3>1. CASE BoardGivesUp
      BY <3>1, Zenon DEF BoardGivesUp
    <3>2. CASE Deliver \/ LoseToBoard \/ LoseFromBoard
      BY <3>2 DEF Deliver, LoseToBoard, LoseFromBoard, Base, CallTypeOK
    <3> QED BY <3>1, <3>2
  <2> QED BY <1>1, <2>1 DEF Base, CallTypeOK
<1> QED BY <1>1, <1>2, <1>3, <1>4, PcStays DEF Base

\* The types and places are kept by every step.
LEMMA BaseStep ==
  ASSUME Base, [Next]_flashVars
  PROVE  Base'
<1>1. CASE Len(calls) < Len(Calls) /\ \E call \in Calls[Len(calls) + 1] : Call(call)
  BY <1>1, BaseCall
<1>2. CASE ServerStep
  BY <1>2, BaseSend, BaseOpen, BaseReceive, BaseUse DEF ServerStep
<1>3. CASE Kill
  BY <1>3, BaseUse
<1>4. CASE BoardStep
  BY <1>4, BaseBoardReceive, BaseBoardFinish, BaseRest DEF BoardStep
<1>5. CASE Deliver \/ LoseToBoard \/ LoseFromBoard
  BY <1>5, BaseRest
<1>6. CASE UNCHANGED flashVars
  <2>1. BoardTypeOK' /\ NetTypeOK' /\ CallTypeOK'
    BY <1>6 DEF flashVars, Base, BoardTypeOK, NetTypeOK, CallTypeOK
  <2>2. PcOK'
    BY <1>6, PcStays DEF flashVars
  <2> QED BY <2>1, <2>2 DEF Base
<1> QED BY <1>1, <1>2, <1>3, <1>4, <1>5, <1>6 DEF Next

-----------------------------------------------------------------------------
(***************************************************************************)
(* One command and its answer.  While the call waits, all that is under    *)
(* way belongs to the command it has sent: the command itself, or the job  *)
(* it started, or the answers, of which the one that ends the wait is the  *)
(* last.  A page may be ahead of the command.                              *)
(***************************************************************************)
AnswerPort(cmd) == IF cmd = "ERD" THEN FIRMWARE_PORT ELSE COMMAND_PORT
IsAnswer(cmd, lport, words) == Ends(WaitOf(cmd), lport, words)
Sock(lport) == IF lport \in DOMAIN open_sockets THEN open_sockets[lport] ELSE << >>
Arriving(cmd) ==
  \E i \in 1 .. Len(fromBoard) : IsAnswer(cmd, fromBoard[i].port, fromBoard[i].words)
Arrived(cmd) ==
  \E i \in 1 .. Len(Sock(AnswerPort(cmd))) :
    IsAnswer(cmd, AnswerPort(cmd), Sock(AnswerPort(cmd))[i])
Answered(cmd) == Arriving(cmd) \/ Arrived(cmd)

Sending(step) ==
  /\ \A i \in 1 .. Len(toBoard) :
       IF i < Len(toBoard) THEN toBoard[i].cmd = "data" ELSE toBoard[i] = Message(step)
  /\ toBoard # << >> => job = Idle /\ fromBoard = << >> /\ Sock(AnswerPort(step.cmd)) = << >>
Working(step) ==
  job # Idle =>
    /\ job = [cmd |-> step.cmd, nwords |-> step.prefix, address |-> epcqio_address]
    /\ ~Answered(step.cmd)
Answering(cmd) ==
  /\ \A i \in 1 .. Len(fromBoard) :
       IsAnswer(cmd, fromBoard[i].port, fromBoard[i].words) => i = Len(fromBoard)
  /\ \A i \in 1 .. Len(Sock(AnswerPort(cmd))) :
       IsAnswer(cmd, AnswerPort(cmd), Sock(AnswerPort(cmd))[i]) =>
         i = Len(Sock(AnswerPort(cmd))) /\ fromBoard = << >>
  /\ DOMAIN open_sockets \subseteq {AnswerPort(cmd)}
AnswerTrue(step) ==
  /\ (Answered(step.cmd) /\ step.cmd = "ESA") => epcqio_address = step.word
  /\ (Answered(step.cmd) /\ step.cmd = "ERD") => last_cmd = "ERD"
  /\ step.cmd = "ERD" =>
       /\ \A i \in 1 .. Len(fromBoard) :
            fromBoard[i].port = FIRMWARE_PORT =>
              fromBoard[i].words = Contents(epcqio_address, step.prefix)
       /\ \A i \in 1 .. Len(Sock(FIRMWARE_PORT)) :
            Sock(FIRMWARE_PORT)[i] = Contents(epcqio_address, step.prefix)
Exchange(step) == Sending(step) /\ Working(step) /\ Answering(step.cmd) /\ AnswerTrue(step)

\* What ends a wait.
LEMMA AnswerFacts ==
  ASSUME NEW cmd \in Commands, NEW lport, NEW words
  PROVE  /\ cmd = "ERD" => (IsAnswer(cmd, lport, words) <=> lport = FIRMWARE_PORT)
         /\ cmd = "GCT" => (IsAnswer(cmd, lport, words) <=> lport = COMMAND_PORT)
         /\ cmd \in {"ERB", "ESA", "ESE", "EWR"} =>
              (IsAnswer(cmd, lport, words) <=> lport = COMMAND_PORT /\ Mentions(words, "DON"))
         /\ COMMAND_PORT # FIRMWARE_PORT
         /\ IsAnswer(cmd, lport, words) => lport = AnswerPort(cmd)
<1>1. COMMAND_PORT # FIRMWARE_PORT
  BY DEF COMMAND_PORT, FIRMWARE_PORT
<1>2. CASE cmd = "ERD"
  BY <1>1, <1>2 DEF IsAnswer, Ends, WaitOf, Receive, AnswerPort
<1>3. CASE cmd = "GCT"
  BY <1>1, <1>3 DEF IsAnswer, Ends, WaitOf, Receive, AnswerPort
<1>4. CASE cmd \in {"ERB", "ESA", "ESE", "EWR"}
  BY <1>1, <1>4 DEF IsAnswer, Ends, WaitOf, WaitForDone, AnswerPort
<1> QED BY <1>1, <1>2, <1>3, <1>4 DEF Commands

\* Which answers mention DON.
LEMMA MentionFacts ==
  /\ Mentions(<<"ESA", "DON">>, "DON") /\ Mentions(<<"ERB", "DON">>, "DON")
  /\ Mentions(<<"GCT", "EPOCH", "DON">>, "DON") /\ Mentions(<<"DON">>, "DON")
  /\ \A cmd \in Commands : ~Mentions(<<cmd>>, "DON")
<1>1. <<"ESA", "DON">>[2] = "DON" /\ <<"ERB", "DON">>[2] = "DON"
      /\ <<"GCT", "EPOCH", "DON">>[3] = "DON" /\ <<"DON">>[1] = "DON"
  OBVIOUS
<1>2. \A cmd \in Commands : cmd # "DON"
  BY DEF Commands
<1>3. /\ Len(<<"ESA", "DON">>) = 2 /\ Len(<<"ERB", "DON">>) = 2
      /\ Len(<<"GCT", "EPOCH", "DON">>) = 3 /\ Len(<<"DON">>) = 1
      /\ \A cmd : Len(<<cmd>>) = 1 /\ <<cmd>>[1] = cmd
  OBVIOUS
<1>4. Mentions(<<"ESA", "DON">>, "DON")
  BY <1>1, <1>3 DEF Mentions
<1>5. Mentions(<<"ERB", "DON">>, "DON")
  BY <1>1, <1>3 DEF Mentions
<1>6. Mentions(<<"GCT", "EPOCH", "DON">>, "DON")
  BY <1>1, <1>3 DEF Mentions
<1>7. Mentions(<<"DON">>, "DON")
  BY <1>1, <1>3 DEF Mentions
<1>8. \A cmd \in Commands : ~Mentions(<<cmd>>, "DON")
  BY <1>2, <1>3 DEF Mentions
<1> QED BY <1>4, <1>5, <1>6, <1>7, <1>8

\* Ends of the sequences of packets.
LEMMA EndsOfSeq ==
  ASSUME NEW S, NEW s \in Seq(S)
  PROVE  /\ Len(s) \in Nat /\ (s # << >> <=> Len(s) > 0)
         /\ s # << >> => /\ Head(s) = s[1] /\ Head(s) \in S
                         /\ Tail(s) \in Seq(S) /\ Len(Tail(s)) = Len(s) - 1
                         /\ \A i \in 1 .. Len(Tail(s)) : Tail(s)[i] = s[i + 1] /\ i + 1 \in 1 .. Len(s)
         /\ \A x \in S : /\ Append(s, x) \in Seq(S) /\ Len(Append(s, x)) = Len(s) + 1
                         /\ Append(s, x) # << >>
                         /\ \A i \in 1 .. Len(s) : Append(s, x)[i] = s[i]
                         /\ Append(s, x)[Len(s) + 1] = x
  OBVIOUS

\* The board takes a packet of the exchange.
LEMMA ExchangeReceive ==
  ASSUME Base, NEW step, IsCommand(step), Exchange(step), BoardReceive
  PROVE  /\ Exchange(step)' /\ UNCHANGED <<flash, last_cmd>>
         /\ step.cmd # "ESA" => UNCHANGED epcqio_address
         /\ epcqio_address' \in {epcqio_address, step.word}
         /\ job = Idle
<1> DEFINE m == Head(toBoard)
           c == step.cmd
           lport == AnswerPort(c)
<1>c. c \in Commands /\ c # "data" /\ Message(step).cmd = c /\ Message(step).n = step.prefix
      /\ Message(step).address = step.word
  BY DEF IsCommand, Commands, Message
<1>1. job = Idle /\ fromBoard = << >> /\ Sock(lport) = << >>
  BY DEF Exchange, Sending, BoardReceive
<1>2. /\ toBoard' = Tail(toBoard) /\ toBoard # << >> /\ toBoard \in Seq(ToBoard)
      /\ UNCHANGED open_sockets
  BY DEF BoardReceive, Base, NetTypeOK
<1>3. \/ m.cmd = "data" /\ EpcqData(m.words) /\ UNCHANGED fromBoard
      \/ m.cmd = "ESA" /\ EpcqSetAddress(m.address) /\ Answer(<<"ESA", "DON">>)
      \/ m.cmd = "ERB" /\ EpcqClearBuffers /\ Answer(<<"ERB", "DON">>)
      \/ m.cmd \in {"ESE", "EWR", "ERD"} /\ EpcqStart(m.cmd, m.n) /\ Answer(<<m.cmd>>)
      \/ m.cmd = "GCT" /\ UNCHANGED epcqVars /\ Answer(<<"GCT", "EPOCH", "DON">>)
  BY DEF BoardReceive
<1>4. /\ Len(toBoard) \in Nat /\ Len(toBoard) > 0 /\ m = toBoard[1]
      /\ Len(toBoard') = Len(toBoard) - 1
      /\ \A i \in 1 .. Len(toBoard') : toBoard'[i] = toBoard[i + 1] /\ i + 1 \in 1 .. Len(toBoard)
      /\ (toBoard' # << >>) <=> (Len(toBoard') > 0)
  BY <1>2, EndsOfSeq
<1>s. \A i \in 1 .. Len(toBoard) :
        IF i < Len(toBoard) THEN toBoard[i].cmd = "data" ELSE toBoard[i] = Message(step)
  BY DEF Exchange, Sending
<1>5. Sock(lport)' = << >> /\ DOMAIN open_sockets' \subseteq {lport}
  BY <1>1, <1>2 DEF Sock, Exchange, Answering
<1>6. CASE Len(toBoard) > 1
  <2>1. m.cmd = "data"
    BY <1>4, <1>6, <1>s
  <2>2. EpcqData(m.words) /\ UNCHANGED fromBoard
    BY <1>3, <2>1
  <2>3. UNCHANGED <<flash, last_cmd, epcqio_address, job>>
    BY <2>2 DEF EpcqData
  <2>4. \A i \in 1 .. Len(toBoard') :
          IF i < Len(toBoard') THEN toBoard'[i].cmd = "data" ELSE toBoard'[i] = Message(step)
    BY <1>4, <1>s
  <2>5. Sending(step)'
    BY <1>1, <1>5, <2>2, <2>3, <2>4 DEF Sending
  <2>6. ~Answered(c)'
    BY <1>1, <1>5, <2>2 DEF Answered, Arriving, Arrived
  <2>7. Working(step)' /\ Answering(c)'
    BY <1>1, <1>5, <2>2, <2>3 DEF Working, Answering
  <2>8. AnswerTrue(step)'
    BY <1>1, <1>5, <2>2, <2>6 DEF AnswerTrue, AnswerPort
  <2> QED BY <1>1, <2>3, <2>5, <2>7, <2>8 DEF Exchange
<1>7. CASE ~(Len(toBoard) > 1)
  <2>1. m = Message(step) /\ toBoard' = << >>
    BY <1>4, <1>7, <1>s
  <2>2. m.cmd = c /\ m.n = step.prefix /\ m.address = step.word
    BY <1>c, <2>1
  <2>3. Sending(step)'
    BY <2>1 DEF Sending
  <2>4. ASSUME NEW words, Answer(words)
        PROVE  /\ fromBoard' # << >> /\ Len(fromBoard') = 1 /\ fromBoard'[1].port = COMMAND_PORT
               /\ fromBoard'[1].words = words
               /\ Answered(c)' <=> IsAnswer(c, COMMAND_PORT, words)
               /\ Answering(c)'
    <3>1. fromBoard' = << Packet(COMMAND_PORT, words) >>
      BY <1>1, <2>4 DEF Answer
    <3>2. /\ fromBoard' # << >> /\ Len(fromBoard') = 1 /\ fromBoard'[1].port = COMMAND_PORT
          /\ fromBoard'[1].words = words
      BY <3>1 DEF Packet
    <3>3. Answered(c)' <=> IsAnswer(c, COMMAND_PORT, words)
      BY <1>5, <3>2 DEF Answered, Arriving, Arrived
    <3>4. Answering(c)'
      BY <1>5, <3>2 DEF Answering
    <3> QED BY <3>2, <3>3, <3>4
  <2>5. ASSUME NEW words, Answer(words), c # "ERD", UNCHANGED <<flash, job, last_cmd>>,
               c = "ESA" => epcqio_address' = step.word, c # "ESA" => UNCHANGED epcqio_address
        PROVE  Exchange(step)'
    <3>1. Working(step)'
      BY <1>1, <2>5 DEF Working
    <3>2. AnswerTrue(step)'
      BY <2>5 DEF AnswerTrue
    <3> QED BY <2>3, <2>4, <2>5, <3>1, <3>2 DEF Exchange
  <2>6. CASE c = "ESA"
    <3>1. EpcqSetAddress(m.address) /\ Answer(<<"ESA", "DON">>)
      BY <1>3, <2>2, <2>6
    <3>2. UNCHANGED <<flash, job, last_cmd>> /\ epcqio_address' = step.word
      BY <2>2, <3>1 DEF EpcqSetAddress
    <3> QED BY <1>1, <2>5, <2>6, <3>1, <3>2
  <2>7. CASE c = "ERB"
    <3>1. EpcqClearBuffers /\ Answer(<<"ERB", "DON">>)
      BY <1>3, <2>2, <2>7
    <3>2. UNCHANGED <<flash, job, last_cmd, epcqio_address>>
      BY <3>1 DEF EpcqClearBuffers
    <3> QED BY <1>1, <2>5, <2>7, <3>1, <3>2
  <2>8. CASE c = "GCT"
    <3>1. UNCHANGED epcqVars /\ Answer(<<"GCT", "EPOCH", "DON">>)
      BY <1>3, <2>2, <2>8
    <3> QED BY <1>1, <2>5, <2>8, <3>1
  <2>9. CASE c \in {"ESE", "EWR", "ERD"}
    <3>1. EpcqStart(c, m.n) /\ Answer(<<c>>)
      BY <1>3, <2>2, <2>9
    <3>2. /\ UNCHANGED <<flash, last_cmd, epcqio_address>>
          /\ job' = [cmd |-> c, nwords |-> step.prefix, address |-> epcqio_address]
      BY <1>1, <2>2, <3>1 DEF EpcqStart
    <3>3. ~IsAnswer(c, COMMAND_PORT, <<c>>)
      BY <1>c, <2>9, AnswerFacts, MentionFacts
    <3>4. ~Answered(c)' /\ Answering(c)' /\ Len(fromBoard') = 1 /\ fromBoard'[1].port = COMMAND_PORT
      BY <2>4, <3>1, <3>3
    <3>5. Working(step)'
      BY <3>2, <3>4 DEF Working
    <3>6. AnswerTrue(step)'
      <4>1. ~Answered(step.cmd)'
        BY <3>4
      <4>2. COMMAND_PORT # FIRMWARE_PORT
        BY DEF COMMAND_PORT, FIRMWARE_PORT
      <4>3. c = "ERD" => Sock(FIRMWARE_PORT)' = << >>
        BY <1>5 DEF AnswerPort
      <4>4. c = "ERD" => \A i \in 1 .. Len(Sock(FIRMWARE_PORT)') : FALSE
        BY <4>3
      <4> QED BY <3>4, <4>1, <4>2, <4>4 DEF AnswerTrue
    <3> QED BY <1>1, <2>3, <2>9, <3>2, <3>4, <3>5, <3>6 DEF Exchange
  <2> QED BY <1>c, <2>6, <2>7, <2>8, <2>9 DEF Commands
<1> QED BY <1>4, <1>6, <1>7

\* Two packets at the end of a sequence of packets.
LEMMA TwoMore ==
  ASSUME NEW S, NEW s \in Seq(S), NEW a \in S, NEW b \in S, NEW r, r = s \o <<a, b>>
  PROVE  /\ r \in Seq(S) /\ Len(r) = Len(s) + 2
         /\ \A i \in 1 .. Len(s) : r[i] = s[i]
         /\ r[Len(s) + 1] = a /\ r[Len(s) + 2] = b
<1>1. <<a, b>> \in Seq(S) /\ Len(<<a, b>>) = 2 /\ <<a, b>>[1] = a /\ <<a, b>>[2] = b
  OBVIOUS
<1> QED BY <1>1

\* The board finishes the job of the exchange.
LEMMA ExchangeFinish ==
  ASSUME Base, NEW step, IsCommand(step), Exchange(step), BoardFinish
  PROVE  /\ Exchange(step)' /\ UNCHANGED epcqio_address
         /\ job = [cmd |-> step.cmd, nwords |-> step.prefix, address |-> epcqio_address]
         /\ toBoard = << >> /\ ~Answered(step.cmd) /\ Idle = job'
         /\ step.cmd \in {"ESE", "EWR", "ERD"} /\ last_cmd' = step.cmd
         /\ step.cmd = "ERD" => UNCHANGED flash
         /\ step.cmd = "ESE" => flash' = Erased(epcqio_address)
         /\ step.cmd = "EWR" => EpcqWrite
<1> DEFINE c == step.cmd
           lport == AnswerPort(c)
<1>c. c \in Commands
  BY DEF IsCommand
<1>1. /\ job.cmd \in {"ESE", "EWR", "ERD"} /\ job # Idle
      /\ UNCHANGED <<epcqio_address, open_sockets, toBoard>> /\ job' = Idle /\ last_cmd' = job.cmd
  BY DEF BoardFinish, EpcqErase, EraseAccepted, EpcqWrite, EpcqRead, Idle
<1>2. /\ job = [cmd |-> c, nwords |-> step.prefix, address |-> epcqio_address] /\ ~Answered(c)
  BY <1>1 DEF Exchange, Working
<1>3. toBoard = << >>
  BY <1>1 DEF Exchange, Sending
<1>4. job.cmd = c /\ job.nwords = step.prefix /\ job.address = epcqio_address /\ c \in {"ESE", "EWR", "ERD"}
  BY <1>1, <1>2
<1>5. Sending(step)' /\ Working(step)' /\ Sock(lport)' = Sock(lport) /\ DOMAIN open_sockets' \subseteq {lport}
  BY <1>1, <1>3 DEF Sending, Working, Sock, Exchange, Answering
<1>6. /\ \A i \in 1 .. Len(fromBoard) : ~IsAnswer(c, fromBoard[i].port, fromBoard[i].words)
      /\ \A i \in 1 .. Len(Sock(lport)) : ~IsAnswer(c, lport, Sock(lport)[i])
  BY <1>2 DEF Answered, Arriving, Arrived
<1>7. fromBoard \in Seq(FromBoard) /\ Len(fromBoard) \in Nat
  BY DEF Base, NetTypeOK
<1>8. CASE c \in {"ESE", "EWR"}
  <2>1. (EpcqErase \/ EpcqWrite) /\ Answer(<<"DON">>)
    BY <1>4, <1>8 DEF BoardFinish, EpcqRead
  <2>2. (c = "ESE" => flash' = Erased(epcqio_address)) /\ (c = "EWR" => EpcqWrite)
    BY <1>4, <2>1 DEF EpcqErase, EraseAccepted, EpcqWrite
  <2>3. fromBoard' = Append(fromBoard, Packet(COMMAND_PORT, <<"DON">>))
    BY <2>1 DEF Answer
  <2>4. /\ Len(fromBoard') = Len(fromBoard) + 1
        /\ \A i \in 1 .. Len(fromBoard) : fromBoard'[i] = fromBoard[i]
    BY <1>7, <2>3
  <2>5. Answering(c)'
    BY <1>5, <1>6, <1>7, <2>4 DEF Answering
  <2>6. AnswerTrue(step)'
    BY <1>8 DEF AnswerTrue
  <2> QED BY <1>1, <1>2, <1>3, <1>4, <1>5, <1>8, <2>2, <2>5, <2>6 DEF Exchange
<1>9. CASE c = "ERD"
  <2> DEFINE p1 == Packet(COMMAND_PORT, <<"DON">>)
             p2 == Packet(FIRMWARE_PORT, Contents(epcqio_address, step.prefix))
  <2>1. EpcqRead /\ fromBoard' = fromBoard \o <<p1, p2>>
    BY <1>4, <1>9 DEF BoardFinish, EpcqErase, EraseAccepted, EpcqWrite
  <2>2. UNCHANGED flash
    BY <2>1 DEF EpcqRead
  <2>3. p1 \in FromBoard /\ p2 \in FromBoard
    <3>1. Contents(epcqio_address, step.prefix) \in Seq(Data)
      BY WordsType DEF Base, BoardTypeOK, IsCommand
    <3>2. Contents(epcqio_address, step.prefix) \in Seq(AnyWord) /\ <<"DON">> \in Seq(AnyWord)
      BY <3>1 DEF AnyWord
    <3> QED BY <3>2 DEF Packet, FromBoard, CallPorts
  <2>4. /\ p1.port = COMMAND_PORT /\ p2.port = FIRMWARE_PORT
        /\ p2.words = Contents(epcqio_address, step.prefix)
        /\ COMMAND_PORT # FIRMWARE_PORT
    BY DEF Packet, COMMAND_PORT, FIRMWARE_PORT
  <2> HIDE DEF p1, p2
  <2>5. /\ Len(fromBoard') = Len(fromBoard) + 2
        /\ \A i \in 1 .. Len(fromBoard) : fromBoard'[i] = fromBoard[i]
        /\ fromBoard'[Len(fromBoard) + 1] = p1 /\ fromBoard'[Len(fromBoard) + 2] = p2
    BY <1>7, <2>1, <2>3, TwoMore
  <2>6. ~IsAnswer(c, p1.port, p1.words)
    BY <1>c, <1>9, <2>4, AnswerFacts
  <2>7. \A i \in 1 .. Len(fromBoard') : \/ i \in 1 .. Len(fromBoard)
                                        \/ i = Len(fromBoard) + 1 \/ i = Len(fromBoard) + 2
    BY <1>7, <2>5
  <2>8. Answering(c)'
    BY <1>5, <1>6, <1>7, <2>5, <2>6, <2>7 DEF Answering
  <2>9. Contents(epcqio_address, step.prefix)' = Contents(epcqio_address, step.prefix)
    BY <1>1, <2>2 DEF Contents, Words
  <2>10. last_cmd' = "ERD"
    BY <1>1, <1>4, <1>9
  <2>11. \A i \in 1 .. Len(fromBoard') :
            fromBoard'[i].port = FIRMWARE_PORT => fromBoard'[i].words = Contents(epcqio_address, step.prefix)
    <3>1. \A i \in 1 .. Len(fromBoard) :
            fromBoard[i].port = FIRMWARE_PORT => fromBoard[i].words = Contents(epcqio_address, step.prefix)
      BY <1>9 DEF Exchange, AnswerTrue
    <3> QED BY <2>4, <2>5, <2>7, <3>1
  <2>12. /\ \A i \in 1 .. Len(Sock(FIRMWARE_PORT)) :
              Sock(FIRMWARE_PORT)[i] = Contents(epcqio_address, step.prefix)
         /\ Sock(FIRMWARE_PORT)' = Sock(FIRMWARE_PORT)
    BY <1>1, <1>9 DEF Exchange, AnswerTrue, Sock
  <2>13. AnswerTrue(step)'
    BY <1>9, <2>9, <2>10, <2>11, <2>12 DEF AnswerTrue
  <2> QED BY <1>1, <1>2, <1>3, <1>4, <1>5, <1>9, <2>2, <2>8, <2>13 DEF Exchange
<1> QED BY <1>4, <1>8, <1>9

\* The board gives up an erase.
LEMMA ExchangeGivesUp ==
  ASSUME Base, NEW step, IsCommand(step), Exchange(step), BoardGivesUp
  PROVE  /\ Exchange(step)' /\ UNCHANGED <<flash, epcqio_address, last_cmd>>
         /\ job.cmd = "ESE" /\ step.cmd = "ESE" /\ last_cmd = "ESE" /\ toBoard = << >>
<1>1. /\ job.cmd = "ESE" /\ job # Idle /\ last_cmd = "ESE" /\ job' = Idle
      /\ UNCHANGED <<flash, epcqio_address, wrbuff, last_cmd, open_sockets, toBoard, fromBoard>>
  BY DEF BoardGivesUp, EpcqStartTimeout, EraseAccepted, Idle
<1>2. step.cmd = "ESE" /\ toBoard = << >>
  BY <1>1 DEF Exchange, Working, Sending
<1>3. Sock(AnswerPort(step.cmd))' = Sock(AnswerPort(step.cmd)) /\ Sock(FIRMWARE_PORT)' = Sock(FIRMWARE_PORT)
  BY <1>1 DEF Sock
<1>4. Sending(step)' /\ Working(step)'
  BY <1>1, <1>2 DEF Sending, Working
<1>5. Answering(step.cmd)'
  BY <1>1, <1>3 DEF Exchange, Answering
<1>6. AnswerTrue(step)'
  BY <1>2 DEF AnswerTrue
<1> QED BY <1>1, <1>2, <1>4, <1>5, <1>6 DEF Exchange

\* A packet to the board is lost.
LEMMA ExchangeLoseTo ==
  ASSUME Base, NEW step, IsCommand(step), Exchange(step), LoseToBoard
  PROVE  Exchange(step)' /\ UNCHANGED epcqVars
<1> DEFINE lport == AnswerPort(step.cmd)
<1>1. /\ toBoard' = Tail(toBoard) /\ toBoard # << >> /\ toBoard \in Seq(ToBoard)
      /\ UNCHANGED <<epcqVars, open_sockets, fromBoard>>
  BY DEF LoseToBoard, Base, NetTypeOK
<1>2. /\ Len(toBoard) \in Nat /\ Len(toBoard') = Len(toBoard) - 1
      /\ \A i \in 1 .. Len(toBoard') : toBoard'[i] = toBoard[i + 1] /\ i + 1 \in 1 .. Len(toBoard)
  BY <1>1, EndsOfSeq
<1>3. job = Idle /\ fromBoard = << >> /\ Sock(lport) = << >>
  BY <1>1 DEF Exchange, Sending
<1>4. Sock(lport)' = Sock(lport) /\ DOMAIN open_sockets' \subseteq {lport}
  BY <1>1 DEF Sock, Exchange, Answering
<1>5. Sending(step)'
  BY <1>1, <1>2, <1>3, <1>4 DEF Exchange, Sending
<1>6. ~Answered(step.cmd)'
  BY <1>1, <1>3, <1>4 DEF Answered, Arriving, Arrived
<1>7. Working(step)' /\ Answering(step.cmd)'
  BY <1>1, <1>3, <1>4 DEF Working, Answering
<1>8. AnswerTrue(step)'
  BY <1>1, <1>3, <1>4, <1>6 DEF AnswerTrue, AnswerPort
<1> QED BY <1>1, <1>5, <1>7, <1>8 DEF Exchange

\* A packet from the board is delivered, dropped or lost.
LEMMA ExchangeDeliver ==
  ASSUME Base, NEW step, IsCommand(step), Exchange(step), Deliver \/ LoseFromBoard
  PROVE  Exchange(step)' /\ UNCHANGED epcqVars
<1> DEFINE c == step.cmd
           lport == AnswerPort(c)
           m == Head(fromBoard)
           s == Sock(lport)
<1>c. c \in Commands /\ lport \in CallPorts
  BY DEF IsCommand, AnswerPort, CallPorts
<1>1. /\ fromBoard' = Tail(fromBoard) /\ fromBoard # << >> /\ fromBoard \in Seq(FromBoard)
      /\ UNCHANGED <<epcqVars, toBoard>>
  BY DEF Deliver, LoseFromBoard, Base, NetTypeOK
<1>2. /\ Len(fromBoard) \in Nat /\ Len(fromBoard') = Len(fromBoard) - 1 /\ Len(fromBoard) > 0
      /\ m = fromBoard[1] /\ m \in FromBoard
      /\ \A i \in 1 .. Len(fromBoard') :
           fromBoard'[i] = fromBoard[i + 1] /\ i + 1 \in 1 .. Len(fromBoard)
  BY <1>1, EndsOfSeq
<1>3. toBoard = << >>
  BY <1>1 DEF Exchange, Sending
<1>d. DOMAIN open_sockets \subseteq {lport}
  BY DEF Exchange, Answering
<1>s. s \in Seq(Seq(AnyWord)) /\ Len(s) \in Nat
  BY DEF Sock, Base, NetTypeOK, SocketsTypeOK
<1>a. /\ \A i \in 1 .. Len(fromBoard) :
           IsAnswer(c, fromBoard[i].port, fromBoard[i].words) => i = Len(fromBoard)
      /\ \A i \in 1 .. Len(s) : ~IsAnswer(c, lport, s[i])
  BY <1>1 DEF Exchange, Answering
<1>4. /\ DOMAIN open_sockets' \subseteq {lport}
      /\ \/ s' = s
         \/ m.port = lport /\ s' = Append(s, m.words) /\ m.words \in Seq(AnyWord)
  <2>1. CASE LoseFromBoard
    BY <1>d, <2>1 DEF LoseFromBoard, Sock
  <2>2. CASE Deliver /\ ~accepted(open_sockets, m)
    BY <1>d, <2>2 DEF Deliver, arrive, Sock
  <2>3. CASE Deliver /\ accepted(open_sockets, m)
    <3>1. m.port \in DOMAIN open_sockets /\ m.words \in Seq(AnyWord)
      BY <1>2, <2>3 DEF accepted, FromBoard
    <3>2. m.port = lport
      BY <1>d, <3>1
    <3>3. open_sockets' = [open_sockets EXCEPT ![lport] = Append(@, m.words)]
      BY <2>3, <3>2 DEF Deliver, arrive
    <3> QED BY <1>d, <3>1, <3>2, <3>3 DEF Sock
  <2> QED BY <2>1, <2>2, <2>3
<1>5. /\ Len(s') \in Nat
      /\ \A i \in 1 .. Len(s') :
           \/ i \in 1 .. Len(s) /\ s'[i] = s[i]
           \/ i = Len(s') /\ s'[i] = m.words /\ m.port = lport
  BY <1>4, <1>s
<1> HIDE DEF s, m
<1>6. /\ \A i \in 1 .. Len(fromBoard') :
           IsAnswer(c, fromBoard'[i].port, fromBoard'[i].words) => i = Len(fromBoard')
      /\ IsAnswer(c, m.port, m.words) => Len(fromBoard) = 1 /\ fromBoard' = << >>
  <2>1. IsAnswer(c, m.port, m.words) => Len(fromBoard) = 1
    BY <1>2, <1>a
  <2>2. Len(fromBoard) = 1 => fromBoard' = << >>
    <3>1. fromBoard' \in Seq(FromBoard)
      BY <1>1, EndsOfSeq
    <3> QED BY <1>2, <3>1
  <2> QED BY <1>2, <1>a, <2>1, <2>2
<1>7. \A i \in 1 .. Len(s') : IsAnswer(c, lport, s'[i]) => i = Len(s') /\ fromBoard' = << >>
  BY <1>5, <1>6, <1>a
<1>8. Answering(c)'
  BY <1>4, <1>6, <1>7 DEF Answering, s
<1>9. Sending(step)'
  BY <1>1, <1>3 DEF Sending
<1>10. Answered(c)' => Answered(c)
  <2>1. ASSUME NEW i \in 1 .. Len(fromBoard'), IsAnswer(c, fromBoard'[i].port, fromBoard'[i].words)
        PROVE  Arriving(c)
    BY <1>2, <2>1 DEF Arriving
  <2>2. ASSUME NEW i \in 1 .. Len(s'), IsAnswer(c, lport, s'[i])
        PROVE  Arriving(c)
    <3>1. IsAnswer(c, m.port, m.words)
      BY <1>5, <1>a, <2>2
    <3> QED BY <1>2, <3>1 DEF Arriving
  <2> QED BY <2>1, <2>2 DEF Answered, Arriving, Arrived, s
<1>11. Working(step)'
  BY <1>1, <1>10 DEF Exchange, Working
<1>12. AnswerTrue(step)'
  <2>1. Contents(epcqio_address, step.prefix)' = Contents(epcqio_address, step.prefix)
    BY <1>1 DEF Contents, Words
  <2>2. ASSUME c = "ERD"
        PROVE  /\ \A i \in 1 .. Len(fromBoard') :
                    fromBoard'[i].port = FIRMWARE_PORT =>
                      fromBoard'[i].words = Contents(epcqio_address, step.prefix)
               /\ \A i \in 1 .. Len(Sock(FIRMWARE_PORT)') :
                    Sock(FIRMWARE_PORT)'[i] = Contents(epcqio_address, step.prefix)
    <3>1. lport = FIRMWARE_PORT
      BY <2>2 DEF AnswerPort
    <3>2. /\ \A i \in 1 .. Len(fromBoard) :
               fromBoard[i].port = FIRMWARE_PORT =>
                 fromBoard[i].words = Contents(epcqio_address, step.prefix)
          /\ \A i \in 1 .. Len(s) : s[i] = Contents(epcqio_address, step.prefix)
      BY <2>2, <3>1 DEF Exchange, AnswerTrue, s
    <3>3. m.port = FIRMWARE_PORT => m.words = Contents(epcqio_address, step.prefix)
      BY <1>2, <3>2
    <3>4. \A i \in 1 .. Len(s') : s'[i] = Contents(epcqio_address, step.prefix)
      BY <1>5, <3>1, <3>2, <3>3
    <3> QED BY <1>2, <3>1, <3>2, <3>4 DEF s
  <2>3. (Answered(c) /\ c = "ESA" => epcqio_address = step.word) /\ (Answered(c) /\ c = "ERD" => last_cmd = "ERD")
    BY DEF Exchange, AnswerTrue
  <2> QED BY <1>1, <1>10, <2>1, <2>2, <2>3 DEF AnswerTrue
<1> QED BY <1>1, <1>8, <1>9, <1>11, <1>12 DEF Exchange

\* The port a wait listens on.
LEMMA WaitPort ==
  ASSUME NEW cmd \in Commands, Now = WaitOf(cmd)
  PROVE  /\ Listening = AnswerPort(cmd)
         /\ Now.do = "waitForDone" =>
              /\ cmd \in {"ERB", "ESA", "ESE", "EWR"} /\ Listening = COMMAND_PORT
         /\ Now.do = "recieveData" => cmd \in {"ERD", "GCT"} /\ Now.port = AnswerPort(cmd)
  BY DEF Listening, WaitOf, AnswerPort, Receive, WaitForDone, Commands

\* The server opens its socket.
LEMMA ExchangeOpen ==
  ASSUME NEW step, IsCommand(step), Exchange(step), Now = WaitOf(step.cmd), OpenSocket
  PROVE  Exchange(step)' /\ UNCHANGED epcqVars
<1> DEFINE lport == AnswerPort(step.cmd)
<1>1. /\ Listening = lport /\ lport \notin DOMAIN open_sockets
      /\ open_sockets' = [p \in DOMAIN open_sockets \cup {lport} |->
                            IF p = lport THEN << >> ELSE open_sockets[p]]
      /\ UNCHANGED <<epcqVars, netVars>>
  BY WaitPort DEF OpenSocket, can_bind, udp_server, IsCommand
<1>2. DOMAIN open_sockets' \subseteq {lport} /\ Sock(lport)' = Sock(lport) /\ Sock(lport) = << >>
  BY <1>1 DEF Exchange, Answering, Sock
<1>3. Sending(step)'
  BY <1>1, <1>2 DEF Exchange, Sending
<1>4. Answered(step.cmd)' => Answered(step.cmd)
  BY <1>1, <1>2 DEF Answered, Arriving, Arrived
<1>5. Working(step)'
  BY <1>1, <1>4 DEF Exchange, Working
<1>6. Answering(step.cmd)'
  BY <1>1, <1>2 DEF Exchange, Answering
<1>7. AnswerTrue(step)'
  <2>1. Contents(epcqio_address, step.prefix)' = Contents(epcqio_address, step.prefix)
    BY <1>1 DEF Contents, Words
  <2>2. step.cmd = "ERD" => Sock(FIRMWARE_PORT)' = << >>
    BY <1>2 DEF AnswerPort
  <2>3. step.cmd = "ERD" => \A i \in 1 .. Len(Sock(FIRMWARE_PORT)') : FALSE
    BY <2>2
  <2> QED BY <1>1, <1>4, <2>1, <2>3 DEF Exchange, AnswerTrue
<1> QED BY <1>1, <1>3, <1>5, <1>6, <1>7 DEF Exchange

\* A packet without DON does not end the wait.
LEMMA ExchangeMore ==
  ASSUME NEW step, IsCommand(step), Exchange(step), Now = WaitOf(step.cmd),
         UNCHANGED <<epcqVars, netVars>>,
         open_sockets' = udp_server_close(open_sockets, AnswerPort(step.cmd))
  PROVE  Exchange(step)'
<1> DEFINE lport == AnswerPort(step.cmd)
<1>2. DOMAIN open_sockets' \subseteq {lport} /\ Sock(lport)' = << >>
  BY DEF Exchange, Answering, Sock, udp_server_close
<1>3. Sending(step)'
  BY <1>2 DEF Exchange, Sending
<1>4. Answered(step.cmd)' => Answered(step.cmd)
  BY <1>2 DEF Answered, Arriving, Arrived
<1>5. Working(step)'
  BY <1>4 DEF Exchange, Working
<1>6. Answering(step.cmd)'
  BY <1>2 DEF Exchange, Answering
<1>7. AnswerTrue(step)'
  <2>1. Contents(epcqio_address, step.prefix)' = Contents(epcqio_address, step.prefix)
    BY DEF Contents, Words
  <2>2. step.cmd = "ERD" => Sock(FIRMWARE_PORT)' = << >>
    BY <1>2 DEF AnswerPort
  <2>3. step.cmd = "ERD" => \A i \in 1 .. Len(Sock(FIRMWARE_PORT)') : FALSE
    BY <2>2
  <2> QED BY <1>4, <2>1, <2>3 DEF Exchange, AnswerTrue
<1> QED BY <1>3, <1>5, <1>6, <1>7 DEF Exchange

\* Nothing is under way from the board.
Quiet == fromBoard = << >> /\ DOMAIN open_sockets = {} /\ job = Idle

\* When the wait ends, nothing of the exchange is left.
LEMMA ExchangeOver ==
  ASSUME Base, NEW step, IsCommand(step), Exchange(step),
         has_packet(open_sockets, AnswerPort(step.cmd)),
         IsAnswer(step.cmd, AnswerPort(step.cmd), recv(open_sockets, AnswerPort(step.cmd))),
         UNCHANGED <<epcqVars, netVars>>,
         open_sockets' = udp_server_close(open_sockets, AnswerPort(step.cmd))
  PROVE  /\ Quiet' /\ toBoard' = << >>
         /\ step.cmd = "ESA" => epcqio_address = step.word
         /\ step.cmd = "ERD" =>
              /\ last_cmd = "ERD"
              /\ recv(open_sockets, AnswerPort(step.cmd)) = Contents(epcqio_address, step.prefix)
<1> DEFINE lport == AnswerPort(step.cmd)
           s == Sock(lport)
<1>1. s \in Seq(Seq(AnyWord)) /\ s # << >> /\ s = open_sockets[lport]
  BY DEF has_packet, Sock, Base, NetTypeOK, SocketsTypeOK
<1>2. Len(s) \in Nat /\ Len(s) > 0 /\ recv(open_sockets, lport) = s[1]
  BY <1>1, EndsOfSeq DEF recv
<1>3. IsAnswer(step.cmd, lport, s[1]) /\ 1 \in 1 .. Len(s)
  BY <1>2
<1>4. Len(s) = 1 /\ fromBoard = << >>
  BY <1>3 DEF Exchange, Answering
<1>5. Answered(step.cmd)
  BY <1>3 DEF Answered, Arrived
<1>6. job = Idle /\ toBoard = << >>
  BY <1>1, <1>5 DEF Exchange, Working, Sending
<1>7. DOMAIN open_sockets' = {}
  BY DEF udp_server_close, Exchange, Answering
<1>8. /\ step.cmd = "ESA" => epcqio_address = step.word
      /\ step.cmd = "ERD" => last_cmd = "ERD" /\ s[1] = Contents(epcqio_address, step.prefix)
  BY <1>3, <1>5 DEF Exchange, AnswerTrue, AnswerPort
<1> QED BY <1>2, <1>4, <1>6, <1>7, <1>8 DEF Quiet

\* A command sent when nothing is under way but the page before it.
LEMMA ExchangeBegins ==
  ASSUME Base, NEW step, IsCommand(step), Message(step) \in ToBoard, Quiet,
         \A i \in 1 .. Len(toBoard) : toBoard[i].cmd = "data",
         toBoard' = Append(toBoard, Message(step)), UNCHANGED <<epcqVars, fromBoard, open_sockets>>
  PROVE  Exchange(step)'
<1>1. /\ Len(toBoard) \in Nat /\ Len(toBoard') = Len(toBoard) + 1
      /\ \A i \in 1 .. Len(toBoard) : toBoard'[i] = toBoard[i]
      /\ toBoard'[Len(toBoard) + 1] = Message(step)
  BY EndsOfSeq DEF Base, NetTypeOK
<1>2. /\ fromBoard' = << >> /\ DOMAIN open_sockets' = {} /\ job' = Idle
      /\ Sock(AnswerPort(step.cmd))' = << >> /\ Sock(FIRMWARE_PORT)' = << >>
  BY DEF Quiet, Sock
<1>3. Sending(step)'
  BY <1>1, <1>2 DEF Sending
<1>4. ~Answered(step.cmd)'
  BY <1>2 DEF Answered, Arriving, Arrived
<1>5. Working(step)' /\ Answering(step.cmd)'
  BY <1>2 DEF Working, Answering
<1>6. AnswerTrue(step)'
  BY <1>2, <1>4 DEF AnswerTrue
<1> QED BY <1>3, <1>5, <1>6 DEF Exchange

-----------------------------------------------------------------------------
(***************************************************************************)
(* The first page of writeFirmware, steps 1 to 11.  The answer to ERB is   *)
(* still under way, so a wait may be ended by the answer to the command    *)
(* before.  But all that sets an address here sets that of the page: until *)
(* one of them has reached the board, only the answers to ERB and ESE can  *)
(* end waits, one each, and there are three waits before the page is sent. *)
(***************************************************************************)
LoudWaits == {2, 4, 6, 9, 11}
LoudPort(n) == IF n = 11 THEN FIRMWARE_PORT ELSE COMMAND_PORT

Owes(m) == m.cmd \in {"ERB", "ESE"}
InTo == \E i \in 1 .. Len(toBoard) : Owes(toBoard[i])
InJob == job.cmd = "ESE"
InFrom == \E i \in 1 .. Len(fromBoard) : Mentions(fromBoard[i].words, "DON")
InSock == \E i \in 1 .. Len(Sock(COMMAND_PORT)) : Mentions(Sock(COMMAND_PORT)[i], "DON")
NoneOwed == ~InTo /\ ~InJob /\ ~InFrom /\ ~InSock
OneOwed ==
  /\ InTo => ~InJob /\ ~InFrom /\ ~InSock
  /\ InJob => ~InFrom /\ ~InSock
  /\ InFrom => ~InSock
  /\ \A i, j \in 1 .. Len(toBoard) : Owes(toBoard[i]) /\ Owes(toBoard[j]) => i = j
  /\ \A i, j \in 1 .. Len(fromBoard) :
       Mentions(fromBoard[i].words, "DON") /\ Mentions(fromBoard[j].words, "DON") => i = j
  /\ \A i, j \in 1 .. Len(Sock(COMMAND_PORT)) :
       Mentions(Sock(COMMAND_PORT)[i], "DON") /\ Mentions(Sock(COMMAND_PORT)[j], "DON") => i = j

LoudUnset(n, a) ==
  epcqio_address # a =>
    /\ n <= 6
    /\ n \in {1, 2, 4} => OneOwed
    /\ n \in {3, 5, 6} => NoneOwed
    /\ \A i \in 1 .. Len(toBoard) : toBoard[i].cmd \in {"ERB", "ESE", "ESA"}
    /\ job.cmd \in {"IDLE", "ESE"}

NoPage == \A i \in 1 .. Len(fromBoard) : fromBoard[i].port # FIRMWARE_PORT
LoudRead(n) ==
  /\ \A i \in 1 .. Len(toBoard) : toBoard[i].cmd = "ERD" =>
       /\ n = 11 /\ i = Len(toBoard) /\ toBoard[i].n = PageWords
       /\ job.cmd # "ERD" /\ Sock(FIRMWARE_PORT) = << >> /\ NoPage
  /\ job.cmd = "ERD" =>
       /\ n = 11 /\ toBoard = << >> /\ Sock(FIRMWARE_PORT) = << >> /\ NoPage
       /\ job.nwords = PageWords /\ job.address = epcqio_address
  /\ \A i \in 1 .. Len(fromBoard) : fromBoard[i].port = FIRMWARE_PORT =>
       /\ n = 11 /\ i = Len(fromBoard) /\ toBoard = << >> /\ job = Idle
       /\ Sock(FIRMWARE_PORT) = << >>
       /\ fromBoard[i].words = Contents(epcqio_address, PageWords)
  /\ Sock(FIRMWARE_PORT) # << >> =>
       /\ n = 11 /\ Len(Sock(FIRMWARE_PORT)) = 1
       /\ fromBoard = << >> /\ toBoard = << >> /\ job = Idle
       /\ Sock(FIRMWARE_PORT)[1] = Contents(epcqio_address, PageWords)

LoudAt(n, a) ==
  /\ DOMAIN open_sockets \subseteq (IF n \in LoudWaits THEN {LoudPort(n)} ELSE {})
  /\ \A i \in 1 .. Len(toBoard) : toBoard[i].cmd = "ESA" => toBoard[i].address = a
  /\ LoudRead(n)
  /\ LoudUnset(n, a)

\* The first command of the call is sent.
LEMMA LoudBegins ==
  ASSUME Base, NEW a, Quiet, toBoard = << >>, NEW step, step.cmd = "ERB",
         toBoard' = Append(toBoard, Message(step)), UNCHANGED <<epcqVars, fromBoard, open_sockets>>
  PROVE  LoudAt(1, a)'
<1>1. Len(toBoard') = 1 /\ toBoard'[1].cmd = "ERB"
  BY DEF Message
<1>2. /\ fromBoard' = << >> /\ DOMAIN open_sockets' = {} /\ job' = Idle /\ Idle.cmd = "IDLE"
      /\ Sock(COMMAND_PORT)' = << >> /\ Sock(FIRMWARE_PORT)' = << >>
  BY DEF Quiet, Sock, Idle
<1>3. LoudRead(1)'
  BY <1>1, <1>2 DEF LoudRead
<1>4. OneOwed'
  <2>1. ~InJob' /\ ~InFrom' /\ ~InSock'
    BY <1>2 DEF InJob, InFrom, InSock
  <2>2. \A i, j \in 1 .. Len(toBoard') : i = j
    BY <1>1
  <2>3. /\ \A i, j \in 1 .. Len(fromBoard') : FALSE
        /\ \A i, j \in 1 .. Len(Sock(COMMAND_PORT)') : FALSE
    BY <1>2
  <2> QED BY <2>1, <2>2, <2>3 DEF OneOwed
<1>5. LoudUnset(1, a)'
  BY <1>1, <1>2, <1>4 DEF LoudUnset
<1>6. \A i \in 1 .. Len(toBoard') : toBoard'[i].cmd = "ESA" => toBoard'[i].address = a
  BY <1>1
<1> QED BY <1>2, <1>3, <1>5, <1>6 DEF LoudAt

\* The next command or page is sent.
LEMMA LoudSend ==
  ASSUME Base, NEW a, NEW n \in {1, 3, 5, 7, 8, 10}, LoudAt(n, a), NEW m \in ToBoard,
         toBoard' = Append(toBoard, m), UNCHANGED <<epcqVars, fromBoard, open_sockets>>,
         n \in {1, 5} => m.cmd = "ESA" /\ m.address = a,
         n = 3 => m.cmd = "ESE", n = 7 => m.cmd = "data", n = 8 => m.cmd = "EWR",
         n = 10 => m.cmd = "ERD" /\ m.n = PageWords
  PROVE  LoudAt(n + 1, a)'
<1>1. /\ Len(toBoard) \in Nat /\ Len(toBoard') = Len(toBoard) + 1
      /\ \A i \in 1 .. Len(toBoard) : toBoard'[i] = toBoard[i]
      /\ toBoard'[Len(toBoard) + 1] = m
      /\ \A i \in 1 .. Len(toBoard') : i \in 1 .. Len(toBoard) \/ i = Len(toBoard) + 1
  BY EndsOfSeq DEF Base, NetTypeOK
<1>w. n \notin LoudWaits
  BY DEF LoudWaits
<1>d. DOMAIN open_sockets = {}
  BY <1>w DEF LoudAt
<1>2. DOMAIN open_sockets = {} /\ Sock(COMMAND_PORT) = << >> /\ Sock(FIRMWARE_PORT) = << >>
  BY <1>d DEF Sock
<1>3. Sock(COMMAND_PORT)' = << >> /\ Sock(FIRMWARE_PORT)' = << >> /\ DOMAIN open_sockets' = {}
  BY <1>2 DEF Sock
<1>4. NoPage /\ job.cmd # "ERD" /\ (\A i \in 1 .. Len(toBoard) : toBoard[i].cmd # "ERD")
  BY DEF LoudAt, LoudRead, NoPage
<1>5. LoudRead(n + 1)'
  <2>1. NoPage' /\ job'.cmd # "ERD"
    BY <1>4 DEF NoPage
  <2>2. \A i \in 1 .. Len(toBoard') : toBoard'[i].cmd = "ERD" =>
          n + 1 = 11 /\ i = Len(toBoard') /\ toBoard'[i].n = PageWords
    BY <1>1, <1>4
  <2> QED BY <1>3, <2>1, <2>2 DEF LoudRead, NoPage
<1>6. LoudUnset(n + 1, a)'
  <2> SUFFICES ASSUME epcqio_address # a
               PROVE  /\ n + 1 <= 6
                      /\ n + 1 \in {1, 2, 4} => OneOwed'
                      /\ n + 1 \in {3, 5, 6} => NoneOwed'
                      /\ \A i \in 1 .. Len(toBoard') : toBoard'[i].cmd \in {"ERB", "ESE", "ESA"}
                      /\ job'.cmd \in {"IDLE", "ESE"}
    BY DEF LoudUnset
  <2>1. /\ n \in {1, 3, 5}
        /\ n = 1 => OneOwed
        /\ n \in {3, 5} => NoneOwed
        /\ \A i \in 1 .. Len(toBoard) : toBoard[i].cmd \in {"ERB", "ESE", "ESA"}
        /\ job.cmd \in {"IDLE", "ESE"}
    BY DEF LoudAt, LoudUnset
  <2>2. (InJob' <=> InJob) /\ (InFrom' <=> InFrom) /\ (InSock' <=> InSock)
    BY <1>2, <1>3 DEF InJob, InFrom, InSock
  <2>3. n \in {1, 5} => (InTo' <=> InTo)
    BY <1>1 DEF InTo, Owes
  <2>4. n = 1 => OneOwed'
    BY <1>1, <1>2, <1>3, <2>1, <2>2, <2>3 DEF OneOwed, Owes
  <2>5. n = 5 => NoneOwed'
    BY <2>1, <2>2, <2>3 DEF NoneOwed
  <2>6. n = 3 => OneOwed'
    BY <1>1, <1>2, <1>3, <2>1, <2>2 DEF OneOwed, NoneOwed, InTo, InFrom, InSock
  <2> QED BY <1>1, <2>1, <2>4, <2>5, <2>6
<1>7. \A i \in 1 .. Len(toBoard') : toBoard'[i].cmd = "ESA" => toBoard'[i].address = a
  BY <1>1 DEF LoudAt
<1> QED BY <1>3, <1>5, <1>6, <1>7 DEF LoudAt

\* What is left of a sequence without its head.
LEMMA TailFacts ==
  ASSUME NEW S, NEW s \in Seq(S), s # << >>
  PROVE  /\ Len(s) \in Nat /\ Len(s) > 0 /\ Head(s) = s[1] /\ Head(s) \in S
         /\ Tail(s) \in Seq(S) /\ Len(Tail(s)) = Len(s) - 1
         /\ \A i \in 1 .. Len(Tail(s)) : Tail(s)[i] = s[i + 1] /\ i + 1 \in 1 .. Len(s)
         /\ (Tail(s) # << >>) <=> (Len(Tail(s)) > 0)
         /\ 1 \in 1 .. Len(s)
<1>1. Tail(s) \in Seq(S) /\ Len(s) > 0
  BY EndsOfSeq
<1>2. (Tail(s) # << >>) <=> (Len(Tail(s)) > 0)
  BY <1>1, EndsOfSeq
<1> QED BY <1>1, <1>2, EndsOfSeq

\* The board takes a packet.
LEMMA LoudReceive ==
  ASSUME Base, NEW a, NEW n \in 1 .. 11, LoudAt(n, a), BoardReceive
  PROVE  LoudAt(n, a)' /\ UNCHANGED flash /\ epcqio_address' \in {epcqio_address, a}
<1> DEFINE m == Head(toBoard)
<1>1. /\ toBoard' = Tail(toBoard) /\ toBoard # << >> /\ toBoard \in Seq(ToBoard)
      /\ UNCHANGED open_sockets /\ fromBoard \in Seq(FromBoard)
      /\ job.cmd = "IDLE" => job = Idle
  BY DEF BoardReceive, Base, NetTypeOK, BoardTypeOK
<1>2. \/ m.cmd = "data" /\ EpcqData(m.words) /\ UNCHANGED fromBoard
      \/ m.cmd = "ESA" /\ EpcqSetAddress(m.address) /\ Answer(<<"ESA", "DON">>)
      \/ m.cmd = "ERB" /\ EpcqClearBuffers /\ Answer(<<"ERB", "DON">>)
      \/ m.cmd \in {"ESE", "EWR", "ERD"} /\ EpcqStart(m.cmd, m.n) /\ Answer(<<m.cmd>>)
      \/ m.cmd = "GCT" /\ UNCHANGED epcqVars /\ Answer(<<"GCT", "EPOCH", "DON">>)
  BY DEF BoardReceive
<1>3. /\ Len(toBoard) \in Nat /\ Len(toBoard) > 0 /\ m = toBoard[1]
      /\ Len(toBoard') = Len(toBoard) - 1
      /\ \A i \in 1 .. Len(toBoard') : toBoard'[i] = toBoard[i + 1] /\ i + 1 \in 1 .. Len(toBoard)
      /\ (toBoard' # << >>) <=> (Len(toBoard') > 0)
      /\ 1 \in 1 .. Len(toBoard)
  BY <1>1, TailFacts
<1>4. job.cmd # "ERD" /\ NoPage /\ Sock(FIRMWARE_PORT) = << >>
  BY <1>1 DEF LoudAt, LoudRead, NoPage
<1>5. /\ Sock(COMMAND_PORT)' = Sock(COMMAND_PORT) /\ Sock(FIRMWARE_PORT)' = << >>
      /\ DOMAIN open_sockets' = DOMAIN open_sockets
  BY <1>1, <1>4 DEF Sock
<1>6. UNCHANGED flash /\ (m.cmd # "ESA" => UNCHANGED epcqio_address) /\ (m.cmd = "ESA" => epcqio_address' = a)
  <2>1. m.cmd = "ESA" => m.address = a
    BY <1>3 DEF LoudAt
  <2> QED BY <1>2, <2>1 DEF EpcqData, EpcqSetAddress, EpcqClearBuffers, EpcqStart
<1>7. ASSUME NEW words, Answer(words)
      PROVE  /\ Len(fromBoard) \in Nat /\ Len(fromBoard') = Len(fromBoard) + 1
             /\ \A i \in 1 .. Len(fromBoard) : fromBoard'[i] = fromBoard[i]
             /\ fromBoard'[Len(fromBoard) + 1].port = COMMAND_PORT
             /\ fromBoard'[Len(fromBoard) + 1].words = words
             /\ \A i \in 1 .. Len(fromBoard') : i \in 1 .. Len(fromBoard) \/ i = Len(fromBoard) + 1
  BY <1>1, <1>7 DEF Answer, Packet
<1>8. NoPage'
  <2>1. CASE UNCHANGED fromBoard
    BY <1>4, <2>1 DEF NoPage
  <2>2. CASE \E words : Answer(words)
    <3>1. COMMAND_PORT # FIRMWARE_PORT
      BY DEF COMMAND_PORT, FIRMWARE_PORT
    <3> QED BY <1>4, <1>7, <2>2, <3>1 DEF NoPage
  <2> QED BY <1>2, <2>1, <2>2
<1>9. /\ \A i \in 1 .. Len(toBoard) : toBoard[i].cmd = "ERD" =>
           n = 11 /\ i = Len(toBoard) /\ toBoard[i].n = PageWords
      /\ \A i \in 1 .. Len(toBoard) : toBoard[i].cmd = "ESA" => toBoard[i].address = a
  BY DEF LoudAt, LoudRead
<1>10. /\ job'.cmd = "ERD" =>
            /\ n = 11 /\ toBoard' = << >> /\ job'.nwords = PageWords
            /\ job'.address = epcqio_address'
  <2>1. CASE m.cmd \in {"ESE", "EWR", "ERD"}
    <3>1. EpcqStart(m.cmd, m.n)
      BY <1>2, <2>1
    <3>2. job'.cmd = "ERD" => /\ m.cmd = "ERD" /\ job'.nwords = m.n
                              /\ job'.address = epcqio_address'
      BY <1>4, <3>1 DEF EpcqStart
    <3>3. m.cmd = "ERD" => n = 11 /\ toBoard' = << >> /\ m.n = PageWords
      BY <1>3, <1>9
    <3> QED BY <3>2, <3>3
  <2>2. CASE m.cmd \notin {"ESE", "EWR", "ERD"}
    BY <1>2, <1>4, <2>2 DEF EpcqData, EpcqSetAddress, EpcqClearBuffers
  <2> QED BY <2>1, <2>2
<1>11. \A i \in 1 .. Len(toBoard') : toBoard'[i].cmd = "ERD" =>
         n = 11 /\ i = Len(toBoard') /\ toBoard'[i].n = PageWords
  <2> SUFFICES ASSUME NEW i \in 1 .. Len(toBoard'), toBoard'[i].cmd = "ERD"
               PROVE  n = 11 /\ i = Len(toBoard') /\ toBoard'[i].n = PageWords
    OBVIOUS
  <2>1. /\ i \in Nat /\ i + 1 \in 1 .. Len(toBoard) /\ toBoard'[i] = toBoard[i + 1]
        /\ Len(toBoard) \in Nat /\ Len(toBoard') = Len(toBoard) - 1
    BY <1>3
  <2>2. n = 11 /\ i + 1 = Len(toBoard) /\ toBoard[i + 1].n = PageWords
    BY <1>9, <2>1
  <2> QED BY <2>1, <2>2
<1>12. LoudRead(n)'
  <2>1. Len(toBoard') > 0 => job'.cmd # "ERD"
    BY <1>3, <1>10
  <2>2. \A i \in 1 .. Len(toBoard') : Len(toBoard') > 0
    BY <1>3
  <2> QED BY <1>5, <1>8, <1>10, <1>11, <2>1, <2>2 DEF LoudRead, NoPage
<1>13. LoudUnset(n, a)'
  <2> SUFFICES ASSUME epcqio_address' # a
               PROVE  /\ n <= 6
                      /\ n \in {1, 2, 4} => OneOwed'
                      /\ n \in {3, 5, 6} => NoneOwed'
                      /\ \A i \in 1 .. Len(toBoard') : toBoard'[i].cmd \in {"ERB", "ESE", "ESA"}
                      /\ job'.cmd \in {"IDLE", "ESE"}
    BY DEF LoudUnset
  <2>1. epcqio_address # a /\ m.cmd # "ESA"
    BY <1>6
  <2>2. /\ n <= 6
        /\ n \in {1, 2, 4} => OneOwed
        /\ n \in {3, 5, 6} => NoneOwed
        /\ \A i \in 1 .. Len(toBoard) : toBoard[i].cmd \in {"ERB", "ESE", "ESA"}
        /\ job.cmd \in {"IDLE", "ESE"}
    BY <2>1 DEF LoudAt, LoudUnset
  <2>3. m.cmd \in {"ERB", "ESE"} /\ Owes(toBoard[1])
    BY <1>3, <2>1, <2>2 DEF Owes
  <2>4. InTo
    BY <1>3, <2>3 DEF InTo
  <2>5. n \in {1, 2, 4} /\ OneOwed
    BY <2>2, <2>4 DEF NoneOwed
  <2>6. /\ ~InJob /\ ~InFrom /\ ~InSock /\ ~InTo'
    <3>1. \A i, j \in 1 .. Len(toBoard) : Owes(toBoard[i]) /\ Owes(toBoard[j]) => i = j
      BY <2>5 DEF OneOwed
    <3>2. ~InTo'
      BY <1>3, <2>3, <3>1 DEF InTo
    <3> QED BY <2>4, <2>5, <3>2 DEF OneOwed
  <2>7. job = Idle /\ InSock' = InSock
    BY <1>1, <1>5, <2>2, <2>6 DEF InJob, InSock
  <2>8. \A i \in 1 .. Len(fromBoard) : ~Mentions(fromBoard[i].words, "DON")
    BY <2>6 DEF InFrom
  <2>s. \A i \in 1 .. Len(Sock(COMMAND_PORT)') : ~Mentions(Sock(COMMAND_PORT)'[i], "DON")
    BY <1>5, <2>6 DEF InSock
  <2>t. \A i \in 1 .. Len(toBoard') : ~Owes(toBoard'[i])
    BY <2>6 DEF InTo
  <2>9. CASE m.cmd = "ERB"
    <3>1. UNCHANGED job /\ Answer(<<"ERB", "DON">>)
      BY <1>2, <2>9 DEF EpcqClearBuffers
    <3>2. \A i, j \in 1 .. Len(fromBoard') :
            Mentions(fromBoard'[i].words, "DON") /\ Mentions(fromBoard'[j].words, "DON") => i = j
      BY <1>7, <2>8, <3>1
    <3>3. ~InJob' /\ ~InSock'
      BY <2>6, <2>s, <3>1 DEF InJob, InSock
    <3>4. OneOwed'
      BY <2>6, <2>s, <2>t, <3>2, <3>3 DEF OneOwed
    <3> QED BY <1>3, <2>2, <2>5, <3>1, <3>4
  <2>10. CASE m.cmd = "ESE"
    <3>1. job'.cmd = "ESE" /\ Answer(<<"ESE">>)
      BY <1>2, <2>7, <2>10 DEF EpcqStart
    <3>2. \A i \in 1 .. Len(fromBoard') : ~Mentions(fromBoard'[i].words, "DON")
      <4>1. ~Mentions(<<"ESE">>, "DON")
        BY MentionFacts DEF Commands
      <4> QED BY <1>7, <2>8, <3>1, <4>1
    <3>3. ~InFrom' /\ ~InSock'
      BY <2>s, <3>2 DEF InFrom, InSock
    <3>4. OneOwed'
      BY <2>6, <2>s, <2>t, <3>2, <3>3 DEF OneOwed
    <3> QED BY <1>3, <2>2, <2>5, <3>1, <3>4
  <2> QED BY <2>3, <2>9, <2>10
<1>14. \A i \in 1 .. Len(toBoard') : toBoard'[i].cmd = "ESA" => toBoard'[i].address = a
  BY <1>3, <1>9
<1>15. DOMAIN open_sockets' \subseteq (IF n \in LoudWaits THEN {LoudPort(n)} ELSE {})
  BY <1>5 DEF LoudAt
<1> QED BY <1>6, <1>12, <1>13, <1>14, <1>15 DEF LoudAt

\* The board finishes an erase, a write or a read.
LEMMA LoudFinish ==
  ASSUME Base, NEW a, NEW n \in 1 .. 11, LoudAt(n, a), BoardFinish
  PROVE  LoudAt(n, a)' /\ UNCHANGED epcqio_address
<1>1. /\ job.cmd \in {"ESE", "EWR", "ERD"} /\ job # Idle /\ job' = Idle /\ Idle.cmd = "IDLE"
      /\ UNCHANGED <<epcqio_address, open_sockets, toBoard>>
      /\ fromBoard \in Seq(FromBoard) /\ Len(fromBoard) \in Nat
  BY DEF BoardFinish, EpcqErase, EraseAccepted, EpcqWrite, EpcqRead, Idle, Base, NetTypeOK
<1>2. Sock(FIRMWARE_PORT) = << >> /\ NoPage
  BY <1>1 DEF LoudAt, LoudRead, NoPage
<1>3. /\ Sock(COMMAND_PORT)' = Sock(COMMAND_PORT) /\ Sock(FIRMWARE_PORT)' = << >>
      /\ DOMAIN open_sockets' \subseteq (IF n \in LoudWaits THEN {LoudPort(n)} ELSE {})
  BY <1>1, <1>2 DEF Sock, LoudAt
<1>4. \A i \in 1 .. Len(toBoard') : toBoard'[i].cmd = "ESA" => toBoard'[i].address = a
  BY <1>1 DEF LoudAt
<1>p. COMMAND_PORT # FIRMWARE_PORT
  BY DEF COMMAND_PORT, FIRMWARE_PORT
<1>5. CASE job.cmd \in {"ESE", "EWR"}
  <2>1. (EpcqErase \/ EpcqWrite) /\ Answer(<<"DON">>)
    BY <1>5 DEF BoardFinish, EpcqRead
  <2>2. /\ Len(fromBoard') = Len(fromBoard) + 1
        /\ \A i \in 1 .. Len(fromBoard) : fromBoard'[i] = fromBoard[i]
        /\ fromBoard'[Len(fromBoard) + 1].port = COMMAND_PORT
        /\ \A i \in 1 .. Len(fromBoard') : i \in 1 .. Len(fromBoard) \/ i = Len(fromBoard) + 1
    BY <1>1, <2>1 DEF Answer, Packet
  <2>3. NoPage'
    BY <1>2, <1>p, <2>2 DEF NoPage
  <2>4. \A i \in 1 .. Len(toBoard) : toBoard[i].cmd = "ERD" =>
          n = 11 /\ i = Len(toBoard) /\ toBoard[i].n = PageWords
    BY DEF LoudAt, LoudRead
  <2>5. LoudRead(n)'
    BY <1>1, <1>3, <2>3, <2>4 DEF LoudRead, NoPage
  <2>6. LoudUnset(n, a)'
    <3> SUFFICES ASSUME epcqio_address # a
                 PROVE  /\ n <= 6
                        /\ n \in {1, 2, 4} => OneOwed'
                        /\ n \in {3, 5, 6} => NoneOwed'
                        /\ \A i \in 1 .. Len(toBoard') : toBoard'[i].cmd \in {"ERB", "ESE", "ESA"}
                        /\ job'.cmd \in {"IDLE", "ESE"}
      BY <1>1 DEF LoudUnset
    <3>1. /\ n <= 6
          /\ n \in {1, 2, 4} => OneOwed
          /\ n \in {3, 5, 6} => NoneOwed
          /\ \A i \in 1 .. Len(toBoard) : toBoard[i].cmd \in {"ERB", "ESE", "ESA"}
          /\ job.cmd \in {"IDLE", "ESE"}
      BY DEF LoudAt, LoudUnset
    <3>2. InJob
      BY <1>1, <3>1 DEF InJob
    <3>3. n \in {1, 2, 4} /\ OneOwed
      BY <3>1, <3>2 DEF NoneOwed
    <3>4. ~InTo /\ ~InFrom /\ ~InSock
      BY <3>2, <3>3 DEF OneOwed
    <3>5. ~InTo' /\ ~InSock' /\ ~InJob'
      BY <1>1, <1>3, <3>4 DEF InTo, InSock, InJob
    <3>6. \A i \in 1 .. Len(fromBoard) : ~Mentions(fromBoard[i].words, "DON")
      BY <3>4 DEF InFrom
    <3>7. \A i, j \in 1 .. Len(fromBoard') :
            Mentions(fromBoard'[i].words, "DON") /\ Mentions(fromBoard'[j].words, "DON") => i = j
      BY <2>2, <3>6
    <3>8. /\ \A i \in 1 .. Len(toBoard') : ~Owes(toBoard'[i])
          /\ \A i \in 1 .. Len(Sock(COMMAND_PORT)') : ~Mentions(Sock(COMMAND_PORT)'[i], "DON")
      BY <3>5 DEF InTo, InSock
    <3>9. OneOwed'
      BY <3>5, <3>7, <3>8 DEF OneOwed
    <3> QED BY <1>1, <3>1, <3>3, <3>9
  <2> QED BY <1>1, <1>3, <1>4, <2>5, <2>6 DEF LoudAt
<1>6. CASE job.cmd = "ERD"
  <2> DEFINE p1 == Packet(COMMAND_PORT, <<"DON">>)
             p2 == Packet(FIRMWARE_PORT, Contents(epcqio_address, PageWords))
  <2>1. /\ n = 11 /\ toBoard = << >> /\ job.nwords = PageWords /\ job.address = epcqio_address
    BY <1>6 DEF LoudAt, LoudRead
  <2>2. EpcqRead /\ fromBoard' = fromBoard \o <<p1, p2>>
    BY <1>6, <2>1 DEF BoardFinish, EpcqErase, EraseAccepted, EpcqWrite
  <2>3. p1 \in FromBoard /\ p2 \in FromBoard
    <3>1. Contents(epcqio_address, PageWords) \in Seq(Data)
      BY WordsType, FlashAssumption DEF Base, BoardTypeOK
    <3>2. Contents(epcqio_address, PageWords) \in Seq(AnyWord) /\ <<"DON">> \in Seq(AnyWord)
      BY <3>1 DEF AnyWord
    <3> QED BY <3>2 DEF Packet, FromBoard, CallPorts
  <2>4. /\ p1.port = COMMAND_PORT /\ p2.port = FIRMWARE_PORT
        /\ p2.words = Contents(epcqio_address, PageWords)
    BY DEF Packet
  <2> HIDE DEF p1, p2
  <2>5. /\ Len(fromBoard') = Len(fromBoard) + 2
        /\ \A i \in 1 .. Len(fromBoard) : fromBoard'[i] = fromBoard[i]
        /\ fromBoard'[Len(fromBoard) + 1] = p1 /\ fromBoard'[Len(fromBoard) + 2] = p2
    BY <1>1, <2>2, <2>3, TwoMore
  <2>6. \A i \in 1 .. Len(fromBoard') : \/ i \in 1 .. Len(fromBoard)
                                        \/ i = Len(fromBoard) + 1 \/ i = Len(fromBoard) + 2
    BY <1>1, <2>5
  <2>7. Contents(epcqio_address, PageWords)' = Contents(epcqio_address, PageWords)
    BY <1>1, <2>2 DEF Contents, Words, EpcqRead
  <2>8. \A i \in 1 .. Len(fromBoard') : fromBoard'[i].port = FIRMWARE_PORT =>
          i = Len(fromBoard') /\ fromBoard'[i].words = Contents(epcqio_address, PageWords)
    BY <1>1, <1>2, <1>p, <2>4, <2>5, <2>6 DEF NoPage
  <2>9. \A i \in 1 .. Len(toBoard') : FALSE
    BY <1>1, <2>1
  <2>10. LoudRead(n)'
    BY <1>1, <1>3, <2>1, <2>7, <2>8, <2>9 DEF LoudRead
  <2>11. LoudUnset(n, a)'
    BY <1>1, <1>6 DEF LoudAt, LoudUnset
  <2> QED BY <1>1, <1>3, <1>4, <2>10, <2>11 DEF LoudAt
<1> QED BY <1>1, <1>5, <1>6

\* The board gives up an erase, or a packet to it is lost.
LEMMA LoudLess ==
  ASSUME Base, NEW a, NEW n \in 1 .. 11, LoudAt(n, a), BoardGivesUp \/ LoseToBoard
  PROVE  LoudAt(n, a)' /\ UNCHANGED <<flash, epcqio_address>>
<1>1. /\ UNCHANGED <<flash, epcqio_address, open_sockets, fromBoard>>
      /\ \/ BoardGivesUp /\ job.cmd = "ESE" /\ job' = Idle /\ UNCHANGED toBoard
         \/ toBoard # << >> /\ toBoard' = Tail(toBoard) /\ UNCHANGED job
      /\ Idle.cmd = "IDLE"
  BY DEF BoardGivesUp, EpcqStartTimeout, LoseToBoard, Idle
<1>2. /\ Len(toBoard) \in Nat /\ Len(toBoard') \in Nat
      /\ \/ UNCHANGED toBoard
         \/ /\ Len(toBoard') = Len(toBoard) - 1 /\ toBoard # << >>
            /\ \A i \in 1 .. Len(toBoard') :
                 toBoard'[i] = toBoard[i + 1] /\ i + 1 \in 1 .. Len(toBoard)
  <2>1. toBoard \in Seq(ToBoard)
    BY DEF Base, NetTypeOK
  <2> QED BY <1>1, <2>1, TailFacts
<1>3. \A i \in 1 .. Len(toBoard') : \E j \in 1 .. Len(toBoard) :
         toBoard'[i] = toBoard[j] /\ (j = Len(toBoard) => i = Len(toBoard'))
  BY <1>2
<1>4. /\ Sock(COMMAND_PORT)' = Sock(COMMAND_PORT) /\ Sock(FIRMWARE_PORT)' = Sock(FIRMWARE_PORT)
      /\ DOMAIN open_sockets' \subseteq (IF n \in LoudWaits THEN {LoudPort(n)} ELSE {})
      /\ NoPage' = NoPage
      /\ Contents(epcqio_address, PageWords)' = Contents(epcqio_address, PageWords)
  BY <1>1 DEF Sock, LoudAt, NoPage, Contents, Words
<1>5. \A i \in 1 .. Len(toBoard') : toBoard'[i].cmd = "ESA" => toBoard'[i].address = a
  BY <1>3 DEF LoudAt
<1>6. /\ \A i \in 1 .. Len(toBoard) : toBoard[i].cmd = "ERD" =>
           /\ n = 11 /\ i = Len(toBoard) /\ toBoard[i].n = PageWords
           /\ job.cmd # "ERD" /\ Sock(FIRMWARE_PORT) = << >> /\ NoPage
      /\ job.cmd = "ERD" =>
           /\ n = 11 /\ toBoard = << >> /\ Sock(FIRMWARE_PORT) = << >> /\ NoPage
           /\ job.nwords = PageWords /\ job.address = epcqio_address
      /\ \A i \in 1 .. Len(fromBoard) : fromBoard[i].port = FIRMWARE_PORT =>
           /\ n = 11 /\ i = Len(fromBoard) /\ toBoard = << >> /\ job = Idle
           /\ Sock(FIRMWARE_PORT) = << >>
           /\ fromBoard[i].words = Contents(epcqio_address, PageWords)
      /\ Sock(FIRMWARE_PORT) # << >> =>
           /\ n = 11 /\ Len(Sock(FIRMWARE_PORT)) = 1
           /\ fromBoard = << >> /\ toBoard = << >> /\ job = Idle
           /\ Sock(FIRMWARE_PORT)[1] = Contents(epcqio_address, PageWords)
  BY DEF LoudAt, LoudRead
<1>7. (toBoard = << >> => toBoard' = << >>) /\ (job = Idle => job' = Idle) /\ (job'.cmd = "ERD" => job' = job)
  BY <1>1
<1>8. LoudRead(n)'
  <2>1. \A i \in 1 .. Len(toBoard') : toBoard'[i].cmd = "ERD" =>
           /\ n = 11 /\ i = Len(toBoard') /\ toBoard'[i].n = PageWords
           /\ job'.cmd # "ERD" /\ Sock(FIRMWARE_PORT)' = << >> /\ NoPage'
    BY <1>3, <1>4, <1>6, <1>7
  <2>2. job'.cmd = "ERD" =>
           /\ n = 11 /\ toBoard' = << >> /\ Sock(FIRMWARE_PORT)' = << >> /\ NoPage'
           /\ job'.nwords = PageWords /\ job'.address = epcqio_address'
    BY <1>1, <1>4, <1>6, <1>7
  <2>3. \A i \in 1 .. Len(fromBoard') : fromBoard'[i].port = FIRMWARE_PORT =>
           /\ n = 11 /\ i = Len(fromBoard') /\ toBoard' = << >> /\ job' = Idle
           /\ Sock(FIRMWARE_PORT)' = << >>
           /\ fromBoard'[i].words = Contents(epcqio_address, PageWords)'
    BY <1>1, <1>4, <1>6, <1>7
  <2>4. Sock(FIRMWARE_PORT)' # << >> =>
           /\ n = 11 /\ Len(Sock(FIRMWARE_PORT)') = 1
           /\ fromBoard' = << >> /\ toBoard' = << >> /\ job' = Idle
           /\ Sock(FIRMWARE_PORT)'[1] = Contents(epcqio_address, PageWords)'
    BY <1>1, <1>4, <1>6, <1>7
  <2> QED BY <1>1, <2>1, <2>2, <2>3, <2>4 DEF LoudRead, Idle
<1>9. LoudUnset(n, a)'
  <2> SUFFICES ASSUME epcqio_address # a
               PROVE  /\ n <= 6
                      /\ n \in {1, 2, 4} => OneOwed'
                      /\ n \in {3, 5, 6} => NoneOwed'
                      /\ \A i \in 1 .. Len(toBoard') : toBoard'[i].cmd \in {"ERB", "ESE", "ESA"}
                      /\ job'.cmd \in {"IDLE", "ESE"}
    BY <1>1 DEF LoudUnset
  <2>1. /\ n <= 6
        /\ n \in {1, 2, 4} => OneOwed
        /\ n \in {3, 5, 6} => NoneOwed
        /\ \A i \in 1 .. Len(toBoard) : toBoard[i].cmd \in {"ERB", "ESE", "ESA"}
        /\ job.cmd \in {"IDLE", "ESE"}
    BY DEF LoudAt, LoudUnset
  <2>2. /\ InTo' => InTo
        /\ InJob' => InJob
        /\ InFrom' <=> InFrom
        /\ InSock' <=> InSock
    BY <1>1, <1>3, <1>4 DEF InTo, InJob, InFrom, InSock
  <2>3. OneOwed => OneOwed'
    <3> SUFFICES ASSUME OneOwed
                 PROVE  OneOwed'
      OBVIOUS
    <3>1. \A i, j \in 1 .. Len(toBoard') : Owes(toBoard'[i]) /\ Owes(toBoard'[j]) => i = j
      BY <1>2 DEF OneOwed
    <3> QED BY <1>1, <1>4, <2>2, <3>1 DEF OneOwed
  <2>4. NoneOwed => NoneOwed'
    BY <2>2 DEF NoneOwed
  <2> QED BY <1>1, <1>3, <2>1, <2>3, <2>4
<1> QED BY <1>1, <1>4, <1>5, <1>8, <1>9 DEF LoudAt

\* A packet from the board is delivered, dropped or lost.
LEMMA LoudDeliver ==
  ASSUME Base, NEW a, NEW n \in 1 .. 11, LoudAt(n, a), Deliver \/ LoseFromBoard
  PROVE  LoudAt(n, a)' /\ UNCHANGED epcqVars
<1> DEFINE m == Head(fromBoard)
<1>1. /\ fromBoard' = Tail(fromBoard) /\ fromBoard # << >> /\ fromBoard \in Seq(FromBoard)
      /\ UNCHANGED <<epcqVars, toBoard>>
  BY DEF Deliver, LoseFromBoard, Base, NetTypeOK
<1>2. /\ Len(fromBoard) \in Nat /\ Len(fromBoard') = Len(fromBoard) - 1 /\ Len(fromBoard) > 0
      /\ m = fromBoard[1] /\ m \in FromBoard /\ 1 \in 1 .. Len(fromBoard)
      /\ \A i \in 1 .. Len(fromBoard') :
           fromBoard'[i] = fromBoard[i + 1] /\ i + 1 \in 1 .. Len(fromBoard)
      /\ (fromBoard' # << >>) <=> (Len(fromBoard') > 0)
  BY <1>1, TailFacts
<1>d. DOMAIN open_sockets \subseteq (IF n \in LoudWaits THEN {LoudPort(n)} ELSE {})
  BY DEF LoudAt
<1>s. Sock(COMMAND_PORT) \in Seq(Seq(AnyWord)) /\ Sock(FIRMWARE_PORT) \in Seq(Seq(AnyWord))
  BY DEF Sock, Base, NetTypeOK, SocketsTypeOK
<1>p. COMMAND_PORT # FIRMWARE_PORT
  BY DEF COMMAND_PORT, FIRMWARE_PORT
<1>3. /\ DOMAIN open_sockets' = DOMAIN open_sockets
      /\ \/ UNCHANGED open_sockets
         \/ /\ m.port \in DOMAIN open_sockets
            /\ open_sockets' = [open_sockets EXCEPT ![m.port] = Append(@, m.words)]
  BY DEF Deliver, LoseFromBoard, arrive, accepted
<1>4. \A lport \in CallPorts :
        \/ Sock(lport)' = Sock(lport)
        \/ m.port = lport /\ Sock(lport)' = Append(Sock(lport), m.words)
  BY <1>3 DEF Sock
<1>w. m.words \in Seq(AnyWord)
  BY <1>2 DEF FromBoard
<1>5. Sock(FIRMWARE_PORT) = << >>
  BY <1>1 DEF LoudAt, LoudRead
<1>6. \A i \in 1 .. Len(fromBoard) : fromBoard[i].port = FIRMWARE_PORT =>
         /\ n = 11 /\ i = Len(fromBoard) /\ toBoard = << >> /\ job = Idle
         /\ fromBoard[i].words = Contents(epcqio_address, PageWords)
  BY DEF LoudAt, LoudRead
<1>7. Contents(epcqio_address, PageWords)' = Contents(epcqio_address, PageWords)
  BY <1>1 DEF Contents, Words
<1>8. \/ Sock(FIRMWARE_PORT)' = << >>
      \/ /\ m.port = FIRMWARE_PORT /\ n = 11 /\ fromBoard' = << >> /\ toBoard' = << >> /\ job' = Idle
         /\ Len(Sock(FIRMWARE_PORT)') = 1
         /\ Sock(FIRMWARE_PORT)'[1] = Contents(epcqio_address, PageWords)
  <2>1. \/ Sock(FIRMWARE_PORT)' = << >>
        \/ m.port = FIRMWARE_PORT /\ Sock(FIRMWARE_PORT)' = << m.words >>
    BY <1>4, <1>5 DEF CallPorts
  <2>2. m.port = FIRMWARE_PORT =>
          /\ n = 11 /\ Len(fromBoard) = 1 /\ toBoard = << >> /\ job = Idle
          /\ m.words = Contents(epcqio_address, PageWords)
    BY <1>2, <1>6
  <2>3. Sock(FIRMWARE_PORT)' = << m.words >> =>
          Len(Sock(FIRMWARE_PORT)') = 1 /\ Sock(FIRMWARE_PORT)'[1] = m.words
    OBVIOUS
  <2>4. Len(fromBoard) = 1 => fromBoard' = << >>
    BY <1>2
  <2> QED BY <1>1, <2>1, <2>2, <2>3, <2>4
<1>9. NoPage => NoPage' /\ Sock(FIRMWARE_PORT)' = << >>
  <2>1. NoPage => NoPage' /\ m.port # FIRMWARE_PORT
    BY <1>2 DEF NoPage
  <2> QED BY <1>8, <2>1
<1>10. LoudRead(n)'
  <2>1. \A i \in 1 .. Len(fromBoard') : fromBoard'[i].port = FIRMWARE_PORT =>
           /\ n = 11 /\ i = Len(fromBoard') /\ toBoard' = << >> /\ job' = Idle
           /\ Sock(FIRMWARE_PORT)' = << >>
           /\ fromBoard'[i].words = Contents(epcqio_address, PageWords)
    <3>1. \A i \in 1 .. Len(fromBoard') : fromBoard'[i].port = FIRMWARE_PORT =>
           /\ n = 11 /\ i = Len(fromBoard') /\ toBoard' = << >> /\ job' = Idle
           /\ fromBoard'[i].words = Contents(epcqio_address, PageWords)
      <4>1. UNCHANGED <<toBoard, job>>
        BY <1>1
      <4>2. ASSUME NEW i \in 1 .. Len(fromBoard'), fromBoard'[i].port = FIRMWARE_PORT
            PROVE  i + 1 \in 1 .. Len(fromBoard) /\ fromBoard[i + 1].port = FIRMWARE_PORT
        BY <1>2, <4>2
      <4>3. ASSUME NEW i \in 1 .. Len(fromBoard'), fromBoard'[i].port = FIRMWARE_PORT
            PROVE  i = Len(fromBoard')
        <5>1. i + 1 = Len(fromBoard)
          BY <1>6, <4>2, <4>3
        <5> QED BY <1>2, <5>1
      <4> QED BY <1>2, <1>6, <4>1, <4>2, <4>3
    <3>2. \A i \in 1 .. Len(fromBoard') : fromBoard' # << >>
      BY <1>2
    <3> QED BY <1>8, <3>1, <3>2
  <2>2. /\ \A i \in 1 .. Len(toBoard) : toBoard[i].cmd = "ERD" =>
             /\ n = 11 /\ i = Len(toBoard) /\ toBoard[i].n = PageWords
             /\ job.cmd # "ERD" /\ NoPage
        /\ job.cmd = "ERD" =>
             /\ n = 11 /\ toBoard = << >> /\ NoPage
             /\ job.nwords = PageWords /\ job.address = epcqio_address
    BY DEF LoudAt, LoudRead
  <2>3. /\ \A i \in 1 .. Len(toBoard') : toBoard'[i].cmd = "ERD" =>
             /\ n = 11 /\ i = Len(toBoard') /\ toBoard'[i].n = PageWords
             /\ job'.cmd # "ERD" /\ Sock(FIRMWARE_PORT)' = << >> /\ NoPage'
        /\ job'.cmd = "ERD" =>
             /\ n = 11 /\ toBoard' = << >> /\ Sock(FIRMWARE_PORT)' = << >> /\ NoPage'
             /\ job'.nwords = PageWords /\ job'.address = epcqio_address'
    BY <1>1, <1>9, <2>2
  <2>4. Sock(FIRMWARE_PORT)' # << >> =>
          /\ n = 11 /\ Len(Sock(FIRMWARE_PORT)') = 1
          /\ fromBoard' = << >> /\ toBoard' = << >> /\ job' = Idle
          /\ Sock(FIRMWARE_PORT)'[1] = Contents(epcqio_address, PageWords)
    BY <1>8
  <2> QED BY <1>7, <2>1, <2>3, <2>4 DEF LoudRead
<1>11. LoudUnset(n, a)'
  <2> SUFFICES ASSUME epcqio_address # a
               PROVE  /\ n <= 6
                      /\ n \in {1, 2, 4} => OneOwed'
                      /\ n \in {3, 5, 6} => NoneOwed'
                      /\ \A i \in 1 .. Len(toBoard') : toBoard'[i].cmd \in {"ERB", "ESE", "ESA"}
                      /\ job'.cmd \in {"IDLE", "ESE"}
    BY <1>1 DEF LoudUnset
  <2> DEFINE s == Sock(COMMAND_PORT)
  <2>1. /\ n <= 6
        /\ n \in {1, 2, 4} => OneOwed
        /\ n \in {3, 5, 6} => NoneOwed
        /\ \A i \in 1 .. Len(toBoard) : toBoard[i].cmd \in {"ERB", "ESE", "ESA"}
        /\ job.cmd \in {"IDLE", "ESE"}
    BY DEF LoudAt, LoudUnset
  <2>2. (InTo' <=> InTo) /\ (InJob' <=> InJob)
    BY <1>1 DEF InTo, InJob
  <2>3. InFrom' => InFrom
    BY <1>2 DEF InFrom
  <2>4. /\ Len(s) \in Nat /\ Len(s') \in Nat
        /\ \A i \in 1 .. Len(s') : \/ i \in 1 .. Len(s) /\ s'[i] = s[i]
                                   \/ i = Len(s) + 1 /\ s'[i] = m.words
    <3>1. s' = s \/ s' = Append(s, m.words)
      BY <1>4 DEF CallPorts
    <3> HIDE DEF s
    <3>2. s \in Seq(Seq(AnyWord))
      BY <1>s DEF s
    <3> QED BY <1>w, <3>1, <3>2
  <2> HIDE DEF m
  <2>5. InSock <=> \E i \in 1 .. Len(s) : Mentions(s[i], "DON")
    BY DEF InSock
  <2>6. InSock' <=> \E i \in 1 .. Len(s') : Mentions(s'[i], "DON")
    BY DEF InSock
  <2>7. Mentions(m.words, "DON") => InFrom
    BY <1>2 DEF InFrom
  <2>8. NoneOwed => NoneOwed'
    BY <2>2, <2>3, <2>4, <2>5, <2>6, <2>7 DEF NoneOwed
  <2>9. OneOwed => OneOwed'
    <3> SUFFICES ASSUME OneOwed
                 PROVE  OneOwed'
      OBVIOUS
    <3>1. /\ InTo => ~InJob /\ ~InFrom /\ ~InSock
          /\ InJob => ~InFrom /\ ~InSock
          /\ InFrom => ~InSock
          /\ \A i, j \in 1 .. Len(toBoard) : Owes(toBoard[i]) /\ Owes(toBoard[j]) => i = j
          /\ \A i, j \in 1 .. Len(fromBoard) :
               Mentions(fromBoard[i].words, "DON") /\ Mentions(fromBoard[j].words, "DON") => i = j
          /\ \A i, j \in 1 .. Len(s) : Mentions(s[i], "DON") /\ Mentions(s[j], "DON") => i = j
      BY DEF OneOwed
    <3>2. Mentions(m.words, "DON") => ~InFrom'
      BY <1>2, <3>1 DEF InFrom
    <3>3. InSock' => InSock \/ Mentions(m.words, "DON")
      BY <2>4, <2>5, <2>6
    <3>4. /\ \A i, j \in 1 .. Len(toBoard') : Owes(toBoard'[i]) /\ Owes(toBoard'[j]) => i = j
          /\ \A i, j \in 1 .. Len(fromBoard') :
               Mentions(fromBoard'[i].words, "DON") /\ Mentions(fromBoard'[j].words, "DON") => i = j
      BY <1>1, <1>2, <3>1
    <3>5. \A i, j \in 1 .. Len(s') : Mentions(s'[i], "DON") /\ Mentions(s'[j], "DON") => i = j
      BY <2>4, <2>5, <2>7, <3>1
    <3>6. /\ InTo' => ~InJob' /\ ~InFrom' /\ ~InSock'
          /\ InJob' => ~InFrom' /\ ~InSock'
          /\ InFrom' => ~InSock'
      BY <2>2, <2>3, <2>7, <3>1, <3>2, <3>3
    <3> QED BY <3>4, <3>5, <3>6 DEF OneOwed
  <2> QED BY <1>1, <2>1, <2>8, <2>9
<1>12. /\ \A i \in 1 .. Len(toBoard') : toBoard'[i].cmd = "ESA" => toBoard'[i].address = a
       /\ DOMAIN open_sockets' \subseteq (IF n \in LoudWaits THEN {LoudPort(n)} ELSE {})
  BY <1>1, <1>3 DEF LoudAt
<1> QED BY <1>1, <1>10, <1>11, <1>12 DEF LoudAt

\* The server opens a socket, or closes it over a packet without DON.
LEMMA LoudSocket ==
  ASSUME NEW a, NEW n \in LoudWaits, LoudAt(n, a), UNCHANGED <<epcqVars, netVars>>,
         DOMAIN open_sockets' \subseteq {LoudPort(n)}, n = 11 => DOMAIN open_sockets = {},
         LoudPort(n) \in DOMAIN open_sockets' => open_sockets'[LoudPort(n)] = << >>
  PROVE  LoudAt(n, a)'
<1>p. COMMAND_PORT # FIRMWARE_PORT
  BY DEF COMMAND_PORT, FIRMWARE_PORT
<1>1. Sock(COMMAND_PORT)' = << >> /\ Sock(FIRMWARE_PORT)' = << >>
  BY DEF Sock
<1>2. Sock(FIRMWARE_PORT) = << >>
  <2>1. n = 11 => Sock(FIRMWARE_PORT) = << >>
    BY DEF Sock
  <2>2. n # 11 => Sock(FIRMWARE_PORT) = << >>
    BY DEF LoudAt, LoudRead
  <2> QED BY <2>1, <2>2
<1>3. Contents(epcqio_address, PageWords)' = Contents(epcqio_address, PageWords) /\ (NoPage' <=> NoPage)
  BY DEF Contents, Words, NoPage
<1>4. LoudRead(n)'
  BY <1>1, <1>2, <1>3 DEF LoudAt, LoudRead
<1>5. /\ InTo' <=> InTo
      /\ InJob' <=> InJob
      /\ InFrom' <=> InFrom
      /\ ~InSock'
      /\ \A i \in 1 .. Len(Sock(COMMAND_PORT)') : FALSE
  BY <1>1 DEF InTo, InJob, InFrom, InSock
<1>6. (OneOwed => OneOwed') /\ (NoneOwed => NoneOwed')
  BY <1>5 DEF OneOwed, NoneOwed
<1>7. LoudUnset(n, a)'
  BY <1>6 DEF LoudAt, LoudUnset
<1> QED BY <1>4, <1>7 DEF LoudAt

\* A packet with DON ends a wait.  Until the address is set it is the one owed.
LEMMA LoudDone ==
  ASSUME Base, NEW a, NEW n \in {2, 4, 6, 9}, LoudAt(n, a), has_packet(open_sockets, COMMAND_PORT),
         Mentions(recv(open_sockets, COMMAND_PORT), "DON"), UNCHANGED <<epcqVars, netVars>>,
         open_sockets' = udp_server_close(open_sockets, COMMAND_PORT)
  PROVE  LoudAt(n + 1, a)'
<1>p. COMMAND_PORT # FIRMWARE_PORT
  BY DEF COMMAND_PORT, FIRMWARE_PORT
<1>1. DOMAIN open_sockets \subseteq {COMMAND_PORT}
  <2>1. n \in LoudWaits /\ LoudPort(n) = COMMAND_PORT
    BY DEF LoudWaits, LoudPort
  <2> QED BY <2>1 DEF LoudAt
<1>2. DOMAIN open_sockets' = {} /\ Sock(COMMAND_PORT)' = << >> /\ Sock(FIRMWARE_PORT)' = << >>
  BY <1>1 DEF udp_server_close, Sock
<1>3. InSock
  <2> DEFINE s == open_sockets[COMMAND_PORT]
  <2>1. COMMAND_PORT \in DOMAIN open_sockets /\ s # << >> /\ s \in Seq(Seq(AnyWord)) /\ Sock(COMMAND_PORT) = s
    BY DEF has_packet, Sock, Base, NetTypeOK, SocketsTypeOK
  <2>2. Head(s) = s[1] /\ 1 \in 1 .. Len(s)
    BY <2>1, TailFacts
  <2>3. Mentions(s[1], "DON")
    BY <2>2 DEF recv
  <2> QED BY <2>1, <2>2, <2>3 DEF InSock
<1>4. /\ NoPage /\ job.cmd # "ERD" /\ \A i \in 1 .. Len(toBoard) : toBoard[i].cmd # "ERD"
  BY DEF LoudAt, LoudRead, NoPage
<1>5. LoudRead(n + 1)'
  BY <1>2, <1>4 DEF LoudRead, NoPage
<1>6. LoudUnset(n + 1, a)'
  <2> SUFFICES ASSUME epcqio_address # a
               PROVE  LoudUnset(n + 1, a)'
    BY DEF LoudUnset
  <2>1. /\ n <= 6
        /\ n \in {1, 2, 4} => OneOwed
        /\ n \in {3, 5, 6} => NoneOwed
        /\ \A i \in 1 .. Len(toBoard) : toBoard[i].cmd \in {"ERB", "ESE", "ESA"}
        /\ job.cmd \in {"IDLE", "ESE"}
    BY DEF LoudAt, LoudUnset
  <2>2. n \in {2, 4} /\ OneOwed
    BY <1>3, <2>1 DEF NoneOwed
  <2>3. ~InTo /\ ~InJob /\ ~InFrom
    BY <1>3, <2>2 DEF OneOwed
  <2>4. NoneOwed'
    BY <1>2, <2>3 DEF NoneOwed, InTo, InJob, InFrom, InSock
  <2> QED BY <2>1, <2>2, <2>4 DEF LoudUnset
<1>7. \A i \in 1 .. Len(toBoard') : toBoard'[i].cmd = "ESA" => toBoard'[i].address = a
  BY DEF LoudAt
<1> QED BY <1>2, <1>5, <1>6, <1>7 DEF LoudAt

\* The words read back are those of the page, and nothing is left under way.
LEMMA LoudOver ==
  ASSUME Base, NEW a, LoudAt(11, a), has_packet(open_sockets, FIRMWARE_PORT),
         UNCHANGED <<epcqVars, netVars>>,
         open_sockets' = udp_server_close(open_sockets, FIRMWARE_PORT)
  PROVE  /\ Quiet' /\ toBoard' = << >> /\ epcqio_address = a
         /\ recv(open_sockets, FIRMWARE_PORT) = Contents(epcqio_address, PageWords)
<1> DEFINE s == Sock(FIRMWARE_PORT)
<1>1. s # << >> /\ s = open_sockets[FIRMWARE_PORT]
  BY DEF has_packet, Sock
<1>2. /\ Len(s) = 1 /\ fromBoard = << >> /\ toBoard = << >> /\ job = Idle
      /\ s[1] = Contents(epcqio_address, PageWords)
  BY <1>1 DEF LoudAt, LoudRead
<1>3. s \in Seq(Seq(AnyWord)) /\ Head(s) = s[1]
  <2>1. s \in Seq(Seq(AnyWord))
    BY DEF Sock, Base, NetTypeOK, SocketsTypeOK
  <2> QED BY <1>1, <2>1, TailFacts
<1>4. DOMAIN open_sockets' = {}
  BY DEF udp_server_close, LoudAt, LoudWaits, LoudPort
<1>5. epcqio_address = a
  BY DEF LoudAt, LoudUnset
<1> QED BY <1>1, <1>2, <1>3, <1>4, <1>5 DEF Quiet, recv

-----------------------------------------------------------------------------
(***************************************************************************)
(* All that is under way, whatever the call is at.  Between two exchanges  *)
(* nothing is, but for the page that was just sent.                        *)
(***************************************************************************)
Loud == current.op = "writeFirmware" /\ part = 1 /\ at <= 11
AfterData == at > 1 /\ Here[at - 1].do = "sendData"
Pause ==
  /\ Quiet
  /\ ~AfterData => toBoard = << >>
  /\ \A i \in 1 .. Len(toBoard) : toBoard[i].cmd = "data"
InLoud == \A n, a : n = at /\ a = current.start => LoudAt(n, a)
InExchange == \A step : step = Here[at - 1] => Exchange(step)
Line ==
  /\ ~Running => Quiet /\ toBoard = << >>
  /\ Running => /\ Loud => InLoud
                /\ ~Loud /\ Waits(Now) => InExchange
                /\ ~Loud /\ ~Waits(Now) => Pause

\* The steps of the first page of writeFirmware.
LEMMA LoudSteps ==
  Base /\ Running /\ current.op = "writeFirmware" /\ part = 1 =>
    /\ Len(Here) = 12 /\ at \in 1 .. 12
    /\ Here[1] = Command("ESA", 0, current.start) /\ Here[2] = WaitForDone
    /\ Here[3] = Command("ESE", 0, 0) /\ Here[4] = WaitForDone
    /\ Here[5] = Command("ESA", 0, current.start) /\ Here[6] = WaitForDone
    /\ Here[7] = SendPage(FirmwarePage(current.data, 1))
    /\ Here[8] = Command("EWR", PageWords, 0) /\ Here[9] = WaitForDone
    /\ Here[10] = Command("ERD", PageWords, 0) /\ Here[11] = Receive(FIRMWARE_PORT)
    /\ Here[12] = Compare(FirmwarePage(current.data, 1))
    /\ PageAt(current, 1) = current.start
<1> SUFFICES ASSUME Base, Running, current.op = "writeFirmware", part = 1
             PROVE  /\ Len(Here) = 12 /\ at \in 1 .. 12
                    /\ Here[1] = Command("ESA", 0, current.start) /\ Here[2] = WaitForDone
                    /\ Here[3] = Command("ESE", 0, 0) /\ Here[4] = WaitForDone
                    /\ Here[5] = Command("ESA", 0, current.start) /\ Here[6] = WaitForDone
                    /\ Here[7] = SendPage(FirmwarePage(current.data, 1))
                    /\ Here[8] = Command("EWR", PageWords, 0) /\ Here[9] = WaitForDone
                    /\ Here[10] = Command("ERD", PageWords, 0) /\ Here[11] = Receive(FIRMWARE_PORT)
                    /\ Here[12] = Compare(FirmwarePage(current.data, 1))
                    /\ PageAt(current, 1) = current.start
  OBVIOUS
<1>1. IsCall(current) /\ part \in 0 .. LastPart(current) /\ at \in 1 .. Len(Here)
  BY NowFacts
<1>2. LastPart(current) = IF current.start % SectorWords # 0 THEN 0 ELSE FirmwarePages(current.end) + 1
  BY DEF LastPart
<1>3. FirmwarePages(current.end) \in Nat \ {0} /\ current.start \in Nat
  <2>1. 1 \in Nat \ {0}
    OBVIOUS
  <2> QED BY <1>1, <2>1, PageWordsOK
<1>4. current.start % SectorWords = 0 /\ 1 <= FirmwarePages(current.end)
  BY <1>1, <1>2, <1>3
<1>5. PageAt(current, 1) = current.start
  <2>1. (1 - 1) * PageWords = 0
    BY FlashAssumption
  <2> QED BY <1>3, <2>1 DEF PageAt
<1>6. Here = Steps(current, 1) /\ 1 \in Nat /\ 1 # 0
  BY DEF Here
<1> HIDE DEF Here
<1>7. /\ Here[1] = Command("ESA", 0, PageAt(current, 1)) /\ Here[2] = WaitForDone
      /\ Len(Here) = 12
      /\ Here[3] = Command("ESE", 0, 0) /\ Here[4] = WaitForDone
      /\ IsPage(Here, 4, PageAt(current, 1), FirmwarePage(current.data, 1))
  BY <1>4, <1>5, <1>6, FirmwareRow
<1> QED BY <1>1, <1>5, <1>7 DEF IsPage

\* What they do.
LEMMA LoudCases ==
  ASSUME Base, Running, Loud
  PROVE  /\ at \in 1 .. 11 /\ at < Len(Here)
         /\ Now.do = "sendCommand" =>
              /\ at \in {1, 3, 5, 8, 10}
              /\ at \in {1, 5} => Now.cmd = "ESA" /\ Now.word = current.start
              /\ at = 3 => Now.cmd = "ESE"
              /\ at = 8 => Now.cmd = "EWR"
              /\ at = 10 => Now.cmd = "ERD" /\ Now.prefix = PageWords
         /\ Now.do = "sendData" => at = 7
         /\ Now.do = "waitForDone" => at \in {2, 4, 6, 9}
         /\ Now.do = "recieveData" => at = 11 /\ Now.port = FIRMWARE_PORT /\ Here[at + 1].do = "compare"
         /\ Now.do \in {"sendCommand", "sendData", "waitForDone", "recieveData"}
         /\ at \notin LoudWaits <=> ~Waits(Now)
<1>1. /\ Len(Here) = 12 /\ at \in 1 .. 11
      /\ Here[1] = Command("ESA", 0, current.start) /\ Here[2] = WaitForDone
      /\ Here[3] = Command("ESE", 0, 0) /\ Here[4] = WaitForDone
      /\ Here[5] = Command("ESA", 0, current.start) /\ Here[6] = WaitForDone
      /\ Here[7] = SendPage(FirmwarePage(current.data, 1))
      /\ Here[8] = Command("EWR", PageWords, 0) /\ Here[9] = WaitForDone
      /\ Here[10] = Command("ERD", PageWords, 0) /\ Here[11] = Receive(FIRMWARE_PORT)
      /\ Here[12] = Compare(FirmwarePage(current.data, 1))
  BY LoudSteps DEF Loud
<1>2. Now = Here[at]
  BY NowFacts
<1>3. CASE at = 1
  BY <1>1, <1>2, <1>3 DEF Command, Waits, LoudWaits
<1>4. CASE at = 3
  BY <1>1, <1>2, <1>4 DEF Command, Waits, LoudWaits
<1>5. CASE at = 5
  BY <1>1, <1>2, <1>5 DEF Command, Waits, LoudWaits
<1>6. CASE at = 8
  BY <1>1, <1>2, <1>6 DEF Command, Waits, LoudWaits
<1>7. CASE at = 10
  BY <1>1, <1>2, <1>7 DEF Command, Waits, LoudWaits
<1>8. CASE at \in {2, 4, 6, 9}
  BY <1>1, <1>2, <1>8 DEF WaitForDone, Waits, LoudWaits
<1>9. CASE at = 7
  BY <1>1, <1>2, <1>9 DEF SendPage, Waits, LoudWaits
<1>10. CASE at = 11
  BY <1>1, <1>2, <1>10 DEF Receive, Compare, Waits, LoudWaits
<1> QED BY <1>1, <1>3, <1>4, <1>5, <1>6, <1>7, <1>8, <1>9, <1>10

\* Where the next step is: a wait only after its command.
LEMMA NextPlace ==
  ASSUME Base, Running, ~Loud, Now.do # "return", Advance, UNCHANGED <<result, calls>>
  PROVE  /\ Now.do = "sendCommand" => Loud' \/ (~Loud' /\ at' = at + 1 /\ Here' = Here /\ Waits(Now)')
         /\ Loud' => at' = 1 /\ at = 1 /\ Now.do = "sendCommand" /\ Now.cmd = "ERB"
         /\ Now.do # "sendCommand" => ~Loud' /\ ~Waits(Now)'
         /\ Now.do # "sendData" => ~AfterData'
         /\ Now.do = "sendData" => AfterData'
         /\ current' = current /\ Running' /\ Now' = Here'[at']
<1>1. /\ part' \in Nat /\ at' \in Nat /\ PcOK'
      /\ \/ at < Len(Here) /\ at' = at + 1 /\ part' = part /\ Here' = Here
         \/ at = Len(Here) /\ at' = 1 /\ part' = part + 1
            /\ PartOK(current, part', Here') /\ part' <= LastPart(current)
      /\ current' = current
  BY AdvancePc
<1>2. /\ at \in 1 .. Len(Here) /\ Len(Here) \in Nat /\ part \in Nat /\ Now = Here[at]
      /\ PartOK(current, part, Here) /\ IsCall(current) /\ part \in 0 .. LastPart(current)
      /\ LastPart(current) \in Nat
  BY NowFacts
<1>3. Now' = Here'[at']
  BY DEF Now, Here
<1>d. /\ Now.do = "sendCommand" =>
              /\ IsCommand(Now)
              /\ \/ at < Len(Here) /\ Here[at + 1] = WaitOf(Now.cmd)
                 \/ /\ current.op = "writeFirmware" /\ part = 0 /\ part < LastPart(current)
                    /\ Now.cmd = "ERB" /\ at = 1 /\ Len(Here) = 1
      /\ Now.do = "sendData" =>
              /\ at >= 2 /\ Waits(Here[at - 1]) /\ at < Len(Here) /\ IsCommand(Here[at + 1])
  BY DoingFacts
<1>r. Running'
  BY DEF Running
<1>w. \A cmd : Waits(WaitOf(cmd))
  BY DEF WaitOf, Waits, Receive, WaitForDone
<1>4. CASE at < Len(Here)
  <2>1. at' = at + 1 /\ part' = part /\ Here' = Here /\ at' > 1 /\ Here'[at' - 1] = Now
    BY <1>1, <1>2, <1>4
  <2>2. ~Loud'
    <3>1. ASSUME Loud' PROVE FALSE
      <4>1. current.op = "writeFirmware" /\ part = 1 /\ at + 1 <= 11
        BY <1>1, <2>1, <3>1 DEF Loud
      <4> QED BY <1>2, <4>1 DEF Loud
    <3> QED BY <3>1
  <2>3. Now.do = "sendCommand" => Waits(Now)'
    <3>1. Now.do = "sendCommand" => Now' = WaitOf(Now.cmd)
      BY <1>3, <1>4, <1>d, <2>1, <1>2
    <3> QED BY <3>1, <1>w DEF Waits
  <2>4. Now.do # "sendCommand" => ~Waits(Now)'
    <3>1. StepOK(current, part, Here, at + 1)
      BY <1>2, <1>4 DEF PartOK
    <3>2. at + 1 - 1 = at
      BY <1>2
    <3>3. Here[at + 1].do \in {"waitForDone", "recieveData"} => Here[at].do = "sendCommand"
      <4>1. Awaits(Here, at + 1) => Here[at].do = "sendCommand"
        <5>1. Awaits(Here, at + 1) => IsCommand(Here[at])
          BY <1>2, <3>2 DEF Awaits
        <5> QED BY <5>1 DEF IsCommand
      <4>2. CASE ~Awaits(Here, at + 1)
        BY <3>1, <4>2 DEF StepOK, Sends, Clears, Loads, Uses, Ended, IsCommand
      <4> QED BY <4>1, <4>2
    <3> QED BY <1>2, <1>3, <2>1, <3>3 DEF Waits
  <2>5. (Now.do # "sendData" => ~AfterData') /\ (Now.do = "sendData" => AfterData')
    BY <2>1 DEF AfterData
  <2> QED BY <1>1, <1>3, <1>r, <2>1, <2>2, <2>3, <2>4, <2>5
<1>5. CASE at = Len(Here)
  <2>1. at' = 1 /\ part' = part + 1 /\ PartOK(current, part', Here') /\ part' <= LastPart(current)
    BY <1>1, <1>2, <1>5
  <2>2. ~Waits(Now)'
    <3>1. Here'[1].do \in {"sendCommand", "return"}
      BY <2>1 DEF PartOK
    <3> QED BY <1>3, <2>1, <3>1 DEF Waits
  <2>3. Loud' => at = 1 /\ Now.do = "sendCommand" /\ Now.cmd = "ERB"
    <3> SUFFICES ASSUME Loud' PROVE at = 1 /\ Now.do = "sendCommand" /\ Now.cmd = "ERB"
      OBVIOUS
    <3>1. current.op = "writeFirmware" /\ part = 0
      BY <1>1, <1>2, <2>1 DEF Loud
    <3>2. current.start % SectorWords = 0
      <4>1. 0 < LastPart(current)
        BY <1>2, <2>1, <3>1
      <4> QED BY <3>1, <4>1 DEF LastPart
    <3>3. Here = << Command("ERB", 0, 0) >>
      BY <1>2, <3>1, <3>2, FirmwareRow DEF Here
    <3>4. Now = Command("ERB", 0, 0) /\ at = 1
      BY <1>2, <1>5, <3>3
    <3> QED BY <3>4 DEF Command
  <2>4. Now.do = "sendCommand" => Loud'
    <3> SUFFICES ASSUME Now.do = "sendCommand" PROVE Loud'
      OBVIOUS
    <3>1. current.op = "writeFirmware" /\ part = 0
      BY <1>2, <1>5, <1>d
    <3> QED BY <1>1, <2>1, <3>1 DEF Loud
  <2>5. ~AfterData' /\ Now.do # "sendData"
    BY <1>2, <1>5, <1>d, <2>1 DEF AfterData
  <2> QED BY <1>1, <1>3, <1>r, <2>1, <2>2, <2>3, <2>4, <2>5
<1> QED BY <1>2, <1>4, <1>5

\* The server sends a command or a page.
LEMMA LineSend ==
  ASSUME Base, Line, sendCommand \/ sendData
  PROVE  Line'
<1>1. /\ Running /\ Now.do \in {"sendCommand", "sendData"} /\ Now.do # "return" /\ Advance
      /\ UNCHANGED <<result, calls, epcqVars, fromBoard, open_sockets>> /\ ~Waits(Now)
  BY DEF sendCommand, sendData, Doing, Waits
<1>2. /\ Now.do = "sendCommand" => toBoard' = Append(toBoard, Message(Now)) /\ Message(Now) \in ToBoard
      /\ Now.do = "sendData" => /\ toBoard' = Append(toBoard, PageMessage(Now.page))
                                /\ PageMessage(Now.page) \in ToBoard
  BY <1>1, DoingFacts DEF sendCommand, sendData, Doing, Message, PageMessage
<1>3. Running' /\ current' = current
  BY <1>1 DEF Running, current
<1>4. CASE Loud
  <2>1. /\ at \in {1, 3, 5, 7, 8, 10} /\ at < Len(Here)
        /\ at \in {1, 5} => Now.do = "sendCommand" /\ Now.cmd = "ESA" /\ Now.word = current.start
        /\ at = 3 => Now.do = "sendCommand" /\ Now.cmd = "ESE"
        /\ at = 8 => Now.do = "sendCommand" /\ Now.cmd = "EWR"
        /\ at = 10 => Now.do = "sendCommand" /\ Now.cmd = "ERD" /\ Now.prefix = PageWords
        /\ at = 7 => Now.do = "sendData"
    BY <1>1, <1>4, LoudCases
  <2>2. at' = at + 1 /\ part' = part
    BY <1>1, <2>1 DEF Advance, Here
  <2>3. Loud'
    BY <1>3, <1>4, <2>1, <2>2 DEF Loud
  <2> PICK n, a, m : /\ n = at /\ a = current.start
                     /\ m = (IF Now.do = "sendData" THEN PageMessage(Now.page) ELSE Message(Now))
    OBVIOUS
  <2>4. LoudAt(n, a)
    BY <1>1, <1>4 DEF Line, InLoud
  <2>5. m \in ToBoard /\ toBoard' = Append(toBoard, m)
    BY <1>1, <1>2
  <2>6. /\ Message(Now).cmd = Now.cmd /\ Message(Now).address = Now.word /\ Message(Now).n = Now.prefix
        /\ PageMessage(Now.page).cmd = "data"
    BY DEF Message, PageMessage
  <2>7. /\ n \in {1, 3, 5, 7, 8, 10}
        /\ n \in {1, 5} => m.cmd = "ESA" /\ m.address = a
        /\ n = 3 => m.cmd = "ESE"
        /\ n = 7 => m.cmd = "data"
        /\ n = 8 => m.cmd = "EWR"
        /\ n = 10 => m.cmd = "ERD" /\ m.n = PageWords
    BY <2>1, <2>6
  <2>8. LoudAt(n + 1, a)'
    BY <1>1, <2>4, <2>5, <2>7, LoudSend
  <2>9. n + 1 = at' /\ a = current'.start
    BY <1>3, <2>2
  <2>10. InLoud'
    BY <2>8, <2>9 DEF InLoud
  <2> QED BY <1>3, <2>3, <2>10 DEF Line
<1>5. CASE ~Loud /\ Now.do = "sendCommand"
  <2>1. Pause
    BY <1>1, <1>5 DEF Line
  <2>2. /\ Loud' \/ (~Loud' /\ at' = at + 1 /\ Here' = Here /\ Waits(Now)')
        /\ Loud' => at' = 1 /\ at = 1 /\ Now.cmd = "ERB"
    BY <1>1, <1>5, NextPlace
  <2> PICK step, a : step = Now /\ a = current.start
    OBVIOUS
  <2>3. toBoard' = Append(toBoard, Message(step)) /\ Message(step) \in ToBoard /\ IsCommand(step)
    BY <1>1, <1>2, <1>5, DoingFacts
  <2>4. CASE Loud'
    <3>1. toBoard = << >> /\ step.cmd = "ERB" /\ Quiet
      BY <2>1, <2>2, <2>4 DEF Pause, AfterData
    <3>2. LoudAt(1, a)'
      BY <1>1, <2>3, <3>1, LoudBegins
    <3>3. at' = 1 /\ a = current'.start
      BY <1>3, <2>2, <2>4
    <3>4. InLoud'
      BY <3>2, <3>3 DEF InLoud
    <3> QED BY <1>3, <2>4, <3>4 DEF Line
  <2>5. CASE ~Loud'
    <3>1. Exchange(step)'
      BY <1>1, <2>1, <2>3, ExchangeBegins DEF Pause
    <3>2. Here'[at' - 1] = step
      <4>1. Now = Here[at] /\ at \in Nat
        BY <1>1, NowFacts
      <4> QED BY <2>2, <2>5, <4>1
    <3>3. InExchange'
      BY <3>1, <3>2 DEF InExchange
    <3> QED BY <1>3, <2>2, <2>5, <3>3 DEF Line
  <2> QED BY <2>4, <2>5
<1>6. CASE ~Loud /\ Now.do = "sendData"
  <2>1. Pause
    BY <1>1, <1>6 DEF Line
  <2>2. ~Loud' /\ ~Waits(Now)' /\ AfterData'
    BY <1>1, <1>6, NextPlace
  <2>3. Pause'
    <3>1. toBoard \in Seq(ToBoard) /\ PageMessage(Now.page).cmd = "data"
      BY DEF Base, NetTypeOK, PageMessage
    <3>2. \A i \in 1 .. Len(toBoard') : toBoard'[i].cmd = "data"
      BY <1>2, <1>6, <2>1, <3>1 DEF Pause
    <3>3. Quiet'
      BY <1>1, <2>1 DEF Pause, Quiet
    <3> QED BY <2>2, <3>2, <3>3 DEF Pause
  <2> QED BY <1>3, <2>2, <2>3 DEF Line
<1> QED BY <1>1, <1>4, <1>5, <1>6

\* The server opens a socket.
LEMMA LineOpen ==
  ASSUME Base, Line, OpenSocket
  PROVE  Line'
<1>1. /\ Running /\ Waits(Now) /\ UNCHANGED <<epcqVars, part, at, result, calls, netVars>>
      /\ Listening \notin DOMAIN open_sockets
      /\ open_sockets' = [p \in DOMAIN open_sockets \cup {Listening} |->
                            IF p = Listening THEN << >> ELSE open_sockets[p]]
  BY DEF OpenSocket, Doing, Waits, can_bind, udp_server
<1>2. /\ Running' /\ current' = current /\ Here' = Here /\ (Loud' <=> Loud) /\ (Waits(Now)' <=> Waits(Now))
  BY <1>1 DEF Running, current, Here, Loud, Now, Waits
<1>3. CASE Loud
  <2> PICK n, a : n = at /\ a = current.start
    OBVIOUS
  <2>1. LoudAt(n, a)
    BY <1>1, <1>3 DEF Line, InLoud
  <2>2. n \in LoudWaits /\ Listening = LoudPort(n)
    <3>1. /\ at \in LoudWaits
          /\ Now.do = "waitForDone" => at \in {2, 4, 6, 9}
          /\ Now.do = "recieveData" => at = 11 /\ Now.port = FIRMWARE_PORT
      BY <1>1, <1>3, LoudCases
    <3> QED BY <1>1, <3>1 DEF Listening, LoudPort, Waits
  <2>3. DOMAIN open_sockets \subseteq {LoudPort(n)}
    BY <2>1, <2>2 DEF LoudAt
  <2>4. /\ DOMAIN open_sockets' \subseteq {LoudPort(n)} /\ DOMAIN open_sockets = {}
        /\ LoudPort(n) \in DOMAIN open_sockets' => open_sockets'[LoudPort(n)] = << >>
    BY <1>1, <2>2, <2>3
  <2>5. LoudAt(n, a)'
    BY <1>1, <2>1, <2>2, <2>4, LoudSocket
  <2>6. n = at' /\ a = current'.start
    BY <1>1, <1>2
  <2>7. InLoud'
    BY <2>5, <2>6 DEF InLoud
  <2> QED BY <1>2, <1>3, <2>7 DEF Line
<1>4. CASE ~Loud
  <2> PICK step : step = Here[at - 1]
    OBVIOUS
  <2>1. Exchange(step) /\ IsCommand(step) /\ Now = WaitOf(step.cmd)
    BY <1>1, <1>4, DoingFacts DEF Line, InExchange
  <2>2. Exchange(step)'
    BY <2>1, ExchangeOpen
  <2>3. Here'[at' - 1] = step
    BY <1>1, <1>2
  <2>4. InExchange'
    BY <2>2, <2>3 DEF InExchange
  <2> QED BY <1>1, <1>2, <1>4, <2>4 DEF Line
<1> QED BY <1>3, <1>4

\* A wait ends, or its packet was not the one it is for.
Over ==
  \/ recieveData
  \/ waitForDone /\ Mentions(recv(open_sockets, COMMAND_PORT), "DON")

LEMMA LineReceive ==
  ASSUME Base, Line, recieveData \/ waitForDone
  PROVE  /\ Line'
         /\ Over => Advance
         /\ ~Over => UNCHANGED <<part, at>>
         /\ (Over /\ ~Loud /\ Here[at - 1].cmd = "ESA") => epcqio_address = Here[at - 1].word
         /\ (recieveData /\ ~Loud /\ Here[at - 1].cmd = "ERD") =>
              /\ recv(open_sockets, Listening) = Contents(epcqio_address, Here[at - 1].prefix)
              /\ last_cmd = "ERD"
         /\ (recieveData /\ Loud) =>
              /\ recv(open_sockets, Listening) = Contents(epcqio_address, PageWords)
              /\ epcqio_address = current.start
<1>1. /\ Running /\ Waits(Now) /\ UNCHANGED <<epcqVars, netVars, result, calls>>
      /\ has_packet(open_sockets, Listening)
      /\ open_sockets' = udp_server_close(open_sockets, Listening)
      /\ recieveData => Now.do = "recieveData"
      /\ waitForDone => Now.do = "waitForDone"
      /\ Now.do # "return"
  BY DEF recieveData, waitForDone, Doing, Waits, Listening
<1>2. /\ Over => Advance
      /\ ~Over => UNCHANGED <<part, at>> /\ waitForDone
  BY DEF Over, recieveData, waitForDone
<1>3. Running' /\ current' = current
  BY <1>1 DEF Running, current
<1>c. DOMAIN open_sockets' = DOMAIN open_sockets \ {Listening}
  BY <1>1 DEF udp_server_close
<1>4. CASE Loud
  <2> PICK n, a : n = at /\ a = current.start
    OBVIOUS
  <2>1. LoudAt(n, a)
    BY <1>1, <1>4 DEF Line, InLoud
  <2>2. /\ Now.do = "waitForDone" => at \in {2, 4, 6, 9}
        /\ Now.do = "recieveData" => at = 11 /\ Now.port = FIRMWARE_PORT /\ Here[at + 1].do = "compare"
        /\ at < Len(Here) /\ at \in LoudWaits /\ at \in 1 .. 11
    BY <1>1, <1>4, LoudCases
  <2>3. Over => at' = at + 1 /\ part' = part /\ Here' = Here
    <3>1. Over => at' = at + 1 /\ part' = part
      BY <1>2, <2>2 DEF Advance, Here
    <3> QED BY <1>3, <3>1 DEF Here
  <2>4. CASE recieveData
    <3>1. at = 11 /\ Listening = FIRMWARE_PORT /\ Here[at + 1].do = "compare" /\ Over
      BY <1>1, <2>2, <2>4 DEF Listening, Over
    <3>2. LoudAt(11, a)
      BY <2>1, <3>1
    <3>3. /\ Quiet' /\ toBoard' = << >> /\ epcqio_address = a
          /\ recv(open_sockets, FIRMWARE_PORT) = Contents(epcqio_address, PageWords)
      BY <1>1, <3>1, <3>2, LoudOver
    <3>4. ~Loud' /\ ~Waits(Now)'
      <4>1. Now' = Here'[at']
        BY DEF Now, Here
      <4> QED BY <2>3, <3>1, <4>1 DEF Loud, Waits
    <3>5. Pause'
      BY <3>3 DEF Pause
    <3>6. Line'
      BY <1>3, <3>4, <3>5 DEF Line
    <3> QED BY <1>2, <1>4, <3>1, <3>3, <3>6
  <2>5. CASE waitForDone /\ Over
    <3>1. n \in {2, 4, 6, 9} /\ Listening = COMMAND_PORT /\ ~recieveData
      BY <1>1, <2>2, <2>5 DEF Listening
    <3>2. LoudAt(n + 1, a)'
      BY <1>1, <2>1, <2>5, <3>1, LoudDone DEF Over
    <3>3. n + 1 = at' /\ a = current'.start
      BY <1>3, <2>3, <2>5
    <3>4. InLoud'
      BY <3>2, <3>3 DEF InLoud
    <3>5. Loud'
      BY <1>3, <1>4, <2>3, <2>5, <3>1 DEF Loud
    <3>6. Line'
      BY <1>3, <3>4, <3>5 DEF Line
    <3> QED BY <1>2, <1>4, <2>5, <3>1, <3>6
  <2>6. CASE ~Over
    <3>1. at \in {2, 4, 6, 9} /\ Listening = COMMAND_PORT /\ ~recieveData
      BY <1>1, <1>2, <2>2, <2>6 DEF Listening, Over
    <3>2. n \in LoudWaits /\ n # 11 /\ LoudPort(n) = COMMAND_PORT
      BY <2>2, <3>1 DEF LoudPort
    <3>3. DOMAIN open_sockets' = {}
      BY <1>c, <2>1, <3>1, <3>2 DEF LoudAt
    <3>4. LoudAt(n, a)'
      BY <1>1, <2>1, <3>2, <3>3, LoudSocket
    <3>5. n = at' /\ a = current'.start
      BY <1>2, <1>3, <2>6
    <3>6. InLoud'
      BY <3>4, <3>5 DEF InLoud
    <3>7. Loud'
      BY <1>2, <1>3, <1>4, <2>6 DEF Loud
    <3>8. Line'
      BY <1>3, <3>6, <3>7 DEF Line
    <3> QED BY <1>2, <1>4, <2>6, <3>1, <3>8
  <2> QED BY <2>4, <2>5, <2>6 DEF Over
<1>5. CASE ~Loud
  <2> PICK step : step = Here[at - 1]
    OBVIOUS
  <2>1. Exchange(step) /\ IsCommand(step) /\ Now = WaitOf(step.cmd) /\ step.cmd \in Commands
    BY <1>1, <1>5, DoingFacts DEF Line, InExchange, IsCommand
  <2>2. Listening = AnswerPort(step.cmd) /\ (Now.do = "waitForDone" => Listening = COMMAND_PORT)
        /\ (Now.do = "recieveData" => Now.port = AnswerPort(step.cmd))
        /\ (Now.do = "waitForDone" => step.cmd \in {"ERB", "ESA", "ESE", "EWR"})
    BY <2>1, WaitPort
  <2>3. CASE Over
    <3>1. IsAnswer(step.cmd, AnswerPort(step.cmd), recv(open_sockets, AnswerPort(step.cmd)))
      <4>1. CASE recieveData
        BY <1>1, <2>1, <2>2, <4>1 DEF IsAnswer, Ends
      <4>2. CASE waitForDone /\ Mentions(recv(open_sockets, COMMAND_PORT), "DON")
        BY <1>1, <2>1, <2>2, <4>2 DEF IsAnswer, Ends
      <4> QED BY <2>3, <4>1, <4>2 DEF Over
    <3>2. /\ Quiet' /\ toBoard' = << >>
          /\ step.cmd = "ESA" => epcqio_address = step.word
          /\ step.cmd = "ERD" =>
               /\ last_cmd = "ERD"
               /\ recv(open_sockets, AnswerPort(step.cmd)) = Contents(epcqio_address, step.prefix)
      BY <1>1, <2>1, <2>2, <3>1, ExchangeOver
    <3>3. ~Loud' /\ ~Waits(Now)' /\ ~AfterData'
      <4>1. Now.do \notin {"sendCommand", "sendData"}
        BY <1>1 DEF Waits
      <4> QED BY <1>1, <1>2, <1>5, <2>3, <4>1, NextPlace
    <3>4. Pause'
      BY <3>2 DEF Pause
    <3>5. Line'
      BY <1>3, <3>3, <3>4 DEF Line
    <3> QED BY <1>2, <1>5, <2>2, <2>3, <3>2, <3>5
  <2>4. CASE ~Over
    <3>1. Exchange(step)'
      BY <1>1, <2>1, <2>2, ExchangeMore
    <3>2. Here' = Here /\ at' = at
      BY <1>2, <1>3, <2>4 DEF Here
    <3>3. InExchange'
      BY <3>1, <3>2 DEF InExchange
    <3>4. ~Loud' /\ Waits(Now)'
      BY <1>1, <1>2, <1>3, <1>5, <2>4 DEF Loud, Now, Waits
    <3>5. Line'
      BY <1>3, <3>3, <3>4 DEF Line
    <3> QED BY <1>2, <1>5, <2>4, <3>5 DEF Over
  <2> QED BY <2>3, <2>4
<1> QED BY <1>4, <1>5

\* What was read is used, or the call returns.
LEMMA LineUse ==
  ASSUME Base, Line, comparePage \/ storePage \/ return
  PROVE  Line' /\ Running /\ ~Loud /\ Pause /\ toBoard = << >>
<1>1. /\ Running /\ Now.do \in {"compare", "store", "return"} /\ ~Waits(Now)
      /\ UNCHANGED <<epcqVars, calls, toBoard, fromBoard, open_sockets>>
  BY DEF comparePage, storePage, return, Doing, Waits
<1>2. ~Loud
  BY <1>1, LoudCases
<1>3. Pause
  BY <1>1, <1>2 DEF Line
<1>4. ~AfterData
  <2>1. StepOK(current, part, Here, at) /\ at \in 1 .. Len(Here) /\ PartOK(current, part, Here) /\ Len(Here) \in Nat
        /\ Now = Here[at]
    BY <1>1, NowFacts
  <2>2. CASE Now.do \in {"compare", "store"}
    <3>1. Here[at - 1].do = "recieveData"
      BY <1>1, <2>2, DoingFacts DEF Receive
    <3> QED BY <3>1 DEF AfterData
  <2>3. CASE Now.do = "return"
    <3> SUFFICES ASSUME at > 1, Here[at - 1].do = "sendData" PROVE FALSE
      BY DEF AfterData
    <3>1. at - 1 \in 1 .. Len(Here) /\ at - 1 + 1 = at
      BY <2>1
    <3>2. StepOK(current, part, Here, at - 1)
      BY <2>1, <3>1 DEF PartOK
    <3>3. Loads(Here, at - 1)
      <4>1. \A cmd : WaitOf(cmd).do # "sendData"
        BY DEF WaitOf, Receive, WaitForDone
      <4> QED BY <3>2, <4>1 DEF StepOK, Sends, Clears, Awaits, Uses, Ended, IsCommand
    <3>4. IsCommand(Here[at])
      BY <3>1, <3>3 DEF Loads
    <3> QED BY <2>1, <2>3, <3>4 DEF IsCommand
  <2> QED BY <1>1, <2>2, <2>3
<1>5. Quiet /\ toBoard = << >>
  BY <1>3, <1>4 DEF Pause
<1>6. Quiet' /\ toBoard' = << >>
  BY <1>1, <1>5 DEF Quiet
<1>7. CASE ~Running'
  BY <1>2, <1>3, <1>5, <1>1, <1>6, <1>7 DEF Line
<1>8. CASE Running'
  <2>1. Now.do # "return" /\ Advance /\ UNCHANGED <<result, calls>> /\ Now.do \notin {"sendCommand", "sendData"}
    <3>1. CASE comparePage
      BY <1>1, <1>8, <3>1 DEF comparePage, Doing, Running
    <3>2. CASE storePage
      BY <1>1, <3>2 DEF storePage, Doing
    <3>3. CASE return
      <4>1. Now.value \in {"ok", "error"}
        BY <1>1, <3>3, DoingFacts DEF return, Doing
      <4> QED BY <1>8, <3>3, <4>1 DEF return, Running
    <3> QED BY <3>1, <3>2, <3>3
  <2>2. ~Loud' /\ ~Waits(Now)' /\ ~AfterData'
    BY <1>1, <1>2, <2>1, NextPlace
  <2>3. Pause'
    BY <1>6 DEF Pause
  <2> QED BY <1>1, <1>2, <1>3, <1>5, <1>8, <2>2, <2>3 DEF Line
<1> QED BY <1>7, <1>8

\* A call begins.
LEMMA LineCall ==
  ASSUME Base, Line, Len(calls) < Len(Calls), NEW call \in Calls[Len(calls) + 1], Call(call)
  PROVE  Line' /\ Quiet /\ toBoard = << >>
<1>1. /\ ~Running /\ Running' /\ part' = 0 /\ at' = 1
      /\ UNCHANGED <<epcqVars, toBoard, fromBoard, open_sockets>>
  BY DEF Call, Running
<1>2. current' = call /\ IsCall(call) /\ Base'
  BY BaseCall
<1>3. Here' = Steps(call, 0) /\ PartOK(call, 0, Steps(call, 0))
  <2>1. 0 \in 0 .. LastPart(call)
    BY <1>1, <1>2 DEF Base, PcOK
  <2>2. Here' = Steps(call, 0)
    BY <1>1, <1>2 DEF Here
  <2> QED BY <1>2, <2>1, <2>2, StepFacts
<1>4. ~Loud' /\ ~Waits(Now)' /\ ~AfterData'
  <2>1. Now' = Here'[1]
    BY <1>1 DEF Now, Here
  <2>2. Here'[1].do \in {"sendCommand", "return"}
    BY <1>3 DEF PartOK
  <2> QED BY <1>1, <2>1, <2>2 DEF Loud, Waits, AfterData
<1>5. Quiet /\ toBoard = << >>
  BY <1>1 DEF Line
<1>6. Pause'
  BY <1>1, <1>5 DEF Quiet, Pause
<1> QED BY <1>1, <1>4, <1>5, <1>6 DEF Line

\* The server stays where it is.
Stays == UNCHANGED <<part, at, result, calls>>
LEMMA StaysFacts ==
  Stays => /\ current' = current /\ Here' = Here /\ Now' = Now /\ (Running' <=> Running)
           /\ (Loud' <=> Loud) /\ (Waits(Now)' <=> Waits(Now)) /\ (AfterData' <=> AfterData)
  BY DEF Stays, current, Here, Now, Running, Loud, Waits, AfterData

\* The board takes a packet.
LEMMA LineBoardReceive ==
  ASSUME Base, Line, BoardReceive
  PROVE  /\ Line' /\ UNCHANGED flash /\ Running
         /\ \/ UNCHANGED epcqio_address
            \/ Loud /\ epcqio_address' = current.start
            \/ /\ ~Loud /\ Waits(Now) /\ Here[at - 1].cmd = "ESA"
               /\ epcqio_address' = Here[at - 1].word
         /\ Loud \/ (job = Idle /\ UNCHANGED last_cmd)
<1>1. Stays /\ toBoard # << >> /\ toBoard' = Tail(toBoard) /\ UNCHANGED open_sockets
  BY DEF BoardReceive, Stays
<1>2. /\ current' = current /\ Here' = Here /\ Now' = Now /\ (Running' <=> Running) /\ at' = at
      /\ (Loud' <=> Loud) /\ (Waits(Now)' <=> Waits(Now)) /\ (AfterData' <=> AfterData)
  BY <1>1, StaysFacts DEF Stays
<1>3. Running
  BY <1>1 DEF Line
<1>4. CASE Loud
  <2> PICK n, a : n = at /\ a = current.start
    OBVIOUS
  <2>1. LoudAt(n, a) /\ n \in 1 .. 11
    BY <1>3, <1>4, LoudCases DEF Line, InLoud
  <2>2. LoudAt(n, a)' /\ UNCHANGED flash /\ epcqio_address' \in {epcqio_address, a}
    BY <2>1, LoudReceive
  <2>3. n = at' /\ a = current'.start
    BY <1>2
  <2>4. InLoud'
    BY <2>2, <2>3 DEF InLoud
  <2> QED BY <1>2, <1>3, <1>4, <2>2, <2>4 DEF Line
<1>5. CASE ~Loud /\ Waits(Now)
  <2> PICK step : step = Here[at - 1]
    OBVIOUS
  <2>1. Exchange(step) /\ IsCommand(step)
    BY <1>3, <1>5, DoingFacts DEF Line, InExchange
  <2>2. /\ Exchange(step)' /\ UNCHANGED <<flash, last_cmd>>
        /\ step.cmd # "ESA" => UNCHANGED epcqio_address
        /\ epcqio_address' \in {epcqio_address, step.word}
        /\ job = Idle
    BY <2>1, ExchangeReceive
  <2>3. Here'[at' - 1] = step
    BY <1>2
  <2>4. InExchange'
    BY <2>2, <2>3 DEF InExchange
  <2> QED BY <1>2, <1>3, <1>5, <2>2, <2>4 DEF Line
<1>6. CASE ~Loud /\ ~Waits(Now)
  <2>1. Pause
    BY <1>3, <1>6 DEF Line
  <2>2. /\ Head(toBoard) = toBoard[1] /\ 1 \in 1 .. Len(toBoard) /\ Len(toBoard) \in Nat
        /\ Len(toBoard') = Len(toBoard) - 1
        /\ \A i \in 1 .. Len(toBoard') : toBoard'[i] = toBoard[i + 1] /\ i + 1 \in 1 .. Len(toBoard)
    BY <1>1, TailFacts DEF Base, NetTypeOK
  <2>3. Head(toBoard).cmd = "data" /\ AfterData
    BY <1>1, <2>1, <2>2 DEF Pause
  <2>4. UNCHANGED <<flash, epcqio_address, job, last_cmd, fromBoard>> /\ job = Idle
    BY <2>1, <2>3 DEF BoardReceive, EpcqData, Pause, Quiet
  <2>5. Pause'
    BY <1>1, <1>2, <2>1, <2>2, <2>3, <2>4 DEF Pause, Quiet
  <2> QED BY <1>2, <1>3, <1>6, <2>4, <2>5 DEF Line
<1> QED BY <1>4, <1>5, <1>6

\* The board finishes a job.
LEMMA LineBoardFinish ==
  ASSUME Base, Line, BoardFinish
  PROVE  /\ Line' /\ UNCHANGED epcqio_address /\ Running
         /\ Loud \/ /\ Waits(Now) /\ last_cmd' = Here[at - 1].cmd /\ job' = Idle /\ toBoard = << >>
                    /\ job = [cmd |-> Here[at - 1].cmd, nwords |-> Here[at - 1].prefix,
                              address |-> epcqio_address]
                    /\ \/ Here[at - 1].cmd = "ERD" /\ UNCHANGED flash
                       \/ Here[at - 1].cmd = "ESE" /\ flash' = Erased(epcqio_address)
                       \/ Here[at - 1].cmd = "EWR" /\ EpcqWrite
<1>1. Stays /\ job # Idle
  BY DEF BoardFinish, Stays, EpcqErase, EraseAccepted, EpcqWrite, EpcqRead, Idle
<1>2. /\ current' = current /\ Here' = Here /\ Now' = Now /\ (Running' <=> Running) /\ at' = at
      /\ (Loud' <=> Loud) /\ (Waits(Now)' <=> Waits(Now))
  BY <1>1, StaysFacts DEF Stays
<1>3. Running /\ (Loud \/ Waits(Now))
  BY <1>1 DEF Line, Pause, Quiet
<1>4. CASE Loud
  <2> PICK n, a : n = at /\ a = current.start
    OBVIOUS
  <2>1. LoudAt(n, a) /\ n \in 1 .. 11
    BY <1>3, <1>4, LoudCases DEF Line, InLoud
  <2>2. LoudAt(n, a)' /\ UNCHANGED epcqio_address
    BY <2>1, LoudFinish
  <2>3. n = at' /\ a = current'.start
    BY <1>2
  <2>4. InLoud'
    BY <2>2, <2>3 DEF InLoud
  <2> QED BY <1>2, <1>3, <1>4, <2>2, <2>4 DEF Line
<1>5. CASE ~Loud
  <2> PICK step : step = Here[at - 1]
    OBVIOUS
  <2>1. Exchange(step) /\ IsCommand(step)
    BY <1>3, <1>5, DoingFacts DEF Line, InExchange
  <2>2. /\ Exchange(step)' /\ UNCHANGED epcqio_address
        /\ job = [cmd |-> step.cmd, nwords |-> step.prefix, address |-> epcqio_address]
        /\ toBoard = << >> /\ job' = Idle
        /\ step.cmd \in {"ESE", "EWR", "ERD"} /\ last_cmd' = step.cmd
        /\ step.cmd = "ERD" => UNCHANGED flash
        /\ step.cmd = "ESE" => flash' = Erased(epcqio_address)
        /\ step.cmd = "EWR" => EpcqWrite
    BY <2>1, ExchangeFinish
  <2>3. Here'[at' - 1] = step
    BY <1>2
  <2>4. InExchange'
    BY <2>2, <2>3 DEF InExchange
  <2>5. Line'
    BY <1>2, <1>3, <1>5, <2>4 DEF Line
  <2> QED BY <1>3, <1>5, <2>2, <2>5
<1> QED BY <1>4, <1>5

\* The board gives up an erase, or a packet is lost, delivered or dropped.
LEMMA LineRest ==
  ASSUME Base, Line, BoardGivesUp \/ LoseToBoard \/ Deliver \/ LoseFromBoard
  PROVE  /\ Line' /\ UNCHANGED <<flash, epcqio_address, last_cmd>> /\ Running
         /\ (BoardGivesUp /\ ~Loud) =>
              Waits(Now) /\ Here[at - 1].cmd = "ESE" /\ last_cmd = "ESE" /\ job.cmd = "ESE"
<1>1. Stays /\ UNCHANGED <<flash, epcqio_address, last_cmd>>
  BY DEF BoardGivesUp, EpcqStartTimeout, LoseToBoard, Deliver, LoseFromBoard, Stays
<1>2. /\ current' = current /\ Here' = Here /\ Now' = Now /\ (Running' <=> Running) /\ at' = at
      /\ (Loud' <=> Loud) /\ (Waits(Now)' <=> Waits(Now)) /\ (AfterData' <=> AfterData)
  BY <1>1, StaysFacts DEF Stays
<1>3. /\ BoardGivesUp => job # Idle
      /\ Deliver \/ LoseFromBoard => fromBoard # << >>
      /\ LoseToBoard => toBoard # << >>
  <2>1. BoardGivesUp => job # Idle
    BY DEF BoardGivesUp, EpcqStartTimeout, Idle
  <2>2. Deliver \/ LoseFromBoard => fromBoard # << >>
    BY DEF Deliver, LoseFromBoard
  <2>3. LoseToBoard => toBoard # << >>
    BY DEF LoseToBoard
  <2> QED BY <2>1, <2>2, <2>3
<1>4. Running
  BY <1>3 DEF Line, Quiet
<1>5. CASE Loud
  <2> PICK n, a : n = at /\ a = current.start
    OBVIOUS
  <2>1. LoudAt(n, a) /\ n \in 1 .. 11
    BY <1>4, <1>5, LoudCases DEF Line, InLoud
  <2>2. LoudAt(n, a)'
    BY <2>1, LoudLess, LoudDeliver
  <2>3. n = at' /\ a = current'.start
    BY <1>2
  <2>4. InLoud'
    BY <2>2, <2>3 DEF InLoud
  <2> QED BY <1>1, <1>2, <1>4, <1>5, <2>4 DEF Line
<1>6. CASE ~Loud /\ Waits(Now)
  <2> PICK step : step = Here[at - 1]
    OBVIOUS
  <2>1. Exchange(step) /\ IsCommand(step)
    BY <1>4, <1>6, DoingFacts DEF Line, InExchange
  <2>2. /\ Exchange(step)'
        /\ BoardGivesUp => step.cmd = "ESE" /\ last_cmd = "ESE" /\ job.cmd = "ESE"
    <3>1. CASE BoardGivesUp
      BY <2>1, <3>1, ExchangeGivesUp
    <3>2. CASE ~BoardGivesUp
      BY <2>1, <3>2, ExchangeLoseTo, ExchangeDeliver
    <3> QED BY <3>1, <3>2
  <2>3. Here'[at' - 1] = step
    BY <1>2
  <2>4. InExchange'
    BY <2>2, <2>3 DEF InExchange
  <2>5. Line'
    BY <1>2, <1>4, <1>6, <2>4 DEF Line
  <2> QED BY <1>1, <1>4, <1>6, <2>2, <2>5
<1>7. CASE ~Loud /\ ~Waits(Now)
  <2>1. Pause
    BY <1>4, <1>7 DEF Line
  <2>2. LoseToBoard
    BY <1>3, <2>1 DEF Pause, Quiet
  <2>3. /\ toBoard # << >> /\ toBoard' = Tail(toBoard)
        /\ UNCHANGED <<job, fromBoard, open_sockets>>
    BY <2>2 DEF LoseToBoard
  <2>4. /\ Len(toBoard) \in Nat /\ Len(toBoard') = Len(toBoard) - 1
        /\ \A i \in 1 .. Len(toBoard') : toBoard'[i] = toBoard[i + 1] /\ i + 1 \in 1 .. Len(toBoard)
    BY <2>3, TailFacts DEF Base, NetTypeOK
  <2>5. Pause'
    BY <1>2, <2>1, <2>3, <2>4 DEF Pause, Quiet
  <2>6. Line'
    BY <1>2, <1>4, <1>7, <2>5 DEF Line
  <2>7. ~BoardGivesUp
    BY <1>3, <2>1 DEF Pause, Quiet
  <2> QED BY <1>1, <1>4, <2>6, <2>7
<1> QED BY <1>5, <1>6, <1>7

\* Without a kill, what is under way stays in line.
LEMMA LineStep ==
  ASSUME Base, Line, [Next]_flashVars, ~Kill
  PROVE  Line'
<1>1. CASE Len(calls) < Len(Calls) /\ \E call \in Calls[Len(calls) + 1] : Call(call)
  BY <1>1, LineCall
<1>2. CASE ServerStep
  BY <1>2, LineSend, LineOpen, LineReceive, LineUse DEF ServerStep
<1>3. CASE BoardStep \/ Deliver \/ LoseToBoard \/ LoseFromBoard
  BY <1>3, LineBoardReceive, LineBoardFinish, LineRest DEF BoardStep
<1>4. CASE UNCHANGED flashVars
  <2>1. Stays /\ UNCHANGED <<epcqVars, open_sockets, toBoard, fromBoard>>
    BY <1>4 DEF flashVars, Stays
  <2>2. /\ current' = current /\ Here' = Here /\ Now' = Now /\ (Running' <=> Running) /\ at' = at
        /\ (Loud' <=> Loud) /\ (Waits(Now)' <=> Waits(Now)) /\ (AfterData' <=> AfterData)
    BY <2>1, StaysFacts DEF Stays
  <2>3. Quiet' <=> Quiet
    BY <2>1 DEF Quiet
  <2>4. Pause' <=> Pause
    BY <2>1, <2>2, <2>3 DEF Pause
  <2>5. Sock(COMMAND_PORT)' = Sock(COMMAND_PORT) /\ Sock(FIRMWARE_PORT)' = Sock(FIRMWARE_PORT)
    BY <2>1 DEF Sock
  <2>c. \A n : Contents(epcqio_address, n)' = Contents(epcqio_address, n)
    BY <2>1 DEF Contents, Words
  <2>6. \A n, a : LoudAt(n, a) => LoudAt(n, a)'
    <3>1. (InTo' <=> InTo) /\ (InJob' <=> InJob) /\ (InFrom' <=> InFrom) /\ (InSock' <=> InSock) /\ (NoPage' <=> NoPage)
      BY <2>1, <2>5 DEF InTo, InJob, InFrom, InSock, NoPage
    <3>2. (OneOwed' <=> OneOwed) /\ (NoneOwed' <=> NoneOwed)
      BY <2>1, <2>5, <3>1 DEF OneOwed, NoneOwed
    <3>3. \A n, a : LoudUnset(n, a) => LoudUnset(n, a)'
      BY <2>1, <3>2 DEF LoudUnset
    <3>4. \A n : LoudRead(n) => LoudRead(n)'
      BY <2>1, <2>5, <2>c, <3>1 DEF LoudRead
    <3> QED BY <2>1, <3>3, <3>4 DEF LoudAt
  <2>7. \A step : Exchange(step) => Exchange(step)'
    <3> SUFFICES ASSUME NEW step, Exchange(step) PROVE Exchange(step)'
      OBVIOUS
    <3>1. Sock(AnswerPort(step.cmd))' = Sock(AnswerPort(step.cmd))
      BY <2>1 DEF Sock
    <3>2. Answered(step.cmd)' <=> Answered(step.cmd)
      BY <2>1, <3>1 DEF Answered, Arriving, Arrived
    <3>3. Sending(step)' /\ Working(step)' /\ Answering(step.cmd)'
      BY <2>1, <3>1, <3>2 DEF Exchange, Sending, Working, Answering
    <3>4. AnswerTrue(step)'
      BY <2>1, <2>5, <2>c, <3>2 DEF Exchange, AnswerTrue
    <3> QED BY <3>3, <3>4 DEF Exchange
  <2>8. (InLoud => InLoud') /\ (InExchange => InExchange')
    BY <2>2, <2>6, <2>7 DEF InLoud, InExchange
  <2> QED BY <2>1, <2>2, <2>3, <2>4, <2>8 DEF Line
<1> QED BY <1>1, <1>2, <1>3, <1>4 DEF Next

-----------------------------------------------------------------------------
(***************************************************************************)
(* Which address the board has while a call works on a page, and where     *)
(* that matters.                                                           *)
(***************************************************************************)
WritesFlash(c) == c.op \in {"writeEPCQ", "writeFirmware"}
NPages(c) == IF c.op = "writeEPCQ" THEN EpcqPages(c.data) ELSE FirmwarePages(c.end)
PageOf(c, p) == IF c.op = "writeEPCQ" THEN EpcqPage(c.data, p) ELSE FirmwarePage(c.data, p)
Dest(c, p) == PageAt(c, IF p = 0 THEN 1 ELSE p)
KnownFrom(c, p) == IF c.op = "writeEPCQ" THEN (IF p = 0 THEN 5 ELSE 3) ELSE (IF p = 1 THEN 12 ELSE 3)
KnownW(c, p, i) ==
  p < LastPart(c) /\ (c.op = "writeEPCQ" \/ p >= 1) /\ i >= KnownFrom(c, p)
LoudP(c, p, i) == c.op = "writeFirmware" /\ p = 1 /\ i <= 11

WriteWait(c, p, s, i) ==
  (i >= 2 /\ Waits(s[i])) =>
    /\ s[i - 1].cmd = "ESA" => s[i - 1].word = Dest(c, p)
    /\ s[i - 1].cmd \in {"ESE", "EWR"} => KnownW(c, p, i) \/ LoudP(c, p, i)
    /\ s[i - 1].cmd = "EWR" => s[i - 1].prefix = PageWords /\ p >= 1 /\ p <= NPages(c)
    /\ s[i - 1].cmd = "ESE" => \/ p = 0 /\ c.op = "writeEPCQ" /\ c.erase /\ i = 6
                               \/ p >= 1 /\ p <= NPages(c) /\ c.op = "writeFirmware"
                                  /\ Dest(c, p) % SectorWords = 0
WriteNext(c, p, s, i) ==
  (i < Len(s) /\ KnownW(c, p, i + 1) /\ ~KnownW(c, p, i)) =>
    i >= 2 /\ Waits(s[i]) /\ (s[i - 1].cmd = "ESA" \/ LoudP(c, p, i))
WriteUse(c, p, s, i) ==
  /\ s[i].do = "recieveData" =>
       /\ i >= 2 /\ s[i - 1].cmd = "ERD" /\ s[i - 1].prefix = PageWords
       /\ i < Len(s) /\ s[i + 1].do = "compare"
  /\ s[i].do = "compare" =>
       /\ i = Len(s) /\ p >= 1 /\ p <= NPages(c) /\ KnownW(c, p, i) /\ s[i].page = PageOf(c, p)
       /\ s[i - 2].prefix = PageWords
  /\ (i = Len(s) /\ p >= 1) => s[i].do \in {"compare", "return"}
  /\ s[i].do # "store"
  /\ (s[i].do = "return" /\ s[i].value = "ok") => p = NPages(c) + 1
WriteFit(c, p, s, i) == WriteWait(c, p, s, i) /\ WriteNext(c, p, s, i) /\ WriteUse(c, p, s, i)

\* The steps of a page fit.
LEMMA PageFit ==
  ASSUME NEW c, WritesFlash(c), NEW p \in Nat \ {0}, p < LastPart(c), p <= NPages(c),
         NEW s, NEW o \in {0, 2, 4}, HasPage(s, o, Dest(c, p), PageOf(c, p)),
         c.op = "writeEPCQ" => o = 0, c.op = "writeFirmware" => o \in {2, 4} /\ (p = 1 => o = 4),
         NEW i \in Nat, i > o, i <= Len(s)
  PROVE  WriteFit(c, p, s, i)
<1> DEFINE page == PageOf(c, p)
           address == Dest(c, p)
<1> HIDE DEF page, address
<1>p. /\ s[o + 1] = Command("ESA", 0, address) /\ s[o + 2] = WaitForDone
      /\ s[o + 3] = SendPage(page)
      /\ s[o + 4] = Command("EWR", PageWords, 0) /\ s[o + 5] = WaitForDone
      /\ s[o + 6] = Command("ERD", PageWords, 0) /\ s[o + 7] = Receive(FIRMWARE_PORT)
      /\ s[o + 8] = Compare(page)
      /\ Len(s) = o + 8
  BY DEF HasPage, IsPage, page, address
<1>k. /\ \A j \in Nat : KnownW(c, p, j) <=> j >= KnownFrom(c, p)
      /\ \/ c.op = "writeEPCQ" /\ o = 0 /\ KnownFrom(c, p) = 3
         \/ c.op = "writeFirmware" /\ p = 1 /\ o = 4 /\ KnownFrom(c, p) = 12
         \/ c.op = "writeFirmware" /\ p # 1 /\ o \in {2, 4} /\ KnownFrom(c, p) = 3
  BY DEF KnownW, KnownFrom, WritesFlash
<1>l. \A j \in Nat : LoudP(c, p, j) <=> (c.op = "writeFirmware" /\ p = 1 /\ j <= 11)
  BY DEF LoudP
<1>1. CASE i = o + 1
  <2>1. s[i].do = "sendCommand" /\ i < Len(s)
    BY <1>p, <1>1 DEF Command
  <2>2. ~(KnownW(c, p, i + 1) /\ ~KnownW(c, p, i))
    BY <1>k, <1>1
  <2> QED BY <2>1, <2>2 DEF WriteFit, WriteWait, WriteNext, WriteUse, Waits
<1>2. CASE i = o + 2
  <2>1. /\ s[i].do = "waitForDone" /\ i < Len(s) /\ i >= 2
        /\ s[i - 1].cmd = "ESA" /\ s[i - 1].word = address
    BY <1>p, <1>2 DEF Command, WaitForDone
  <2> QED BY <2>1 DEF WriteFit, WriteWait, WriteNext, WriteUse, Waits, address
<1>3. CASE i = o + 3
  <2>1. s[i].do = "sendData" /\ i < Len(s)
    BY <1>p, <1>3 DEF SendPage
  <2>2. ~(KnownW(c, p, i + 1) /\ ~KnownW(c, p, i))
    BY <1>k, <1>3
  <2> QED BY <2>1, <2>2 DEF WriteFit, WriteWait, WriteNext, WriteUse, Waits
<1>4. CASE i = o + 4
  <2>1. s[i].do = "sendCommand" /\ i < Len(s)
    BY <1>p, <1>4 DEF Command
  <2>2. ~(KnownW(c, p, i + 1) /\ ~KnownW(c, p, i))
    BY <1>k, <1>4
  <2> QED BY <2>1, <2>2 DEF WriteFit, WriteWait, WriteNext, WriteUse, Waits
<1>5. CASE i = o + 5
  <2>1. /\ s[i].do = "waitForDone" /\ i < Len(s) /\ i >= 2
        /\ s[i - 1].cmd = "EWR" /\ s[i - 1].prefix = PageWords
    BY <1>p, <1>5 DEF Command, WaitForDone
  <2>2. KnownW(c, p, i) \/ LoudP(c, p, i)
    BY <1>k, <1>l, <1>5
  <2>3. ~(KnownW(c, p, i + 1) /\ ~KnownW(c, p, i))
    BY <1>k, <1>5
  <2> QED BY <2>1, <2>2, <2>3 DEF WriteFit, WriteWait, WriteNext, WriteUse, Waits
<1>6. CASE i = o + 6
  <2>1. s[i].do = "sendCommand" /\ i < Len(s)
    BY <1>p, <1>6 DEF Command
  <2>2. ~(KnownW(c, p, i + 1) /\ ~KnownW(c, p, i))
    BY <1>k, <1>6
  <2> QED BY <2>1, <2>2 DEF WriteFit, WriteWait, WriteNext, WriteUse, Waits
<1>7. CASE i = o + 7
  <2>1. /\ s[i].do = "recieveData" /\ i < Len(s) /\ i >= 2
        /\ s[i - 1].cmd = "ERD" /\ s[i - 1].prefix = PageWords
        /\ s[i + 1].do = "compare"
    BY <1>p, <1>7 DEF Command, Receive, Compare
  <2>2. (KnownW(c, p, i + 1) /\ ~KnownW(c, p, i)) => LoudP(c, p, i)
    BY <1>k, <1>l, <1>7
  <2> QED BY <2>1, <2>2 DEF WriteFit, WriteWait, WriteNext, WriteUse, Waits
<1>8. CASE i = o + 8
  <2>1. /\ s[i].do = "compare" /\ i = Len(s) /\ s[i].page = page /\ s[i - 2].prefix = PageWords
    BY <1>p, <1>8 DEF Command, Compare
  <2>2. KnownW(c, p, i)
    BY <1>k, <1>8
  <2> QED BY <2>1, <2>2 DEF WriteFit, WriteWait, WriteNext, WriteUse, Waits, page
<1> QED BY <1>p, <1>1, <1>2, <1>3, <1>4, <1>5, <1>6, <1>7, <1>8

\* A part that only returns fits.
LEMMA ReturnFit ==
  ASSUME NEW c, NEW p \in Nat, NEW s, NEW v \in {"ok", "error"}, s = << Return(v) >>,
         v = "ok" => p = NPages(c) + 1, NEW i \in 1 .. Len(s)
  PROVE  WriteFit(c, p, s, i)
<1>1. Len(s) = 1 /\ i = 1 /\ s[i].do = "return" /\ s[i].value = v
  BY DEF Return
<1>2. s[i].do \notin {"waitForDone", "recieveData", "compare", "store"}
  BY <1>1
<1> QED BY <1>1, <1>2 DEF WriteFit, WriteWait, WriteNext, WriteUse, Waits

LEMMA EpcqFits ==
  ASSUME NEW c, IsCall(c), c.op = "writeEPCQ", NEW p \in 0 .. LastPart(c),
         NEW s, s = Steps(c, p), NEW i \in 1 .. Len(s)
  PROVE  WriteFit(c, p, s, i)
<1>l. LastPart(c) = (IF Len(c.data) > SectorWords THEN 0 ELSE EpcqPages(c.data) + 1)
      /\ NPages(c) = EpcqPages(c.data)
  BY DEF LastPart, NPages
<1>t. EpcqPages(c.data) \in Nat \ {0} /\ c.start \in Nat /\ p \in Nat /\ c.erase \in BOOLEAN
  <2>1. 1 \in Nat \ {0}
    OBVIOUS
  <2>2. EpcqPages(c.data) \in Nat \ {0} /\ c.start \in Nat
    BY <2>1, PageWordsOK
  <2>3. c.erase \in BOOLEAN
    BY DEF IsCall
  <2> QED BY <2>2, <2>3, <1>l
<1>1. CASE Len(c.data) > SectorWords
  <2>1. s = << Return("error") >>
    BY <1>1, <1>t, EpcqRow
  <2> QED BY <1>t, <2>1, ReturnFit
<1>2. CASE ~(Len(c.data) > SectorWords) /\ p = 0
  <2>1. /\ Len(s) = (IF c.erase THEN 6 ELSE 4)
        /\ s[1] = Command("ERB", 0, 0) /\ s[2] = WaitForDone
        /\ s[3] = Command("ESA", 0, c.start) /\ s[4] = WaitForDone
        /\ c.erase => s[5] = Command("ESE", 0, 0) /\ s[6] = WaitForDone
    BY <1>2, <1>t, EpcqRow
  <2>2. p < LastPart(c) /\ Dest(c, p) = c.start
    <3>1. (1 - 1) * PageWords = 0
      BY FlashAssumption
    <3> QED BY <1>2, <1>l, <1>t, <3>1 DEF Dest, PageAt
  <2>k. \A j \in Nat : KnownW(c, p, j) <=> j >= 5
    BY <1>2, <2>2 DEF KnownW, KnownFrom
  <2>3. i \in Nat /\ (i \in {1, 2, 3, 4} \/ (c.erase /\ i \in {5, 6}))
    BY <2>1, <1>t
  <2>4. CASE i \in {1, 3}
    <3>1. s[i].do = "sendCommand" /\ i < Len(s)
      BY <2>1, <2>4, <1>t DEF Command
    <3>2. ~KnownW(c, p, i + 1)
      BY <2>k, <2>4
    <3> QED BY <1>2, <3>1, <3>2 DEF WriteFit, WriteWait, WriteNext, WriteUse, Waits
  <2>5. CASE i = 2
    <3>1. s[i].do = "waitForDone" /\ s[i - 1].cmd = "ERB"
      BY <2>1, <2>5 DEF Command, WaitForDone
    <3>2. ~KnownW(c, p, i + 1)
      BY <2>k, <2>5
    <3> QED BY <1>2, <3>1, <3>2 DEF WriteFit, WriteWait, WriteNext, WriteUse, Waits
  <2>6. CASE i = 4
    <3>1. s[i].do = "waitForDone" /\ s[i - 1].cmd = "ESA" /\ s[i - 1].word = c.start /\ i >= 2
      BY <2>1, <2>6 DEF Command, WaitForDone
    <3> QED BY <1>2, <2>2, <3>1 DEF WriteFit, WriteWait, WriteNext, WriteUse, Waits
  <2>7. CASE c.erase /\ i = 5
    <3>1. s[i].do = "sendCommand"
      BY <2>1, <2>7 DEF Command
    <3>2. KnownW(c, p, i)
      BY <2>k, <2>7
    <3> QED BY <1>2, <3>1, <3>2 DEF WriteFit, WriteWait, WriteNext, WriteUse, Waits
  <2>8. CASE c.erase /\ i = 6
    <3>1. s[i].do = "waitForDone" /\ s[i - 1].cmd = "ESE"
      BY <2>1, <2>8 DEF Command, WaitForDone
    <3>2. KnownW(c, p, i)
      BY <2>k, <2>8
    <3> QED BY <1>2, <2>8, <3>1, <3>2 DEF WriteFit, WriteWait, WriteNext, WriteUse, Waits
  <2> QED BY <2>3, <2>4, <2>5, <2>6, <2>7, <2>8
<1>3. CASE ~(Len(c.data) > SectorWords) /\ p # 0 /\ p <= EpcqPages(c.data)
  <2>1. Len(s) = 8 /\ IsPage(s, 0, PageAt(c, p), EpcqPage(c.data, p))
    BY <1>3, <1>t, EpcqRow
  <2>2. EpcqPage(c.data, p) \in Seq(Data) /\ PageAt(c, p) \in Nat /\ p \in Nat \ {0}
    <3>1. p \in Nat \ {0}
      BY <1>3, <1>t
    <3>2. EpcqPage(c.data, p) \in [1 .. PageWords -> Data] /\ PageAt(c, p) \in Nat
      BY <3>1, PageWordsOK
    <3>3. \A f \in [1 .. PageWords -> Data] : f \in Seq(Data)
      BY FlashAssumption
    <3> QED BY <3>1, <3>2, <3>3
  <2>3. HasPage(s, 0, Dest(c, p), PageOf(c, p))
    BY <1>3, <2>1, <2>2 DEF HasPage, Dest, PageOf
  <2>4. p < LastPart(c) /\ WritesFlash(c) /\ p <= NPages(c) /\ i \in Nat /\ i > 0 /\ i <= Len(s)
    BY <1>3, <1>l, <1>t, <2>1 DEF WritesFlash
  <2>5. 0 \in {0, 2, 4} /\ (c.op = "writeFirmware" => 0 \in {2, 4} /\ (p = 1 => 0 = 4))
    OBVIOUS
  <2> QED BY <2>2, <2>3, <2>4, <2>5, PageFit
<1>4. CASE ~(Len(c.data) > SectorWords) /\ p # 0 /\ ~(p <= EpcqPages(c.data))
  <2>1. s = << Return("ok") >> /\ p = NPages(c) + 1
    BY <1>4, <1>l, <1>t, EpcqRow
  <2> QED BY <1>t, <2>1, ReturnFit
<1> QED BY <1>1, <1>2, <1>3, <1>4

LEMMA FirmwareFits ==
  ASSUME NEW c, IsCall(c), c.op = "writeFirmware", NEW p \in 0 .. LastPart(c),
         NEW s, s = Steps(c, p), NEW i \in 1 .. Len(s)
  PROVE  WriteFit(c, p, s, i)
<1>l. LastPart(c) = (IF c.start % SectorWords # 0 THEN 0 ELSE FirmwarePages(c.end) + 1)
      /\ NPages(c) = FirmwarePages(c.end)
  BY DEF LastPart, NPages
<1>t. FirmwarePages(c.end) \in Nat \ {0} /\ c.start \in Nat /\ p \in Nat
  <2>1. 1 \in Nat \ {0}
    OBVIOUS
  <2>2. FirmwarePages(c.end) \in Nat \ {0} /\ c.start \in Nat
    BY <2>1, PageWordsOK
  <2> QED BY <2>2, <1>l
<1>1. CASE c.start % SectorWords # 0
  <2>1. s = << Return("error") >>
    BY <1>1, <1>t, FirmwareRow
  <2> QED BY <1>t, <2>1, ReturnFit
<1>2. CASE c.start % SectorWords = 0 /\ p = 0
  <2>1. s = << Command("ERB", 0, 0) >>
    BY <1>2, <1>t, FirmwareRow
  <2>2. i = Len(s) /\ s[i].do = "sendCommand"
    BY <2>1 DEF Command
  <2>3. ~(p >= 1) /\ ~(i < Len(s))
    <3>1. Len(s) = 1
      BY <2>1
    <3>2. ~(i < 1)
      BY <3>1, <2>2
    <3>3. p = 0
      BY <1>2
    <3>4. ~(p >= 1)
      BY <3>3
    <3> QED BY <3>1, <3>2, <3>4
  <2>4. s[i].do \notin {"waitForDone", "recieveData", "compare", "store", "return"}
    BY <2>2
  <2>5. WriteWait(c, p, s, i) /\ WriteNext(c, p, s, i)
    BY <2>3, <2>4 DEF WriteWait, WriteNext, Waits
  <2>6. WriteUse(c, p, s, i)
    BY <2>3, <2>4 DEF WriteUse
  <2> QED BY <2>5, <2>6 DEF WriteFit
<1>3. CASE c.start % SectorWords = 0 /\ p # 0 /\ p <= FirmwarePages(c.end)
  <2> DEFINE page == FirmwarePage(c.data, p)
             address == PageAt(c, p)
  <2>2. page \in Seq(Data) /\ address \in Nat /\ p \in Nat \ {0}
    <3>1. p \in Nat \ {0}
      BY <1>3, <1>t
    <3>2. page \in [1 .. PageWords -> Data] /\ address \in Nat
      BY <3>1, PageWordsOK
    <3>3. \A f \in [1 .. PageWords -> Data] : f \in Seq(Data)
      BY FlashAssumption
    <3> QED BY <3>1, <3>2, <3>3
  <2>1. /\ s[1] = Command("ESA", 0, address) /\ s[2] = WaitForDone
        /\ address % SectorWords = 0 =>
             /\ Len(s) = 12
             /\ s[3] = Command("ESE", 0, 0) /\ s[4] = WaitForDone
             /\ IsPage(s, 4, address, page)
        /\ address % SectorWords # 0 => Len(s) = 10 /\ IsPage(s, 2, address, page)
    BY <1>3, <1>t, FirmwareRow
  <2>3. p < LastPart(c) /\ WritesFlash(c) /\ p <= NPages(c) /\ address = Dest(c, p) /\ page = PageOf(c, p)
    BY <1>3, <1>l, <1>t DEF WritesFlash, Dest, PageOf
  <2>e. p = 1 => address % SectorWords = 0
    <3>1. (1 - 1) * PageWords = 0
      BY FlashAssumption
    <3>2. p = 1 => address = c.start
      BY <1>t, <3>1 DEF PageAt
    <3> QED BY <1>3, <3>2
  <2>k. \A j \in Nat : /\ KnownW(c, p, j) <=> j >= (IF p = 1 THEN 12 ELSE 3)
                       /\ LoudP(c, p, j) <=> (p = 1 /\ j <= 11)
    BY <2>2, <2>3 DEF KnownW, KnownFrom, LoudP
  <2> HIDE DEF page, address
  <2>n. i \in Nat /\ i >= 1 /\ i <= Len(s) /\ Len(s) \in {10, 12}
    BY <2>1
  <2>4. CASE i = 1
    <3>1. s[i].do = "sendCommand" /\ i < Len(s)
      BY <2>1, <2>4, <2>n DEF Command
    <3>2. ~KnownW(c, p, i + 1)
      BY <2>k, <2>4
    <3> QED BY <3>1, <3>2 DEF WriteFit, WriteWait, WriteNext, WriteUse, Waits
  <2>5. CASE i = 2
    <3>1. s[i].do = "waitForDone" /\ s[i - 1].cmd = "ESA" /\ s[i - 1].word = address /\ i < Len(s) /\ i >= 2
      BY <2>1, <2>5, <2>n DEF Command, WaitForDone
    <3> QED BY <2>3, <3>1 DEF WriteFit, WriteWait, WriteNext, WriteUse, Waits
  <2>6. CASE i = 3 /\ address % SectorWords = 0
    <3>1. s[i].do = "sendCommand" /\ i < Len(s)
      BY <2>1, <2>6 DEF Command
    <3>2. ~(KnownW(c, p, i + 1) /\ ~KnownW(c, p, i))
      BY <2>k, <2>6
    <3> QED BY <3>1, <3>2 DEF WriteFit, WriteWait, WriteNext, WriteUse, Waits
  <2>7. CASE i = 4 /\ address % SectorWords = 0
    <3>0. i - 1 = 3 /\ i < 12 /\ i >= 2 /\ Len(s) = 12
      BY <2>1, <2>7
    <3>1. s[i].do = "waitForDone" /\ s[i - 1].cmd = "ESE" /\ i < Len(s) /\ i >= 2
      BY <2>1, <2>7, <3>0 DEF Command, WaitForDone
    <3>2. KnownW(c, p, i) \/ LoudP(c, p, i)
      BY <2>k, <2>7
    <3>3. ~(KnownW(c, p, i + 1) /\ ~KnownW(c, p, i))
      BY <2>k, <2>7
    <3>4. Dest(c, p) % SectorWords = 0 /\ p >= 1
      BY <2>2, <2>3, <2>7
    <3> QED BY <2>3, <3>1, <3>2, <3>3, <3>4 DEF WriteFit, WriteWait, WriteNext, WriteUse, Waits
  <2>8. CASE address % SectorWords = 0 /\ i > 4
    <3>1. HasPage(s, 4, Dest(c, p), PageOf(c, p))
      BY <2>1, <2>2, <2>3, <2>8 DEF HasPage
    <3>2. 4 \in {0, 2, 4} /\ (c.op = "writeFirmware" => 4 \in {2, 4} /\ (p = 1 => 4 = 4))
      OBVIOUS
    <3> QED BY <2>2, <2>3, <2>8, <2>n, <3>1, <3>2, PageFit
  <2>9. CASE address % SectorWords # 0 /\ i > 2
    <3>1. HasPage(s, 2, Dest(c, p), PageOf(c, p))
      BY <2>1, <2>2, <2>3, <2>9 DEF HasPage
    <3>2. 2 \in {0, 2, 4} /\ (c.op = "writeFirmware" => 2 \in {2, 4} /\ (p = 1 => 2 = 4))
      BY <2>e, <2>9
    <3> QED BY <2>2, <2>3, <2>9, <2>n, <3>1, <3>2, PageFit
  <2> QED BY <2>n, <2>4, <2>5, <2>6, <2>7, <2>8, <2>9
<1>4. CASE c.start % SectorWords = 0 /\ p # 0 /\ ~(p <= FirmwarePages(c.end))
  <2>1. s = << Return("ok") >> /\ p = NPages(c) + 1
    BY <1>4, <1>l, <1>t, FirmwareRow
  <2> QED BY <1>t, <2>1, ReturnFit
<1> QED BY <1>1, <1>2, <1>3, <1>4

\* Where a running write is.
LEMMA WriteFits ==
  Base /\ Running /\ WritesFlash(current) =>
    /\ WriteFit(current, part, Here, at)
    /\ part <= NPages(current) + 1 /\ NPages(current) \in Nat \ {0}
    /\ LastPart(current) \in {0, NPages(current) + 1}
<1> SUFFICES ASSUME Base, Running, WritesFlash(current)
             PROVE  /\ WriteFit(current, part, Here, at)
                    /\ part <= NPages(current) + 1 /\ NPages(current) \in Nat \ {0}
                    /\ LastPart(current) \in {0, NPages(current) + 1}
  OBVIOUS
<1>1. IsCall(current) /\ part \in 0 .. LastPart(current) /\ at \in 1 .. Len(Here)
  BY NowFacts
<1>2. WriteFit(current, part, Here, at)
  BY <1>1, EpcqFits, FirmwareFits DEF WritesFlash, Here
<1>3. NPages(current) \in Nat \ {0}
  <2>1. 1 \in Nat \ {0}
    OBVIOUS
  <2> QED BY <1>1, <2>1, PageWordsOK DEF WritesFlash, NPages
<1>4. LastPart(current) \in {0, NPages(current) + 1}
  BY DEF WritesFlash, NPages, LastPart
<1> QED BY <1>1, <1>2, <1>3, <1>4

\* The same for reading: after the last page of a part its next page is addressed.
ReadNum(c, p) == IF p < LastPart(c) THEN PageWords ELSE c.words % PageWords
KnownR(c, p, i) == c.op = "readEPCQ" /\ p >= 1 /\ i <= 4
ReadWait(c, p, s, i) ==
  (i >= 2 /\ Waits(s[i])) =>
    /\ s[i - 1].cmd \in {"ERB", "ESA", "ERD"}
    /\ s[i - 1].cmd = "ESA" => s[i - 1].word = PageAt(c, p + 1) /\ ~KnownR(c, p, i)
    /\ s[i - 1].cmd = "ERD" => p >= 1 /\ s[i - 1].prefix = ReadNum(c, p)
ReadUse(c, p, s, i) ==
  /\ s[i].do = "recieveData" => i >= 2 /\ s[i - 1].cmd = "ERD" /\ i < Len(s) /\ s[i + 1].do = "store"
  /\ s[i].do = "store" =>
       /\ p >= 1 /\ s[i - 2].prefix = ReadNum(c, p) /\ i < Len(s)
       /\ s[i].bytes = IF p < LastPart(c) THEN 4 * PageWords ELSE ReadNum(c, p)
  /\ (p >= 1 /\ s[i].do = "store") <=> (p >= 1 /\ i = 3)
  /\ s[i].do # "compare"
  /\ s[i].do = "return" => p = LastPart(c) /\ i = 4
ReadNext(c, p, s, i) ==
  i = Len(s) =>
    \/ s[i].do = "return"
    \/ i >= 2 /\ Waits(s[i]) /\ s[i - 1].cmd = "ESA" /\ p < LastPart(c) /\ i > 3
ReadFit(c, p, s, i) == ReadWait(c, p, s, i) /\ ReadUse(c, p, s, i) /\ ReadNext(c, p, s, i)

LEMMA ReadFits ==
  ASSUME NEW c, IsCall(c), c.op = "readEPCQ", NEW p \in 0 .. LastPart(c),
         NEW s, s = Steps(c, p), NEW i \in 1 .. Len(s)
  PROVE  ReadFit(c, p, s, i)
<1> DEFINE d == c.words \div PageWords
           m == c.words % PageWords
           a == PageAt(c, p + 1)
<1>l. LastPart(c) = d + 1
  BY DEF LastPart
<1>t. d \in Nat /\ m \in Nat /\ c.start \in Nat /\ p \in Nat /\ PageWords \in Nat
  <2>1. 1 \in Nat \ {0}
    OBVIOUS
  <2>2. d \in Nat /\ m \in Nat /\ c.start \in Nat
    BY <2>1, PageWordsOK
  <2> QED BY <2>2, <1>l, FlashAssumption
<1>1. /\ p = 0 => s = << Command("ERB", 0, 0), WaitForDone,
                         Command("ESA", 0, c.start), WaitForDone >>
      /\ (p # 0 /\ p <= d) =>
           s = << Command("ERD", PageWords, 0), Receive(FIRMWARE_PORT), Store(4 * PageWords),
                  Command("ESA", 0, a), WaitForDone >>
      /\ (p # 0 /\ ~(p <= d)) =>
           s = << Command("ERD", m, 0), Receive(FIRMWARE_PORT), Store(m), Return("ok") >>
  BY <1>t, ReadRow
<1>a. p = 0 => a = c.start
  <2>1. (0 + 1 - 1) * PageWords = 0
    BY FlashAssumption
  <2> QED BY <1>t, <2>1 DEF PageAt
<1>n. ReadNum(c, p) = IF p < LastPart(c) THEN PageWords ELSE m
  BY DEF ReadNum
<1>k. \A j \in Nat : KnownR(c, p, j) <=> (p >= 1 /\ j <= 4)
  BY DEF KnownR
<1> HIDE DEF d, m
<1> SUFFICES ASSUME NEW t, t = s PROVE ReadFit(c, p, t, i)
  OBVIOUS
<1>i. i \in Nat /\ i >= 1 /\ i <= Len(s)
  <2>1. Len(s) \in Nat
    BY <1>1, <1>t
  <2> QED BY <2>1
<1>2. CASE p = 0
  <2>1. /\ Len(t) = 4 /\ t[1] = Command("ERB", 0, 0) /\ t[2] = WaitForDone
        /\ t[3] = Command("ESA", 0, a) /\ t[4] = WaitForDone
    BY <1>1, <1>2, <1>a
  <2>2. p < LastPart(c) /\ ~(p >= 1)
    BY <1>2, <1>l, <1>t
  <2>i. i \in {1, 2, 3, 4} /\ Len(t) = 4
    BY <1>i, <2>1
  <2> HIDE DEF a
  <2>3. CASE i \in {1, 3}
    <3>1. t[i].do = "sendCommand" /\ i # Len(t)
      BY <2>1, <2>3 DEF Command
    <3> QED BY <2>2, <3>1 DEF ReadFit, ReadWait, ReadUse, ReadNext, Waits
  <2>4. CASE i = 2
    <3>1. t[i].do = "waitForDone" /\ t[i - 1].cmd = "ERB" /\ i # Len(t)
      BY <2>1, <2>4 DEF Command, WaitForDone
    <3> QED BY <2>2, <3>1 DEF ReadFit, ReadWait, ReadUse, ReadNext, Waits
  <2>5. CASE i = 4
    <3>1. t[i].do = "waitForDone" /\ t[i - 1].cmd = "ESA" /\ t[i - 1].word = a /\ i >= 2 /\ i > 3
      BY <2>1, <2>5 DEF Command, WaitForDone
    <3>2. ~KnownR(c, p, i)
      BY <2>2, <2>i, <1>k
    <3> QED BY <2>2, <3>1, <3>2 DEF ReadFit, ReadWait, ReadUse, ReadNext, Waits, a
  <2> QED BY <2>i, <2>3, <2>4, <2>5
<1>3. CASE p # 0 /\ p <= d
  <2>1. /\ Len(t) = 5 /\ t[1] = Command("ERD", PageWords, 0) /\ t[2] = Receive(FIRMWARE_PORT)
        /\ t[3] = Store(4 * PageWords) /\ t[4] = Command("ESA", 0, a) /\ t[5] = WaitForDone
    BY <1>1, <1>3
  <2>2. p < LastPart(c) /\ p >= 1 /\ ReadNum(c, p) = PageWords
    BY <1>3, <1>l, <1>t, <1>n
  <2>i. i \in {1, 2, 3, 4, 5} /\ Len(t) = 5
    BY <1>i, <2>1
  <2> HIDE DEF a
  <2>3. CASE i \in {1, 4}
    <3>1. t[i].do = "sendCommand" /\ i # Len(t) /\ i # 3
      BY <2>1, <2>3 DEF Command
    <3> QED BY <2>2, <3>1 DEF ReadFit, ReadWait, ReadUse, ReadNext, Waits
  <2>4. CASE i = 2
    <3>1. /\ t[i].do = "recieveData" /\ t[i - 1].cmd = "ERD" /\ t[i - 1].prefix = PageWords
          /\ t[i + 1].do = "store" /\ i # Len(t) /\ i >= 2 /\ i < Len(t) /\ i # 3
      BY <2>1, <2>4 DEF Command, Receive, Store
    <3> QED BY <2>2, <3>1 DEF ReadFit, ReadWait, ReadUse, ReadNext, Waits
  <2>5. CASE i = 3
    <3>1. /\ t[i].do = "store" /\ t[i].bytes = 4 * PageWords /\ t[i - 2].prefix = PageWords
          /\ i # Len(t) /\ i < Len(t)
      BY <2>1, <2>5 DEF Command, Store
    <3> QED BY <2>2, <2>5, <3>1 DEF ReadFit, ReadWait, ReadUse, ReadNext, Waits
  <2>6. CASE i = 5
    <3>1. t[i].do = "waitForDone" /\ t[i - 1].cmd = "ESA" /\ t[i - 1].word = a /\ i >= 2 /\ i > 3 /\ i # 3
      BY <2>1, <2>6 DEF Command, WaitForDone
    <3>2. ~KnownR(c, p, i)
      BY <2>6, <1>k
    <3> QED BY <2>2, <3>1, <3>2 DEF ReadFit, ReadWait, ReadUse, ReadNext, Waits, a
  <2> QED BY <2>i, <2>3, <2>4, <2>5, <2>6
<1>4. CASE p # 0 /\ ~(p <= d)
  <2>1. /\ Len(t) = 4 /\ t[1] = Command("ERD", m, 0) /\ t[2] = Receive(FIRMWARE_PORT)
        /\ t[3] = Store(m) /\ t[4] = Return("ok")
    BY <1>1, <1>4
  <2>2. p = LastPart(c) /\ p >= 1 /\ ReadNum(c, p) = m /\ ~(p < LastPart(c))
    BY <1>4, <1>l, <1>t, <1>n
  <2>i. i \in {1, 2, 3, 4} /\ Len(t) = 4
    BY <1>i, <2>1
  <2> HIDE DEF a
  <2>3. CASE i = 1
    <3>1. t[i].do = "sendCommand" /\ i # Len(t) /\ i # 3
      BY <2>1, <2>3 DEF Command
    <3> QED BY <2>2, <3>1 DEF ReadFit, ReadWait, ReadUse, ReadNext, Waits
  <2>4. CASE i = 2
    <3>1. /\ t[i].do = "recieveData" /\ t[i - 1].cmd = "ERD" /\ t[i - 1].prefix = m
          /\ t[i + 1].do = "store" /\ i # Len(t) /\ i >= 2 /\ i < Len(t) /\ i # 3
      BY <2>1, <2>4 DEF Command, Receive, Store
    <3> QED BY <2>2, <3>1 DEF ReadFit, ReadWait, ReadUse, ReadNext, Waits
  <2>5. CASE i = 3
    <3>1. /\ t[i].do = "store" /\ t[i].bytes = m /\ t[i - 2].prefix = m
          /\ i # Len(t) /\ i < Len(t)
      BY <2>1, <2>5 DEF Command, Store
    <3> QED BY <2>2, <2>5, <3>1 DEF ReadFit, ReadWait, ReadUse, ReadNext, Waits
  <2>6. CASE i = 4
    <3>1. t[i].do = "return" /\ i # 3
      BY <2>1, <2>6 DEF Return
    <3> QED BY <2>2, <2>6, <3>1 DEF ReadFit, ReadWait, ReadUse, ReadNext, Waits
  <2> QED BY <2>i, <2>3, <2>4, <2>5, <2>6
<1> QED BY <1>2, <1>3, <1>4

LEMMA ReaderFits ==
  Base /\ Running =>
    /\ current.op = "readEPCQ" => ReadFit(current, part, Here, at)
    /\ current.op = "getCompileTime" =>
         /\ at \in {1, 2} /\ Now.do \in {"sendCommand", "recieveData", "return"}
         /\ Waits(Now) => Here[at - 1].cmd = "GCT"
<1> SUFFICES ASSUME Base, Running
             PROVE  /\ current.op = "readEPCQ" => ReadFit(current, part, Here, at)
                    /\ current.op = "getCompileTime" =>
                         /\ at \in {1, 2} /\ Now.do \in {"sendCommand", "recieveData", "return"}
                         /\ Waits(Now) => Here[at - 1].cmd = "GCT"
  OBVIOUS
<1>1. IsCall(current) /\ part \in 0 .. LastPart(current) /\ at \in 1 .. Len(Here) /\ Now = Here[at]
  BY NowFacts
<1>2. current.op = "readEPCQ" => ReadFit(current, part, Here, at)
  BY <1>1, ReadFits DEF Here
<1>3. CASE current.op = "getCompileTime"
  <2>1. part \in Nat
    BY DEF Base, CallTypeOK
  <2>2. /\ part = 0 => Here = << Command("GCT", 0, 0), Receive(COMMAND_PORT) >>
        /\ part # 0 => Here = << Return("ok") >>
    BY <1>3, <2>1, TimeRow DEF Here
  <2>3. CASE part = 0
    <3>1. /\ Len(Here) = 2 /\ Here[1].do = "sendCommand" /\ Here[1].cmd = "GCT"
          /\ Here[2].do = "recieveData"
      BY <2>2, <2>3 DEF Command, Receive
    <3>2. at \in {1, 2}
      BY <1>1, <3>1
    <3> QED BY <1>1, <1>3, <3>1, <3>2 DEF Waits
  <2>4. CASE part # 0
    <3>1. Len(Here) = 1 /\ Here[1].do = "return"
      BY <2>2, <2>4 DEF Return
    <3>2. at = 1
      BY <1>1, <3>1
    <3> QED BY <1>1, <1>3, <3>1, <3>2 DEF Waits
  <2> QED BY <2>3, <2>4
<1> QED BY <1>2, <1>3

-----------------------------------------------------------------------------
(***************************************************************************)
(* No command meets a busy board                                           *)
(***************************************************************************)

\* After the erase of writeEPCQ the board would not start another one; it does
\* not have to: until the first page has been read back no erase is sent.
AfterErase ==
  last_cmd = "ESE" =>
    /\ Running /\ current.op = "writeEPCQ"
    /\ \/ part = 0 /\ at >= 6 /\ job = Idle /\ toBoard = << >>
       \/ part = 1 /\ at <= 7
Carried == ~EarlyDone => ~refused /\ AfterErase

\* What was done before stays done.
LEMMA EarlyStays ==
  ASSUME Base, [Next]_flashVars, ~EarlyDone'
  PROVE  ~EarlyDone /\ ~Kill /\ (Running => current.op # "writeFirmware")
<1>1. ~Kill
  BY DEF Kill, EarlyDone
<1>2. calls' = calls \/ \E call : calls' = Append(calls, call)
  BY DEF Next, Call, ServerStep, sendCommand, sendData, OpenSocket, recieveData, waitForDone, comparePage,
         storePage, return, Kill, BoardStep, BoardReceive, BoardFinish, BoardGivesUp, Deliver,
         LoseToBoard, LoseFromBoard, serverVars, flashVars
<1>3. killed => killed'
  BY DEF Next, Call, ServerStep, sendCommand, sendData, OpenSocket, recieveData, waitForDone, comparePage,
         storePage, return, Kill, BoardStep, BoardReceive, BoardFinish, BoardGivesUp, Deliver,
         LoseToBoard, LoseFromBoard, serverVars, flashVars, whatVars
<1>4. ~EarlyDone
  <2>1. calls \in Seq(AllCalls)
    BY DEF Base, CallTypeOK
  <2>2. ASSUME NEW i \in 1 .. Len(calls), calls[i].op = "writeFirmware" PROVE EarlyDone'
    <3>1. \A call : Append(calls, call)[i] = calls[i] /\ Len(Append(calls, call)) = Len(calls) + 1
      BY <2>1
    <3>2. calls'[i] = calls[i] /\ Len(calls') \in {Len(calls), Len(calls) + 1}
      BY <1>2, <3>1
    <3>3. i \in 1 .. Len(calls')
      BY <2>1, <3>2
    <3>4. calls'[i].op = "writeFirmware"
      BY <2>2, <3>2
    <3> QED BY <3>3, <3>4 DEF EarlyDone
  <2>3. killed => EarlyDone'
    BY <1>3 DEF EarlyDone
  <2> QED BY <2>2, <2>3 DEF EarlyDone
<1>5. Running => current.op # "writeFirmware"
  BY <1>4 DEF EarlyDone, Base, PcOK, CallTypeOK, current
<1> QED BY <1>1, <1>4, <1>5

\* Where a call waits for an erase, and where a part of writeEPCQ ends.
LEMMA EraseWaits ==
  ASSUME Base, Running, current.op # "writeFirmware"
  PROVE  /\ (Waits(Now) /\ Here[at - 1].cmd = "ESE") =>
              current.op = "writeEPCQ" /\ part = 0 /\ at = 6
         /\ (current.op = "writeEPCQ" /\ part = 0 /\ at >= 6) =>
              /\ at = 6 /\ Len(Here) = 6 /\ Now.do = "waitForDone" /\ LastPart(current) # 0
         /\ (current.op = "writeEPCQ" /\ part = 1) =>
              /\ Len(Here) = 8 /\ Here[7].do = "recieveData" /\ Here[6].cmd = "ERD"
              /\ at <= 7 => Now.do \notin {"compare", "return"}
<1>1. /\ IsCall(current) /\ part \in 0 .. LastPart(current) /\ at \in 1 .. Len(Here) /\ Now = Here[at]
      /\ LastPart(current) \in Nat /\ Len(Here) \in Nat
  BY NowFacts
<1>2. current.op \in {"writeEPCQ", "readEPCQ", "getCompileTime"}
  BY <1>1 DEF IsCall
<1>3. (Waits(Now) /\ Here[at - 1].cmd = "ESE") => current.op = "writeEPCQ" /\ part = 0 /\ at = 6
  <2> SUFFICES ASSUME Waits(Now), Here[at - 1].cmd = "ESE"
               PROVE  current.op = "writeEPCQ" /\ part = 0 /\ at = 6
    OBVIOUS
  <2>1. at >= 2
    BY DoingFacts
  <2>2. current.op = "writeEPCQ"
    <3>1. current.op # "getCompileTime"
      BY ReaderFits
    <3>2. current.op # "readEPCQ"
      BY <1>1, <2>1, ReaderFits DEF ReadFit, ReadWait
    <3> QED BY <1>2, <3>1, <3>2
  <2>3. WriteWait(current, part, Here, at)
    BY <2>2, WriteFits DEF WriteFit, WritesFlash
  <2> QED BY <1>1, <2>1, <2>2, <2>3 DEF WriteWait
<1>4. CASE current.op = "writeEPCQ"
  <2>1. part \in Nat /\ EpcqPages(current.data) \in Nat \ {0}
    <3>1. 1 \in Nat \ {0}
      OBVIOUS
    <3> QED BY <1>1, <1>4, <3>1, PageWordsOK
  <2>2. LastPart(current) = IF Len(current.data) > SectorWords THEN 0 ELSE EpcqPages(current.data) + 1
    BY <1>4 DEF LastPart
  <2>3. ASSUME part = 0, at >= 6
        PROVE  at = 6 /\ Len(Here) = 6 /\ Now.do = "waitForDone" /\ LastPart(current) # 0
    <3>1. ~(Len(current.data) > SectorWords)
      <4>1. Len(current.data) > SectorWords => Len(Here) = 1
        BY <1>4, <2>1, EpcqRow DEF Here
      <4> QED BY <1>1, <2>3, <4>1
    <3>2. /\ Len(Here) = (IF current.erase THEN 6 ELSE 4)
          /\ current.erase => Here[6] = WaitForDone
      BY <1>4, <2>1, <2>3, <3>1, EpcqRow DEF Here
    <3>3. at = 6 /\ Len(Here) = 6
      BY <1>1, <2>3, <3>2
    <3>4. Now.do = "waitForDone"
      BY <1>1, <3>2, <3>3 DEF WaitForDone
    <3> QED BY <2>1, <2>2, <3>1, <3>3, <3>4
  <2>4. ASSUME part = 1
        PROVE  /\ Len(Here) = 8 /\ Here[7].do = "recieveData" /\ Here[6].cmd = "ERD"
               /\ at <= 7 => Now.do \notin {"compare", "return"}
    <3>1. ~(Len(current.data) > SectorWords) /\ part # 0 /\ part <= EpcqPages(current.data)
      BY <1>1, <2>1, <2>2, <2>4
    <3>2. Len(Here) = 8 /\ IsPage(Here, 0, PageAt(current, part), EpcqPage(current.data, part))
      BY <1>4, <2>1, <3>1, EpcqRow DEF Here
    <3>3. /\ Here[1].do = "sendCommand" /\ Here[2].do = "waitForDone" /\ Here[3].do = "sendData"
          /\ Here[4].do = "sendCommand" /\ Here[5].do = "waitForDone" /\ Here[6].do = "sendCommand"
          /\ Here[7].do = "recieveData" /\ Here[6].cmd = "ERD"
      BY <3>2 DEF IsPage, Command, WaitForDone, SendPage, Receive
    <3>4. at <= 7 => at \in 1 .. 7
      BY <1>1
    <3>5. at \in 1 .. 7 => Here[at].do \notin {"compare", "return"}
      BY <3>3
    <3> QED BY <1>1, <3>2, <3>3, <3>4, <3>5
  <2> QED BY <1>3, <1>4, <2>3, <2>4
<1>5. CASE current.op # "writeEPCQ"
  BY <1>3, <1>5
<1> QED BY <1>4, <1>5

\* The server's own steps.
LEMMA AfterEraseServer ==
  ASSUME Base, Line, ServerStep, AfterErase, Running => current.op # "writeFirmware"
  PROVE  AfterErase' /\ UNCHANGED refused
<1>1. Running /\ UNCHANGED <<epcqVars, calls, refused>>
  BY DEF ServerStep, sendCommand, sendData, OpenSocket, recieveData, waitForDone, comparePage,
         storePage, return, Doing, whatVars
<1>2. current' = current /\ UNCHANGED <<job, last_cmd>>
  BY <1>1 DEF current, epcqVars
<1> SUFFICES ASSUME last_cmd = "ESE"
             PROVE  /\ Running' /\ current.op = "writeEPCQ"
                    /\ \/ part' = 0 /\ at' >= 6 /\ job = Idle /\ toBoard' = << >>
                       \/ part' = 1 /\ at' <= 7
  BY <1>1, <1>2 DEF AfterErase
<1>3. /\ current.op = "writeEPCQ"
      /\ \/ part = 0 /\ at >= 6 /\ job = Idle /\ toBoard = << >>
         \/ part = 1 /\ at <= 7
  BY <1>1 DEF AfterErase
<1>4. /\ (part = 0 /\ at >= 6) => at = 6 /\ Len(Here) = 6 /\ Now.do = "waitForDone"
      /\ part = 1 =>
           /\ Len(Here) = 8 /\ Here[7].do = "recieveData" /\ Here[6].cmd = "ERD"
           /\ at <= 7 => Now.do \notin {"compare", "return"}
  BY <1>1, <1>3, EraseWaits
<1>5. at \in 1 .. Len(Here) /\ part \in Nat /\ Now = Here[at]
  BY <1>1, NowFacts DEF Base, CallTypeOK
<1>6. Now.do \notin {"compare", "return"}
  BY <1>3, <1>4
<1>7. UNCHANGED result /\ Running'
  BY <1>1, <1>6 DEF ServerStep, sendCommand, sendData, OpenSocket, recieveData, waitForDone, comparePage,
         storePage, return, Doing, Running
<1>8. CASE UNCHANGED <<part, at>>
  <2>1. UNCHANGED toBoard \/ (part = 1 /\ at <= 7)
    BY <1>3, <1>4 DEF ServerStep, sendCommand, sendData, OpenSocket, recieveData, waitForDone, comparePage,
         storePage, return, Doing, netVars
  <2> QED BY <1>3, <1>7, <1>8, <2>1
<1>9. CASE ~(UNCHANGED <<part, at>>)
  <2>1. Advance
    <3>1. CASE sendCommand
      BY <3>1 DEF sendCommand
    <3>2. CASE sendData
      BY <3>2 DEF sendData
    <3>3. CASE OpenSocket
      BY <1>9, <3>3 DEF OpenSocket
    <3>4. CASE recieveData
      BY <3>4 DEF recieveData
    <3>5. CASE waitForDone
      BY <1>9, <3>5 DEF waitForDone
    <3>6. CASE comparePage \/ return
      BY <1>6, <3>6 DEF comparePage, return, Doing
    <3>7. CASE storePage
      BY <3>7 DEF storePage
    <3> QED BY <3>1, <3>2, <3>3, <3>4, <3>5, <3>6, <3>7 DEF ServerStep
  <2>p. \/ at < Len(Here) /\ at' = at + 1 /\ part' = part
        \/ at = Len(Here) /\ at' = 1 /\ part' = part + 1
    BY <1>1, <1>6, <1>7, <2>1, AdvancePc
  <2>2. CASE part = 0 /\ at >= 6
    <3>1. at' = 1 /\ part' = 1
      <4>1. ~(at < Len(Here)) /\ part = 0
        <5>1. at = 6 /\ Len(Here) = 6
          BY <1>4, <2>2
        <5> QED BY <2>2, <5>1
      <4>2. at' = 1 /\ part' = part + 1
        BY <2>p, <4>1
      <4> QED BY <4>1, <4>2
    <3> QED BY <1>3, <1>7, <3>1
  <2>3. CASE part = 1 /\ at <= 7
    <3>1. at' = at + 1 /\ part' = 1
      <4>1. at < Len(Here) /\ ~(at = Len(Here)) /\ part = 1
        <5>1. Len(Here) = 8 /\ part = 1 /\ at <= 7
          BY <1>4, <2>3
        <5> QED BY <1>5, <5>1
      <4> QED BY <2>p, <4>1
    <3>2. at # 7
      <4> SUFFICES ASSUME at = 7 PROVE FALSE
        OBVIOUS
      <4>1. Now.do = "recieveData" /\ Here[at - 1].cmd = "ERD"
        BY <1>4, <1>5, <2>3
      <4>2. recieveData
        BY <1>9, <4>1 DEF ServerStep, sendCommand, sendData, OpenSocket, recieveData, waitForDone, comparePage,
         storePage, return, Doing
      <4>3. ~Loud
        BY <1>3 DEF Loud
      <4>4. last_cmd = "ERD"
        BY <4>1, <4>2, <4>3, LineReceive
      <4> QED BY <4>4
    <3> QED BY <1>3, <1>5, <1>7, <2>3, <3>1, <3>2
  <2> QED BY <1>3, <2>2, <2>3
<1> QED BY <1>8, <1>9

LEMMA CarriedStep ==
  ASSUME Base, ~killed => Line, Carried, [Next]_flashVars
  PROVE  Carried'
<1> SUFFICES ASSUME ~EarlyDone' PROVE ~refused' /\ AfterErase'
  BY DEF Carried
<1>1. ~EarlyDone /\ ~Kill /\ (Running => current.op # "writeFirmware")
  BY EarlyStays
<1>2. Line /\ ~refused /\ AfterErase /\ (Running => ~Loud)
  BY <1>1 DEF Carried, EarlyDone, Loud
<1>3. CASE UNCHANGED flashVars
  <2>1. UNCHANGED <<part, at, result, calls, last_cmd, job, toBoard, refused>>
    BY <1>3 DEF flashVars, epcqVars, serverVars, netVars, whatVars
  <2> QED BY <1>2, <2>1 DEF AfterErase, Running, current
<1>4. ASSUME Len(calls) < Len(Calls), NEW call \in Calls[Len(calls) + 1], Call(call)
      PROVE  ~refused' /\ AfterErase'
  <2>1. ~Running /\ UNCHANGED last_cmd /\ ~refused'
    BY <1>4 DEF Call, epcqVars
  <2> QED BY <1>2, <2>1 DEF AfterErase
<1>5. CASE ServerStep
  BY <1>1, <1>2, <1>5, AfterEraseServer
<1>6. CASE BoardReceive
  <2>1. Running /\ job = Idle /\ UNCHANGED last_cmd
    BY <1>2, <1>6, LineBoardReceive
  <2>2. ~refused' /\ UNCHANGED <<part, at, result, calls>> /\ toBoard # << >>
    BY <1>2, <1>6, <2>1 DEF BoardReceive, serverVars
  <2> QED BY <1>2, <2>1, <2>2 DEF AfterErase, Running, current
<1>7. CASE BoardFinish
  <2>1. /\ Running /\ Waits(Now) /\ last_cmd' = Here[at - 1].cmd /\ job' = Idle /\ toBoard = << >>
    BY <1>2, <1>7, LineBoardFinish
  <2>2. ~refused' /\ UNCHANGED <<part, at, result, calls, toBoard>>
    BY <1>2, <1>7 DEF BoardFinish, serverVars, whatVars
  <2>3. Here[at - 1].cmd = "ESE" => current.op = "writeEPCQ" /\ part = 0 /\ at = 6
    BY <1>1, <2>1, EraseWaits
  <2> QED BY <2>1, <2>2, <2>3 DEF AfterErase, Running, current
<1>8. CASE BoardGivesUp
  <2>1. Running /\ Waits(Now) /\ Here[at - 1].cmd = "ESE" /\ last_cmd = "ESE" /\ job.cmd = "ESE"
    BY <1>2, <1>8, LineRest
  <2>2. part = 0 /\ at = 6
    BY <1>1, <2>1, EraseWaits
  <2>3. job = Idle
    BY <1>2, <2>1, <2>2 DEF AfterErase
  <2> QED BY <2>1, <2>3 DEF Idle
<1>9. CASE Deliver \/ LoseToBoard \/ LoseFromBoard
  <2>1. UNCHANGED <<part, at, result, calls, last_cmd, job, refused>>
    BY <1>9 DEF Deliver, LoseToBoard, LoseFromBoard, epcqVars, serverVars
  <2>2. toBoard = << >> => toBoard' = << >>
    BY <1>9 DEF Deliver, LoseToBoard, LoseFromBoard
  <2> QED BY <1>2, <2>1, <2>2 DEF AfterErase, Running, current
<1> QED BY <1>1, <1>3, <1>4, <1>5, <1>6, <1>7, <1>8, <1>9 DEF Next, BoardStep

-----------------------------------------------------------------------------
(***************************************************************************)
(* What is in the flash and in the file                                    *)
(***************************************************************************)
Wanted(c, i) ==
  IF c.op = "writeEPCQ" THEN (IF i > Len(c.data) THEN Blank ELSE c.data[i])
  ELSE c.data[IF i > Len(c.data) THEN Len(c.data) ELSE i]
UpTo(n) == \A i \in 1 .. n : flash[current.start + i - 1] = Wanted(current, i)

\* A page lies behind the ones before it and within the flash.
LEMMA PagePlace ==
  ASSUME NEW c, IsCall(c), WritesFlash(c), NEW p \in Nat, p >= 1, p <= NPages(c)
  PROVE  /\ (p - 1) * PageWords \in Nat /\ p * PageWords = (p - 1) * PageWords + PageWords
         /\ Dest(c, p) = c.start + (p - 1) * PageWords /\ c.start \in Nat
         /\ c.start + (p - 1) * PageWords + PageWords <= FlashWords
         /\ (p - 1) * PageWords + PageWords <= NPages(c) * PageWords
         /\ NPages(c) * PageWords \in Nat
<1>1. NPages(c) \in Nat /\ c.start \in Nat /\ c.start + NPages(c) * PageWords <= FlashWords
  <2>1. 1 \in Nat \ {0}
    OBVIOUS
  <2>2. NPages(c) \in Nat /\ c.start \in Nat
    BY <2>1, PageWordsOK DEF WritesFlash, NPages
  <2> QED BY <2>2 DEF IsCall, WritesFlash, NPages
<1>2. PageWords \in Nat /\ FlashWords \in Nat
  BY FlashAssumption
<1>3. \A a, b, n \in Nat : a <= b => (a * n <= b * n /\ a * n \in Nat /\ b * n \in Nat)
  <2> SUFFICES ASSUME NEW a \in Nat, NEW b \in Nat, NEW n \in Nat, a <= b
               PROVE  a * n <= b * n /\ a * n \in Nat /\ b * n \in Nat
    OBVIOUS
  <2>1. PICK d \in Nat : b = a + d
    <3>1. b = a + (b - a) /\ b - a \in Nat
      OBVIOUS
    <3> QED BY <3>1
  <2>2. b * n = a * n + d * n /\ a * n \in Nat /\ d * n \in Nat
    BY <2>1
  <2> DEFINE x == a * n
             y == d * n
  <2> HIDE DEF x, y
  <2>3. b * n = x + y /\ x \in Nat /\ y \in Nat /\ a * n = x
    BY <2>2 DEF x, y
  <2> QED BY <2>3
<1>4. PICK q \in Nat : p = q + 1
  <2>1. p = (p - 1) + 1 /\ p - 1 \in Nat
    OBVIOUS
  <2> QED BY <2>1
<1>5. (q + 1) * PageWords = q * PageWords + PageWords /\ p - 1 = q
  BY <1>2, <1>4
<1>6. p * PageWords <= NPages(c) * PageWords /\ q * PageWords \in Nat /\ NPages(c) * PageWords \in Nat
  BY <1>1, <1>2, <1>3, <1>4
<1> DEFINE x == q * PageWords
           y == NPages(c) * PageWords
<1> HIDE DEF x, y
<1>7. /\ x \in Nat /\ y \in Nat /\ p * PageWords = x + PageWords /\ x + PageWords <= y
      /\ c.start + y <= FlashWords
  BY <1>1, <1>4, <1>5, <1>6 DEF x, y
<1>8. (p - 1) * PageWords = x
  BY <1>5 DEF x
<1>9. Dest(c, p) = c.start + x
  <2>1. p # 0
    OBVIOUS
  <2> QED BY <1>8, <2>1 DEF Dest, PageAt
<1>10. NPages(c) * PageWords = y
  BY DEF y
<1> QED BY <1>1, <1>2, <1>7, <1>8, <1>9, <1>10

LEMMA PageWanted ==
  ASSUME NEW c, IsCall(c), WritesFlash(c), NEW p \in Nat, p >= 1, p <= NPages(c), NEW k \in 1 .. PageWords
  PROVE  PageOf(c, p)[k] = Wanted(c, (p - 1) * PageWords + k)
<1>1. CASE c.op = "writeEPCQ"
  BY <1>1 DEF PageOf, EpcqPage, Wanted
<1>2. CASE c.op # "writeEPCQ"
  BY <1>2 DEF PageOf, FirmwarePage, Wanted
<1> QED BY <1>1, <1>2

\* An erase at a sector's first word, and a program, leave what is before it.
LEMMA EraseBelow ==
  ASSUME BoardTypeOK, NEW d \in Nat, d % SectorWords = 0, flash' = Erased(d)
  PROVE  \A a \in 0 .. FlashWords - 1 : a < d => flash'[a] = flash[a]
<1> SUFFICES ASSUME NEW a \in 0 .. FlashWords - 1, a < d PROVE flash'[a] = flash[a]
  OBVIOUS
<1>1. DOMAIN flash = 0 .. FlashWords - 1 /\ a \in Nat
  BY FlashAssumption DEF BoardTypeOK
<1>2. a \notin SectorOf(d)
  <2> SUFFICES ASSUME a \div SectorWords = d \div SectorWords PROVE FALSE
    BY DEF SectorOf, Sector
  <2> DEFINE x == a \div SectorWords
             y == a % SectorWords
             z == d \div SectorWords
             w == d % SectorWords
  <2>1. SectorWords \in Nat /\ SectorWords > 0
    BY FlashAssumption
  <2>2. /\ a = SectorWords * x + y /\ y \in Nat /\ x \in Nat
        /\ d = SectorWords * z + w /\ w = 0 /\ z \in Nat /\ x = z
    BY <1>1, <2>1
  <2> HIDE DEF x, y, z, w
  <2> DEFINE u == SectorWords * x
  <2>3. u \in Nat
    <3>1. \A p, q \in Nat : p * q \in Nat
      OBVIOUS
    <3> QED BY <2>1, <2>2, <3>1
  <2>4. a = u + y /\ d = u
    <3>1. d = u + 0
      BY <2>2
    <3>2. a = u + y
      BY <2>2
    <3> QED BY <2>3, <3>1, <3>2
  <2> HIDE DEF u
  <2> QED BY <2>2, <2>3, <2>4
<1> QED BY <1>1, <1>2 DEF Erased

LEMMA ProgramBelow ==
  ASSUME BoardTypeOK, NEW d \in Nat, NEW page, flash' = Programmed(d, page)
  PROVE  \A a \in 0 .. FlashWords - 1 : a < d => flash'[a] = flash[a]
<1> SUFFICES ASSUME NEW a \in 0 .. FlashWords - 1, a < d PROVE flash'[a] = flash[a]
  OBVIOUS
<1>1. DOMAIN flash = 0 .. FlashWords - 1 /\ a \in Nat
  BY FlashAssumption DEF BoardTypeOK
<1>2. a - d \notin 0 .. Len(page) - 1
  BY <1>1
<1> QED BY <1>1, <1>2 DEF Programmed

\* Reading on where the last read ended.
LEMMA DataJoined ==
  \A s, t \in Seq(Data) :
    /\ s \o t \in Seq(Data) /\ Len(s \o t) = Len(s) + Len(t)
    /\ \A k \in 1 .. Len(s) : (s \o t)[k] = s[k]
    /\ \A k \in 1 .. Len(t) : (s \o t)[Len(s) + k] = t[k]
  BY Concatenated

LEMMA WordsJoin ==
  ASSUME BoardTypeOK, NEW a \in Nat, NEW m \in Nat, NEW n \in Nat, NEW b \in Nat, b <= n
  PROVE  Words(a, m) \o SubSeq(Words(a + m, n), 1, b) = Words(a, m + b)
<1> DEFINE s == Words(a, m)
           t == Words(a + m, n)
           u == Words(a, m + b)
           v == SubSeq(t, 1, b)
<1>1. /\ s \in Seq(Data) /\ Len(s) = m /\ \A k \in 1 .. m : s[k] = flash[(a + k - 1) % FlashWords]
      /\ t \in Seq(Data) /\ Len(t) = n /\ \A k \in 1 .. n : t[k] = flash[(a + m + k - 1) % FlashWords]
      /\ u \in Seq(Data) /\ Len(u) = m + b /\ \A k \in 1 .. m + b : u[k] = flash[(a + k - 1) % FlashWords]
  <2>1. a + m \in Nat /\ m + b \in Nat
    OBVIOUS
  <2> QED BY <2>1, WordsType
<1> HIDE DEF s, t, u
<1>2. v \in Seq(Data) /\ Len(v) = b /\ \A k \in 1 .. b : v[k] = t[k]
  BY <1>1
<1> HIDE DEF v
<1>3. /\ s \o v \in Seq(Data) /\ Len(s \o v) = m + b
      /\ \A k \in 1 .. m : (s \o v)[k] = s[k]
      /\ \A k \in 1 .. b : (s \o v)[m + k] = v[k]
  <2>1. s \in Seq(Data) /\ v \in Seq(Data) /\ Len(s) = m /\ Len(v) = b
    BY <1>1, <1>2
  <2>2. /\ s \o v \in Seq(Data) /\ Len(s \o v) = Len(s) + Len(v)
        /\ \A k \in 1 .. Len(s) : (s \o v)[k] = s[k]
        /\ \A k \in 1 .. Len(v) : (s \o v)[Len(s) + k] = v[k]
    BY <2>1, DataJoined, Zenon
  <2> QED BY <2>1, <2>2
<1>4. ASSUME NEW k \in 1 .. m + b PROVE (s \o v)[k] = u[k]
  <2>0. k \in Nat /\ k >= 1 /\ k <= m + b
    OBVIOUS
  <2>1. CASE k <= m
    <3>1. (s \o v)[k] = s[k] /\ k \in 1 .. m
      BY <1>3, <2>0, <2>1
    <3> QED BY <1>1, <3>1
  <2>2. CASE ~(k <= m)
    <3>1. PICK j \in 1 .. b : k = m + j
      <4>1. k = m + (k - m) /\ k - m \in 1 .. b
        BY <2>0, <2>2
      <4> QED BY <4>1
    <3>2. (s \o v)[k] = v[j] /\ v[j] = t[j] /\ j \in 1 .. n
      BY <1>2, <1>3, <3>1
    <3>3. a + m + j - 1 = a + k - 1
      BY <3>1
    <3>4. t[j] = flash[(a + k - 1) % FlashWords]
      BY <1>1, <3>2, <3>3
    <3> QED BY <1>1, <3>2, <3>4
  <2> QED BY <2>1, <2>2
<1>5. s \o v = u
  <2>1. \A f, g \in Seq(Data) : (Len(f) = Len(g) /\ \A k \in 1 .. Len(f) : f[k] = g[k]) => f = g
    OBVIOUS
  <2> QED BY <1>1, <1>3, <1>4, <2>1
<1> QED BY <1>5 DEF s, t, u, v

-----------------------------------------------------------------------------
\* The address a call works with, what it has read and written.
AddressIn ==
  Running =>
    /\ WritesFlash(current) /\ KnownW(current, part, at) => epcqio_address = Dest(current, part)
    /\ KnownR(current, part, at) => epcqio_address = PageAt(current, part)
Reads(step) == step.do \in {"compare", "store"}
ReadIn ==
  Running =>
    /\ Reads(Now) => read_page = Contents(epcqio_address, Here[at - 2].prefix)
    /\ current.op # "getCompileTime" /\ ~Reads(Now) => read_page = << >>
StoredWords(c, p, i) ==
  IF p = 0 THEN 0
  ELSE (p - 1) * PageWords
       + (IF i <= 3 THEN 0 ELSE IF p < LastPart(c) THEN PageWords ELSE (c.words % PageWords) \div 4)
StoredIn ==
  Running /\ current.op = "readEPCQ" =>
    outfile = Words(current.start, StoredWords(current, part, at))
PagesIn ==
  Running /\ WritesFlash(current) /\ part >= 1 => UpTo((part - 1) * PageWords)
Finished ==
  result = "ok" =>
    /\ WritesFlash(current) => UpTo(NPages(current) * PageWords)
    /\ current.op = "readEPCQ" =>
         outfile = Words(current.start, StoredWords(current, LastPart(current), 4))
Memory == AddressIn /\ ReadIn /\ StoredIn /\ PagesIn /\ Finished

LEMMA MemoryStays ==
  ASSUME Memory, Stays, UNCHANGED <<flash, epcqio_address, read_page, outfile>>
  PROVE  Memory'
<1>1. /\ current' = current /\ Here' = Here /\ Now' = Now /\ (Running' <=> Running)
      /\ UNCHANGED <<part, at, result>>
  BY StaysFacts DEF Stays
<1>2. /\ \A a, n : Words(a, n)' = Words(a, n)
      /\ \A a, n : Contents(a, n)' = Contents(a, n)
      /\ \A n : UpTo(n)' <=> UpTo(n)
  BY <1>1 DEF Words, Contents, UpTo
<1>3. AddressIn'
  BY <1>1 DEF Memory, AddressIn
<1>4. ReadIn'
  <2>1. Running' => Running /\ ReadIn
    BY <1>1 DEF Memory
  <2> QED BY <1>1, <1>2, <2>1 DEF ReadIn
<1>5. StoredIn'
  BY <1>1, <1>2 DEF Memory, StoredIn
<1>6. PagesIn'
  BY <1>1, <1>2 DEF Memory, PagesIn
<1>7. Finished'
  BY <1>1, <1>2 DEF Memory, Finished
<1> QED BY <1>3, <1>4, <1>5, <1>6, <1>7 DEF Memory

\* What is read is used at once, and only then.
LEMMA ReadsNext ==
  ASSUME Base, Running, Now.do # "return", Advance, UNCHANGED <<result, calls>>
  PROVE  /\ Reads(Now)' => Now.do = "recieveData"
         /\ (Now.do = "recieveData" /\ current.op # "getCompileTime") =>
              /\ Reads(Now)' /\ at' = at + 1 /\ Here' = Here /\ at >= 2
              /\ Here[at - 1].cmd = "ERD" /\ current' = current
<1>1. /\ \/ at < Len(Here) /\ at' = at + 1 /\ part' = part /\ Here' = Here
         \/ at = Len(Here) /\ at' = 1 /\ part' = part + 1
            /\ PartOK(current, part', Here') /\ part' <= LastPart(current)
      /\ current' = current /\ part' \in Nat /\ at' \in Nat
  BY AdvancePc
<1>2. /\ at \in 1 .. Len(Here) /\ Len(Here) \in Nat /\ part \in Nat /\ Now = Here[at]
      /\ PartOK(current, part, Here) /\ IsCall(current)
  BY NowFacts
<1>3. Now' = Here'[at']
  BY DEF Now, Here
<1>4. Reads(Now)' => Now.do = "recieveData"
  <2>1. CASE at < Len(Here) /\ at' = at + 1 /\ part' = part /\ Here' = Here
    <3>1. StepOK(current, part, Here, at + 1) /\ at + 1 - 1 = at
      BY <1>2, <2>1 DEF PartOK
    <3>2. Here[at + 1].do \in {"compare", "store"} => Uses(Here, at + 1)
      <4>1. \A cmd : WaitOf(cmd).do \notin {"compare", "store"}
        BY DEF WaitOf, WaitForDone, Receive
      <4> QED BY <3>1, <4>1 DEF StepOK, Sends, Clears, Awaits, Loads, Ended, IsCommand
    <3>3. Uses(Here, at + 1) => Here[at].do = "recieveData"
      <4> SUFFICES ASSUME Uses(Here, at + 1) PROVE Here[at].do = "recieveData"
        OBVIOUS
      <4>1. \A s, i, j : (Uses(s, i) /\ j = i - 1) => s[j].do = "recieveData"
        BY DEF Uses, Receive
      <4> DEFINE k == at + 1
      <4>2. at = k - 1
        BY <1>2
      <4>3. Uses(Here, k)
        OBVIOUS
      <4> HIDE DEF k
      <4> QED BY <4>1, <4>2, <4>3
    <3>4. Now' = Here[at + 1]
      BY <1>3, <2>1
    <3>5. Reads(Now)' => Here[at + 1].do \in {"compare", "store"}
      BY <3>4 DEF Reads
    <3> QED BY <1>2, <3>2, <3>3, <3>5
  <2>2. CASE at = Len(Here) /\ at' = 1 /\ PartOK(current, part', Here')
    <3>1. Here'[1].do \in {"sendCommand", "return"}
      BY <2>2 DEF PartOK
    <3> QED BY <1>3, <2>2, <3>1 DEF Reads
  <2> QED BY <1>1, <2>1, <2>2
<1>5. ASSUME Now.do = "recieveData", current.op # "getCompileTime"
      PROVE  Here[at - 1].cmd = "ERD" /\ at < Len(Here) /\ Reads(Here[at + 1]) /\ at >= 2
  <2>1. CASE WritesFlash(current)
    <3>1. WriteUse(current, part, Here, at)
      BY <2>1, WriteFits DEF WriteFit
    <3> QED BY <1>2, <1>5, <3>1 DEF WriteUse, Reads
  <2>2. CASE current.op = "readEPCQ"
    <3>1. ReadUse(current, part, Here, at)
      BY <2>2, ReaderFits DEF ReadFit
    <3> QED BY <1>2, <1>5, <3>1 DEF ReadUse, Reads
  <2> QED BY <1>2, <1>5, <2>1, <2>2 DEF IsCall, WritesFlash
<1>6. ASSUME Now.do = "recieveData", current.op # "getCompileTime"
      PROVE  /\ Reads(Now)' /\ at' = at + 1 /\ Here' = Here /\ at >= 2
             /\ Here[at - 1].cmd = "ERD" /\ current' = current
  <2>1. at' = at + 1 /\ Here' = Here
    BY <1>1, <1>2, <1>5, <1>6
  <2> QED BY <1>1, <1>3, <1>5, <1>6, <2>1 DEF Reads
<1> QED BY <1>4, <1>6

\* The address is known when the server goes on.
LEMMA AddressNext ==
  ASSUME Base, Line, AddressIn, Running, Now.do # "return", Advance,
         UNCHANGED <<result, calls, epcqio_address>>, Waits(Now) => Over
  PROVE  AddressIn'
<1>1. /\ \/ at < Len(Here) /\ at' = at + 1 /\ part' = part /\ Here' = Here
         \/ at = Len(Here) /\ at' = 1 /\ part' = part + 1
      /\ current' = current /\ Running
  BY AdvancePc
<1>2. /\ at \in 1 .. Len(Here) /\ Len(Here) \in Nat /\ part \in Nat /\ at \in Nat /\ Now = Here[at]
      /\ part \in 0 .. LastPart(current) /\ LastPart(current) \in Nat
  BY NowFacts DEF Base, CallTypeOK
<1>3. (Waits(Now) /\ ~Loud /\ Here[at - 1].cmd = "ESA") => epcqio_address = Here[at - 1].word
  BY LineReceive DEF Over
<1>4. (Waits(Now) /\ Loud /\ at = 11) => epcqio_address = current.start
  <2> SUFFICES ASSUME Waits(Now), Loud, at = 11 PROVE epcqio_address = current.start
    OBVIOUS
  <2>1. Now.do # "waitForDone"
    BY LoudCases
  <2>2. recieveData
    BY <2>1 DEF Over, waitForDone, Doing
  <2> QED BY <2>2, LineReceive
<1>5. ASSUME WritesFlash(current), KnownW(current, part', at')
      PROVE  epcqio_address = Dest(current, part')
  <2>1. at' = at + 1 /\ part' = part /\ at < Len(Here)
    <3>1. at' # 1 \/ part' = 0
      BY <1>1, <1>5 DEF KnownW, KnownFrom
    <3> QED BY <1>1, <1>2, <3>1
  <2>2. CASE KnownW(current, part, at)
    BY <1>5, <2>1, <2>2 DEF AddressIn
  <2>3. CASE ~KnownW(current, part, at)
    <3>1. WriteFit(current, part, Here, at)
      BY <1>5, WriteFits
    <3>2. at >= 2 /\ Waits(Now) /\ (Here[at - 1].cmd = "ESA" \/ LoudP(current, part, at))
      BY <1>2, <1>5, <2>1, <2>3, <3>1 DEF WriteFit, WriteNext
    <3>3. Loud <=> LoudP(current, part, at)
      BY DEF Loud, LoudP
    <3>4. CASE ~Loud
      <4>1. Here[at - 1].cmd = "ESA"
        BY <3>2, <3>3, <3>4
      <4>2. Here[at - 1].word = Dest(current, part)
        BY <1>2, <3>1, <3>2, <4>1 DEF WriteFit, WriteWait
      <4> QED BY <1>3, <2>1, <3>2, <3>4, <4>1, <4>2
    <3>5. CASE Loud
      <4>1. current.op = "writeFirmware" /\ part = 1 /\ at <= 11
        BY <3>5 DEF Loud
      <4>2. at = 11
        <5>1. at + 1 >= 12
          BY <1>5, <2>1, <4>1 DEF KnownW, KnownFrom
        <5> QED BY <1>2, <4>1, <5>1
      <4>3. Dest(current, part) = current.start
        BY <4>1, LoudSteps DEF Dest
      <4> QED BY <1>4, <2>1, <3>2, <3>5, <4>2, <4>3
    <3> QED BY <3>4, <3>5
  <2> QED BY <2>2, <2>3
<1>6. ASSUME KnownR(current, part', at')
      PROVE  epcqio_address = PageAt(current, part')
  <2>1. current.op = "readEPCQ" /\ part' >= 1 /\ at' <= 4
    BY <1>6 DEF KnownR
  <2>2. ReadFit(current, part, Here, at) /\ ~Loud
    BY <2>1, ReaderFits DEF Loud
  <2>3. CASE at' = at + 1 /\ part' = part
    <3>1. KnownR(current, part, at)
      BY <1>2, <2>1, <2>3 DEF KnownR
    <3> QED BY <2>3, <3>1 DEF AddressIn
  <2>4. CASE at = Len(Here) /\ part' = part + 1
    <3>1. at >= 2 /\ Waits(Now) /\ Here[at - 1].cmd = "ESA"
      BY <1>2, <2>2, <2>4 DEF ReadFit, ReadNext
    <3>2. Here[at - 1].word = PageAt(current, part + 1)
      BY <1>2, <2>2, <3>1 DEF ReadFit, ReadWait
    <3> QED BY <1>3, <2>2, <2>4, <3>1, <3>2
  <2> QED BY <1>1, <2>3, <2>4
<1> QED BY <1>1, <1>5, <1>6 DEF AddressIn

\* The server sends, or a wait is over.
LEMMA MemoryGoesOn ==
  ASSUME Base, Line, Memory, sendCommand \/ sendData \/ Over
  PROVE  Memory'
<1>1. /\ Running /\ Now.do \notin {"return", "compare", "store"} /\ Advance
      /\ UNCHANGED <<epcqVars, result, calls, outfile>>
  <2>1. CASE sendCommand
    BY <2>1 DEF sendCommand, Doing
  <2>2. CASE sendData
    BY <2>2 DEF sendData, Doing
  <2>3. CASE Over
    <3>1. Advance
      BY <2>3, LineReceive DEF Over
    <3> QED BY <2>3, <3>1 DEF Over, recieveData, waitForDone, Doing
  <2> QED BY <2>1, <2>2, <2>3
<1>2. /\ \/ at < Len(Here) /\ at' = at + 1 /\ part' = part /\ Here' = Here
         \/ at = Len(Here) /\ at' = 1 /\ part' = part + 1 /\ part' <= LastPart(current)
      /\ current' = current /\ part' \in Nat /\ at' \in Nat
  BY <1>1, AdvancePc
<1>3. /\ at \in 1 .. Len(Here) /\ Len(Here) \in Nat /\ part \in Nat /\ at \in Nat /\ Now = Here[at]
      /\ part \in 0 .. LastPart(current) /\ LastPart(current) \in Nat /\ IsCall(current)
  BY <1>1, NowFacts DEF Base, CallTypeOK
<1>4. Running' /\ UNCHANGED <<flash, epcqio_address>> /\ result = "running" /\ result' = "running"
  BY <1>1 DEF Running, epcqVars
<1>5. /\ \A a, n : Words(a, n)' = Words(a, n)
      /\ \A a, n : Contents(a, n)' = Contents(a, n)
      /\ \A n : UpTo(n)' <=> UpTo(n)
  BY <1>2, <1>4 DEF Words, Contents, UpTo
<1>6. AddressIn'
  <2>1. Waits(Now) => Over
    BY DEF Over, Waits, sendCommand, sendData, Doing
  <2> QED BY <1>1, <1>4, <2>1, AddressNext DEF Memory
<1>7. ReadIn'
  <2>1. /\ Reads(Now)' => Now.do = "recieveData"
        /\ (Now.do = "recieveData" /\ current.op # "getCompileTime") =>
              /\ Reads(Now)' /\ at' = at + 1 /\ Here' = Here /\ at >= 2
              /\ Here[at - 1].cmd = "ERD" /\ current' = current
    BY <1>1, ReadsNext
  <2>2. ~Reads(Now) /\ (current.op # "getCompileTime" => read_page = << >>)
    BY <1>1 DEF Memory, ReadIn, Reads
  <2>3. CASE Now.do # "recieveData"
    <3>1. UNCHANGED read_page
      BY <2>3 DEF Over, sendCommand, sendData, recieveData, waitForDone, Doing
    <3> QED BY <1>2, <2>1, <2>2, <2>3, <3>1 DEF ReadIn
  <2>4. CASE Now.do = "recieveData" /\ current.op = "getCompileTime"
    <3>1. ~Reads(Now)'
      <4>1. Base'
        BY BaseReceive, BaseSend DEF Over
      <4>2. Now'.do \in {"sendCommand", "recieveData", "return"}
        <5>1. (Base /\ Running => (current.op = "getCompileTime" => Now.do \in {"sendCommand", "recieveData", "return"}))'
          BY ReaderFits, PTL
        <5> QED BY <1>2, <1>4, <2>4, <4>1, <5>1
      <4> QED BY <4>2 DEF Reads
    <3> QED BY <1>2, <2>4, <3>1 DEF ReadIn
  <2>5. CASE Now.do = "recieveData" /\ current.op # "getCompileTime"
    <3>1. recieveData
      BY <2>5 DEF Over, sendCommand, sendData, recieveData, waitForDone, Doing
    <3>2. read_page' = read_page \o recv(open_sockets, Listening)
      BY <3>1 DEF recieveData
    <3>3. recv(open_sockets, Listening) = Contents(epcqio_address, Here[at - 1].prefix)
      <4>1. CASE ~Loud
        BY <2>1, <2>5, <3>1, <4>1, LineReceive
      <4>2. CASE Loud
        <5>1. recv(open_sockets, Listening) = Contents(epcqio_address, PageWords)
          BY <3>1, <4>2, LineReceive
        <5>2. Here[at - 1].prefix = PageWords
          <6>1. WriteUse(current, part, Here, at)
            BY <1>1, <4>2, WriteFits DEF Loud, WritesFlash, WriteFit
          <6> QED BY <1>3, <2>5, <6>1 DEF WriteUse
        <5> QED BY <5>1, <5>2
      <4> QED BY <4>1, <4>2
    <3>4. read_page' = Contents(epcqio_address, Here[at - 1].prefix)
      <4>1. recv(open_sockets, Listening) \in Seq(AnyWord)
        <5>1. Here[at - 1].prefix \in Nat
          BY <1>1, <2>5, DoingFacts DEF Waits, IsCommand
        <5>2. Contents(epcqio_address, Here[at - 1].prefix) \in Seq(Data)
          BY <5>1, WordsType DEF Base, BoardTypeOK
        <5> QED BY <3>3, <5>2 DEF AnyWord
      <4>2. \A w \in Seq(AnyWord) : << >> \o w = w
        OBVIOUS
      <4> QED BY <2>2, <2>5, <3>2, <3>3, <4>1, <4>2
    <3>5. at' - 2 = at - 1
      BY <1>3, <2>1, <2>5
    <3>6. Contents(epcqio_address, Here[at - 2].prefix)' = Contents(epcqio_address, Here[at - 1].prefix)
      BY <1>4, <1>5, <2>1, <2>5, <3>5 DEF Contents, Words
    <3> QED BY <2>1, <2>5, <3>4, <3>6 DEF ReadIn
  <2> QED BY <2>3, <2>4, <2>5
<1>8. StoredIn'
  <2> SUFFICES ASSUME current.op = "readEPCQ"
               PROVE  outfile' = Words(current.start, StoredWords(current, part', at'))
    BY <1>2, <1>5 DEF StoredIn
  <2>1. outfile = Words(current.start, StoredWords(current, part, at))
    BY <1>1 DEF Memory, StoredIn
  <2>2. ReadFit(current, part, Here, at)
    BY <1>1, ReaderFits
  <2>n. PageWords \in Nat
    BY FlashAssumption
  <2>3. StoredWords(current, part', at') = StoredWords(current, part, at)
    <3>1. CASE part = 0 /\ part' = part
      BY <3>1 DEF StoredWords
    <3>2. CASE part # 0 /\ at' = at + 1 /\ part' = part
      <4>1. at # 3
        BY <1>1, <1>3, <2>2, <3>2 DEF ReadFit, ReadUse
      <4>2. (at' <= 3) <=> (at <= 3)
        BY <1>3, <3>2, <4>1
      <4> QED BY <3>2, <4>2 DEF StoredWords
    <3>3. CASE part = 0 /\ at' = 1 /\ part' = part + 1
      <4>1. part' = 1 /\ (1 - 1) * PageWords = 0 /\ 0 + 0 = 0
        BY <3>3, <2>n
      <4>2. StoredWords(current, 1, 1) = 0
        BY <4>1 DEF StoredWords
      <4> QED BY <3>3, <4>1, <4>2 DEF StoredWords
    <3>4. CASE part # 0 /\ at = Len(Here) /\ at' = 1 /\ part' = part + 1
      <4>1. part < LastPart(current) /\ at > 3
        BY <1>1, <1>3, <2>2, <3>4 DEF ReadFit, ReadNext
      <4>2. StoredWords(current, part, at) = (part - 1) * PageWords + PageWords
        BY <1>3, <3>4, <4>1 DEF StoredWords
      <4>3. StoredWords(current, part', at') = (part + 1 - 1) * PageWords + 0
        BY <1>3, <3>4 DEF StoredWords
      <4>4. (part + 1 - 1) * PageWords + 0 = (part - 1) * PageWords + PageWords
        <5>1. PICK q \in Nat : part = q + 1
          <6>1. part = (part - 1) + 1 /\ part - 1 \in Nat
            BY <1>3, <3>4
          <6> QED BY <6>1
        <5>2. (q + 1) * PageWords = q * PageWords + PageWords /\ q * PageWords \in Nat
          BY <2>n
        <5>3. part + 1 - 1 = q + 1 /\ part - 1 = q
          BY <5>1
        <5> DEFINE x == q * PageWords
                   y == (q + 1) * PageWords
        <5>4. (part + 1 - 1) * PageWords = y /\ (part - 1) * PageWords = x
          BY <5>3
        <5>5. y = x + PageWords /\ x \in Nat
          BY <5>2
        <5> HIDE DEF x, y
        <5> QED BY <2>n, <5>4, <5>5
      <4> QED BY <4>2, <4>3, <4>4
    <3> QED BY <1>2, <1>3, <3>1, <3>2, <3>3, <3>4
  <2> QED BY <1>1, <2>1, <2>3
<1>9. PagesIn'
  <2> SUFFICES ASSUME WritesFlash(current), part' >= 1 PROVE UpTo((part' - 1) * PageWords)
    BY <1>2, <1>5 DEF PagesIn
  <2>1. WriteUse(current, part, Here, at)
    BY <1>1, WriteFits DEF WriteFit
  <2>2. CASE part' = part
    BY <1>1, <2>2 DEF Memory, PagesIn
  <2>3. CASE at = Len(Here) /\ part' = part + 1
    <3>1. ~(part >= 1)
      BY <1>1, <1>3, <2>1, <2>3 DEF WriteUse
    <3>2. part' = 1 /\ (1 - 1) * PageWords = 0
      BY <1>3, <2>3, <3>1, FlashAssumption
    <3>3. \A i : i \notin 1 .. 0
      OBVIOUS
    <3> QED BY <3>2, <3>3 DEF UpTo
  <2> QED BY <1>2, <2>2, <2>3
<1>10. Finished'
  BY <1>4 DEF Finished
<1> QED BY <1>6, <1>7, <1>8, <1>9, <1>10 DEF Memory

\* The page that was written is compared with what is in the flash.
LEMMA MemoryCompare ==
  ASSUME Base, Line, Memory, comparePage
  PROVE  Memory'
<1>1. /\ Running /\ Now.do = "compare" /\ current' = current /\ result = "running"
      /\ UNCHANGED <<flash, epcqio_address, outfile, calls>>
  BY DEF comparePage, Doing, Running, epcqVars, current
<1>2. /\ at \in 1 .. Len(Here) /\ Len(Here) \in Nat /\ part \in Nat /\ at \in Nat /\ Now = Here[at]
      /\ IsCall(current)
  BY <1>1, NowFacts DEF Base, CallTypeOK
<1>3. WritesFlash(current) /\ current.op # "readEPCQ"
  <2>1. current.op # "getCompileTime"
    BY <1>1, ReaderFits
  <2>2. current.op # "readEPCQ"
    BY <1>1, <1>2, ReaderFits DEF ReadFit, ReadUse
  <2> QED BY <1>2, <2>1, <2>2 DEF IsCall, WritesFlash
<1>4. /\ at = Len(Here) /\ part >= 1 /\ part <= NPages(current) /\ KnownW(current, part, at)
      /\ Now.page = PageOf(current, part) /\ Here[at - 2].prefix = PageWords
  BY <1>1, <1>2, <1>3, WriteFits DEF WriteFit, WriteUse
<1>5. CASE read_page # Now.page
  <2>1. result' = "mismatch"
    BY <1>5 DEF comparePage
  <2> QED BY <2>1 DEF Memory, AddressIn, ReadIn, StoredIn, PagesIn, Finished, Running
<1>6. CASE read_page = Now.page
  <2>1. Advance /\ read_page' = << >> /\ UNCHANGED result
    BY <1>6 DEF comparePage
  <2>2. AddressIn'
    BY <1>1, <2>1, AddressNext DEF Memory, Waits
  <2>3. ReadIn'
    <3>1. ~Reads(Now)'
      BY <1>1, <2>1, ReadsNext
    <3> QED BY <2>1, <3>1 DEF ReadIn
  <2>4. part' = part + 1
    BY <1>2, <1>4, <2>1 DEF Advance, Here
  <2>5. /\ read_page = Words(Dest(current, part), PageWords)
    <3>1. read_page = Contents(epcqio_address, PageWords)
      BY <1>1, <1>4 DEF Memory, ReadIn, Reads
    <3>2. epcqio_address = Dest(current, part)
      BY <1>1, <1>3, <1>4 DEF Memory, AddressIn
    <3> QED BY <3>1, <3>2, FlashAssumption DEF Contents
  <2> DEFINE n == (part - 1) * PageWords
             m == part * PageWords
  <2>6. /\ n \in Nat /\ m = n + PageWords /\ Dest(current, part) = current.start + n
        /\ current.start \in Nat /\ current.start + n + PageWords <= FlashWords
    BY <1>2, <1>3, <1>4, PagePlace
  <2>w. \A k \in 1 .. PageWords : PageOf(current, part)[k] = Wanted(current, n + k)
    BY <1>2, <1>3, <1>4, PageWanted
  <2>u. UpTo(n)
    BY <1>1, <1>3, <1>4 DEF Memory, PagesIn
  <2>p. (part + 1 - 1) * PageWords = m
    <3>1. part + 1 - 1 = part
      BY <1>2
    <3> QED BY <3>1
  <2> HIDE DEF n, m
  <2>f. PageWords \in Nat /\ FlashWords \in Nat /\ FlashWords > 0
    BY FlashAssumption
  <2>7. UpTo(m)
    <3> SUFFICES ASSUME NEW i \in 1 .. m PROVE flash[current.start + i - 1] = Wanted(current, i)
      BY DEF UpTo
    <3>1. CASE i <= n
      <4>1. i \in 1 .. n
        BY <2>6, <2>f, <3>1
      <4> QED BY <2>u, <4>1 DEF UpTo
    <3>2. CASE ~(i <= n)
      <4>1. PICK k \in 1 .. PageWords : i = n + k
        <5>1. i = n + (i - n) /\ i - n \in 1 .. PageWords
          BY <2>6, <2>f, <3>2
        <5> QED BY <5>1
      <4> DEFINE a == current.start + n + k - 1
      <4>2. a \in 0 .. FlashWords - 1 /\ current.start + i - 1 = a /\ Dest(current, part) + k - 1 = a
        BY <2>6, <2>f, <4>1
      <4>3. read_page[k] = flash[a % FlashWords]
        BY <2>5, <4>2 DEF Words
      <4>4. a % FlashWords = a
        <5> HIDE DEF a
        <5> QED BY <2>f, <4>2
      <4>5. read_page[k] = Wanted(current, n + k)
        BY <1>4, <1>6, <2>w
      <4> QED BY <4>1, <4>2, <4>3, <4>4, <4>5
    <3> QED BY <3>1, <3>2
  <2>8. PagesIn'
    <3>1. UpTo(m)' <=> UpTo(m)'
      OBVIOUS
    <3>2. \A k : flash'[current'.start + k - 1] = flash[current.start + k - 1]
                 /\ Wanted(current', k) = Wanted(current, k)
      BY <1>1
    <3>3. \A k \in 1 .. (part' - 1) * PageWords : flash[current.start + k - 1] = Wanted(current, k)
      <4>1. (part' - 1) * PageWords = m
        <5>1. part' - 1 = part + 1 - 1
          BY <1>2, <2>4
        <5>2. \A x, y : x = y => x * PageWords = y * PageWords
          BY Zenon
        <5>3. (part' - 1) * PageWords = (part + 1 - 1) * PageWords
          BY <5>1, <5>2, Zenon
        <5> QED BY <2>p, <5>3, Zenon
      <4> QED BY <2>7, <4>1 DEF UpTo
    <3>4. \A k \in 1 .. (part' - 1) * PageWords : flash'[current'.start + k - 1] = Wanted(current', k)
      BY <3>2, <3>3
    <3> QED BY <3>4 DEF PagesIn, UpTo
  <2>9. StoredIn' /\ Finished'
    BY <1>1, <1>3, <2>1 DEF StoredIn, Finished, Running
  <2> QED BY <2>2, <2>3, <2>8, <2>9 DEF Memory
<1> QED BY <1>5, <1>6

\* What was read goes to the file.
LEMMA MemoryStore ==
  ASSUME Base, Line, Memory, storePage
  PROVE  Memory'
<1>1. /\ Running /\ Now.do = "store" /\ current' = current /\ result = "running"
      /\ UNCHANGED <<flash, epcqio_address, result, calls>> /\ Advance
      /\ outfile' = outfile \o SubSeq(read_page, 1, Now.bytes \div 4) /\ read_page' = << >>
  BY DEF storePage, Doing, Running, epcqVars, current
<1>2. /\ at \in 1 .. Len(Here) /\ Len(Here) \in Nat /\ part \in Nat /\ at \in Nat /\ Now = Here[at]
      /\ IsCall(current)
  BY <1>1, NowFacts DEF Base, CallTypeOK
<1>3. current.op = "readEPCQ" /\ ~WritesFlash(current)
  <2>1. current.op # "getCompileTime"
    BY <1>1, ReaderFits
  <2>2. ~WritesFlash(current)
    BY <1>1, <1>2, WriteFits DEF WriteFit, WriteUse
  <2> QED BY <1>2, <2>1, <2>2 DEF IsCall, WritesFlash
<1>4. /\ at = 3 /\ part >= 1 /\ at < Len(Here) /\ Here[at - 2].prefix = ReadNum(current, part)
      /\ Now.bytes = IF part < LastPart(current) THEN 4 * PageWords ELSE ReadNum(current, part)
  BY <1>1, <1>2, <1>3, ReaderFits DEF ReadFit, ReadUse
<1>5. AddressIn'
  BY <1>1, AddressNext DEF Memory, Waits
<1>6. ReadIn'
  <2>1. ~Reads(Now)'
    BY <1>1, ReadsNext
  <2> QED BY <1>1, <2>1 DEF ReadIn
<1>7. at' = 4 /\ part' = part
  BY <1>1, <1>2, <1>4 DEF Advance, Here
<1>8. PagesIn' /\ Finished'
  BY <1>1, <1>3 DEF PagesIn, Finished
<1>9. outfile' = Words(current.start, StoredWords(current, part, 4))
  <2> DEFINE left == current.words % PageWords
             m == (part - 1) * PageWords
             b == IF part < LastPart(current) THEN PageWords ELSE left \div 4
             z == ReadNum(current, part)
             n == IF z = 0 THEN RdLimit ELSE z
  <2>1. left \in Nat /\ PageWords \in Nat /\ PageWords > 0 /\ RdLimit \in Nat /\ current.start \in Nat
    <3>1. 1 \in Nat \ {0}
      OBVIOUS
    <3> QED BY <1>2, <1>3, <3>1, PageWordsOK, FlashAssumption
  <2>2. m \in Nat
    <3>1. \A p, q \in Nat : p * q \in Nat
      OBVIOUS
    <3>2. part - 1 \in Nat
      BY <1>2, <1>4
    <3> QED BY <2>1, <3>1, <3>2
  <2>3. z = IF part < LastPart(current) THEN PageWords ELSE left
    BY DEF ReadNum
  <2>4. Now.bytes \div 4 = b
    <3>1. (4 * PageWords) \div 4 = PageWords
      BY <2>1
    <3> QED BY <1>4, <2>3, <3>1
  <2>5. outfile = Words(current.start, m)
    <3>1. StoredWords(current, part, at) = m + 0
      BY <1>4 DEF StoredWords
    <3>2. outfile = Words(current.start, StoredWords(current, part, at))
      BY <1>1, <1>3 DEF Memory, StoredIn
    <3> QED BY <2>2, <3>1, <3>2
  <2>6. StoredWords(current, part, 4) = m + b
    BY <1>4, <1>2 DEF StoredWords
  <2>7. read_page = Words(current.start + m, n)
    <3>1. read_page = Contents(epcqio_address, z)
      BY <1>1, <1>4 DEF Memory, ReadIn, Reads
    <3>2. KnownR(current, part, at)
      BY <1>3, <1>4 DEF KnownR
    <3>3. epcqio_address = current.start + m
      BY <1>1, <3>2 DEF Memory, AddressIn, PageAt
    <3> QED BY <3>1, <3>3 DEF Contents
  <2>8. n \in Nat /\ b \in Nat /\ b <= n
    <3>1. left \div 4 \in Nat /\ left \div 4 <= left
      <4> HIDE DEF left
      <4> QED BY <2>1
    <3> DEFINE d == left \div 4
    <3>2. d \in Nat /\ d <= left /\ b = IF part < LastPart(current) THEN PageWords ELSE d
      BY <3>1
    <3>3. n = (IF z = 0 THEN RdLimit ELSE z) /\ z = (IF part < LastPart(current) THEN PageWords ELSE left)
      BY <2>3
    <3> HIDE DEF d, left, b, z, n
    <3>4. CASE part < LastPart(current)
      <4>1. z = PageWords /\ b = PageWords
        BY <3>2, <3>3, <3>4
      <4>2. n = PageWords
        BY <2>1, <3>3, <4>1
      <4> QED BY <2>1, <4>1, <4>2
    <3>5. CASE ~(part < LastPart(current))
      <4>1. z = left /\ b = d
        BY <3>2, <3>3, <3>5
      <4>2. n \in Nat /\ (left = 0 => n = RdLimit) /\ (left # 0 => n = left)
        BY <2>1, <3>3, <4>1
      <4>3. d \in Nat /\ d <= left
        BY <3>2
      <4>4. left = 0 => d = 0
        BY <2>1, <4>3
      <4> QED BY <2>1, <4>1, <4>2, <4>3, <4>4
    <3> QED BY <3>4, <3>5
  <2> HIDE DEF left, m, b, z, n
  <2>9. Words(current.start, m) \o SubSeq(Words(current.start + m, n), 1, b) = Words(current.start, m + b)
    <3>1. \A a, h, k \in Nat : \A i \in 0 .. k : Words(a, h) \o SubSeq(Words(a + h, k), 1, i) = Words(a, h + i)
      <4> SUFFICES ASSUME NEW a \in Nat, NEW h \in Nat, NEW k \in Nat, NEW i \in 0 .. k
                   PROVE  Words(a, h) \o SubSeq(Words(a + h, k), 1, i) = Words(a, h + i)
        OBVIOUS
      <4>1. i \in Nat /\ i <= k /\ BoardTypeOK
        BY DEF Base
      <4> QED BY <4>1, WordsJoin
    <3>2. current.start \in Nat /\ m \in Nat /\ n \in Nat /\ b \in 0 .. n
      BY <2>1, <2>2, <2>8
    <3> QED BY <3>1, <3>2, Zenon
  <2> QED BY <1>1, <2>4, <2>5, <2>6, <2>7, <2>9
<1>10. StoredIn'
  <2>1. Words(current.start, StoredWords(current, part, 4))' = Words(current.start, StoredWords(current, part, 4))
    BY <1>1, <1>7 DEF Words
  <2> QED BY <1>1, <1>7, <1>9, <2>1 DEF StoredIn
<1> QED BY <1>5, <1>6, <1>8, <1>10 DEF Memory

\* A call returns.
LEMMA MemoryReturn ==
  ASSUME Base, Line, Memory, return
  PROVE  Memory'
<1>1. /\ Running /\ Now.do = "return" /\ current' = current /\ result' = Now.value
      /\ UNCHANGED <<flash, outfile, calls>>
  BY DEF return, Doing, epcqVars, current
<1>2. /\ at \in 1 .. Len(Here) /\ part \in Nat /\ Now = Here[at] /\ Now.value \in {"ok", "error"}
  BY <1>1, NowFacts, DoingFacts DEF Base, CallTypeOK
<1>3. ~Running'
  BY <1>1, <1>2 DEF Running
<1>4. ASSUME WritesFlash(current), Now.value = "ok" PROVE UpTo(NPages(current) * PageWords)
  <2>1. part = NPages(current) + 1 /\ NPages(current) \in Nat \ {0}
    BY <1>1, <1>2, <1>4, WriteFits DEF WriteFit, WriteUse
  <2>2. part >= 1 /\ part - 1 = NPages(current)
    BY <2>1
  <2> QED BY <1>1, <1>4, <2>2 DEF Memory, PagesIn
<1>5. ASSUME current.op = "readEPCQ"
      PROVE  outfile = Words(current.start, StoredWords(current, LastPart(current), 4))
  <2>1. part = LastPart(current) /\ at = 4
    BY <1>1, <1>2, <1>5, ReaderFits DEF ReadFit, ReadUse
  <2> QED BY <1>1, <1>5, <2>1 DEF Memory, StoredIn
<1>6. Finished'
  <2>1. /\ \A n : UpTo(n)' <=> UpTo(n)
        /\ \A n : Words(current.start, n)' = Words(current.start, n)
    BY <1>1 DEF UpTo, Words
  <2> QED BY <1>1, <1>4, <1>5, <2>1 DEF Finished
<1> QED BY <1>3, <1>6 DEF Memory, AddressIn, ReadIn, StoredIn, PagesIn

\* A call begins with nothing read.
LEMMA MemoryCall ==
  ASSUME Base, Len(calls) < Len(Calls), NEW call \in Calls[Len(calls) + 1], Call(call)
  PROVE  Memory'
<1>1. /\ Running' /\ part' = 0 /\ at' = 1 /\ read_page' = << >> /\ outfile' = << >>
      /\ result' = "running"
  BY DEF Call, Running
<1>2. current' = call /\ IsCall(call) /\ Base'
  BY BaseCall
<1>3. Here' = Steps(call, 0) /\ PartOK(call, 0, Steps(call, 0))
  <2>1. 0 \in 0 .. LastPart(call)
    BY <1>1, <1>2 DEF Base, PcOK
  <2>2. Here' = Steps(call, 0)
    BY <1>1, <1>2 DEF Here
  <2> QED BY <1>2, <2>1, <2>2, StepFacts
<1>4. ~Reads(Now)'
  <2>1. Now' = Here'[1]
    BY <1>1 DEF Now, Here
  <2>2. Here'[1].do \in {"sendCommand", "return"}
    BY <1>3 DEF PartOK
  <2> QED BY <2>1, <2>2 DEF Reads
<1>5. ReadIn'
  BY <1>1, <1>4 DEF ReadIn
<1>6. AddressIn'
  <2>1. ~KnownR(current', part', at')
    BY <1>1 DEF KnownR
  <2>2. ~KnownW(current', part', at')
    BY <1>1 DEF KnownW, KnownFrom
  <2> QED BY <2>1, <2>2 DEF AddressIn
<1>7. StoredIn'
  <2>1. StoredWords(call, 0, 1) = 0
    BY DEF StoredWords
  <2>2. Words(call.start, 0)' = << >>
    BY DEF Words
  <2> QED BY <1>1, <1>2, <2>1, <2>2 DEF StoredIn, Words
<1>8. PagesIn' /\ Finished'
  BY <1>1 DEF PagesIn, Finished
<1> QED BY <1>5, <1>6, <1>7, <1>8 DEF Memory

\* The board takes a packet: an address is set only where it is not known yet.
LEMMA MemoryBoardReceive ==
  ASSUME Base, Line, Memory, BoardReceive
  PROVE  Memory'
<1>1. /\ UNCHANGED flash /\ Running
      /\ \/ UNCHANGED epcqio_address
         \/ Loud /\ epcqio_address' = current.start
         \/ /\ ~Loud /\ Waits(Now) /\ Here[at - 1].cmd = "ESA"
            /\ epcqio_address' = Here[at - 1].word
  BY LineBoardReceive
<1>2. Stays /\ UNCHANGED <<read_page, outfile>>
  BY DEF BoardReceive, serverVars, Stays
<1>3. CASE UNCHANGED epcqio_address
  BY <1>1, <1>2, <1>3, MemoryStays
<1>4. CASE ~(UNCHANGED epcqio_address)
  <2>1. /\ current' = current /\ Here' = Here /\ Now' = Now /\ Running'
        /\ UNCHANGED <<part, at, result>>
    BY <1>1, <1>2, StaysFacts DEF Stays
  <2>2. /\ \A a, n : Words(a, n)' = Words(a, n)
        /\ \A n : UpTo(n)' <=> UpTo(n)
    BY <1>1, <2>1 DEF Words, UpTo
  <2>3. /\ at \in 1 .. Len(Here) /\ Now = Here[at] /\ part \in Nat /\ at \in Nat
    BY <1>1, NowFacts DEF Base, CallTypeOK
  <2>4. ~Reads(Now)
    <3>1. CASE Loud
      BY <1>1, <3>1, LoudCases DEF Reads
    <3>2. CASE Waits(Now)
      BY <3>2 DEF Waits, Reads
    <3> QED BY <1>1, <1>4, <3>1, <3>2
  <2>5. ReadIn'
    BY <1>1, <1>2, <2>1, <2>4 DEF Memory, ReadIn, Reads
  <2>6. AddressIn'
    <3>1. CASE Loud
      <4>1. current.op = "writeFirmware" /\ part = 1 /\ at <= 11
        BY <3>1 DEF Loud
      <4>2. ~KnownW(current, part, at)
        BY <2>3, <4>1 DEF KnownW, KnownFrom
      <4>3. ~KnownR(current, part, at)
        BY <4>1 DEF KnownR
      <4> QED BY <2>1, <4>2, <4>3 DEF AddressIn
    <3>2. CASE ~Loud /\ Waits(Now) /\ Here[at - 1].cmd = "ESA" /\ epcqio_address' = Here[at - 1].word
      <4>1. at >= 2
        BY <1>1, <3>2, DoingFacts
      <4>2. WritesFlash(current) => epcqio_address' = Dest(current, part)
        BY <1>1, <2>3, <3>2, <4>1, WriteFits DEF WriteFit, WriteWait
      <4>3. ~KnownR(current, part, at)
        <5>1. CASE current.op = "readEPCQ"
          BY <1>1, <2>3, <3>2, <4>1, <5>1, ReaderFits DEF ReadFit, ReadWait
        <5>2. CASE current.op # "readEPCQ"
          BY <5>2 DEF KnownR
        <5> QED BY <5>1, <5>2
      <4> QED BY <2>1, <4>2, <4>3 DEF AddressIn
    <3> QED BY <1>1, <1>4, <3>1, <3>2
  <2>7. StoredIn' /\ PagesIn' /\ Finished'
    <3>1. UNCHANGED outfile
      BY <1>2
    <3>2. StoredIn'
      BY <1>1, <2>1, <2>2, <3>1 DEF Memory, StoredIn
    <3>3. PagesIn'
      BY <1>1, <2>1, <2>2 DEF Memory, PagesIn
    <3>4. Finished'
      BY <1>1, <2>1 DEF Finished, Running
    <3> QED BY <3>2, <3>3, <3>4
  <2> QED BY <2>5, <2>6, <2>7 DEF Memory
<1> QED BY <1>3, <1>4

\* The board ends an erase, a program or a read: nothing that is done is undone.
LEMMA MemoryBoardFinish ==
  ASSUME Base, Line, Memory, BoardFinish
  PROVE  Memory'
<1>1. /\ UNCHANGED epcqio_address /\ Running
      /\ Loud \/ /\ Waits(Now)
                 /\ job = [cmd |-> Here[at - 1].cmd, nwords |-> Here[at - 1].prefix,
                           address |-> epcqio_address]
                 /\ \/ Here[at - 1].cmd = "ERD" /\ UNCHANGED flash
                    \/ Here[at - 1].cmd = "ESE" /\ flash' = Erased(epcqio_address)
                    \/ Here[at - 1].cmd = "EWR" /\ EpcqWrite
  BY LineBoardFinish
<1>2. Stays /\ UNCHANGED <<read_page, outfile>>
  BY DEF BoardFinish, serverVars, Stays
<1>3. /\ current' = current /\ Here' = Here /\ Now' = Now /\ Running'
      /\ UNCHANGED <<part, at, result>>
  BY <1>1, <1>2, StaysFacts DEF Stays
<1>4. /\ at \in 1 .. Len(Here) /\ Now = Here[at] /\ part \in Nat /\ at \in Nat /\ IsCall(current)
  BY <1>1, NowFacts DEF Base, CallTypeOK
<1>5. AddressIn'
  BY <1>1, <1>3 DEF Memory, AddressIn
<1>6. ~Reads(Now)
  <2>1. CASE Loud
    BY <1>1, <2>1, LoudCases DEF Reads
  <2>2. CASE Waits(Now)
    BY <2>2 DEF Waits, Reads
  <2> QED BY <1>1, <2>1, <2>2
<1>7. ReadIn'
  BY <1>1, <1>2, <1>3, <1>6 DEF Memory, ReadIn, Reads
<1>8. Finished'
  BY <1>1, <1>3 DEF Finished, Running
<1>9. CASE Loud
  <2>1. current.op = "writeFirmware" /\ part = 1
    BY <1>9 DEF Loud
  <2>2. StoredIn'
    BY <1>3, <2>1 DEF StoredIn
  <2>3. PagesIn'
    <3>1. (1 - 1) * PageWords = 0
      BY FlashAssumption
    <3>2. \A i : i \notin 1 .. 0
      OBVIOUS
    <3> QED BY <1>3, <2>1, <3>1, <3>2 DEF PagesIn, UpTo
  <2> QED BY <1>5, <1>7, <1>8, <2>2, <2>3 DEF Memory
<1>10. CASE ~Loud /\ UNCHANGED flash
  BY <1>1, <1>2, <1>10, MemoryStays
<1>11. CASE /\ ~Loud /\ Waits(Now) /\ job.address = epcqio_address
            /\ \/ Here[at - 1].cmd = "ESE" /\ flash' = Erased(epcqio_address)
               \/ Here[at - 1].cmd = "EWR" /\ EpcqWrite
  <2>0. at >= 2 /\ Here[at - 1].cmd \in {"ESE", "EWR"}
    BY <1>1, <1>11, DoingFacts
  <2>1. WritesFlash(current) /\ current.op # "readEPCQ"
    <3>1. current.op # "getCompileTime"
      BY <1>1, <1>11, <2>0, ReaderFits
    <3>2. current.op # "readEPCQ"
      BY <1>1, <1>4, <1>11, <2>0, ReaderFits DEF ReadFit, ReadWait
    <3> QED BY <1>4, <3>1, <3>2 DEF IsCall, WritesFlash
  <2>2. WriteWait(current, part, Here, at)
    BY <1>1, <2>1, WriteFits DEF WriteFit
  <2>3. KnownW(current, part, at)
    <3>1. Loud <=> LoudP(current, part, at)
      BY DEF Loud, LoudP
    <3> QED BY <1>4, <1>11, <2>0, <2>2, <3>1 DEF WriteWait
  <2>4. epcqio_address = Dest(current, part)
    BY <1>1, <2>1, <2>3 DEF Memory, AddressIn
  <2>5. StoredIn'
    BY <1>3, <2>1 DEF StoredIn
  <2>6. PagesIn'
    <3> SUFFICES ASSUME part >= 1 PROVE UpTo((part - 1) * PageWords)'
      BY <1>3 DEF PagesIn
    <3>1. part <= NPages(current)
      BY <1>4, <1>11, <2>0, <2>2 DEF WriteWait
    <3> DEFINE n == (part - 1) * PageWords
               d == Dest(current, part)
    <3>2. /\ n \in Nat /\ d = current.start + n /\ current.start \in Nat
          /\ current.start + n + PageWords <= FlashWords
      BY <1>4, <2>1, <3>1, PagePlace
    <3>3. \A a \in 0 .. FlashWords - 1 : a < d => flash'[a] = flash[a]
      <4>1. d \in Nat /\ BoardTypeOK
        BY <3>2 DEF Base
      <4>2. CASE Here[at - 1].cmd = "ESE" /\ flash' = Erased(epcqio_address)
        <5>1. d % SectorWords = 0
          BY <1>4, <1>11, <2>0, <2>2, <4>2 DEF WriteWait
        <5>2. flash' = Erased(d)
          BY <2>4, <4>2
        <5> HIDE DEF d
        <5> QED BY <4>1, <5>1, <5>2, EraseBelow
      <4>3. CASE EpcqWrite
        <5>1. PICK page : flash' = Programmed(d, page)
          BY <1>11, <2>4, <4>3 DEF EpcqWrite
        <5> HIDE DEF d
        <5> QED BY <4>1, <5>1, ProgramBelow
      <4> QED BY <1>11, <4>2, <4>3
    <3>4. UpTo(n)
      BY <1>1, <2>1 DEF Memory, PagesIn
    <3> HIDE DEF n, d
    <3>f. PageWords \in Nat /\ FlashWords \in Nat
      BY FlashAssumption
    <3>5. \A i \in 1 .. n : flash'[current.start + i - 1] = Wanted(current, i)
      <4> SUFFICES ASSUME NEW i \in 1 .. n PROVE flash'[current.start + i - 1] = Wanted(current, i)
        OBVIOUS
      <4> DEFINE a == current.start + i - 1
      <4>1. a \in 0 .. FlashWords - 1 /\ a < d
        BY <3>2, <3>f
      <4>2. flash[a] = Wanted(current, i)
        BY <3>4 DEF UpTo
      <4> HIDE DEF a
      <4>3. flash'[a] = Wanted(current, i)
        BY <3>3, <4>1, <4>2
      <4> QED BY <4>3 DEF a
    <3>6. (part' - 1) * PageWords = n
      BY <1>3 DEF n
    <3> QED BY <1>3, <3>5, <3>6 DEF UpTo
  <2> QED BY <1>5, <1>7, <1>8, <2>5, <2>6 DEF Memory
<1> QED BY <1>1, <1>9, <1>10, <1>11

LEMMA MemoryStep ==
  ASSUME Base, Line, Memory, [Next]_flashVars, ~Kill
  PROVE  Memory'
<1>1. CASE UNCHANGED flashVars
  BY <1>1, MemoryStays DEF flashVars, epcqVars, serverVars, Stays
<1>2. ASSUME Len(calls) < Len(Calls), NEW call \in Calls[Len(calls) + 1], Call(call)
      PROVE  Memory'
  BY <1>2, MemoryCall
<1>3. CASE sendCommand \/ sendData
  BY <1>3, MemoryGoesOn
<1>4. CASE OpenSocket
  BY <1>4, MemoryStays DEF OpenSocket, epcqVars, Stays
<1>5. CASE recieveData \/ waitForDone
  <2>1. CASE Over
    BY <2>1, MemoryGoesOn
  <2>2. CASE ~Over
    <3>1. UNCHANGED <<part, at>>
      BY <1>5, <2>2, LineReceive
    <3>2. waitForDone
      BY <1>5, <2>2 DEF Over
    <3> QED BY <3>1, <3>2, MemoryStays DEF waitForDone, epcqVars, Stays
  <2> QED BY <2>1, <2>2
<1>6. CASE comparePage \/ storePage \/ return
  BY <1>6, MemoryCompare, MemoryStore, MemoryReturn
<1>7. CASE BoardReceive
  BY <1>7, MemoryBoardReceive
<1>8. CASE BoardFinish
  BY <1>8, MemoryBoardFinish
<1>9. CASE BoardGivesUp \/ Deliver \/ LoseToBoard \/ LoseFromBoard
  <2>1. UNCHANGED <<flash, epcqio_address>>
    BY <1>9, LineRest
  <2>2. Stays /\ UNCHANGED <<read_page, outfile>>
    BY <1>9 DEF BoardGivesUp, Deliver, LoseToBoard, LoseFromBoard, serverVars, Stays
  <2> QED BY <2>1, <2>2, MemoryStays
<1> QED BY <1>1, <1>2, <1>3, <1>4, <1>5, <1>6, <1>7, <1>8, <1>9 DEF Next, ServerStep, BoardStep

-----------------------------------------------------------------------------
\* The inductive invariant of the dialogue: where the call is, what is under way,
\* and, unless a call was killed, how that belongs to the call's step, what is in
\* the flash and in the file; and which commands met a busy board.
FlashInv ==
  /\ Base
  /\ ~killed => Line /\ Memory
  /\ Carried

LEMMA FlashInit == Init => FlashInv
<1> SUFFICES ASSUME Init PROVE FlashInv
  OBVIOUS
<1>1. Base
  BY BaseInit
<1>2. ~Running /\ result = "none" /\ Quiet /\ toBoard = << >> /\ last_cmd = "none" /\ ~refused
  <2>1. DOMAIN NoSockets = {}
    BY DEF NoSockets
  <2> QED BY <2>1 DEF Init, Running, Quiet, EpcqInit
<1>3. Line
  BY <1>2 DEF Line
<1>4. Memory
  BY <1>2 DEF Memory, AddressIn, ReadIn, StoredIn, PagesIn, Finished
<1>5. Carried
  BY <1>2 DEF Carried, AfterErase
<1> QED BY <1>1, <1>3, <1>4, <1>5 DEF FlashInv

LEMMA FlashStep ==
  ASSUME FlashInv, [Next]_flashVars
  PROVE  FlashInv'
<1>1. Base'
  BY BaseStep DEF FlashInv
<1>2. Carried'
  BY CarriedStep DEF FlashInv
<1>3. ASSUME ~killed' PROVE Line' /\ Memory'
  <2>1. ~Kill
    BY <1>3 DEF Kill
  <2>2. ~killed
    BY <1>3 DEF Next, Call, ServerStep, sendCommand, sendData, OpenSocket, recieveData, waitForDone,
         comparePage, storePage, return, Kill, BoardStep, BoardReceive, BoardFinish, BoardGivesUp, Deliver,
         LoseToBoard, LoseFromBoard, serverVars, flashVars, whatVars
  <2> QED BY <2>1, <2>2, LineStep, MemoryStep DEF FlashInv
<1> QED BY <1>1, <1>2, <1>3 DEF FlashInv

(***************************************************************************)
(* The invariant holds, whatever the calls, the losses and the kills.      *)
(***************************************************************************)
THEOREM FlashInvariance == FairSpec => []FlashInv
<1>1. FlashInv /\ [Next]_flashVars => FlashInv'
  BY FlashStep
<1> QED BY <1>1, FlashInit, PTL DEF FairSpec

(***************************************************************************)
(* writeFirmware and writeEPCQ: a write that returns ok has left in the    *)
(* flash what it was asked to write, as long as no call was killed.        *)
(***************************************************************************)
THEOREM WritesVerified == FairSpec => []WriteVerified
<1>1. FlashInv => WriteVerified
  <2> SUFFICES ASSUME FlashInv, ~killed
               PROVE  /\ Succeeded("writeEPCQ") =>
                           \A i \in 1 .. Len(current.data) : flash[current.start + i - 1] = current.data[i]
                      /\ Succeeded("writeFirmware") =>
                           \A i \in 1 .. FirmwarePages(current.end) * PageWords :
                             flash[current.start + i - 1] =
                               current.data[IF i > Len(current.data) THEN Len(current.data) ELSE i]
    BY DEF WriteVerified
  <2>1. Base /\ Memory
    BY DEF FlashInv
  <2>2. (result = "ok" /\ WritesFlash(current)) => UpTo(NPages(current) * PageWords)
    BY <2>1 DEF Memory, Finished
  <2>3. ASSUME Succeeded("writeEPCQ"), NEW i \in 1 .. Len(current.data)
        PROVE  flash[current.start + i - 1] = current.data[i]
    <3>1. UpTo(EpcqPages(current.data) * PageWords)
      BY <2>2, <2>3 DEF Succeeded, WritesFlash, NPages
    <3>2. i \in 1 .. EpcqPages(current.data) * PageWords /\ ~(i > Len(current.data))
      <4>1. IsCall(current)
        BY <2>1, <2>3 DEF Base, PcOK, CallTypeOK, Succeeded, current
      <4>2. Len(current.data) \in Nat
        BY <2>3, <4>1 DEF IsCall, Succeeded
      <4>3. PageWords \in Nat /\ PageWords > 0
        BY FlashAssumption
      <4> DEFINE n == Len(current.data)
                 d == n \div PageWords
                 m == n % PageWords
                 e == EpcqPages(current.data) * PageWords
      <4>4. n = PageWords * d + m /\ m \in Nat /\ m < PageWords /\ d \in Nat
        <5>1. n \in Nat
          BY <4>2
        <5> HIDE DEF n
        <5> QED BY <5>1, <4>3
      <4>5. e = (d + 1) * PageWords
        BY DEF EpcqPages
      <4> HIDE DEF d, m, n, e
      <4>6. (d + 1) * PageWords = PageWords * d + PageWords
        BY <4>3, <4>4
      <4> DEFINE x == PageWords * d
      <4>7. x \in Nat
        <5>1. \A p, q \in Nat : p * q \in Nat
          OBVIOUS
        <5> QED BY <4>3, <4>4, <5>1
      <4> HIDE DEF x
      <4>8. n = x + m /\ e = x + PageWords
        BY <4>4, <4>5, <4>6 DEF x
      <4>9. i \in 1 .. n
        BY <2>3 DEF n
      <4>10. i \in 1 .. e /\ ~(i > n)
        BY <4>3, <4>4, <4>7, <4>8, <4>9
      <4> QED BY <4>10 DEF e, n
    <3>3. Wanted(current, i) = current.data[i]
      BY <2>3, <3>2 DEF Wanted, Succeeded
    <3> QED BY <3>1, <3>2, <3>3 DEF UpTo
  <2>4. ASSUME Succeeded("writeFirmware"), NEW i \in 1 .. FirmwarePages(current.end) * PageWords
        PROVE  flash[current.start + i - 1] =
                 current.data[IF i > Len(current.data) THEN Len(current.data) ELSE i]
    <3>1. UpTo(FirmwarePages(current.end) * PageWords)
      BY <2>2, <2>4 DEF Succeeded, WritesFlash, NPages
    <3>2. current.op # "writeEPCQ"
      BY <2>4 DEF Succeeded
    <3> QED BY <3>1, <3>2 DEF UpTo, Wanted
  <2> QED BY <2>3, <2>4
<1> QED BY <1>1, FlashInvariance, PTL

(***************************************************************************)
(* readEPCQ: the file holds the words of the flash, but for three quarters *)
(* of those after the last full page, as long as no call was killed.       *)
(***************************************************************************)
THEOREM FilesAreFlash == FairSpec => []FileIsFlash
<1>1. FlashInv => FileIsFlash
  <2> SUFFICES ASSUME FlashInv, ~killed, Succeeded("readEPCQ")
               PROVE  LET left == current.words % PageWords
                      IN outfile = Words(current.start, current.words - left + left \div 4)
    BY Zenon DEF FileIsFlash
  <2>1. Base /\ Memory
    BY DEF FlashInv
  <2>2. outfile = Words(current.start, StoredWords(current, LastPart(current), 4))
    BY <2>1 DEF Memory, Finished, Succeeded
  <2>3. IsCall(current) /\ current.op = "readEPCQ"
    BY <2>1 DEF Base, PcOK, CallTypeOK, Succeeded, current
  <2> DEFINE w == current.words
             d == w \div PageWords
             m == w % PageWords
             q == m \div 4
  <2>4. w \in Nat /\ PageWords \in Nat /\ PageWords > 0
    BY <2>3, FlashAssumption DEF IsCall
  <2>5. w = PageWords * d + m /\ m \in Nat /\ d \in Nat
    <3> HIDE DEF w
    <3> QED BY <2>4
  <2>6. q \in Nat
    <3> HIDE DEF m
    <3> QED BY <2>5
  <2>7. LastPart(current) = d + 1
    BY <2>3 DEF LastPart
  <2> DEFINE p == LastPart(current)
  <2>8. StoredWords(current, p, 4) = (p - 1) * PageWords + q
    <3>1. p # 0 /\ ~(p < LastPart(current)) /\ ~(4 <= 3)
      <4> HIDE DEF d
      <4> QED BY <2>5, <2>7
    <3> QED BY <3>1, Zenon DEF StoredWords
  <2>9. (p - 1) * PageWords = PageWords * d /\ PageWords * d \in Nat
    <3> HIDE DEF d, p
    <3>1. \A a, b \in Nat : a * b \in Nat /\ a * b = b * a
      OBVIOUS
    <3>2. p - 1 = d
      BY <2>5, <2>7 DEF p
    <3> QED BY <2>4, <2>5, <3>1, <3>2
  <2> DEFINE x == PageWords * d
  <2>10. w - m + q = x + q
    <3>1. w = x + m /\ x \in Nat
      BY <2>5, <2>9
    <3> HIDE DEF w, m, q, x
    <3> QED BY <2>5, <2>6, <3>1
  <2>11. StoredWords(current, LastPart(current), 4) = w - m + q
    BY <2>8, <2>9, <2>10
  <2>12. outfile = Words(current.start, w - m + q)
    BY <2>2, <2>11, Zenon
  <2> QED BY <2>12, Zenon
<1> QED BY <1>1, FlashInvariance, PTL

(***************************************************************************)
(* writeEPCQ and readEPCQ wait long enough: no command of theirs meets a   *)
(* busy board, unless a firmware was written or a call killed before.      *)
(***************************************************************************)
THEOREM AllCarriedOut == FairSpec => []CommandsCarriedOut
<1>1. FlashInv => CommandsCarriedOut
  BY DEF FlashInv, Carried, CommandsCarriedOut
<1> QED BY <1>1, FlashInvariance, PTL

-----------------------------------------------------------------------------
(***************************************************************************)
(* Which address a command meets.  The packets to the board stay in order, *)
(* so that a command works at the last address set before it, in the queue *)
(* or, if none is under way, in the register; as long as no ESA was lost   *)
(* that is the one its call has set, killed or not.                        *)
(***************************************************************************)
LostESA == \E i \in 1 .. Len(lost) : lost[i] = "ESA"
AddressAt(q, r, i, a) ==
  \/ r = a /\ \A k \in 1 .. i - 1 : q[k].cmd # "ESA"
  \/ \E j \in 1 .. i - 1 : /\ q[j].cmd = "ESA" /\ q[j].address = a
                           /\ \A k \in j + 1 .. i - 1 : q[k].cmd # "ESA"
IsTarget(x) == \E i \in 1 .. Len(calls) : x \in Target(calls[i])
Allowed(cmd, n, a) ==
  /\ cmd = "ESE" => \A x \in SectorOf(a) : IsTarget(x)
  /\ cmd = "EWR" => \A x \in DOMAIN flash : x - a \in 0 .. n - 1 => IsTarget(x)

\* From which step on the last address sent is the one of the part.
SentFrom(c, p) == IF c.op = "writeEPCQ" /\ p = 0 THEN 4 ELSE 2
SentW(c, p, i) ==
  /\ WritesFlash(c) /\ p < LastPart(c) /\ (c.op = "writeEPCQ" \/ p >= 1)
  /\ i >= SentFrom(c, p)

QueueInOrder ==
  \A i \in 1 .. Len(toBoard) : toBoard[i].cmd \in {"ESE", "EWR"} =>
    \E a \in Nat : /\ AddressAt(toBoard, epcqio_address, i, a)
                   /\ Allowed(toBoard[i].cmd, toBoard[i].n, a)
JobInOrder == Allowed(job.cmd, job.nwords, job.address)
CallInOrder ==
  Running /\ SentW(current, part, at) =>
    AddressAt(toBoard, epcqio_address, Len(toBoard) + 1, Dest(current, part))
InOrder == QueueInOrder /\ JobInOrder /\ CallInOrder

LEMMA AddressAppend ==
  ASSUME NEW q \in Seq(ToBoard), NEW m \in ToBoard, NEW r, NEW a, NEW n, n = Len(q)
  PROVE  /\ \A i \in 1 .. n + 1 : AddressAt(q, r, i, a) => AddressAt(Append(q, m), r, i, a)
         /\ (m.cmd # "ESA" /\ AddressAt(q, r, n + 1, a)) => AddressAt(Append(q, m), r, n + 2, a)
         /\ (m.cmd = "ESA" /\ m.address = a) => AddressAt(Append(q, m), r, n + 2, a)
<1> DEFINE v == Append(q, m)
<1>1. n \in Nat /\ (\A k \in 1 .. n : v[k] = q[k]) /\ v[n + 1] = m
  OBVIOUS
<1> HIDE DEF v
<1>2. ASSUME NEW i \in 1 .. n + 1, AddressAt(q, r, i, a) PROVE AddressAt(v, r, i, a)
  <2>1. \A k \in 1 .. i - 1 : v[k] = q[k]
    BY <1>1
  <2> QED BY <1>2, <2>1 DEF AddressAt
<1>3. ASSUME m.cmd # "ESA", AddressAt(q, r, n + 1, a) PROVE AddressAt(v, r, n + 2, a)
  <2>1. n + 1 - 1 = n /\ n + 2 - 1 = n + 1
    BY <1>1
  <2>2. CASE r = a /\ \A k \in 1 .. n : q[k].cmd # "ESA"
    <3>1. \A k \in 1 .. n + 1 : v[k].cmd # "ESA"
      BY <1>1, <1>3, <2>2
    <3> QED BY <2>1, <2>2, <3>1 DEF AddressAt
  <2>3. ASSUME NEW j \in 1 .. n, q[j].cmd = "ESA", q[j].address = a,
               \A k \in j + 1 .. n : q[k].cmd # "ESA"
        PROVE  AddressAt(v, r, n + 2, a)
    <3>1. j \in 1 .. n + 1 /\ v[j].cmd = "ESA" /\ v[j].address = a
      BY <1>1, <2>3
    <3>2. \A k \in j + 1 .. n + 1 : v[k].cmd # "ESA"
      BY <1>1, <1>3, <2>3
    <3> QED BY <2>1, <3>1, <3>2 DEF AddressAt
  <2> QED BY <1>3, <2>1, <2>2, <2>3 DEF AddressAt
<1>4. ASSUME m.cmd = "ESA", m.address = a PROVE AddressAt(v, r, n + 2, a)
  <2>1. n + 2 - 1 = n + 1 /\ n + 1 \in 1 .. n + 1 /\ \A k : k \notin n + 1 + 1 .. n + 1
    BY <1>1
  <2> QED BY <1>1, <1>4, <2>1 DEF AddressAt
<1> QED BY <1>2, <1>3, <1>4 DEF v

\* The packet in front is taken: by the board, or lost.
LEMMA AddressTail ==
  ASSUME NEW q \in Seq(ToBoard), q # << >>, NEW r, NEW a, NEW i \in 1 .. Len(q),
         AddressAt(q, r, i + 1, a)
  PROVE  AddressAt(Tail(q), IF Head(q).cmd = "ESA" THEN Head(q).address ELSE r, i, a)
<1> DEFINE v == Tail(q)
           h == Head(q)
           n == Len(q)
<1>1. n \in Nat /\ n > 0 /\ h = q[1] /\ \A k \in 1 .. n - 1 : v[k] = q[k + 1]
  OBVIOUS
<1> HIDE DEF v, h, n
<1>2. i \in 1 .. n /\ i + 1 - 1 = i
  BY DEF n
<1>3. ASSUME r = a, \A k \in 1 .. i : q[k].cmd # "ESA"
      PROVE  AddressAt(v, IF h.cmd = "ESA" THEN h.address ELSE r, i, a)
  <2>1. h.cmd # "ESA"
    <3>1. 1 \in 1 .. i
      BY <1>2
    <3>2. q[1].cmd # "ESA"
      BY <1>3, <3>1, Zenon
    <3> QED BY <1>1, <3>2
  <2>2. \A k \in 1 .. i - 1 : v[k].cmd # "ESA"
    BY <1>1, <1>2, <1>3
  <2> QED BY <1>3, <2>1, <2>2 DEF AddressAt
<1>4. ASSUME NEW j \in 1 .. i, q[j].cmd = "ESA", q[j].address = a,
             \A k \in j + 1 .. i : q[k].cmd # "ESA"
      PROVE  AddressAt(v, IF h.cmd = "ESA" THEN h.address ELSE r, i, a)
  <2>1. \A k \in j .. i - 1 : v[k].cmd # "ESA"
    BY <1>1, <1>2, <1>4
  <2>2. CASE j = 1
    <3>1. h.cmd = "ESA" /\ h.address = a
      BY <1>1, <1>4, <2>2
    <3> QED BY <2>1, <2>2, <3>1 DEF AddressAt
  <2>3. CASE j # 1
    <3>1. j - 1 \in 1 .. i - 1 /\ v[j - 1] = q[j] /\ j - 1 + 1 = j
      BY <1>1, <1>2, <2>3
    <3> QED BY <1>4, <2>1, <3>1 DEF AddressAt
  <2> QED BY <2>2, <2>3
<1>5. \/ r = a /\ \A k \in 1 .. i : q[k].cmd # "ESA"
      \/ \E j \in 1 .. i : /\ q[j].cmd = "ESA" /\ q[j].address = a
                           /\ \A k \in j + 1 .. i : q[k].cmd # "ESA"
  <2>1. i + 1 - 1 = i
    BY <1>2
  <2> QED BY <2>1 DEF AddressAt
<1>6. AddressAt(v, IF h.cmd = "ESA" THEN h.address ELSE r, i, a)
  BY <1>3, <1>4, <1>5, Zenon
<1> QED BY <1>6 DEF v, h

\* Every word a part of a write may touch is one the call may change.
LEMMA AllowedHere ==
  ASSUME Base, Running, WritesFlash(current), NEW cmd, NEW n,
         cmd = "EWR" => n = PageWords /\ part >= 1 /\ part <= NPages(current),
         cmd = "ESE" => \/ part = 0 /\ current.op = "writeEPCQ" /\ current.erase
                        \/ part >= 1 /\ part <= NPages(current) /\ current.op = "writeFirmware"
  PROVE  Allowed(cmd, n, Dest(current, part))
<1> DEFINE a == Dest(current, part)
           y == NPages(current) * PageWords
<1>1. IsCall(current) /\ part \in Nat /\ Len(calls) >= 1 /\ DOMAIN flash = 0 .. FlashWords - 1
  BY NowFacts DEF Base, CallTypeOK, PcOK, BoardTypeOK
<1>2. ASSUME NEW x \in Target(current) PROVE IsTarget(x)
  <2>1. Len(calls) \in 1 .. Len(calls)
    BY <1>1 DEF Base, CallTypeOK
  <2> QED BY <2>1 DEF IsTarget, current
<1>3. PageWords \in Nat \ {0} /\ FlashWords \in Nat
  BY FlashAssumption
<1>4. ASSUME part >= 1, part <= NPages(current)
      PROVE  /\ a \in Nat /\ current.start \in Nat /\ y \in Nat
             /\ current.start <= a /\ a + PageWords <= current.start + y
  <2> DEFINE n0 == (part - 1) * PageWords
  <2>1. /\ n0 \in Nat /\ a = current.start + n0 /\ current.start \in Nat
        /\ n0 + PageWords <= y /\ y \in Nat
    BY <1>1, <1>4, PagePlace
  <2> HIDE DEF n0, a, y
  <2> QED BY <1>3, <2>1
<1>5. \/ /\ current.op = "writeEPCQ"
         /\ Pages(current.start, NPages(current)) \subseteq Target(current)
         /\ current.erase => SectorOf(current.start) \subseteq Target(current)
      \/ /\ current.op = "writeFirmware"
         /\ \A b \in Pages(current.start, NPages(current)) : SectorOf(b) \subseteq Target(current)
  BY DEF WritesFlash, NPages, Target
<1>6. Pages(current.start, NPages(current)) = current.start .. current.start + y - 1
  BY DEF Pages
<1>0. part = 0 => a = current.start
  <2>1. (1 - 1) * PageWords = 0
    BY <1>3
  <2>2. current.start \in Nat
    BY <1>1 DEF IsCall, WritesFlash
  <2> QED BY <2>1, <2>2 DEF Dest, PageAt
<1> HIDE DEF a, y
<1>7. ASSUME cmd = "ESE", NEW x \in SectorOf(a) PROVE IsTarget(x)
  <2>1. CASE part = 0 /\ current.op = "writeEPCQ" /\ current.erase
    BY <1>0, <1>2, <1>5, <1>7, <2>1
  <2>2. CASE part >= 1 /\ part <= NPages(current) /\ current.op = "writeFirmware"
    <3>1. a \in current.start .. current.start + y - 1
      BY <1>3, <1>4, <2>2
    <3>2. SectorOf(a) \subseteq Target(current)
      BY <1>5, <1>6, <2>2, <3>1
    <3> QED BY <1>2, <1>7, <3>2
  <2> QED BY <1>7, <2>1, <2>2
<1>8. ASSUME cmd = "EWR", NEW x \in DOMAIN flash, x - a \in 0 .. n - 1 PROVE IsTarget(x)
  <2>1. x \in current.start .. current.start + y - 1
    BY <1>1, <1>3, <1>4, <1>8
  <2>2. x \in SectorOf(x)
    BY <1>8 DEF SectorOf
  <2>3. x \in Target(current)
    BY <1>5, <1>6, <2>1, <2>2
  <2> QED BY <1>2, <2>3
<1> QED BY <1>7, <1>8 DEF Allowed, a

\* A step changes the words that may be changed only by adding calls.
LEMMA AllowedStays ==
  ASSUME Base, Base', NEW call, calls' \in {calls, Append(calls, call)}, NEW cmd, NEW n, NEW a,
         Allowed(cmd, n, a)
  PROVE  Allowed(cmd, n, a)'
<1>1. DOMAIN flash' = DOMAIN flash
  BY DEF Base, BoardTypeOK
<1>2. \A b : SectorOf(b)' = SectorOf(b)
  BY <1>1 DEF SectorOf
<1>3. \A c : Target(c)' = Target(c)
  BY <1>2 DEF Target
<1>4. ASSUME NEW i \in 1 .. Len(calls) PROVE i \in 1 .. Len(calls') /\ calls'[i] = calls[i]
  BY DEF Base, CallTypeOK
<1>5. ASSUME NEW x, IsTarget(x) PROVE IsTarget(x)'
  BY <1>3, <1>4, <1>5 DEF IsTarget
<1> QED BY <1>1, <1>2, <1>5 DEF Allowed

\* Where the steps of a write set an address.
LEMMA StartsRow ==
  ASSUME NEW c, IsCall(c), WritesFlash(c), NEW p \in 0 .. LastPart(c), p < LastPart(c),
         c.op = "writeEPCQ" \/ p >= 1,
         NEW s, s = Steps(c, p), NEW i \in Nat, i + 1 = SentFrom(c, p)
  PROVE  s[i].do = "sendCommand" /\ s[i].cmd = "ESA"
<1>e. \A w : Command("ESA", 0, w).do = "sendCommand" /\ Command("ESA", 0, w).cmd = "ESA"
  BY DEF Command
<1>1. CASE c.op = "writeEPCQ"
  <2>1. EpcqPages(c.data) \in Nat
    <3>1. 1 \in Nat \ {0}
      OBVIOUS
    <3> QED BY <1>1, <3>1, PageWordsOK
  <2>2. ~(Len(c.data) > SectorWords) /\ p \in Nat /\ p <= EpcqPages(c.data)
    BY <1>1, <2>1 DEF LastPart
  <2>3. CASE p = 0
    <3>1. i = 3
      BY <1>1, <2>3 DEF SentFrom
    <3>2. s[3] = Command("ESA", 0, c.start)
      BY <1>1, <2>2, <2>3, EpcqRow
    <3> QED BY <1>e, <3>1, <3>2
  <2>4. CASE p # 0
    <3>1. i = 1
      BY <2>4 DEF SentFrom
    <3>2. IsPage(s, 0, PageAt(c, p), EpcqPage(c.data, p))
      BY <1>1, <2>2, <2>4, EpcqRow
    <3>3. s[1] = Command("ESA", 0, PageAt(c, p))
      BY <3>2 DEF IsPage
    <3> QED BY <1>e, <3>1, <3>3
  <2> QED BY <2>3, <2>4
<1>2. CASE c.op = "writeFirmware"
  <2>1. FirmwarePages(c.end) \in Nat
    <3>1. 1 \in Nat \ {0}
      OBVIOUS
    <3> QED BY <1>2, <3>1, PageWordsOK
  <2>2. c.start % SectorWords = 0 /\ p \in Nat /\ p # 0 /\ p <= FirmwarePages(c.end)
    BY <1>2, <2>1 DEF LastPart
  <2>3. i = 1
    BY <1>2 DEF SentFrom
  <2>4. s[1] = Command("ESA", 0, PageAt(c, p))
    BY <1>2, <2>2, FirmwareRow
  <2> QED BY <1>e, <2>3, <2>4
<1> QED BY <1>1, <1>2 DEF WritesFlash

\* The commands a call sends.
LEMMA SendFits ==
  ASSUME Base, Running, Now.do = "sendCommand"
  PROVE  /\ Now.cmd = "ESA" /\ WritesFlash(current) => Now.word = Dest(current, part)
         /\ Now.cmd \in {"ESE", "EWR"} =>
              WritesFlash(current) /\ SentW(current, part, at) /\ Dest(current, part) \in Nat
         /\ Now.cmd = "EWR" => Now.prefix = PageWords /\ part >= 1 /\ part <= NPages(current)
         /\ Now.cmd = "ESE" => \/ part = 0 /\ current.op = "writeEPCQ" /\ current.erase
                               \/ part >= 1 /\ part <= NPages(current) /\ current.op = "writeFirmware"
<1>1. /\ IsCall(current) /\ part \in 0 .. LastPart(current) /\ LastPart(current) \in Nat
      /\ at \in 1 .. Len(Here) /\ Len(Here) \in Nat /\ Now = Here[at] /\ IsCommand(Now)
  BY NowFacts, DoingFacts
<1>2. CASE Now.cmd = "ERB"
  BY <1>2
<1>3. CASE Now.cmd # "ERB"
  <2> DEFINE j == at + 1
  <2>1. at < Len(Here) /\ Here[j] = WaitOf(Now.cmd)
    BY <1>3, DoingFacts
  <2>2. j \in 1 .. Len(Here) /\ j >= 2 /\ j - 1 = at /\ j \in Nat
    BY <1>1, <2>1
  <2> HIDE DEF j
  <2>3. Waits(Here[j])
    BY <2>1 DEF WaitOf, Waits, Receive, WaitForDone
  <2>4. CASE WritesFlash(current)
    <3>1. WriteFit(current, part, Here, j)
      BY <1>1, <2>2, <2>4, EpcqFits, FirmwareFits DEF WritesFlash, Here
    <3>2. /\ Now.cmd = "ESA" => Now.word = Dest(current, part)
          /\ Now.cmd \in {"ESE", "EWR"} => KnownW(current, part, j) \/ LoudP(current, part, j)
          /\ Now.cmd = "EWR" => Now.prefix = PageWords /\ part >= 1 /\ part <= NPages(current)
          /\ Now.cmd = "ESE" => \/ part = 0 /\ current.op = "writeEPCQ" /\ current.erase
                                \/ part >= 1 /\ part <= NPages(current) /\ current.op = "writeFirmware"
      BY <1>1, <2>2, <2>3, <3>1 DEF WriteFit, WriteWait
    <3>3. ASSUME Now.cmd \in {"ESE", "EWR"} PROVE SentW(current, part, at) /\ Dest(current, part) \in Nat
      <4>1. NPages(current) \in Nat /\ LastPart(current) \in {0, NPages(current) + 1}
        BY <2>4, WriteFits
      <4>2. part < LastPart(current) /\ (current.op = "writeEPCQ" \/ part >= 1)
        <5>1. CASE KnownW(current, part, j)
          BY <5>1 DEF KnownW
        <5>2. CASE LoudP(current, part, j)
          <6>1. part = 1
            BY <5>2 DEF LoudP
          <6>2. LastPart(current) = NPages(current) + 1 /\ part <= NPages(current)
            BY <1>1, <3>2, <3>3, <4>1, <6>1
          <6> QED BY <4>1, <6>1, <6>2
        <5> QED BY <3>2, <3>3, <5>1, <5>2
      <4>3. at >= SentFrom(current, part)
        <5>1. CASE KnownW(current, part, j)
          <6>1. j >= KnownFrom(current, part)
            BY <5>1 DEF KnownW
          <6>2. KnownFrom(current, part) \in Nat /\ SentFrom(current, part) \in Nat
                /\ KnownFrom(current, part) >= SentFrom(current, part) + 1
            BY DEF KnownFrom, SentFrom
          <6>3. j = at + 1 /\ at \in Nat
            BY <1>1 DEF j
          <6> QED BY <6>1, <6>2, <6>3
        <5>2. CASE LoudP(current, part, j)
          <6>1. SentFrom(current, part) = 2
            BY <5>2 DEF LoudP, SentFrom
          <6>2. CASE at = 1
            <7>1. at + 1 = SentFrom(current, part) /\ at \in Nat
              BY <6>1, <6>2
            <7>2. Here[at].cmd = "ESA"
              BY <1>1, <2>4, <4>2, <7>1, StartsRow DEF Here
            <7> QED BY <1>1, <3>3, <7>2
          <6> QED BY <1>1, <6>1, <6>2
        <5> QED BY <3>2, <3>3, <5>1, <5>2
      <4>4. Dest(current, part) \in Nat
        <5>1. (IF part = 0 THEN 1 ELSE part) \in Nat \ {0}
          BY <1>1
        <5> QED BY <1>1, <2>4, <5>1, PageWordsOK DEF Dest, WritesFlash
      <4> QED BY <2>4, <4>2, <4>3, <4>4 DEF SentW
    <3> QED BY <2>4, <3>2, <3>3
  <2>5. CASE ~WritesFlash(current)
    <3>1. current.op \in {"readEPCQ", "getCompileTime"}
      BY <1>1, <2>5 DEF IsCall, WritesFlash
    <3>2. CASE current.op = "readEPCQ"
      <4>1. ReadFit(current, part, Here, j)
        BY <1>1, <2>2, <3>2, ReadFits DEF Here
      <4>2. Now.cmd \in {"ERB", "ESA", "ERD"}
        BY <1>1, <2>2, <2>3, <4>1 DEF ReadFit, ReadWait
      <4> QED BY <2>5, <4>2
    <3>3. CASE current.op = "getCompileTime"
      <4>1. part \in Nat
        BY <1>1
      <4>2. /\ part = 0 => Here = << Command("GCT", 0, 0), Receive(COMMAND_PORT) >>
            /\ part # 0 => Here = << Return("ok") >>
        BY <3>3, <4>1, TimeRow DEF Here
      <4>3. part = 0
        <5>1. ASSUME part # 0 PROVE FALSE
          <6>1. Len(Here) = 1
            BY <4>2, <5>1
          <6> QED BY <1>1, <2>1, <6>1
        <5> QED BY <5>1
      <4>4. Len(Here) = 2 /\ Here[1] = Command("GCT", 0, 0)
        BY <4>2, <4>3
      <4>5. at = 1
        BY <1>1, <2>1, <4>4
      <4>6. Now.cmd = "GCT"
        BY <1>1, <4>4, <4>5 DEF Command
      <4> QED BY <2>5, <4>6
    <3> QED BY <3>1, <3>2, <3>3
  <2> QED BY <2>4, <2>5
<1> QED BY <1>2, <1>3

\* Going on: the address is the part's own, or it is being sent.
LEMMA SentNext ==
  ASSUME Base, Running, Now.do # "return", Advance, UNCHANGED <<result, calls>>,
         SentW(current', part', at')
  PROVE  /\ current' = current /\ part' = part
         /\ \/ SentW(current, part, at)
            \/ Now.do = "sendCommand" /\ Now.cmd = "ESA" /\ WritesFlash(current)
<1>1. /\ current' = current /\ at \in Nat
      /\ \/ at' = at + 1 /\ part' = part
         \/ at' = 1
  BY AdvancePc DEF Base, CallTypeOK
<1>2. at' = at + 1 /\ part' = part
  BY <1>1 DEF SentW, SentFrom
<1>3. CASE at >= SentFrom(current, part)
  BY <1>1, <1>2, <1>3 DEF SentW
<1>4. CASE ~(at >= SentFrom(current, part))
  <2>1. at + 1 = SentFrom(current, part)
    BY <1>1, <1>2, <1>4 DEF SentW, SentFrom
  <2>2. /\ IsCall(current) /\ part \in 0 .. LastPart(current) /\ Now = Here[at]
    BY NowFacts
  <2>3. WritesFlash(current) /\ part < LastPart(current) /\ (current.op = "writeEPCQ" \/ part >= 1)
    BY <1>1, <1>2 DEF SentW
  <2>4. Here[at].do = "sendCommand" /\ Here[at].cmd = "ESA"
    BY <1>1, <2>1, <2>2, <2>3, StartsRow DEF Here
  <2> QED BY <1>1, <1>2, <2>2, <2>3, <2>4
<1> QED BY <1>3, <1>4

\* Nothing is said of the address while no call runs.
LEMMA OrderStays ==
  ASSUME Base, Base', InOrder, NEW call, calls' \in {calls, Append(calls, call)},
         UNCHANGED <<toBoard, epcqio_address>>, job' = job \/ job' = Idle,
         \/ ~Running'
         \/ part' = 0 /\ at' = 1
         \/ UNCHANGED <<part, at, result, calls>>
         \/ Running /\ Now.do \notin {"return", "sendCommand"} /\ Advance /\ UNCHANGED <<result, calls>>
  PROVE  InOrder'
<1>1. \A cmd, n, a : Allowed(cmd, n, a) => Allowed(cmd, n, a)'
  BY AllowedStays
<1>2. \A q, r, i, a : AddressAt(q, r, i, a)' <=> AddressAt(q, r, i, a)
  BY DEF AddressAt
<1>3. QueueInOrder'
  BY <1>1, <1>2 DEF InOrder, QueueInOrder, AddressAt
<1>4. JobInOrder'
  <2>1. Allowed(Idle.cmd, Idle.nwords, Idle.address)'
    BY DEF Allowed, Idle
  <2> QED BY <1>1, <2>1 DEF InOrder, JobInOrder
<1>5. CallInOrder'
  <2> SUFFICES ASSUME Running', SentW(current', part', at')
               PROVE  /\ Running /\ SentW(current, part, at)
                      /\ current' = current /\ part' = part
    BY DEF InOrder, CallInOrder, AddressAt, Dest, PageAt, SentW, SentFrom, WritesFlash, LastPart
  <2>1. ~(part' = 0 /\ at' = 1)
    BY DEF SentW, SentFrom
  <2>2. CASE UNCHANGED <<part, at, result, calls>>
    BY <2>2 DEF Running, current
  <2>3. CASE Running /\ Now.do \notin {"return", "sendCommand"} /\ Advance /\ UNCHANGED <<result, calls>>
    BY <2>3, SentNext
  <2> QED BY <2>1, <2>2, <2>3
<1> QED BY <1>3, <1>4, <1>5 DEF InOrder

\* A packet is sent: a command after the address of its part.
LEMMA OrderSend ==
  ASSUME Base, Base', InOrder, sendCommand \/ sendData
  PROVE  InOrder'
<1>1. Running /\ Now.do \in {"sendCommand", "sendData"} /\ Advance
      /\ UNCHANGED <<result, calls, epcqio_address, job>>
  BY DEF sendCommand, sendData, Doing, epcqVars
<1>2. PICK m \in ToBoard :
        /\ toBoard' = Append(toBoard, m)
        /\ \/ Now.do = "sendCommand" /\ m = Message(Now)
           \/ Now.do = "sendData" /\ m.cmd = "data"
  <2>1. CASE sendCommand
    <3>1. toBoard' = Append(toBoard, Message(Now)) /\ Message(Now) \in ToBoard
      BY <1>1, <2>1, DoingFacts DEF sendCommand, Message, Doing
    <3> QED BY <2>1, <3>1 DEF sendCommand, Doing
  <2>2. CASE sendData
    <3>1. toBoard' = Append(toBoard, PageMessage(Now.page)) /\ PageMessage(Now.page) \in ToBoard
      BY <1>1, <2>2, DoingFacts DEF sendData, PageMessage, Doing
    <3>2. PageMessage(Now.page).cmd = "data"
      BY DEF PageMessage
    <3> QED BY <2>2, <3>1, <3>2 DEF sendData, Doing
  <2> QED BY <2>1, <2>2
<1>3. /\ m.cmd = "ESA" => Now.do = "sendCommand" /\ Now.cmd = "ESA" /\ m.address = Now.word
      /\ m.cmd \in {"ESE", "EWR"} =>
           Now.do = "sendCommand" /\ Now.cmd = m.cmd /\ Now.prefix = m.n
      /\ Now.do = "sendCommand" => m.cmd = Now.cmd
  BY <1>2 DEF Message
<1> DEFINE n == Len(toBoard)
           d == Dest(current, part)
<1>4. toBoard \in Seq(ToBoard) /\ n \in Nat
  BY DEF Base, NetTypeOK
<1>a. /\ \A i \in 1 .. n + 1 : \A a : AddressAt(toBoard, epcqio_address, i, a) =>
             AddressAt(toBoard', epcqio_address, i, a)
      /\ (m.cmd # "ESA" /\ AddressAt(toBoard, epcqio_address, n + 1, d)) =>
             AddressAt(toBoard', epcqio_address, n + 2, d)
      /\ (m.cmd = "ESA" /\ m.address = d) => AddressAt(toBoard', epcqio_address, n + 2, d)
  BY <1>2, <1>4, AddressAppend
<1>b. \A cmd, k, a : Allowed(cmd, k, a) => Allowed(cmd, k, a)'
  BY <1>1, AllowedStays
<1>c. Len(toBoard') = n + 1 /\ (\A i \in 1 .. n : toBoard'[i] = toBoard[i]) /\ toBoard'[n + 1] = m
  BY <1>2, <1>4
<1> HIDE DEF n, d
<1>5. QueueInOrder'
  <2> SUFFICES ASSUME NEW i \in 1 .. n + 1, (toBoard[i].cmd \in {"ESE", "EWR"})'
               PROVE  (\E a \in Nat : /\ AddressAt(toBoard, epcqio_address, i, a)
                                      /\ Allowed(toBoard[i].cmd, toBoard[i].n, a))'
    BY <1>c DEF QueueInOrder
  <2>1. CASE i \in 1 .. n
    <3>1. toBoard'[i] = toBoard[i]
      BY <1>c, <2>1
    <3>2. PICK a \in Nat : /\ AddressAt(toBoard, epcqio_address, i, a)
                           /\ Allowed(toBoard[i].cmd, toBoard[i].n, a)
      BY <2>1, <3>1 DEF InOrder, QueueInOrder, n
    <3>3. AddressAt(toBoard, epcqio_address, i, a)'
      <4>1. AddressAt(toBoard', epcqio_address, i, a)
        BY <1>a, <3>2
      <4> QED BY <1>1, <4>1 DEF AddressAt
    <3>4. Allowed(toBoard[i].cmd, toBoard[i].n, a)'
      BY <1>b, <3>1, <3>2
    <3> QED BY <3>3, <3>4
  <2>2. CASE i = n + 1
    <3>1. toBoard'[i] = m /\ m.cmd \in {"ESE", "EWR"}
      BY <1>c, <2>2
    <3>2. /\ WritesFlash(current) /\ SentW(current, part, at) /\ d \in Nat
          /\ m.cmd = "EWR" => m.n = PageWords /\ part >= 1 /\ part <= NPages(current)
          /\ m.cmd = "ESE" => \/ part = 0 /\ current.op = "writeEPCQ" /\ current.erase
                              \/ part >= 1 /\ part <= NPages(current) /\ current.op = "writeFirmware"
      BY <1>1, <1>3, <3>1, SendFits DEF d
    <3>3. Allowed(m.cmd, m.n, d)
      BY <1>1, <3>2, AllowedHere DEF d
    <3>4. AddressAt(toBoard, epcqio_address, i, d)
      BY <1>1, <2>2, <3>2 DEF InOrder, CallInOrder, n, d
    <3> PICK a \in Nat : a = d
      BY <3>2
    <3>5. AddressAt(toBoard, epcqio_address, i, a)'
      <4>1. AddressAt(toBoard', epcqio_address, i, a)
        BY <1>a, <3>4
      <4> QED BY <1>1, <4>1 DEF AddressAt
    <3>6. Allowed(m.cmd, m.n, a)
      BY <3>3
    <3> PICK cmd, k : cmd = m.cmd /\ k = m.n
      OBVIOUS
    <3>7. Allowed(cmd, k, a)'
      BY <1>b, <3>6
    <3>8. Allowed(toBoard[i].cmd, toBoard[i].n, a)'
      BY <3>1, <3>7
    <3> QED BY <3>5, <3>8
  <2> QED BY <1>4, <2>1, <2>2
<1>6. JobInOrder'
  BY <1>1, <1>b DEF InOrder, JobInOrder
<1>7. CallInOrder'
  <2> SUFFICES ASSUME Running', SentW(current', part', at')
               PROVE  AddressAt(toBoard', epcqio_address, n + 2, Dest(current', part'))
    <3>1. Len(toBoard') + 1 = n + 2
      BY <1>4, <1>c
    <3> QED BY <1>1, <3>1 DEF CallInOrder, AddressAt, Dest, PageAt, SentW, SentFrom, WritesFlash, LastPart
  <2>1. /\ current' = current /\ part' = part
        /\ SentW(current, part, at) \/ (Now.do = "sendCommand" /\ Now.cmd = "ESA" /\ WritesFlash(current))
    BY <1>1, SentNext
  <2>2. CASE m.cmd = "ESA"
    <3>1. WritesFlash(current)
      BY <2>1 DEF SentW
    <3>2. m.address = d
      BY <1>1, <1>3, <2>2, <3>1, SendFits DEF d
    <3> QED BY <1>a, <2>1, <2>2, <3>2 DEF d
  <2>3. CASE m.cmd # "ESA"
    <3>1. SentW(current, part, at)
      BY <1>3, <2>1, <2>3
    <3>2. AddressAt(toBoard, epcqio_address, n + 1, d)
      BY <1>1, <3>1 DEF InOrder, CallInOrder, n, d
    <3> QED BY <1>a, <2>1, <2>3, <3>2 DEF d
  <2> QED BY <2>2, <2>3
<1> QED BY <1>5, <1>6, <1>7 DEF InOrder

\* The packet in front is taken: carried out by the board, or lost.
LEMMA OrderTaken ==
  ASSUME Base, Base', InOrder, toBoard # << >>, toBoard' = Tail(toBoard),
         epcqio_address' = IF Head(toBoard).cmd = "ESA" THEN Head(toBoard).address ELSE epcqio_address,
         UNCHANGED <<part, at, result, calls>>,
         job' = job \/ job' = [cmd |-> Head(toBoard).cmd, nwords |-> Head(toBoard).n,
                               address |-> epcqio_address]
  PROVE  InOrder'
<1> DEFINE n == Len(toBoard)
<1>1. /\ toBoard \in Seq(ToBoard) /\ n \in Nat /\ n >= 1 /\ Len(toBoard') + 1 = n
      /\ Head(toBoard) = toBoard[1] /\ \A i \in 1 .. Len(toBoard') : toBoard'[i] = toBoard[i + 1]
  BY DEF Base, NetTypeOK
<1>2. \A cmd, k, a : Allowed(cmd, k, a) => Allowed(cmd, k, a)'
  BY AllowedStays
<1>3. \A i \in 1 .. n : \A a : AddressAt(toBoard, epcqio_address, i + 1, a) =>
                             AddressAt(toBoard', epcqio_address', i, a)
  BY <1>1, AddressTail
<1> HIDE DEF n
<1>4. QueueInOrder'
  <2> SUFFICES ASSUME NEW i \in 1 .. Len(toBoard'), (toBoard[i].cmd \in {"ESE", "EWR"})'
               PROVE  (\E a \in Nat : /\ AddressAt(toBoard, epcqio_address, i, a)
                                      /\ Allowed(toBoard[i].cmd, toBoard[i].n, a))'
    BY DEF QueueInOrder
  <2>1. toBoard'[i] = toBoard[i + 1] /\ i \in 1 .. n /\ i + 1 \in 1 .. n
    BY <1>1
  <2>2. PICK a \in Nat : /\ AddressAt(toBoard, epcqio_address, i + 1, a)
                         /\ Allowed(toBoard[i + 1].cmd, toBoard[i + 1].n, a)
    BY <2>1 DEF InOrder, QueueInOrder, n
  <2>3. AddressAt(toBoard, epcqio_address, i, a)'
    <3>1. AddressAt(toBoard', epcqio_address', i, a)
      BY <1>3, <2>1, <2>2
    <3> QED BY <3>1 DEF AddressAt
  <2>4. Allowed(toBoard[i].cmd, toBoard[i].n, a)'
    BY <1>2, <2>1, <2>2
  <2> QED BY <2>3, <2>4
<1>5. JobInOrder'
  <2>1. CASE job' = job
    BY <1>2, <2>1 DEF InOrder, JobInOrder
  <2>2. CASE job' = [cmd |-> Head(toBoard).cmd, nwords |-> Head(toBoard).n, address |-> epcqio_address]
    <3>1. job'.cmd = toBoard[1].cmd /\ job'.nwords = toBoard[1].n /\ job'.address = epcqio_address
      BY <1>1, <2>2
    <3>2. CASE toBoard[1].cmd \in {"ESE", "EWR"}
      <4>1. 1 \in 1 .. n
        BY <1>1
      <4>2. PICK a \in Nat : /\ AddressAt(toBoard, epcqio_address, 1, a)
                             /\ Allowed(toBoard[1].cmd, toBoard[1].n, a)
        BY <3>2, <4>1 DEF InOrder, QueueInOrder, n
      <4>3. a = epcqio_address
        BY <4>2 DEF AddressAt
      <4> QED BY <1>2, <3>1, <4>2, <4>3 DEF JobInOrder
    <3>3. CASE toBoard[1].cmd \notin {"ESE", "EWR"}
      BY <3>1, <3>3 DEF JobInOrder, Allowed
    <3> QED BY <3>2, <3>3
  <2> QED BY <2>1, <2>2
<1>6. CallInOrder'
  <2> SUFFICES ASSUME Running, SentW(current, part, at)
               PROVE  AddressAt(toBoard', epcqio_address', n, Dest(current, part))
    BY <1>1 DEF CallInOrder, AddressAt, Dest, PageAt, SentW, SentFrom, WritesFlash, LastPart, Running, current
  <2>1. AddressAt(toBoard, epcqio_address, n + 1, Dest(current, part)) /\ n \in 1 .. n
    BY <1>1 DEF InOrder, CallInOrder, n
  <2> QED BY <1>3, <2>1
<1> QED BY <1>4, <1>5, <1>6 DEF InOrder

\* The packets stay in order as long as no ESA is lost.
OrderInv == lost \in Seq({"ESA", "other"}) /\ (~LostESA => InOrder)

LEMMA OrderInit == Init => OrderInv
<1> SUFFICES ASSUME Init PROVE OrderInv
  OBVIOUS
<1>1. toBoard = << >> /\ job = Idle /\ lost = << >> /\ ~Running
  BY DEF Init, EpcqInit, Running
<1>2. QueueInOrder /\ JobInOrder /\ CallInOrder
  BY <1>1 DEF QueueInOrder, JobInOrder, CallInOrder, Allowed, Idle
<1>3. lost \in Seq({"ESA", "other"})
  BY <1>1
<1> QED BY <1>2, <1>3 DEF OrderInv, InOrder

LEMMA OrderStep ==
  ASSUME Base, Base', OrderInv, [Next]_flashVars
  PROVE  OrderInv'
<1>1. PICK w \in {"ESA", "other"} :
        /\ lost' = lost \/ lost' = Append(lost, w)
        /\ (LoseToBoard /\ Head(toBoard).cmd = "ESA") => lost' = Append(lost, "ESA")
  BY DEF Next, Call, ServerStep, sendCommand, sendData, OpenSocket, recieveData, waitForDone, comparePage,
         storePage, return, Kill, BoardStep, BoardReceive, BoardFinish, BoardGivesUp, Deliver,
         LoseToBoard, LoseFromBoard, serverVars, netVars, whatVars, flashVars
<1>2. lost' \in Seq({"ESA", "other"})
  BY <1>1 DEF OrderInv
<1>3. ASSUME ~LostESA'
      PROVE  ~LostESA /\ ~(LoseToBoard /\ Head(toBoard).cmd = "ESA")
  <2>1. /\ \A i \in 1 .. Len(lost) : i \in 1 .. Len(lost') /\ lost'[i] = lost[i]
        /\ lost' = Append(lost, "ESA") =>
             Len(lost) + 1 \in 1 .. Len(lost') /\ lost'[Len(lost) + 1] = "ESA"
    BY <1>1 DEF OrderInv
  <2> QED BY <1>1, <1>3, <2>1 DEF LostESA
<1> SUFFICES ASSUME ~LostESA' PROVE InOrder'
  BY <1>2 DEF OrderInv
<1>4. InOrder /\ ~(LoseToBoard /\ Head(toBoard).cmd = "ESA")
  BY <1>3 DEF OrderInv
<1>5. CASE UNCHANGED flashVars
  BY <1>4, <1>5, OrderStays DEF flashVars, epcqVars, serverVars, netVars
<1>6. ASSUME NEW call, Call(call) PROVE InOrder'
  BY <1>4, <1>6, OrderStays DEF Call, epcqVars, netVars
<1>7. CASE sendCommand \/ sendData
  BY <1>4, <1>7, OrderSend
<1>8. CASE OpenSocket \/ recieveData \/ waitForDone
  <2>1. /\ UNCHANGED <<toBoard, epcqio_address, job, result, calls>>
        /\ Running /\ Now.do \notin {"return", "sendCommand"}
        /\ UNCHANGED <<part, at>> \/ Advance
    BY <1>8 DEF OpenSocket, recieveData, waitForDone, Doing, epcqVars, netVars
  <2> QED BY <1>4, <2>1, OrderStays
<1>9. CASE comparePage \/ storePage \/ return \/ Kill
  <2>1. /\ UNCHANGED <<toBoard, epcqio_address, job, calls>> /\ Running
        /\ \/ result' \in {"mismatch", "killed"}
           \/ return
           \/ Now.do \notin {"return", "sendCommand"} /\ Advance /\ UNCHANGED result
    BY <1>9 DEF comparePage, storePage, return, Kill, Doing, epcqVars, netVars
  <2>2. ~Running' \/ (Now.do \notin {"return", "sendCommand"} /\ Advance /\ UNCHANGED result)
    <3>1. return => result' \in {"ok", "error"}
      BY DoingFacts DEF return, Doing
    <3> QED BY <2>1, <3>1 DEF Running
  <2> QED BY <1>4, <2>1, <2>2, OrderStays
<1>10. CASE BoardReceive
  <2>1. /\ toBoard # << >> /\ toBoard' = Tail(toBoard)
        /\ UNCHANGED <<part, at, result, calls>>
        /\ epcqio_address' = IF Head(toBoard).cmd = "ESA" THEN Head(toBoard).address ELSE epcqio_address
        /\ job' = job \/ job' = [cmd |-> Head(toBoard).cmd, nwords |-> Head(toBoard).n,
                                 address |-> epcqio_address]
    BY <1>10 DEF BoardReceive, serverVars, epcqVars, EpcqData, EpcqSetAddress, EpcqClearBuffers, EpcqStart
  <2> QED BY <1>4, <2>1, OrderTaken
<1>11. CASE LoseToBoard
  <2>1. /\ toBoard # << >> /\ toBoard' = Tail(toBoard)
        /\ UNCHANGED <<part, at, result, calls, epcqio_address, job>>
        /\ Head(toBoard).cmd # "ESA"
    BY <1>4, <1>11 DEF LoseToBoard, serverVars, epcqVars
  <2> QED BY <1>4, <2>1, OrderTaken
<1>12. CASE BoardFinish \/ BoardGivesUp \/ Deliver \/ LoseFromBoard
  <2>1. /\ UNCHANGED <<part, at, result, calls, toBoard, epcqio_address>>
        /\ job' = job \/ job' = Idle
    BY <1>12 DEF BoardFinish, BoardGivesUp, Deliver, LoseFromBoard, serverVars, netVars, epcqVars,
                 EpcqErase, EpcqWrite, EpcqRead, EpcqStartTimeout
  <2> QED BY <1>4, <2>1, OrderStays
<1> QED BY <1>5, <1>6, <1>7, <1>8, <1>9, <1>10, <1>11, <1>12 DEF Next, ServerStep, BoardStep

\* What the board works at while no call was killed and no firmware written is the
\* command of the call's step, at the address of its part.
LEMMA JobAllowed ==
  ASSUME Base, ~killed => Line /\ Memory, ~EarlyDone, BoardFinish, job.cmd \in {"ESE", "EWR"}
  PROVE  Allowed(job.cmd, job.nwords, job.address)
<1>1. Line /\ Memory
  BY DEF EarlyDone
<1>2. Running /\ (Running => ~Loud)
  <2>1. Running
    BY <1>1, LineBoardFinish
  <2>2. current.op # "writeFirmware"
    BY <2>1 DEF EarlyDone, Base, PcOK, CallTypeOK, current
  <2> QED BY <2>1, <2>2 DEF Loud
<1>3. /\ Waits(Now) /\ job = [cmd |-> Here[at - 1].cmd, nwords |-> Here[at - 1].prefix,
                              address |-> epcqio_address]
  BY <1>1, <1>2, LineBoardFinish
<1>4. /\ at \in 1 .. Len(Here) /\ Now = Here[at] /\ part \in Nat /\ at \in Nat /\ IsCall(current)
      /\ at >= 2 /\ Here[at - 1].cmd \in {"ESE", "EWR"}
  BY <1>2, <1>3, NowFacts, DoingFacts DEF Base, CallTypeOK
<1>5. WritesFlash(current)
  <2>1. current.op # "getCompileTime"
    BY <1>2, <1>3, <1>4, ReaderFits
  <2>2. current.op # "readEPCQ"
    BY <1>2, <1>3, <1>4, ReaderFits DEF ReadFit, ReadWait
  <2> QED BY <1>4, <2>1, <2>2 DEF IsCall, WritesFlash
<1>6. WriteWait(current, part, Here, at)
  BY <1>2, <1>5, WriteFits DEF WriteFit
<1>7. KnownW(current, part, at)
  <2>1. Loud <=> LoudP(current, part, at)
    BY DEF Loud, LoudP
  <2> QED BY <1>2, <1>3, <1>4, <1>6, <2>1 DEF WriteWait
<1>8. epcqio_address = Dest(current, part)
  BY <1>1, <1>2, <1>5, <1>7 DEF Memory, AddressIn
<1>9. /\ Here[at - 1].cmd = "EWR" => Here[at - 1].prefix = PageWords /\ part >= 1 /\ part <= NPages(current)
      /\ Here[at - 1].cmd = "ESE" =>
           \/ part = 0 /\ current.op = "writeEPCQ" /\ current.erase
           \/ part >= 1 /\ part <= NPages(current) /\ current.op = "writeFirmware"
  BY <1>3, <1>4, <1>6 DEF WriteWait
<1> PICK cmd, n : cmd = Here[at - 1].cmd /\ n = Here[at - 1].prefix
  OBVIOUS
<1>10. Allowed(cmd, n, Dest(current, part))
  BY <1>2, <1>5, <1>9, AllowedHere
<1> QED BY <1>3, <1>8, <1>10

(***************************************************************************)
(* writeEPCQ and writeFirmware: no word outside what the calls were asked  *)
(* to write is erased or programmed, whatever is lost and whoever is       *)
(* killed, unless an ESA was lost and its wait could be ended by an answer *)
(* that belongs to an earlier command.                                     *)
(***************************************************************************)
THEOREM WritesInPlace == FairSpec => OthersUntouched
<1>1. ASSUME FlashInv, OrderInv, [Next]_flashVars
      PROVE  [\A a \in DOMAIN flash :
                flash'[a] # flash[a] =>
                  \/ \E i \in 1 .. Len(calls) : a \in Target(calls[i])
                  \/ EarlyDone /\ \E i \in 1 .. Len(lost) : lost[i] = "ESA"]_flashVars
  <2> SUFFICES ASSUME NEW a \in DOMAIN flash, flash'[a] # flash[a]
               PROVE  IsTarget(a) \/ (EarlyDone /\ LostESA)
    BY DEF IsTarget, LostESA
  <2>1. BoardFinish
    BY <1>1 DEF Next, Call, ServerStep, sendCommand, sendData, OpenSocket, recieveData, waitForDone,
         comparePage, storePage, return, Kill, BoardStep, BoardReceive, BoardGivesUp, Deliver,
         LoseToBoard, LoseFromBoard, epcqVars, flashVars, EpcqData, EpcqSetAddress, EpcqClearBuffers,
         EpcqStart, EpcqStartTimeout
  <2>2. \/ job.cmd = "ESE" /\ flash' = Erased(job.address)
        \/ job.cmd = "EWR" /\ \E page : /\ flash' = Programmed(job.address, page)
                                        /\ Len(page) = job.nwords
    <3>1. CASE EpcqErase
      BY <3>1 DEF EpcqErase, EraseAccepted
    <3>2. CASE EpcqWrite
      <4>1. \A k \in Nat : \A g : Len([j \in 1 .. k |-> IF j <= Len(wrbuff) THEN wrbuff[j] ELSE g]) = k
        OBVIOUS
      <4>2. job.nwords \in Nat
        BY <1>1 DEF FlashInv, Base, BoardTypeOK
      <4> QED BY <3>2, <4>1, <4>2 DEF EpcqWrite
    <3> QED BY <2>1, <3>1, <3>2 DEF BoardFinish, EpcqRead
  <2>3. ~(EarlyDone /\ LostESA) => Allowed(job.cmd, job.nwords, job.address)
    <3>1. CASE ~LostESA
      BY <1>1, <3>1 DEF OrderInv, InOrder, JobInOrder
    <3>2. CASE ~EarlyDone
      BY <1>1, <2>1, <2>2, <3>2, JobAllowed DEF FlashInv
    <3> QED BY <3>1, <3>2
  <2>4. job.cmd = "ESE" => a \in SectorOf(job.address)
    BY <2>2 DEF Erased
  <2>5. job.cmd = "EWR" => a - job.address \in 0 .. job.nwords - 1
    BY <2>2 DEF Programmed
  <2> QED BY <2>2, <2>3, <2>4, <2>5 DEF Allowed
<1>2. FlashInv /\ OrderInv /\ [Next]_flashVars => OrderInv'
  BY OrderStep, BaseStep DEF FlashInv
<1>3. FairSpec => []OrderInv
  BY <1>2, FlashInvariance, OrderInit, PTL DEF FairSpec
<1> QED BY <1>1, <1>3, FlashInvariance, PTL DEF FairSpec, OthersUntouched

-----------------------------------------------------------------------------
(***************************************************************************)
(* The receive threads                                                     *)
(***************************************************************************)
USE ThreadsAssumption, NPixAssumption, PacketWordsAssumption, GarbageAssumption

\* The thread numbers.
LEMMA IdFacts ==
  /\ 1 \in Ids
  /\ \A id \in Ids : id \in Nat /\ id >= 1 /\ id <= MaxThreads
  /\ \A n \in 1 .. MaxThreads : n \in Ids
  BY DEF Ids

USE IdFacts DEF progVars, argVars, threadVars, histVars

-----------------------------------------------------------------------------
(* Sockets *)

\* The operations on sockets keep what waits in them a sequence of packets,
\* and a packet that is received holds a positive number of words.
LEMMA SocketFacts ==
  ASSUME NEW socks, SocketsOK(socks), NEW p
  PROVE  /\ SocketsOK(udp_server(socks, p))
         /\ SocketsOK(udp_server_close(socks, p))
         /\ has_packet(socks, p) => /\ SocketsOK(after_recv(socks, p))
                                    /\ recv(socks, p) \in Nat \ {0}
<1>1. SocketsOK(udp_server(socks, p))
  BY DEF SocketsOK, udp_server
<1>2. SocketsOK(udp_server_close(socks, p))
  BY DEF SocketsOK, udp_server_close
<1>3. has_packet(socks, p) => /\ SocketsOK(after_recv(socks, p))
                              /\ recv(socks, p) \in PacketWords
  BY DEF SocketsOK, has_packet, after_recv, recv
<1> QED BY <1>1, <1>2, <1>3

\* So does the arrival of a packet.
LEMMA ArriveFacts ==
  ASSUME NEW socks, SocketsOK(socks), NEW p, NEW n \in PacketWords
  PROVE  SocketsOK(arrive(socks, Packet(p, n)))
  BY DEF SocketsOK, arrive, accepted, Packet

-----------------------------------------------------------------------------
(* Initial states *)

\* The invariant holds when the program starts.
LEMMA InitInv == AsyncInit => AsyncInv
<1> SUFFICES ASSUME AsyncInit PROVE AsyncInv
  OBVIOUS
<1>1. AsyncTypeOK
  <2>1. SocketsOK(sockets)
    BY DEF AsyncInit, NoSockets, SocketsOK
  <2>2. ThreadTypeOK
    BY <2>1 DEF AsyncInit, ThreadTypeOK
  <2>3. /\ destroyed \in -1 .. MaxThreads /\ launched \in 0 .. MaxThreads
        /\ cur \in Ids /\ npixRead \in Int
    BY DEF AsyncInit
  <2>4. ProgramTypeOK
    BY <2>3, Zenon DEF AsyncInit, ProgramTypeOK
  <2> QED BY <2>2, <2>4 DEF AsyncTypeOK
<1>2. Lifetimes
  BY DEF AsyncInit, Lifetimes, ArgsOutliveThread
<1>3. DestructorInv
  BY DEF AsyncInit, DestructorInv, InDestructor, Closing
<1>4. ImageInv
  BY DEF AsyncInit, ImageInv, Counted
<1> QED BY <1>1, <1>2, <1>3, <1>4 DEF AsyncInv

-----------------------------------------------------------------------------
(* Steps of a thread *)

\* The thread opens its file and sets nread.
LEMMA ThreadStartInv ==
  ASSUME AsyncInv, NEW id \in Ids, Alive, ThreadStart(id)
  PROVE  AsyncInv'
<1>1. AsyncTypeOK'
  BY SocketFacts DEF AsyncInv, AsyncTypeOK, ProgramTypeOK, ThreadTypeOK, ThreadStart
<1>2. Lifetimes'
  BY DEF AsyncInv, AsyncTypeOK, ProgramTypeOK, ThreadTypeOK, Lifetimes, ArgsOutliveThread, ThreadStart
<1>3. DestructorInv'
  BY DEF AsyncInv, AsyncTypeOK, ProgramTypeOK, ThreadTypeOK, Lifetimes, DestructorInv, InDestructor, Closing, ThreadStart
<1>4. ImageInv'
  BY DEF AsyncInv, AsyncTypeOK, ProgramTypeOK, ThreadTypeOK, ImageInv, Counted, ThreadStart
<1> QED BY <1>1, <1>2, <1>3, <1>4 DEF AsyncInv

\* The thread binds its socket.
LEMMA ThreadBindInv ==
  ASSUME AsyncInv, NEW id \in Ids, Alive, ThreadBind(id)
  PROVE  AsyncInv'
<1>1. AsyncTypeOK'
  BY SocketFacts DEF AsyncInv, AsyncTypeOK, ProgramTypeOK, ThreadTypeOK, ThreadBind
<1>2. Lifetimes'
  BY DEF AsyncInv, AsyncTypeOK, ProgramTypeOK, ThreadTypeOK, Lifetimes, ArgsOutliveThread, ThreadBind
<1>3. DestructorInv'
  BY DEF AsyncInv, AsyncTypeOK, ProgramTypeOK, ThreadTypeOK, Lifetimes, DestructorInv, InDestructor, Closing, ThreadBind
<1>4. ImageInv'
  BY DEF AsyncInv, AsyncTypeOK, ProgramTypeOK, ThreadTypeOK, ImageInv, Counted, ThreadBind
<1> QED BY <1>1, <1>2, <1>3, <1>4 DEF AsyncInv

\* The port is taken: the exception ends the program.
LEMMA ThreadBindFailsInv ==
  ASSUME AsyncInv, NEW id \in Ids, Alive, ThreadBindFails(id)
  PROVE  AsyncInv'
<1>1. AsyncTypeOK'
  BY SocketFacts DEF AsyncInv, AsyncTypeOK, ProgramTypeOK, ThreadTypeOK, ThreadBindFails
<1>2. Lifetimes'
  BY DEF AsyncInv, AsyncTypeOK, ProgramTypeOK, ThreadTypeOK, Lifetimes, ArgsOutliveThread, ThreadBindFails
<1>3. DestructorInv'
  BY DEF AsyncInv, AsyncTypeOK, ProgramTypeOK, ThreadTypeOK, Lifetimes, DestructorInv, InDestructor, Closing, ThreadBindFails
<1>4. ImageInv'
  BY DEF AsyncInv, AsyncTypeOK, ProgramTypeOK, ThreadTypeOK, ImageInv, Counted, ThreadBindFails
<1> QED BY <1>1, <1>2, <1>3, <1>4 DEF AsyncInv

\* A packet is taken from the socket and counted.
LEMMA ThreadReceiveInv ==
  ASSUME AsyncInv, NEW id \in Ids, Alive, ThreadReceive(id)
  PROVE  AsyncInv'
<1> DEFINE n == recv(sockets, port[id])
<1>0. n \in Nat \ {0} /\ SocketsOK(sockets')
  BY SocketFacts DEF AsyncInv, AsyncTypeOK, ProgramTypeOK, ThreadTypeOK, ThreadReceive
<1>a. /\ packet' = [packet EXCEPT ![id] = n]
      /\ nread' = [nread EXCEPT ![id] = nread[id] + n]
  BY DEF AsyncInv, AsyncTypeOK, ProgramTypeOK, ThreadTypeOK, ThreadReceive
<1>b. /\ thread[id] = "loop" /\ ~stop[id]
      /\ thread' = [thread EXCEPT ![id] = "write"]
      /\ UNCHANGED <<progVars, stop, finished, port, pix, freed, written, sent, histVars>>
  BY DEF ThreadReceive
<1> HIDE DEF n
<1>1. AsyncTypeOK'
  BY <1>0, <1>a, <1>b DEF AsyncInv, AsyncTypeOK, ProgramTypeOK, ThreadTypeOK
<1>2. Lifetimes'
  BY <1>b DEF AsyncInv, AsyncTypeOK, ProgramTypeOK, ThreadTypeOK, Lifetimes, ArgsOutliveThread
<1>3. DestructorInv'
  BY <1>b DEF AsyncInv, AsyncTypeOK, ProgramTypeOK, ThreadTypeOK, DestructorInv, InDestructor, Closing
<1>4. ImageInv'
  <2>1. \A i \in Ids : Counted(i)'
    BY <1>0, <1>a, <1>b DEF AsyncInv, AsyncTypeOK, ProgramTypeOK, ThreadTypeOK, ImageInv, Counted
  <2>2. packet[id] = 0
    BY <1>b DEF AsyncInv, ImageInv, Counted
  <2>3. written[1] + packet[1] >= NPix => written'[1] + packet'[1] >= NPix
    BY <2>2, <1>0, <1>a, <1>b DEF AsyncInv, AsyncTypeOK, ProgramTypeOK, ThreadTypeOK
  <2> QED BY <2>1, <2>3, <1>a, <1>b DEF AsyncInv, AsyncTypeOK, ProgramTypeOK, ThreadTypeOK, ImageInv
<1> QED BY <1>1, <1>2, <1>3, <1>4 DEF AsyncInv

\* The packet is written, or dropped by a full image.
LEMMA ThreadWriteInv ==
  ASSUME AsyncInv, NEW id \in Ids, Alive, ThreadWrite(id)
  PROVE  AsyncInv'
<1>a. /\ thread[id] = "write" /\ thread' = [thread EXCEPT ![id] = "loop"]
      /\ packet' = [packet EXCEPT ![id] = 0]
      /\ UNCHANGED <<progVars, argVars, sockets, sent, histVars>>
  BY DEF ThreadWrite
<1>b. /\ written'= [written EXCEPT ![id] = written'[id]]
      /\ \/ /\ pix[id] = 0 \/ written[id] < pix[id]
            /\ written'[id] = written[id] + packet[id]
         \/ /\ pix[id] # 0 /\ written[id] >= pix[id]
            /\ written'[id] = written[id]
  BY DEF AsyncInv, AsyncTypeOK, ProgramTypeOK, ThreadTypeOK, ThreadWrite, TakesPacket
<1>1. AsyncTypeOK'
  BY <1>a, <1>b DEF AsyncInv, AsyncTypeOK, ProgramTypeOK, ThreadTypeOK
<1>2. Lifetimes'
  BY <1>a DEF AsyncInv, AsyncTypeOK, ProgramTypeOK, ThreadTypeOK, Lifetimes, ArgsOutliveThread
<1>3. DestructorInv'
  BY <1>a DEF AsyncInv, AsyncTypeOK, ProgramTypeOK, ThreadTypeOK, DestructorInv, InDestructor, Closing
<1>4. ImageInv'
  <2>1. ASSUME NEW i \in Ids PROVE Counted(i)'
    <3>1. CASE i = id
      BY <3>1, <1>a, <1>b DEF AsyncInv, AsyncTypeOK, ProgramTypeOK, ThreadTypeOK, ImageInv, Counted
    <3>2. CASE i # id
      BY <3>2, <1>a, <1>b DEF AsyncInv, AsyncTypeOK, ProgramTypeOK, ThreadTypeOK, ImageInv, Counted
    <3> QED BY <3>1, <3>2
  <2>2. (pix[1] = NPix /\ written[1] + packet[1] >= NPix)
           => written'[1] + packet'[1] >= NPix
    BY <1>a, <1>b DEF AsyncInv, AsyncTypeOK, ProgramTypeOK, ThreadTypeOK
  <2>3. (tool = "take_image" /\ npixRead >= NPix) => pix[1] = NPix
    BY DEF AsyncInv, AsyncTypeOK, ProgramTypeOK, ThreadTypeOK, ImageInv
  <2> QED BY <2>1, <2>2, <2>3, <1>a DEF AsyncInv, AsyncTypeOK, ProgramTypeOK, ThreadTypeOK, ImageInv
<1> QED BY <1>1, <1>2, <1>3, <1>4 DEF AsyncInv

\* The thread has seen stop and says it is finished.
LEMMA ThreadFinishInv ==
  ASSUME AsyncInv, NEW id \in Ids, Alive, ThreadFinish(id)
  PROVE  AsyncInv'
<1>1. AsyncTypeOK'
  BY SocketFacts DEF AsyncInv, AsyncTypeOK, ProgramTypeOK, ThreadTypeOK, ThreadFinish
<1>2. Lifetimes'
  BY DEF AsyncInv, AsyncTypeOK, ProgramTypeOK, ThreadTypeOK, Lifetimes, ArgsOutliveThread, ThreadFinish
<1>3. DestructorInv'
  BY DEF AsyncInv, AsyncTypeOK, ProgramTypeOK, ThreadTypeOK, Lifetimes, DestructorInv, InDestructor, Closing, ThreadFinish
<1>4. ImageInv'
  BY DEF AsyncInv, AsyncTypeOK, ProgramTypeOK, ThreadTypeOK, ImageInv, Counted, ThreadFinish
<1> QED BY <1>1, <1>2, <1>3, <1>4 DEF AsyncInv

\* The thread ends and closes its socket.
LEMMA ThreadExitInv ==
  ASSUME AsyncInv, NEW id \in Ids, Alive, ThreadExit(id)
  PROVE  AsyncInv'
<1>1. AsyncTypeOK'
  BY SocketFacts DEF AsyncInv, AsyncTypeOK, ProgramTypeOK, ThreadTypeOK, ThreadExit
<1>2. Lifetimes'
  BY DEF AsyncInv, AsyncTypeOK, ProgramTypeOK, ThreadTypeOK, Lifetimes, ArgsOutliveThread, ThreadExit
<1>3. DestructorInv'
  BY DEF AsyncInv, AsyncTypeOK, ProgramTypeOK, ThreadTypeOK, Lifetimes, DestructorInv, InDestructor, Closing, ThreadExit
<1>4. ImageInv'
  BY DEF AsyncInv, AsyncTypeOK, ProgramTypeOK, ThreadTypeOK, ImageInv, Counted, ThreadExit
<1> QED BY <1>1, <1>2, <1>3, <1>4 DEF AsyncInv

-----------------------------------------------------------------------------
(* Steps of the program *)

\* A launch takes the next number; nothing of the new thread is there yet.
LEMMA LaunchInv ==
  ASSUME AsyncInv, NEW p \in Ports, NEW pixels \in {0, NPix}, launchAsyncThread(p, pixels),
         pc = "user", tool = "take_image" => launched = 0 /\ pixels = NPix
  PROVE  AsyncInv'
<1> DEFINE new == launched + 1
<1>0. new \in Ids /\ launched \in 0 .. MaxThreads /\ launched' = new /\ pixels \in Nat
  BY DEF AsyncInv, AsyncTypeOK, ProgramTypeOK, launchAsyncThread
<1>a. PICK memory \in {0, Garbage} : nread' = [nread EXCEPT ![new] = memory]
  BY DEF launchAsyncThread
<1>b. /\ port' = [port EXCEPT ![new] = p]
      /\ pix' = [pix EXCEPT ![new] = pixels]
      /\ thread' = [thread EXCEPT ![new] = "start"]
      /\ UNCHANGED <<tool, pc, cur, destroyed, npixRead, header, stop, finished, freed,
                     written, packet, sockets, sent, histVars>>
  BY DEF launchAsyncThread
<1>c. \A id \in Ids : id > new <=> id > launched /\ id # new
  BY <1>0
<1>d. launched' \in 0 .. MaxThreads
  BY <1>0
<1> HIDE DEF new
<1>1. AsyncTypeOK'
  <2>1. ThreadTypeOK'
    BY <1>0, <1>a, <1>b DEF AsyncInv, AsyncTypeOK, ThreadTypeOK
  <2>2. ProgramTypeOK'
    BY <1>b, <1>d DEF AsyncInv, AsyncTypeOK, ProgramTypeOK
  <2> QED BY <2>1, <2>2 DEF AsyncTypeOK
<1>2. Lifetimes'
  <2>1. \A id \in Ids : (thread'[id] = "none") <=> (id > launched')
    BY <1>0, <1>b, <1>c DEF AsyncInv, AsyncTypeOK, ThreadTypeOK, Lifetimes
  <2>2. thread[new] = "none"
    BY <1>0 DEF AsyncInv, Lifetimes, new
  <2> QED BY <2>1, <2>2, <1>0, <1>b
          DEF AsyncInv, AsyncTypeOK, ThreadTypeOK, Lifetimes, ArgsOutliveThread
<1>3. DestructorInv'
  BY <1>0, <1>b DEF AsyncInv, AsyncTypeOK, ProgramTypeOK, ThreadTypeOK, Lifetimes,
     DestructorInv, InDestructor, Closing, new
<1>4. ImageInv'
  BY <1>0, <1>a, <1>b DEF AsyncInv, AsyncTypeOK, ProgramTypeOK, ThreadTypeOK, Lifetimes,
     ImageInv, Counted, new
<1> QED BY <1>1, <1>2, <1>3, <1>4 DEF AsyncInv

\* closeAsyncThread up to setting stop.
LEMMA CloseCheckInv ==
  ASSUME AsyncInv, CloseCheck
  PROVE  AsyncInv'
<1>1. AsyncTypeOK'
  BY DEF AsyncInv, AsyncTypeOK, ProgramTypeOK, ThreadTypeOK, CloseCheck, CloseReturns, finishedSeen, isValidThread
<1>2. Lifetimes'
  BY DEF AsyncInv, AsyncTypeOK, ProgramTypeOK, ThreadTypeOK, Lifetimes, ArgsOutliveThread, CloseCheck, CloseReturns, finishedSeen, isValidThread
<1>3. DestructorInv'
  BY DEF AsyncInv, AsyncTypeOK, ProgramTypeOK, ThreadTypeOK, Lifetimes, DestructorInv, InDestructor, Closing, CloseCheck, CloseReturns, finishedSeen, isValidThread
<1>4. ImageInv'
  BY DEF AsyncInv, AsyncTypeOK, ProgramTypeOK, ThreadTypeOK, ImageInv, Counted, CloseCheck, CloseReturns, finishedSeen, isValidThread
<1> QED BY <1>1, <1>2, <1>3, <1>4 DEF AsyncInv

\* The join.
LEMMA CloseJoinInv ==
  ASSUME AsyncInv, CloseJoin
  PROVE  AsyncInv'
<1>1. AsyncTypeOK'
  BY DEF AsyncInv, AsyncTypeOK, ProgramTypeOK, ThreadTypeOK, CloseJoin
<1>2. Lifetimes'
  BY DEF AsyncInv, AsyncTypeOK, ProgramTypeOK, ThreadTypeOK, Lifetimes, ArgsOutliveThread, CloseJoin
<1>3. DestructorInv'
  BY DEF AsyncInv, AsyncTypeOK, ProgramTypeOK, ThreadTypeOK, Lifetimes, DestructorInv, InDestructor, Closing, CloseJoin
<1>4. ImageInv'
  BY DEF AsyncInv, AsyncTypeOK, ProgramTypeOK, ThreadTypeOK, ImageInv, Counted, CloseJoin
<1> QED BY <1>1, <1>2, <1>3, <1>4 DEF AsyncInv

\* The delete.
LEMMA CloseDeleteInv ==
  ASSUME AsyncInv, CloseDelete
  PROVE  AsyncInv'
<1>1. AsyncTypeOK'
  BY DEF AsyncInv, AsyncTypeOK, ProgramTypeOK, ThreadTypeOK, CloseDelete, CloseReturns
<1>2. Lifetimes'
  BY DEF AsyncInv, AsyncTypeOK, ProgramTypeOK, ThreadTypeOK, Lifetimes, ArgsOutliveThread, CloseDelete, CloseReturns
<1>3. DestructorInv'
  BY DEF AsyncInv, AsyncTypeOK, ProgramTypeOK, ThreadTypeOK, Lifetimes, DestructorInv, InDestructor, Closing, CloseDelete, CloseReturns
<1>4. ImageInv'
  BY DEF AsyncInv, AsyncTypeOK, ProgramTypeOK, ThreadTypeOK, ImageInv, Counted, CloseDelete, CloseReturns
<1> QED BY <1>1, <1>2, <1>3, <1>4 DEF AsyncInv

\* The loop of the destructor.
LEMMA DestroyStepInv ==
  ASSUME AsyncInv, DestroyStep
  PROVE  AsyncInv'
<1>1. AsyncTypeOK'
  <2>1. ThreadTypeOK'
    BY DEF AsyncInv, AsyncTypeOK, ThreadTypeOK, DestroyStep, closeAsyncThread
  <2>2. destroyed >= 0
    BY DEF AsyncInv, AsyncTypeOK, ProgramTypeOK, Lifetimes, DestroyStep
  <2>3. /\ cur' \in Ids /\ destroyed' \in -1 .. MaxThreads
        /\ launched' \in 0 .. MaxThreads
    BY <2>2 DEF AsyncInv, AsyncTypeOK, ProgramTypeOK, DestroyStep, closeAsyncThread
  <2>4. ProgramTypeOK'
    BY <2>3 DEF AsyncInv, AsyncTypeOK, ProgramTypeOK, DestroyStep, closeAsyncThread
  <2> QED BY <2>1, <2>4 DEF AsyncTypeOK
<1>2. Lifetimes'
  BY DEF AsyncInv, AsyncTypeOK, ProgramTypeOK, ThreadTypeOK, Lifetimes, ArgsOutliveThread, DestroyStep, closeAsyncThread
<1>3. DestructorInv'
  BY DEF AsyncInv, AsyncTypeOK, ProgramTypeOK, ThreadTypeOK, Lifetimes, DestructorInv, InDestructor, Closing, DestroyStep, closeAsyncThread
<1>4. ImageInv'
  BY DEF AsyncInv, AsyncTypeOK, ProgramTypeOK, ThreadTypeOK, ImageInv, Counted, DestroyStep, closeAsyncThread
<1> QED BY <1>1, <1>2, <1>3, <1>4 DEF AsyncInv

\* The program ends.
LEMMA DestroyInv ==
  ASSUME AsyncInv, Destroy, pc = "user"
  PROVE  AsyncInv'
<1>1. AsyncTypeOK'
  BY DEF AsyncInv, AsyncTypeOK, ProgramTypeOK, ThreadTypeOK, Destroy
<1>2. Lifetimes'
  BY DEF AsyncInv, AsyncTypeOK, ProgramTypeOK, ThreadTypeOK, Lifetimes, ArgsOutliveThread, Destroy
<1>3. DestructorInv'
  BY DEF AsyncInv, AsyncTypeOK, ProgramTypeOK, ThreadTypeOK, Lifetimes, DestructorInv, InDestructor, Closing, Destroy
<1>4. ImageInv'
  BY DEF AsyncInv, AsyncTypeOK, ProgramTypeOK, ThreadTypeOK, ImageInv, Counted, Destroy
<1> QED BY <1>1, <1>2, <1>3, <1>4 DEF AsyncInv

\* The program closes a thread itself.
LEMMA ExplicitCloseInv ==
  ASSUME AsyncInv, NEW id \in Ids, closeAsyncThread(id), pc = "user", tool = "other",
         explicit' = TRUE, UNCHANGED destroyed
  PROVE  AsyncInv'
<1>1. AsyncTypeOK'
  BY DEF AsyncInv, AsyncTypeOK, ProgramTypeOK, ThreadTypeOK, closeAsyncThread
<1>2. Lifetimes'
  BY DEF AsyncInv, AsyncTypeOK, ProgramTypeOK, ThreadTypeOK, Lifetimes, ArgsOutliveThread, closeAsyncThread
<1>3. DestructorInv'
  BY DEF AsyncInv, AsyncTypeOK, ProgramTypeOK, ThreadTypeOK, Lifetimes, DestructorInv, InDestructor, Closing, closeAsyncThread
<1>4. ImageInv'
  BY DEF AsyncInv, AsyncTypeOK, ProgramTypeOK, ThreadTypeOK, ImageInv, Counted, closeAsyncThread
<1> QED BY <1>1, <1>2, <1>3, <1>4 DEF AsyncInv

\* A packet arrives.
LEMMA BoardSendsInv ==
  ASSUME AsyncInv, NEW p \in Ports, NEW n \in PacketWords, BoardSends(p, n)
  PROVE  AsyncInv'
<1>1. AsyncTypeOK'
  BY ArriveFacts DEF AsyncInv, AsyncTypeOK, ProgramTypeOK, ThreadTypeOK, BoardSends
<1>2. Lifetimes'
  BY DEF AsyncInv, AsyncTypeOK, ProgramTypeOK, ThreadTypeOK, Lifetimes, ArgsOutliveThread, BoardSends
<1>3. DestructorInv'
  BY DEF AsyncInv, AsyncTypeOK, ProgramTypeOK, ThreadTypeOK, Lifetimes, DestructorInv, InDestructor, Closing, BoardSends
<1>4. ImageInv'
  BY DEF AsyncInv, AsyncTypeOK, ProgramTypeOK, ThreadTypeOK, ImageInv, Counted, BoardSends
<1> QED BY <1>1, <1>2, <1>3, <1>4 DEF AsyncInv

\* The count is asked for: what take_image is told has been counted, and all
\* that is counted is in the file or in the packet in hand.
LEMMA GetWordsReadInv ==
  ASSUME AsyncInv, NEW id \in Ids, id <= launched, getWordsRead(id), pc = "user",
         tool = "take_image" => npixRead < NPix
  PROVE  AsyncInv'
<1>a. UNCHANGED <<tool, pc, cur, destroyed, launched, header, argVars, threadVars,
                  sockets, sent, explicit>>
  BY DEF getWordsRead
<1>b. /\ npixRead' \in Int
      /\ ~freed[id] => npixRead' \in {npixRead, -1, nread[1]}
      /\ id = 1 /\ ~freed[1] => npixRead' \in {-1, nread[1]}
  BY DEF AsyncInv, AsyncTypeOK, ProgramTypeOK, ThreadTypeOK, getWordsRead, finishedSeen,
     isValidThread
<1>c. uninit' = (uninit \/ thread[id] = "start") /\ dangling' = (dangling \/ freed[id])
  BY DEF getWordsRead
<1>1. AsyncTypeOK'
  <2>1. ThreadTypeOK'
    BY <1>a DEF AsyncInv, AsyncTypeOK, ThreadTypeOK
  <2>2. ProgramTypeOK'
    BY <1>a, <1>b, <1>c DEF AsyncInv, AsyncTypeOK, ProgramTypeOK
  <2> QED BY <2>1, <2>2 DEF AsyncTypeOK
<1>2. Lifetimes'
  BY <1>a DEF AsyncInv, Lifetimes, ArgsOutliveThread
<1>3. DestructorInv'
  <2>1. ~explicit => ~freed[id]
    BY DEF AsyncInv, AsyncTypeOK, ProgramTypeOK, DestructorInv, InDestructor
  <2> QED BY <2>1, <1>a, <1>c DEF AsyncInv, DestructorInv, InDestructor, Closing
<1>4. ImageInv'
  <2>1. \A i \in Ids : Counted(i)'
    BY <1>a DEF AsyncInv, ImageInv, Counted
  <2>2. ASSUME tool = "take_image"
        PROVE  /\ launched = 1 /\ ~header
               /\ (npixRead' >= NPix /\ ~uninit') => written[1] + packet[1] >= NPix
    <3>1. launched = 1 /\ id = 1 /\ ~header /\ ~explicit /\ pix[1] = NPix
      BY <2>2 DEF AsyncInv, AsyncTypeOK, ProgramTypeOK, ImageInv
    <3>2. ~freed[1] /\ thread[1] # "none"
      BY <3>1 DEF AsyncInv, AsyncTypeOK, ProgramTypeOK, DestructorInv, InDestructor, Lifetimes
    <3>3. npixRead' \in {-1, nread[1]}
      BY <3>1, <3>2, <1>b
    <3>4. Counted(1)
      BY DEF AsyncInv, ImageInv
    <3>5. uninit' \/ thread[1] # "start"
      BY <3>1, <1>c DEF AsyncInv, AsyncTypeOK, ProgramTypeOK
    <3>6. nread[1] \in Nat /\ written[1] \in Nat /\ packet[1] \in Nat
      BY DEF AsyncInv, AsyncTypeOK, ThreadTypeOK
    <3>7. ASSUME npixRead' >= NPix, ~uninit' PROVE written[1] + packet[1] >= NPix
      BY <3>1, <3>2, <3>3, <3>4, <3>5, <3>6, <3>7 DEF Counted
    <3> QED BY <3>1, <3>7
  <2>3. ASSUME tool = "other" PROVE ~header
    BY <2>3 DEF AsyncInv, ImageInv
  <2> QED BY <2>1, <2>2, <2>3, <1>a, <1>b, <1>c
          DEF AsyncInv, AsyncTypeOK, ProgramTypeOK, ImageInv
<1> QED BY <1>1, <1>2, <1>3, <1>4 DEF AsyncInv

\* take_image has its pixels: the header is written, or the answer missed.
LEMMA HeaderInv ==
  ASSUME AsyncInv, tool = "take_image", pc = "user", npixRead >= NPix,
         \/ header' = TRUE /\ UNCHANGED pc
         \/ pc' = "blocked" /\ UNCHANGED header,
         UNCHANGED <<tool, cur, destroyed, launched, npixRead, argVars,
                     threadVars, sockets, sent, histVars>>
  PROVE  AsyncInv'
<1>1. AsyncTypeOK'
  BY DEF AsyncInv, AsyncTypeOK, ProgramTypeOK, ThreadTypeOK
<1>2. Lifetimes'
  BY DEF AsyncInv, Lifetimes, ArgsOutliveThread
<1>3. DestructorInv'
  BY DEF AsyncInv, DestructorInv, InDestructor, Closing
<1>4. ImageInv'
  BY DEF AsyncInv, ImageInv, Counted
<1> QED BY <1>1, <1>2, <1>3, <1>4 DEF AsyncInv

-----------------------------------------------------------------------------
(* The theorems *)

\* Every step keeps the invariant.
LEMMA StepInv == AsyncInv /\ [AsyncNext]_asyncVars => AsyncInv'
<1> SUFFICES ASSUME AsyncInv, [AsyncNext]_asyncVars PROVE AsyncInv'
  OBVIOUS
<1>1. CASE UNCHANGED asyncVars
  BY <1>1 DEF asyncVars, AsyncInv, AsyncTypeOK, ProgramTypeOK, ThreadTypeOK, Lifetimes,
     ArgsOutliveThread, DestructorInv, InDestructor, Closing, ImageInv, Counted
<1>2. ASSUME NEW id \in Ids, ThreadStep(id) PROVE AsyncInv'
  BY <1>2, ThreadStartInv, ThreadBindInv, ThreadBindFailsInv, ThreadReceiveInv,
     ThreadWriteInv, ThreadFinishInv, ThreadExitInv DEF ThreadStep
<1>3. CASE LibraryStep
  BY <1>3, CloseCheckInv, CloseJoinInv, CloseDeleteInv, DestroyStepInv DEF LibraryStep
<1>4. CASE TakeImage
  <2>1. CASE pc = "user" /\ launched = 0 /\ \E p \in Ports : launchAsyncThread(p, NPix)
    BY <1>4, <2>1, LaunchInv DEF TakeImage
  <2>2. CASE pc = "user" /\ launched = 1 /\ npixRead < NPix /\ getWordsRead(1)
    BY <1>4, <2>2, GetWordsReadInv DEF TakeImage
  <2>3. CASE /\ pc = "user" /\ npixRead >= NPix
             /\ \/ header' = TRUE /\ UNCHANGED pc
                \/ pc' = "blocked" /\ UNCHANGED header
             /\ UNCHANGED <<tool, cur, destroyed, launched, npixRead, argVars,
                            threadVars, sockets, sent, histVars>>
    BY <1>4, <2>3, HeaderInv DEF TakeImage
  <2>4. CASE pc = "user" /\ header /\ Destroy
    BY <2>4, DestroyInv
  <2> QED BY <1>4, <2>1, <2>2, <2>3, <2>4 DEF TakeImage
<1>5. CASE OtherProgram
  <2>1. ASSUME NEW p \in Ports, NEW pixels \in {0, NPix}, launchAsyncThread(p, pixels)
        PROVE  AsyncInv'
    BY <1>5, <2>1, LaunchInv DEF OtherProgram
  <2>2. ASSUME NEW id \in Ids, id <= launched, getWordsRead(id) PROVE AsyncInv'
    BY <1>5, <2>2, GetWordsReadInv DEF OtherProgram
  <2>3. ASSUME NEW id \in Ids, closeAsyncThread(id), explicit' = TRUE, UNCHANGED destroyed
        PROVE  AsyncInv'
    BY <1>5, <2>3, ExplicitCloseInv DEF OtherProgram
  <2>4. CASE Destroy
    BY <1>5, <2>4, DestroyInv DEF OtherProgram
  <2> QED BY <1>5, <2>1, <2>2, <2>3, <2>4 DEF OtherProgram
<1>6. ASSUME NEW p \in Ports, NEW n \in PacketWords, BoardSends(p, n) PROVE AsyncInv'
  BY <1>6, BoardSendsInv
<1> QED BY <1>1, <1>2, <1>3, <1>4, <1>5, <1>6 DEF AsyncNext

\* The inductive invariant of the receive threads and their users.
THEOREM AsyncInvariant == AsyncSpec => []AsyncInv
  BY InitInv, StepInv, PTL DEF AsyncSpec

\* No thread that still runs finds its arguments deleted by closeAsyncThread.
THEOREM ArgsOutliveThreadThm == AsyncSpec => []ArgsOutliveThread
<1>1. AsyncInv => ArgsOutliveThread
  BY DEF AsyncInv, Lifetimes
<1> QED BY <1>1, AsyncInvariant, PTL

\* A program that leaves the closing to ~ODILEServer never reads deleted
\* arguments and returns with every thread joined and every argument deleted.
THEOREM DestructorIsEnoughThm == AsyncSpec => []DestructorIsEnough
<1>1. AsyncInv => DestructorIsEnough
  <2> SUFFICES ASSUME AsyncInv, ~explicit PROVE
        /\ ~dangling /\ pc # "undefined"
        /\ pc = "returned" => \A id \in 1 .. launched : thread[id] = "exited" /\ freed[id]
    BY DEF DestructorIsEnough
  <2>1. ~dangling /\ pc # "undefined" /\ InDestructor
    BY DEF AsyncInv, DestructorInv
  <2>2. ASSUME pc = "returned", NEW id \in 1 .. launched
        PROVE  thread[id] = "exited" /\ freed[id]
    <3>1. id \in Ids /\ id <= destroyed
      BY <2>1, <2>2 DEF AsyncInv, AsyncTypeOK, ProgramTypeOK, InDestructor
    <3>2. freed[id]
      BY <2>1, <2>2, <3>1 DEF AsyncInv, AsyncTypeOK, ProgramTypeOK, InDestructor
    <3> QED BY <3>1, <3>2 DEF AsyncInv, Lifetimes, ArgsOutliveThread
  <2> QED BY <2>1, <2>2
<1> QED BY <1>1, AsyncInvariant, PTL

\* take_image's header is written behind a complete image, unless the count
\* was read before the thread had set it.
THEOREM HeaderAfterImageThm == AsyncSpec => []HeaderAfterImage
<1>1. AsyncInv => HeaderAfterImage
  BY DEF AsyncInv, ImageInv, HeaderAfterImage
<1> QED BY <1>1, AsyncInvariant, PTL
=============================================================================
