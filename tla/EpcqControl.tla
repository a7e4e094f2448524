---------------------------- MODULE EpcqControl -----------------------------
(***************************************************************************)
(* The flash memory of the board and the controller in front of it         *)
(* (top_remote_update/epcqio_control.vhd), as the DAQ server meets them:   *)
(* one command at a time, in the order of the data state machine.          *)
(* Addresses and lengths are counted in 32-bit words.                      *)
(***************************************************************************)
EXTENDS Naturals, Sequences

CONSTANTS
  Data,          \* words the flash can hold
  PageWords,     \* words of a flash page (64)
  SectorWords,   \* words of a sector, the unit of erasing (16384)
  FlashWords,    \* words of the flash
  WrDepth,       \* words of the write buffer (512)
  RdLimit,       \* words read before the read buffer counts as full (127)
  Blank,         \* an erased word, 0xFFFFFFFF
  Corrupt        \* a word nobody asked for

ASSUME FlashAssumption ==
  /\ PageWords \in Nat \ {0}
  /\ SectorWords \in Nat \ {0} /\ SectorWords % PageWords = 0
  /\ FlashWords \in Nat \ {0} /\ FlashWords % SectorWords = 0
  /\ WrDepth \in Nat /\ RdLimit \in Nat
  /\ Blank \in Data /\ Corrupt \in Data /\ Blank # Corrupt

VARIABLES
  flash,            \* the flash array
  epcqio_address,   \* the address register of the command parser
  wrbuff,           \* words waiting to be programmed
  job,              \* the command in the data state machine
  last_cmd          \* the last command the flash side started

epcqVars == <<flash, epcqio_address, wrbuff, job, last_cmd>>

Idle == [cmd |-> "IDLE", nwords |-> 0, address |-> 0]

EpcqInit ==
  /\ epcqio_address = 0 /\ wrbuff = << >>
  /\ job = Idle /\ last_cmd = "none"

-----------------------------------------------------------------------------
Sector(a) == a \div SectorWords
SectorOf(a) == {i \in DOMAIN flash : Sector(i) = Sector(a)}

\* Programming only clears bits: a word that is not blank is damaged.
Program(old, new) ==
  CASE new = Blank \/ new = old -> old
    [] old = Blank -> new
    [] OTHER -> Corrupt

Erased(a) == [i \in DOMAIN flash |-> IF i \in SectorOf(a) THEN Blank ELSE flash[i]]
Programmed(a, page) ==
  [i \in DOMAIN flash |->
     IF i - a \in 0 .. Len(page) - 1 THEN Program(flash[i], page[i - a + 1]) ELSE flash[i]]
Words(a, n) == [k \in 1 .. n |-> flash[(a + k - 1) % FlashWords]]
\* A read of no words runs until the read buffer is full.
Contents(a, n) == Words(a, IF n = 0 THEN RdLimit ELSE n)

-----------------------------------------------------------------------------
\* Commands of the parser.
EpcqSetAddress(a) ==
  /\ epcqio_address' = a
  /\ UNCHANGED <<flash, wrbuff, job, last_cmd>>

EpcqClearBuffers ==
  /\ wrbuff' = << >>
  /\ UNCHANGED <<flash, epcqio_address, job, last_cmd>>

\* A start pulse is looked at in IDLE only: a busy controller ignores it.
EpcqStart(cmd, n) ==
  /\ job' = IF job = Idle
            THEN [cmd |-> cmd, nwords |-> n, address |-> epcqio_address]
            ELSE job
  /\ UNCHANGED <<flash, epcqio_address, wrbuff, last_cmd>>

EpcqData(words) ==
  /\ wrbuff' = SubSeq(wrbuff \o words, 1,
                      IF Len(wrbuff) + Len(words) > WrDepth
                      THEN WrDepth ELSE Len(wrbuff) + Len(words))
  /\ UNCHANGED <<flash, epcqio_address, job, last_cmd>>

-----------------------------------------------------------------------------
\* The flash side. An erase right after an erase is not started.
EraseAccepted == job.cmd = "ESE" /\ last_cmd # "ESE"

EpcqErase ==
  /\ EraseAccepted
  /\ flash' = Erased(job.address)
  /\ job' = Idle /\ last_cmd' = "ESE"
  /\ UNCHANGED <<epcqio_address, wrbuff>>

\* WAIT_START gives up after its timer, without reporting anything.
EpcqStartTimeout ==
  /\ job.cmd = "ESE" /\ ~EraseAccepted
  /\ job' = Idle
  /\ UNCHANGED <<flash, epcqio_address, wrbuff, last_cmd>>

\* An empty write buffer is not looked at: its output stays what it was.
EpcqWrite ==
  /\ job.cmd = "EWR"
  /\ \E garbage \in {Blank, Corrupt} :
       flash' = Programmed(job.address,
                           [k \in 1 .. job.nwords |->
                              IF k <= Len(wrbuff) THEN wrbuff[k] ELSE garbage])
  /\ wrbuff' = SubSeq(wrbuff, job.nwords + 1, Len(wrbuff))
  /\ job' = Idle /\ last_cmd' = "EWR"
  /\ UNCHANGED epcqio_address

EpcqRead ==
  /\ job.cmd = "ERD"
  /\ job' = Idle /\ last_cmd' = "ERD"
  /\ UNCHANGED <<flash, epcqio_address, wrbuff>>
=============================================================================
