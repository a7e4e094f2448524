---------------------------- MODULE ServerConfig ----------------------------
(***************************************************************************)
(* Configuring the board from the server: an INI file is edited, read,     *)
(* changed from the program, sent to the board's registers or saved to a   *)
(* page of its flash, and loaded from there when the board is switched on. *)
(*                                                                         *)
(* The flash write itself is in OdileFlash; here a page holds what was     *)
(* written.                                                                *)
(***************************************************************************)
EXTENDS ConfigBlockList, FiniteSets

CONSTANTS
  Table,       \* the ConfigBlockList of a new server object
  BlockWords,  \* words behind the header of a block of the flash (63)
  Edits,       \* lines the user may add to the file
  MaxLines,    \* bound: lines of an edited file
  MaxOps,      \* bound: operations and edits
  Settings,    \* values the program may set
  Pages        \* configuration pages used

ASSUME BlockWordsAssumption == BlockWords \in Nat \ {0}
ASSUME PagesAssumption == 0 \in Pages /\ Pages \subseteq 0 .. 9
ASSUME SettingsAssumption == Settings \subseteq 0 .. Width - 1

VARIABLES
  blocks,      \* the ConfigBlockList of the server object
  readError,   \* what readConfigData returned
  npix,        \* words take_image waits for
  file,        \* the INI file
  savedFrom,   \* history: the blocks writeINI made the file from, or <<>>
  registers,   \* the board: register -> value
  pages,       \* the board's flash: page -> sequence of blocks
  ops          \* operations so far

serverVars == <<blocks, readError, npix>>
fileVars == <<file, savedFrom>>
boardVars == <<registers, pages>>
configVars == <<serverVars, fileVars, boardVars, ops>>

\* A register the board has reset and nobody has written since.
Reset == -1

TableEntries == UNION {{<<b, i>> : i \in Entries(Table[b])} : b \in 1 .. Len(Table)}
RegisterOf(x) == <<Table[x[1]].address,
                   Table[x[1]].config_entries[x[2]].address>>
Registers == {RegisterOf(x) : x \in TableEntries}
ResetRegisters == [r \in Registers |-> Reset]

ConfigInit ==
  /\ blocks = Table /\ readError = 0 /\ npix = 0
  /\ file \in {NoFile, File(<<>>)} /\ savedFrom = <<>>
  /\ registers = ResetRegisters
  /\ pages = [p \in Pages |-> <<>>]
  /\ ops = 0

Operation == ops < MaxOps /\ ops' = ops + 1

-----------------------------------------------------------------------------
\* The file and the server object.

Edit(line) ==
  /\ Operation
  /\ file.there /\ Len(file.lines) < MaxLines
  /\ file' = File(Append(file.lines, line)) /\ savedFrom' = <<>>
  /\ UNCHANGED <<serverVars, boardVars>>

\* Another tool is started.
NewServer ==
  /\ Operation
  /\ blocks' = Table /\ readError' = 0 /\ npix' = 0
  /\ UNCHANGED <<fileVars, boardVars>>

\* The file is read twice: once for the message, once for the answer.
readConfigData(list, inifile) == readINI(readINI(list, inifile).blocks, inifile)

Read ==
  /\ Operation
  /\ blocks' = readConfigData(blocks, file).blocks
  /\ readError' = readConfigData(blocks, file).error
  /\ UNCHANGED <<npix, fileVars, boardVars>>

setNSkips(list, n) == SetValue(list, "ADCConfigBlock", "ADC_CDS_NSkips", n)
setNSamples(list, n) == SetValue(list, "ADCConfigBlock", "ADC_CDS_NSamples", n)
setNTrigSamples(list, n) == SetValue(list, "ADCConfigBlock", "ADC_Trigger_Samples", n)

Set(n) ==
  /\ Operation
  /\ blocks' \in {setNSkips(blocks, n), setNSamples(blocks, n), setNTrigSamples(blocks, n)}
  /\ UNCHANGED <<readError, npix, fileVars, boardVars>>

WriteFile ==
  /\ Operation
  /\ file' = writeINI(blocks) /\ savedFrom' = blocks
  /\ UNCHANGED <<serverVars, boardVars>>

-----------------------------------------------------------------------------
\* The board's registers.

\* register_writer, word by word: the last word for a register stays, and
\* words of other blocks and registers are not taken.
Written(regs, words) ==
  [r \in DOMAIN regs |->
    LET hits == {k \in 1 .. Len(words) : words[k][1] = r[1] /\ words[k][2] = r[2]}
    IN IF hits = {} THEN regs[r] ELSE words[Max(hits)][3]]

\* All messages go in one packet, which arrives or is lost.
sendConfigData(regs, list, arrives) ==
  IF arrives THEN Written(regs, getConfigMessage(list)) ELSE regs

Send(arrives) ==
  /\ Operation
  /\ registers' = sendConfigData(registers, blocks, arrives)
  /\ UNCHANGED <<serverVars, fileVars, pages>>

\* Words of the image, by the settings in the table.
Words(rows, cols, nskips, averaged, output, samples) ==
  rows * cols * (IF averaged = 1 /\ nskips > 1 THEN nskips ELSE 1)
              * (IF (output \div 2) % 2 = 1 THEN 1 ELSE samples * 2)

getWordsToRead(list, rows, cols, nskips) ==
  Words(rows, cols, nskips, Value(list, "ADCConfigBlock", "ADC_CDS_NSkips"),
        Value(list, "ADCConfigBlock", "ADC_Output_Config"),
        Value(list, "ADCConfigBlock", "ADC_Trigger_Samples"))

\* take_image up to its thread: read, set from the command line, send, count.
CommandLine(list, average, nskips, trig) ==
  LET averaged == IF average THEN setNSkips(list, nskips) ELSE list
  IN IF trig > 0 THEN setNTrigSamples(averaged, trig) ELSE averaged

\* Mutant: the settings of the command line come after the send.
TakeImageSetupLate(average, nskips, trig, arrives) ==
  LET read == readConfigData(Table, file)
  IN /\ Operation
     /\ blocks' = CommandLine(read.blocks, average, nskips, trig)
     /\ readError' = read.error
     /\ registers' = sendConfigData(registers, read.blocks, arrives)
     /\ npix' = getWordsToRead(blocks', 2, 3, nskips)
     /\ UNCHANGED <<fileVars, pages>>

TakeImageSetup(average, nskips, trig, arrives) ==
  LET read == readConfigData(Table, file)
  IN /\ Operation
     /\ blocks' = CommandLine(read.blocks, average, nskips, trig)
     /\ readError' = read.error
     /\ registers' = sendConfigData(registers, blocks', arrives)
     /\ npix' = getWordsToRead(blocks', 2, 3, nskips)
     /\ UNCHANGED <<fileVars, pages>>

-----------------------------------------------------------------------------
\* The flash.

\* Mutant: all blocks but the last are given as one word too short.
FlashBlocksShort(words) ==
  LET n == Len(words)
      nblocks == n \div BlockWords + 1
  IN [i \in 1 .. nblocks |->
       [block_size |-> IF i < nblocks THEN BlockWords - 1 ELSE n % BlockWords,
        words |-> SubSeq(words, (i - 1) * BlockWords + 1,
                         IF i * BlockWords < n THEN i * BlockWords ELSE n)]]

\* The messages, with a header in front of every 63 words.
FlashBlocks(words) ==
  LET n == Len(words)
      nblocks == n \div BlockWords + 1
  IN [i \in 1 .. nblocks |->
       [block_size |-> IF i < nblocks THEN BlockWords ELSE n % BlockWords,
        words |-> SubSeq(words, (i - 1) * BlockWords + 1,
                         IF i * BlockWords < n THEN i * BlockWords ELSE n)]]

writeFlashConfig(page) ==
  /\ Operation
  /\ pages' = [pages EXCEPT ![page] = FlashBlocks(getConfigMessage(blocks))]
  /\ UNCHANGED <<serverVars, fileVars, registers>>

\* The loader counts the header as the first of block_size words.
LoadedWords(block) ==
  IF block.block_size = 0 THEN <<>> ELSE SubSeq(block.words, 1, block.block_size - 1)

\* The words the loader takes from a page, each written as it comes.
PageLoad(page) == FlattenSeq([i \in 1 .. Len(page) |-> LoadedWords(page[i])])

\* The first n of them: the flash did not answer in time for the next word or
\* header, or a block has no valid header.
Load(regs, page, n) == Written(regs, SubSeq(PageLoad(page), 1, n))

\* HW_RESET: the registers are reset and page 0 is loaded.
PowerOn(n) ==
  /\ Operation
  /\ n \in 0 .. Len(PageLoad(pages[0]))
  /\ registers' = Load(ResetRegisters, pages[0], n)
  /\ UNCHANGED <<serverVars, fileVars, pages>>

\* load_config while the board runs.
LoadPage(p, n) ==
  /\ Operation
  /\ n \in 0 .. Len(PageLoad(pages[p]))
  /\ registers' = Load(registers, pages[p], n)
  /\ UNCHANGED <<serverVars, fileVars, pages>>

ConfigNext ==
  \/ \E line \in Edits : Edit(line)
  \/ NewServer \/ Read \/ WriteFile
  \/ \E n \in Settings : Set(n)
  \/ \E arrives \in BOOLEAN : Send(arrives)
  \/ \E average \in BOOLEAN, nskips \in Settings, trig \in Settings \cup {-1},
        arrives \in BOOLEAN : TakeImageSetup(average, nskips, trig, arrives)
  \/ \E p \in Pages : writeFlashConfig(p)
  \/ \E n \in 0 .. Len(PageLoad(pages[0])) : PowerOn(n)
  \/ \E p \in Pages : \E n \in 0 .. Len(PageLoad(pages[p])) : LoadPage(p, n)

ConfigSpec == ConfigInit /\ [][ConfigNext]_configVars

-----------------------------------------------------------------------------
EntryValue(list, x) == list[x[1]].config_entries[x[2]].value
EntryName(x) == Table[x[1]].config_entries[x[2]].name

\* Entries a file cannot set: a second one of a name, and the unused ones.
Hidden(x) ==
  \/ EntryName(x) = "UNUSED"
  \/ \E i \in 1 .. x[2] - 1 : EntryName(<<x[1], i>>) = EntryName(x)

(***************************************************************************)
(* Reading an edited file gives every register what the file says of it:   *)
(* the first text given to its name in its section, when both occur in the *)
(* table's own casing, and its old value otherwise.  The error is that of  *)
(* the first bad line, and the lines behind it count all the same.         *)
(* (readConfigData, ini_parse_file, ValueHandler, readINI)                 *)
(***************************************************************************)
ReferenceRead(x) ==
  LET section == Spelled(Table[x[1]].name)
      name == Spelled(EntryName(x))
  IN IF Hidden(x) \/ ~ReferenceMentions(file.lines, section, name)
     THEN EntryValue(blocks, x)
     ELSE ReferenceValue(file.lines, section, name, 0) % Width

ReadsWhatFileSays ==
  [][Read /\ file.there /\ Len(file.lines) <= MaxLines =>
       /\ readError' = ReferenceError(file.lines)
       /\ \A x \in TableEntries : EntryValue(blocks', x) = ReferenceRead(x)]_configVars

(***************************************************************************)
(* A file written by writeINI and read back sets every register to what it *)
(* was, but for the second register of a name: that one keeps its value.   *)
(***************************************************************************)
FileRoundTrip ==
  [][Read /\ savedFrom # <<>> =>
       \A x \in TableEntries :
         EntryValue(blocks', x) = EntryValue(IF Hidden(x) THEN blocks ELSE savedFrom, x)]_configVars

(***************************************************************************)
(* After a packet of configuration words has arrived, sent alone or by     *)
(* take_image with the settings of its command line, the board agrees with *)
(* the server's table on every register, whatever it was sent before and   *)
(* whatever was lost; of two table entries with one address the later has  *)
(* it.  The table is the one take_image derives its count of words from.   *)
(***************************************************************************)
LastOfAddress(x) ==
  /\ EntryName(x) # "UNUSED"
  /\ \A y \in TableEntries : RegisterOf(y) = RegisterOf(x) => y[2] <= x[2]

ConfigArrives ==
  \/ Send(TRUE)
  \/ \E average \in BOOLEAN, nskips \in Settings, trig \in Settings \cup {-1} :
       TakeImageSetup(average, nskips, trig, TRUE)

BoardAsConfigured ==
  [][ConfigArrives =>
       \A x \in TableEntries :
         LastOfAddress(x) => registers'[RegisterOf(x)] = EntryValue(blocks', x)]_configVars

(***************************************************************************)
(* A board that loads all of a configuration on page 0 has every register  *)
(* of it, except the last word of each block of the flash: the loader      *)
(* takes the length in the header as counting the header, the server does  *)
(* not.                                                                    *)
(***************************************************************************)
PageWords(page) == FlattenSeq([i \in 1 .. Len(page) |-> page[i].words])
LastOfBlock(page, k) == k % BlockWords = 0 \/ k = Len(PageWords(page))

LoadedFromFlash ==
  [][PowerOn(Len(PageLoad(pages[0]))) =>
       LET words == PageWords(pages[0])
       IN \A k \in 1 .. Len(words) :
            LET r == <<words[k][1], words[k][2]>>
                later == {j \in k + 1 .. Len(words) : <<words[j][1], words[j][2]>> = r}
            IN later = {} =>
                 registers'[r] = IF LastOfBlock(pages[0], k) THEN Reset
                                 ELSE words[k][3]]_configVars
=============================================================================
