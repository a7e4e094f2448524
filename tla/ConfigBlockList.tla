--------------------------- MODULE ConfigBlockList ---------------------------
(***************************************************************************)
(* The server's table of the board's configuration registers               *)
(* (server/src/ConfigBlockList.cpp) and the operations of a block          *)
(* (server/src/ConfigRegisterBlock.cpp).                                   *)
(*                                                                         *)
(* A configuration word is its three fields: block address, register       *)
(* address and 16-bit value.                                               *)
(***************************************************************************)
EXTENDS IniFile, SequencesExt

Width == 65536   \* values are uint16_t

ConfigEntry(default, address, name) ==
  [value |-> default, default_value |-> default, address |-> address, name |-> name]

UNUSED_CONFIG(address) == ConfigEntry(0, address, "UNUSED")

ConfigRegisterBlock(address, name, entries) ==
  [address |-> address, name |-> name, config_entries |-> entries]

baseEnetBlock == <<
  ConfigEntry(\h4455, \h00, "SFP0_MAC0"),
  ConfigEntry(\h2233, \h01, "ENET_MAC1"),
  ConfigEntry(\hEE11, \h02, "ENET_MAC2"),
  UNUSED_CONFIG(\h03),
  ConfigEntry(\h7434, \h04, "SFP_ServerMAC0"),
  ConfigEntry(\h1151, \h05, "SFP_ServerMAC1"),
  ConfigEntry(\h6CB3, \h06, "SFP_ServerMAC2"),
  UNUSED_CONFIG(\h07),
  ConfigEntry(\h0003, \h08, "SFP_IP0"),
  ConfigEntry(\hC0A8, \h09, "ENET_IP1"),
  ConfigEntry(\h0001, \h0A, "SFP_ServerIP0"),
  ConfigEntry(\hC0A8, \h0B, "ENET_ServerIP1"),
  ConfigEntry(\h0058, \h0C, "SFP_TSE0"),
  ConfigEntry(\h0050, \h0D, "ENET_TSE1"),
  ConfigEntry(\h1000, \h0E, "SFP0_UDP"),
  UNUSED_CONFIG(\h0F),
  ConfigEntry(\h0555, \h10, "ENET_FIFO"),
  ConfigEntry(\h0000, \h11, "ENET_CounterEnable"),
  ConfigEntry(\h012C, \h12, "ENET_PacketSize"),
  UNUSED_CONFIG(\h13),
  ConfigEntry(\h0007, \h14, "ENET_HeaderConfig"),
  UNUSED_CONFIG(\h15) >>

SFP0ConfigBlock == ConfigRegisterBlock(\h10, "SFP0ConfigBlock", baseEnetBlock)

SFP1ConfigBlock ==
  ConfigRegisterBlock(\h11, "SFP1ConfigBlock",
    [baseEnetBlock EXCEPT ![1] = ConfigEntry(\h4456, \h00, "SFP1_MAC0"),
                          ![9] = ConfigEntry(\h0004, \h08, "SFP_IP0"),
                          ![15] = ConfigEntry(\h1100, \h0E, "SFP1_UDP")])

RJ45ConfigBlock ==
  ConfigRegisterBlock(\h12, "RJ45ConfigBlock",
    [baseEnetBlock EXCEPT ![1] = ConfigEntry(\h4457, \h00, "RJ45_MAC0"),
                          ![5] = ConfigEntry(\h0275, \h04, "RJ45_ServerMAC0"),
                          ![6] = ConfigEntry(\h0C22, \h05, "RJ45_ServerMAC1"),
                          ![7] = ConfigEntry(\h000E, \h06, "RJ45_ServerMAC2"),
                          ![9] = ConfigEntry(\h0105, \h08, "RJ45_IP0"),
                          ![11] = ConfigEntry(\h0101, \h0A, "RJ45_ServerIP0"),
                          ![13] = ConfigEntry(\h00D8, \h0C, "RJ45_TSE0"),
                          ![15] = ConfigEntry(\h1200, \h0E, "RJ45_UDP")])

baseTSEConfigBlock == <<
  ConfigEntry(\h0140, \h00, "TSE_MDIO_Ctrl0_OR"),
  ConfigEntry(\h937F, \h01, "TSE_MDIO_Ctrl0_AND"),
  ConfigEntry(\h0000, \h02, "TSE_MDIO_AN_OR"),
  ConfigEntry(\hFC1F, \h03, "TSE_MDIO_AN_AND"),
  ConfigEntry(\h0000, \h04, "TSE_MDIO_1000BASE"),
  ConfigEntry(\hFFFF, \h05, "TSE_MDIO_1000BASE"),
  ConfigEntry(\hC000, \h06, "TSE_MDIO_MDIOCtrl"),
  ConfigEntry(\hFFFF, \h07, "TSE_MDIO_PHYCtrl"),
  ConfigEntry(\h0004, \h08, "TSE_MDIO_ExtPHYStat"),
  ConfigEntry(\hFFF4, \h09, "TSE_MDIO_ExtPHYStat"),
  ConfigEntry(\h0000, \h0A, "TSE_MDIO_ExtPHYCtrl"),
  ConfigEntry(\hFFFF, \h0B, "TSE_MDIO_ExtPHYCtrl"),
  ConfigEntry(\h03D8, \h0C, "TSE_MDIO_ResetCycles0"),
  ConfigEntry(\h0000, \h0D, "TSE_MDIO_ResetCycles1"),
  ConfigEntry(\h4240, \h0C, "TSE_MDIO_WaitCycles0"),
  ConfigEntry(\h000F, \h0D, "TSE_MDIO_WaitCycles1") >>

ADCConfigBlock ==
  ConfigRegisterBlock(\h20, "ADCConfigBlock", <<
    ConfigEntry(\h0004, \h00, "ADC_Tap_Delays"),
    ConfigEntry(\h0000, \h02, "ADC_Output_Config"),
    ConfigEntry(\h0001, \h04, "ADC_CDS_NSkips"),
    ConfigEntry(\h0001, \h05, "ADC_CDS_Config"),
    ConfigEntry(\h0001, \h06, "ADC_CDS_NSamples"),
    ConfigEntry(\h0000, \h07, "ADC_Trigger_Samples"),
    ConfigEntry(\h0000, \h08, "ADC_Trigger_Delay"),
    ConfigEntry(\h0001, \h09, "ADC_Data_Multiplier") >>)

\* The list as the constructor leaves it.
DefaultBlocks == <<
  SFP0ConfigBlock, SFP1ConfigBlock, RJ45ConfigBlock,
  ConfigRegisterBlock(\h13, "SFP0TSEConfigBlock", baseTSEConfigBlock),
  ConfigRegisterBlock(\h14, "SFP1TSEConfigBlock", baseTSEConfigBlock),
  ConfigRegisterBlock(\h15, "RJ45TSEConfigBlock", baseTSEConfigBlock),
  ADCConfigBlock >>

write_all == TRUE

-----------------------------------------------------------------------------
\* Operations of a block.

Entries(block) == 1 .. Len(block.config_entries)

\* The first entry of a name, or 0 (the code's -1).
findEntry(block, name) ==
  LET found == {i \in Entries(block) : block.config_entries[i].name = name}
  IN IF found = {} THEN 0 ELSE CHOOSE i \in found : \A j \in found : i <= j

\* The entries a message or a file is made of.
Chosen(block, all) ==
  SelectSeq(block.config_entries,
    LAMBDA e : (e.value # e.default_value \/ all) /\ e.name # "UNUSED")

ConfigWord(address, entry) == <<address, entry.address, entry.value>>

createConfigMessages(block, all) ==
  LET chosen == Chosen(block, all)
  IN [i \in 1 .. Len(chosen) |-> ConfigWord(block.address, chosen[i])]

\* A heading, then for each entry a comment with its description and its pair.
blockWriteINI(block, all) ==
  LET chosen == Chosen(block, all)
  IN <<SectionLine(Spelled(block.name))>>
     \o FlattenSeq([i \in 1 .. Len(chosen) |->
          <<CommentLine, PairLine(Spelled(chosen[i].name), Number(chosen[i].value))>>])

\* Every field found by its exact name sets the first entry of that name.
blockReadINI(block, reader) ==
  LET section == Spelled(block.name)
      fields == GetFields(reader, section)
      set(i) == LET name == block.config_entries[i].name
                IN Spelled(name) \in fields /\ findEntry(block, name) = i
  IN IF section \notin GetSections(reader) THEN block
     ELSE [block EXCEPT !.config_entries =
            [i \in Entries(block) |->
              IF ~set(i) THEN @[i]
              ELSE [@[i] EXCEPT !.value =
                     GetInteger(reader, section, Spelled(block.config_entries[i].name), 0) % Width]]]

-----------------------------------------------------------------------------
\* Operations of the list.

\* Mutant: the messages are made with the default of getConfigMessages.
getConfigMessageChanged(blocks) ==
  FlattenSeq([b \in 1 .. Len(blocks) |-> createConfigMessages(blocks[b], FALSE)])

getConfigMessage(blocks) ==
  FlattenSeq([b \in 1 .. Len(blocks) |-> createConfigMessages(blocks[b], write_all)])

writeINI(blocks) ==
  File(FlattenSeq([b \in 1 .. Len(blocks) |-> blockWriteINI(blocks[b], TRUE)]))

\* The list after a file was read, and the error returned.
readINI(blocks, file) ==
  LET parsed == ini_parse(file)
  IN [blocks |-> [b \in 1 .. Len(blocks) |-> blockReadINI(blocks[b], parsed.reader)],
      error |-> parsed.error]

\* getBlock(block).getConfigEntry(name).value
Value(blocks, block, name) ==
  LET b == CHOOSE k \in 1 .. Len(blocks) : blocks[k].name = block
  IN blocks[b].config_entries[findEntry(blocks[b], name)].value

SetValue(blocks, block, name, value) ==
  LET b == CHOOSE k \in 1 .. Len(blocks) : blocks[k].name = block
  IN [blocks EXCEPT ![b].config_entries[findEntry(blocks[b], name)].value = value]
=============================================================================
