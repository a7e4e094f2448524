--------------------------- MODULE MCServerConfig ---------------------------
(***************************************************************************)
(* Lines that set an ADC register in every way the parser tells apart:     *)
(* right and wrong casing, a name in the wrong section, numbers that are   *)
(* too large, text, continuations, comments and lines in error.            *)
(***************************************************************************)
EXTENDS ServerConfig

\* A part of the table with a name given twice (1000BASE), an address given
\* twice (0x0C) and the settings take_image counts with.
Part(block, indices) ==
  [block EXCEPT !.config_entries = [i \in 1 .. Len(indices) |-> @[indices[i]]]]

MCTable == << Part(DefaultBlocks[4], <<5, 6, 13, 15>>),
              Part(ADCConfigBlock, <<2, 3, 5, 6>>) >>

Adc == "ADCConfigBlock"
Skips == "ADC_CDS_NSkips"

MCEdits == {
  SectionLine(Spelled(Adc)),
  SectionLine(Misspelled(Adc)),
  PairLine(Spelled(Skips), Number(3)),
  PairLine(Misspelled(Skips), Number(Width + 4)),
  PairLine(Spelled(Skips), Empty),
  Line("bare", TRUE, NoName, Number(5)),
  Line("section", TRUE, Spelled(Adc), Empty),
  Line("unclosed", FALSE, NoName, Empty),
  CommentLine }

(***************************************************************************)
(* The whole table: 107 words for 101 registers, and nine registers whose  *)
(* name in the file is that of another.  Of the two blocks in flash the    *)
(* last words are those of SFP0's TSE_MDIO_ExtPHYCtrl AND bits and of      *)
(* ADC_Data_Multiplier.                                                    *)
(***************************************************************************)
NameOf(x) == DefaultBlocks[x[1]].config_entries[x[2]].name
Used == {x \in UNION {{<<b, i>> : i \in Entries(DefaultBlocks[b])} : b \in 1 .. 7} :
           NameOf(x) # "UNUSED"}

ASSUME WholeTable ==
  LET image == FlattenSeq([b \in 1 .. 7 |-> createConfigMessages(DefaultBlocks[b], TRUE)])
  IN /\ Len(image) = 107 /\ Cardinality(Used) = 107
     /\ Cardinality({<<w[1], w[2]>> : w \in Range(image)}) = 101
     /\ Cardinality({<<x[1], NameOf(x)>> : x \in Used}) = 98
     /\ image[63] = <<\h13, \h0B, \hFFFF>> /\ image[107] = <<\h20, \h09, 1>>
=============================================================================
