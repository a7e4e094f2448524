---------------------------- MODULE MCOdileFlash ----------------------------
EXTENDS OdileFlash

MCData == {"a", "b", "c", "d", "e", "old", Blank, Corrupt}

WriteConfig(data, start) == [op |-> "writeEPCQ", data |-> data, start |-> start, erase |-> TRUE]
NoErase(data, start) == [op |-> "writeEPCQ", data |-> data, start |-> start, erase |-> FALSE]
WriteFirmware(data, end, start) == [op |-> "writeFirmware", data |-> data, end |-> end, start |-> start]
Read(start, words) == [op |-> "readEPCQ", start |-> start, words |-> words]

\* A page that is exactly full, a sector that is, more than a sector, a
\* firmware whose end is in its second page and one that is not aligned;
\* then a second call, of the same words, over what the first has left, with
\* an erase of its own or without.
MCCalls ==
  << { WriteConfig(<<"a", "a">>, 4), WriteConfig(<<"a", "b", "c", "d">>, 0),
       WriteConfig(<<"a", "b", "c", "d", "e">>, 0),
       WriteFirmware(<<"a", "b", "c">>, 3, 0), WriteFirmware(<<"a">>, 0, 2),
       Read(2, 5), [op |-> "getCompileTime"] },
     { NoErase(<<"a">>, 4), WriteConfig(<<"a">>, 4), Read(2, 1) } >>

\* One sector blank, the other used.
MCFlash0 ==
  { [a \in 0 .. FlashWords - 1 |-> IF Sector(a) = used THEN "old" ELSE Blank] : used \in {0, 1} }
=============================================================================
