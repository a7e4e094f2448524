CONSTANTS
  Table <- MCTable
  BlockWords = 3
  Edits <- MCEdits
  MaxLines = 3
  MaxOps = 4
  Settings = {2}
  Pages = {0, 1}
SPECIFICATION ConfigSpec
PROPERTIES ReadsWhatFileSays FileRoundTrip BoardAsConfigured LoadedFromFlash
CHECK_DEADLOCK FALSE
