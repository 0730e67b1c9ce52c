CONSTANTS
  ro = ro
  rw = rw
  no = no
  Access <- MCAccess
  TransferIds = {t1}
  NoId = NoId
  Garbled = Garbled
  Packet = 2
  Word = 8
  Offsets = {1}
  Lengths = {0, 5}
  Timed = {TRUE, FALSE}
  AckRates = {0, 2}
  PreferredRate = 0
  DefaultRate = 1
  Numbers = {0, 1, 2}
  FilesPerReply = 4
  FaultyApp = TRUE

SPECIFICATION FairSpec
INVARIANTS TypeOK ContinuationSound FlowControl WindowNumbering CompleteIsQuiet Contiguous CompleteIsWhole
PROPERTY ContinuationEnds
CHECK_DEADLOCK TRUE
