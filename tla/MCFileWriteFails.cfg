CONSTANTS
  From = 3
  Length = 6
  Rate = 3
  PreferredRate = 0
  Packet = 2
  Word = 12
  MaxInbox = 2
  FaultyApp = TRUE
  NoId = NoId
  Garbled = Garbled
  None = None

SPECIFICATION Spec
PROPERTIES CompleteIsWritten
CHECK_DEADLOCK TRUE
