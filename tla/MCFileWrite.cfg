CONSTANTS
  From = 3
  Length = 11
  Rate = 3
  PreferredRate = 0
  Packet = 2
  Word = 16
  MaxInbox = 2
  FaultyApp = FALSE
  NoId = NoId
  Garbled = Garbled
  None = None

SPECIFICATION FairSpec
INVARIANTS TypeOK DoneIsIntact OutsideUntouched
PROPERTIES ImplementsCopy TransferEnds
CHECK_DEADLOCK TRUE
