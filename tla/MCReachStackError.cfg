CONSTANTS
  ro = ro
  Access <- MCAccess
  TransferIds = {t1}
  NoId = NoId
  Garbled = Garbled
  None = None
  Packet = 1
  Word = 3
  Offsets = {0}
  Lengths = {2}
  Timed = {FALSE}
  AckRates = {2}
  PreferredRate = 0
  DefaultRate = 1
  Numbers = {1}
  FilesPerReply = 4
  FaultyApp = FALSE
  TransactionIds = {0, 1}
  Prompts <- MCPrompts
  MaxMessages = 1

SPECIFICATION Spec
PROPERTY RepliesToItsPrompt
CHECK_DEADLOCK TRUE
