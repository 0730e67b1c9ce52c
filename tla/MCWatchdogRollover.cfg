CONSTANTS
  Word = 11
  Timeouts = {0, 3, 5}
  MaxGap = 4
  SYS_TICK_RATE = 3
  Seconds = {0, 50}
  Zones = {0, 2}
  None = None

SPECIFICATION DeviceSpec
INVARIANT TimeoutOccurred
CHECK_DEADLOCK TRUE
