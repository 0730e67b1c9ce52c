CONSTANTS
  p1 = p1
  p2 = p2
  p3 = p3
  bad = bad
  NoPid = NoPid
  Pids = {p1, p2, p3, bad}
  Known = {p1, p2, p3}
  Changing = {p1}
  Slots <- MCSlots
  Values <- MCValues
  Requests <- MCRequests
  Word = 4
  Poll = 1

SPECIFICATION FairSpec
INVARIANTS TypeOK OneSlotEach NotTooOften OnlyChanges NeverSilent
PROPERTIES ChangesAreTold
CHECK_DEADLOCK TRUE
