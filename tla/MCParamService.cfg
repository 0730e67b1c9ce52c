CONSTANTS
  p1 = p1
  p2 = p2
  p3 = p3
  p4 = p4
  p5 = p5
  p6 = p6
  bad = bad
  great = great
  All = All
  Params <- MCParams
  Extended <- MCExtended
  Requests <- MCRequests
  TooGreat = {great}
  DescPerReply = 2
  ValuesPerReply = 3
  BufferCount = 6

SPECIFICATION FairSpec
INVARIANTS TypeOK RemainingIsExact IndexInArray
PROPERTIES ImplementsListing ListingEnds
CHECK_DEADLOCK TRUE
