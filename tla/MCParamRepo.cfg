CONSTANTS
  p1 = p1
  p2 = p2
  v0 = v0
  v1 = v1
  v2 = v2
  Unknown = Unknown
  Untagged = Untagged
  NoSerial = NoSerial
  Serials = {s1, s2}
  Params <- MCParams
  Persistent <- MCPersistent
  Generated = p2
  Default <- MCDefault
  Values <- MCValues
  MaxWrites = 2
  MaxMishaps = 3
  Faulty = TRUE

SPECIFICATION Spec
INVARIANTS TypeOK ReadsWhatIsSaved AcknowledgedIsSaved SerialSurvives
CHECK_DEADLOCK TRUE
