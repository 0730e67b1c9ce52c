SPECIFICATION Spec
CONSTANTS
  Prompts <- MCPrompts
  Replies <- MCReplies
  Lines <- MCLines
  Errors <- MCErrors
  Values <- MCValues
  Garbage <- MCGarbage
INVARIANTS TypeOK ArrivesAsMeant CutIsNoOther SizesAreDeclared
