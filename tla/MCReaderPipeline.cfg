SPECIFICATION Spec
CONSTANTS
  None = None
  Byte <- AllBytes
  Lines <- SomeLines
  Terminators <- AllTerminators
  MaxChunk = 5
  MaxAhead = 3
  MaxBlock = 2
INVARIANTS
  TypeOK
  SameItems
  LastIdIsOfYielded
