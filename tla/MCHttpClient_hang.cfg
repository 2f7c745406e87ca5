SPECIFICATION Spec
CONSTANTS
  Controllers = {t1}
  Reader = reader
  MaxSocks = 2
  MaxResps = 2
  MaxPools = 2
INVARIANTS
  StopNeverHangs
