\* Two controllers and an application with every habit.
SPECIFICATION Spec
CONSTANTS
  Controllers = {t1, t2}
  Reader = reader
  MaxConns = 3
  MaxEvents = 2
  WithId = {1}
  Verdicts = {TRUE, FALSE}
  MayAbandon = TRUE
  MayRestart = TRUE
SYMMETRY Symmetry
INVARIANTS
  TypeOK
  NoConnectionLost
  OneOwner
  LastIdIsLastSeen
  NoStaleInterrupt
PROPERTIES
  CallTakesEffect
  FaultMeansInactive
  StartsAlternate
