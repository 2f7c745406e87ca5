\* One controller, and iterators that are read to their end, under fairness.
SPECIFICATION FairSpec
CONSTANTS
  Controllers = {t1}
  Reader = reader
  MaxConns = 2
  MaxEvents = 4
  WithId = {1, 3}
  Verdicts = {TRUE, FALSE}
  MayAbandon = FALSE
  MayRestart = FALSE
INVARIANTS
  NothingSkipped
PROPERTIES
  NothingRepeated
  ImplementsResumable
  DroppedIsClosed
  ClosedSessionEnds
