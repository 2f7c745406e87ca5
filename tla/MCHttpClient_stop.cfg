\* Two controllers, with the client's own pool and with a supplied one, on a
\* platform where readers can be woken and on one where they cannot.
SPECIFICATION FairSpec
CONSTANTS
  Controllers = {t1, t2}
  Reader = reader
  MaxSocks = 3
  MaxResps = 2
  MaxPools = 2
INVARIANTS
  TypeOK
  NotPooledWhileRead
  GivenPoolStays
PROPERTIES
  ReaderWakes
  StopReturns
  IdleAreClosed
