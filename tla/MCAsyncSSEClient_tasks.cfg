\* Two controllers, cancellation anywhere, and an application that drops
\* iterators, under fairness.
SPECIFICATION FairSpec
CONSTANTS
  Controllers = {t1, t2}
  MaxConns = 2
  MaxEvents = 2
  MaxSessions = 2
  WithId = {1}
  Verdicts = {TRUE, FALSE}
  MayDrop = TRUE
  MayRestart = FALSE
  SlowClosers = FALSE
INVARIANTS
  TypeOK
  NoConnectionLost
  CloseClosesActive
  FlagIsCurrent
  LastIdIsLastSeen
  GivenSessionStaysOpen
  SessionNotForgotten
PROPERTIES
  ImplementsResumable
  ClosedSessionEnds
