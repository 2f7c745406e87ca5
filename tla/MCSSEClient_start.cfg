SPECIFICATION Spec
CONSTANTS
  Controllers = {t1}
  Reader = reader
  MaxConns = 3
  MaxEvents = 2
  WithId = {1}
  Verdicts = {TRUE, FALSE}
  MayAbandon = FALSE
  MayRestart = FALSE
PROPERTIES
  StartSurvivesInterrupt
