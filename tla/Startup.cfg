CONSTANTS
  Base = 4
  Digits = 4
  V4Digits = 2
  HalfDigits = 2
  Word = 16
  BatchSize = 2
  MaxClients = 4
  Config <- MCConfig
  Stage <- MCStage
SPECIFICATION Spec
INVARIANTS TypeOK TableIsRange LookupInvertsTable KickedOnce InRange RateKept
  WorkersBeforeClients AppendsApart
PROPERTY Terminates
CHECK_DEADLOCK FALSE
