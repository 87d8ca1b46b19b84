CONSTANTS
  MaxTXTS = 4
  MaxPackets = 4
  DataSet = {"parent", "default"}
  MaxCalls = 4
  SeqWord = 3
  Period = 3
  MaxTime = 8
SPECIFICATION Spec
INVARIANTS TypeOK ShiftNeedsFailure OwnStampFound AnswerFits BusyWithinPeriod
PROPERTY ReadEnds
CHECK_DEADLOCK FALSE
