CONSTANTS
  Client = {"c1", "c2"}
  Load <- MCLoad
  NumRXWorkers = 1
  NumPacketParsers = 2
  NumPacketProcessors = 2
  NumTXWorkers = 1
  QueueSize = 1
  OpQueueSize = 1
  RestartClientsAfterDuration = TRUE
  Word32 = 8
  PickerStart = {7}
  MaxBuffers = 4
  Idle = Idle
  None = None
SPECIFICATION Spec
INVARIANTS TypeOK SingleOwner HandledAsReceived SentAsMade
PROPERTIES AllHandled AllSent
CHECK_DEADLOCK FALSE
