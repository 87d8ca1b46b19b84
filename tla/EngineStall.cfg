SPECIFICATION FairSpec
CONSTANTS
    NumClients = 2
    PacketThreads = {p1}
    NumClientRetransmitProcs = 1
    NumClientRestartProcs = 1
    OpQueueSize = 1
    RestartClientsAfterDuration = FALSE
    DuplicatingServer = FALSE
    PromptHandlers = FALSE
PROPERTY RetransmitsUntilDone
CHECK_DEADLOCK FALSE
