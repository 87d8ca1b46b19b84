SPECIFICATION FairSpec
CONSTANTS
    NumClients = 1
    PacketThreads = {p1}
    NumClientRetransmitProcs = 1
    NumClientRestartProcs = 1
    OpQueueSize = 4
    RestartClientsAfterDuration = TRUE
    DuplicatingServer = FALSE
    PromptHandlers = TRUE
PROPERTIES RetransmitsUntilDone ReachesDone StartsOver
CHECK_DEADLOCK FALSE
