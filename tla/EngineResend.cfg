SPECIFICATION Spec
CONSTANTS
    NumClients = 1
    PacketThreads = {p1}
    NumClientRetransmitProcs = 1
    NumClientRestartProcs = 1
    OpQueueSize = 2
    RestartClientsAfterDuration = FALSE
    DuplicatingServer = FALSE
    PromptHandlers = FALSE
PROPERTY ResendAfterRequest
CHECK_DEADLOCK FALSE
