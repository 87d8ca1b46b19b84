SPECIFICATION RoundSpec
CONSTANTS
    NumClients = 1
    PacketThreads = {p1, p2}
    NumClientRetransmitProcs = 1
    NumClientRestartProcs = 1
    OpQueueSize = 2
    RestartClientsAfterDuration = TRUE
    DuplicatingServer = TRUE
    PromptHandlers = FALSE
SYMMETRY PacketSymmetry
VIEW WithoutResends
INVARIANTS TypeOK NeverForgotten RestartAhead RequestChain
CHECK_DEADLOCK FALSE
