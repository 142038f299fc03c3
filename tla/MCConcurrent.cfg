\* Orderly clients side by side.
SPECIFICATION FairSpec
CONSTANTS
    Conns = {c1, c2}
    NoConn = NoConn
    NumServers = 1
    MaxFd = 4
    Leavers = {c1, c2}
    Rude = {}
    Pipeliners = {}
    Together = 2
    MaxParts = 1
    MaxChunks = 2
    Cgis = {}
    PollFdSize = 4
    CtrlC = FALSE
PROPERTIES RequestsAnswered
CHECK_DEADLOCK FALSE
