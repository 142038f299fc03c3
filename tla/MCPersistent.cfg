\* Two servers and clients that stay: no slot is ever removed.
SPECIFICATION FairSpec
CONSTANTS
    Conns = {c1, c2}
    NoConn = NoConn
    NumServers = 2
    MaxFd = 5
    Leavers = {}
    Rude = {}
    Pipeliners = {}
    Together = 2
    MaxParts = 2
    MaxChunks = 2
    Cgis = {}
    PollFdSize = 5
    CtrlC = FALSE
PROPERTIES RequestsAnswered ImplementsSessions
CHECK_DEADLOCK FALSE
