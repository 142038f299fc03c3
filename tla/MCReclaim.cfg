\* Clients that leave at any point, in the middle of a request or an answer.
SPECIFICATION FairSpec
CONSTANTS
    Conns = {c1, c2}
    NoConn = NoConn
    NumServers = 1
    MaxFd = 4
    Leavers = {c1, c2}
    Rude = {c1, c2}
    Pipeliners = {}
    Together = 2
    MaxParts = 1
    MaxChunks = 2
    Cgis = {c2}
    PollFdSize = 4
    CtrlC = TRUE
PROPERTIES BacklogsServed LeaversReclaimed
CHECK_DEADLOCK FALSE
