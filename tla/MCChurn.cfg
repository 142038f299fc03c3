\* Two servers and orderly clients that come and go side by side.
SPECIFICATION Spec
CONSTANTS
    Conns = {c1, c2, c3}
    NoConn = NoConn
    NumServers = 2
    MaxFd = 5
    Leavers = {c1, c2, c3}
    Rude = {}
    Pipeliners = {}
    Together = 2
    MaxParts = 1
    MaxChunks = 1
    Cgis = {}
    PollFdSize = 5
    CtrlC = TRUE
SYMMETRY ConnsSymmetry
INVARIANTS IInv VectorsPartition PollTableExact NeverBlocks WritesInsideArray
CHECK_DEADLOCK FALSE
