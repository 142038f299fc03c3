\* One orderly client at a time, as curl_tst.sh: descriptors are used again.
SPECIFICATION FairSpec
CONSTANTS
    Conns = {c1, c2, c3}
    NoConn = NoConn
    NumServers = 1
    MaxFd = 4
    Leavers = {c1, c2, c3}
    Rude = {}
    Pipeliners = {}
    Together = 1
    MaxParts = 2
    MaxChunks = 2
    Cgis = {}
    PollFdSize = 4
    CtrlC = FALSE
INVARIANTS InterestMatches OwnBytes NeverDies
PROPERTIES NeverHangsUp ImplementsSessions
CHECK_DEADLOCK FALSE
