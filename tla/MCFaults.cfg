\* Servers and locations with their own roots; requests that end the process.
SPECIFICATION Spec
CONSTANTS
    Names <- MCNames
    Config <- Faults
    Requests <- FaultsRequests
    Start <- Srv
    Dirs <- MCDirs
    InitFiles <- FaultsFiles
    Unreadable = {}
    Php = {"script.php", "gone.php"}
    Www = {"www"}
    Nothing = Nothing
    Dead = Dead
    MaxDepth = 5
    Joined <- MCJoined
INVARIANTS  ErrorPageShown
\* The process may end.
CHECK_DEADLOCK FALSE
