\* A root that is relative.
SPECIFICATION Spec
CONSTANTS
    Names <- MCNames
    Config <- Faults
    Requests <- RelativeRequests
    Start <- Srv
    Dirs <- MCDirs
    InitFiles <- FaultsFiles
    Unreadable = {}
    Php = {"script.php", "gone.php"}
    Www = {"www"}
    Nothing = Nothing
    Dead = Dead
    MaxDepth = 4
    Joined <- MCJoined
INVARIANT StaysUp
