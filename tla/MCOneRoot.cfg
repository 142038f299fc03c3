\* One root; error pages that lead to others.
SPECIFICATION FairSpec
CONSTANTS
    Names <- MCNames
    Config <- OneRoot
    Requests <- OneRootRequests
    Start <- Srv
    Dirs <- MCDirs
    InitFiles <- OneRootFiles
    Unreadable <- OneRootUnreadable
    Php = {"script.php", "gone.php"}
    Www = {"www"}
    Nothing = Nothing
    Dead = Dead
    MaxDepth = 6
    Joined <- MCJoined
INVARIANTS IInv StaysUp ScriptNamed ErrorPageShown LengthAgrees
PROPERTIES RequestsEnd ImplementsResources
