\* Files put together of any of the phrases.
SPECIFICATION Spec
CONSTANTS
    Phrases <- AnyPhrases
    MaxPhrases = 6
    Words <- MCWords
    Home = "www"
    Directories <- MCDirectories
    PortOf <- MCPortOf
    Absolute <- MCAbsolute
    Pages <- MCPages
    Lexicon <- MCLexicon
    PollfdSize = 2
    Taken = {}
    Padded <- MCPadded
INVARIANTS InStep ServersChecked PagesWhereRooted PortsHaveBlocks
PROPERTIES ImplementsLayout
CHECK_DEADLOCK FALSE
