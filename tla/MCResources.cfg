SPECIFICATION ManagerSpec
CONSTANTS
    m = m
    n = n
    N = N
    HeaderSize = 2
    EntrySize = 1
    IdMod = 8
    Width = 16
    Names <- MCNames
    Types = {1, 2}
    Paths <- MCPaths
    KeyList <- MCKeyList
    Disks <- MCDisks
    Lower <- MCLower
    HandleMod = 3
    Indexes = {0, 3}
    Offsets = {0, 2}
    Lengths = {0, 2}
INVARIANTS PositionsAgree FindsMostPrecedent FilesBehind
PROPERTY ImplementsArchive
