SPECIFICATION FencesSpec
CONSTANTS
    Entries = {e1, e2, e3, e4, e5}
    NoFence = NoFence
    Values = {1}
    MaxDepth = 5
    MaxItems = 4
SYMMETRY Symmetric
INVARIANT FencesFollow
PROPERTY AllPathsReturn
CHECK_DEADLOCK FALSE
