SPECIFICATION TableSpec
CONSTANTS
    a = a
    b = b
    c = c
    Names <- MCNames
    Buckets = {1, 2}
    HashIndex <- MCHashIndex
    SymbolSize <- MCSymbolSize
    DataSizes = {1, 6}
    GrowSize = 4
    MaxSize = 12
    MaxFences = 3
INVARIANTS ChainsComplete FencesSound GlobalsStay DataStays FindsNewest InBuffer
PROPERTY ImplementsDeclarations
CHECK_DEADLOCK FALSE
