SPECIFICATION OperatorSpec
CONSTANTS
    Structures <- MCStructures
    Layout <- MCLayout
    StructSize <- MCStructSize
    Width = 4
    Operands <- MCOperands
    Tokens <- MCTokens
    Limit = 5
    Starts <- MCStarts
INVARIANTS FoldingPreserves StackBalanced
CHECK_DEADLOCK FALSE
