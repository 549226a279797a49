SPECIFICATION OperatorSpec
CONSTANTS
    Structures <- MCStructures
    Layout <- MCLayout
    StructSize <- MCStructSize
    Width = 4
    Operands <- MCOperands
    Tokens <- MCTokens
    Limit = 4
    Starts <- MCStarts
INVARIANTS ElementsFound
CHECK_DEADLOCK FALSE
