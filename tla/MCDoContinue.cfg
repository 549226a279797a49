SPECIFICATION Spec
CONSTANTS
    Unwritten = Unwritten
    HeaderSize = 13
    JumpSize = 6
    Programs <- DoContinue
    Exprs <- ExprsOf
    About <- AboutOf
    MaxEvents = 7
    Returns = {0, 1}
INVARIANT JumpsPatched
CHECK_DEADLOCK FALSE
