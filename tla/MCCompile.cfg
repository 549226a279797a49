SPECIFICATION Spec
CONSTANTS
    Unwritten = Unwritten
    HeaderSize = 13
    JumpSize = 6
    Programs <- AllPrograms
    Exprs <- ExprsOf
    About <- AboutOf
    MaxEvents = 7
    Returns = {0, 1}
INVARIANTS DepthAgrees AssertsHold JumpsPatched SameCalls ReturnsBalanced NoIllegalReference
           JumpsLinked ChainsSound
PROPERTY RefinesLabels
CHECK_DEADLOCK FALSE
