SPECIFICATION EncodingSpec
CONSTANTS
    Capacities <- MCCapacities
    NscMaxScript = 130
    Lengths = {0, 3}
    Files <- MCFiles
    Lines = {1, 2}
    Depths = {0, 1, 2}
    Limit = 2
INVARIANTS FindsInstructions OverrunByAction FilesNamed IntrinsicsAnswer
CHECK_DEADLOCK FALSE
