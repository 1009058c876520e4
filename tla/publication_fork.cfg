SPECIFICATION Spec
CONSTANTS
    p = p
    q = q
    b1 = b1
    b2 = b2
    First = first
    Pulls <- MCPulls
    Batches <- MCBatches
    Key = key
    MaxTime = 3
    LastDay = 3
    TicksPerDay = 1
SYMMETRY MCSymmetry
CHECK_DEADLOCK FALSE
INVARIANT OneChain
