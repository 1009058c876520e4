SPECIFICATION Spec
CONSTANTS
    p = p
    q = q
    b1 = b1
    b2 = b2
    First = first
    Pulls <- MCPulls
    Batches <- MCBatches
    Key = key
    MaxTime = 2
    LastDay = 1
    TicksPerDay = 2
SYMMETRY MCSymmetry
CHECK_DEADLOCK FALSE
INVARIANT FilesStayOrdered
