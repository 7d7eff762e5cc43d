CONSTANTS
    Node = {p, r1, r2, r3}
    Primary = p
    Window = 1
    MaxBatch = 2
    None = None
SPECIFICATION FairSpec
CHECK_DEADLOCK FALSE
PROPERTY Progress
