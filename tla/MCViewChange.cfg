CONSTANTS
    n0 = n0
    n1 = n1
    n2 = n2
    n3 = n3
    None = None
    Node = {n0, n1, n2, n3}
    Primary = n0
    NextPrimary = n1
    Late = n2
    Window = 1
    Interval = 3
    MaxBatch = 6
SPECIFICATION VCSpec
ACTION_CONSTRAINT Reduced
CHECK_DEADLOCK FALSE
INVARIANT VCTypeOK
INVARIANT ExecutedSurvives
INVARIANT RefusalExplained
PROPERTY StableMonotone
PROPERTY LateNodesStayBehind
 
