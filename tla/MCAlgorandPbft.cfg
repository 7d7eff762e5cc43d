CONSTANTS
    Node = {p, r1, r2, r3}
    Primary = p
    Window = 1
    MaxBatch = 2
    None = None
    WarmUp <- MCWarmUp
    Value <- MCValue
    Genesis <- MCGenesis
    Prefix <- MCPrefix
    FirstChar <- MCFirstChar
    Draw <- MCDraw
SPECIFICATION NodeSpec
SYMMETRY ReplicaSymmetry
INVARIANT VoteTypeOK
INVARIANT SeedWindow
INVARIANT SettledSeedsAgree
INVARIANT TallyExplained
INVARIANT SeedMirror
INVARIANT VoteInv
