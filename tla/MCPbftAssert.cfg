CONSTANTS
    Node = {p, r1, r2, r3}
    Primary = p
    Window = 1
    MaxBatch = 3
    None = None
SPECIFICATION Spec
SYMMETRY ReplicaSymmetry
INVARIANT NoAssertionFails
