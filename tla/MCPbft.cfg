CONSTANTS
    Node = {p, r1, r2, r3}
    Primary = p
    Window = 1
    MaxBatch = 3
    None = None
SPECIFICATION Spec
SYMMETRY ReplicaSymmetry
INVARIANT TypeOK
INVARIANT CommittedIsCertified
INVARIANT NothingMissed
INVARIANT ReplicasNeverAbort
INVARIANT NoStragglers
INVARIANT LagBound
INVARIANT IInv
INVARIANT FourInv
PROPERTY ReplicaSlotsFree
PROPERTY ImplementsReplication
