SPECIFICATION SessionSpec
CONSTANTS
    n0 = n0
    n1 = n1
    n2 = n2
    n3 = n3
    c0 = c0
    None = None
    Node <- MCNode
    Client <- MCClient
    ThreadCount = 2
    BatchCount = 2
    BatchSize = 4
    BatchThread = {t1, t2}
    Primary = n0
    Window = 2
    Slots = 4
    QueueBound = 3
INVARIANT SessionTypeOK
INVARIANT ReadyMeansKeys
INVARIANT BatchMeetsKeys
INVARIANT ClaimsSucceed
INVARIANT MissedOnlyAfterPutBack
INVARIANT CompletedOnce
INVARIANT CompletedIsAnswered
INVARIANT SessionInv
CHECK_DEADLOCK FALSE
PROPERTY BatchesGetOrdered
PROPERTY CommittedGetsExecuted
