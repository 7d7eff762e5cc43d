CONSTANTS
    BatchSize = 2
    F = 1
    SeedSize = 2
    HashSize = 3
    ProofSize = 4
    ValueSize = 3
    PkSize = 2
    RequestWidth = 16
    g_node_cnt = 4
    g_client_node_cnt = 1
    g_repl_cnt = 0
    Sender = 1
    Receiver = 2
    MaxSent = 2
    Unicast <- MCUnicast
    Broadcasts <- MCBroadcasts
SPECIFICATION Spec
INVARIANT ArrivesIntact
INVARIANT FramesMeet
INVARIANT AssertionsHold
