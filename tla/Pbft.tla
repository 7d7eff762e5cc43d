-------------------------------- MODULE Pbft --------------------------------
(***************************************************************************)
(* The replication core as src/Algorand/config.h builds it: three-phase    *)
(* PBFT over batches of transactions with a fixed primary.  The vote layer *)
(* that rides on its messages never decides anything here; AlgorandPbft    *)
(* adds it to these actions.                                               *)
(*                                                                         *)
(* Granularity.  A handler of WorkerThread is one action.  On a replica    *)
(* thread 0 runs every handler but process_execute_msg; on the primary     *)
(* process_client_batch, process_batch, the vote handlers and              *)
(* process_execute_msg each have a thread, so their actions interleave.    *)
(*                                                                         *)
(* Units.  A batch b stands for transactions b*B .. b*B + B-1 (B =         *)
(* g_batch_size): the transaction ids of a batch, the ring slots they      *)
(* occupy modulo indexSize and g_next_index move together.                 *)
(*                                                                         *)
(* Network.  The transport delivers what one node sends another in order   *)
(* and does not lose it, but delays it arbitrarily.  Every protocol        *)
(* message is a broadcast, so log[s] is what s has broadcast and           *)
(* rcvd[n][s] how much of it n has handled.                                *)
(***************************************************************************)
EXTENDS Nodes, Sequences

CONSTANTS
    Primary,    \* g_view: the node that orders the batches
    Window,     \* batches in flight per client: MAX_TXN_IN_FLIGHT / BATCH_SIZE
    MaxBatch,   \* bound: how many batches the client submits
    None        \* UINT64_MAX, in a store slot never written

Batch == 0 .. MaxBatch - 1

ASSUME PrimaryAssumption == Primary \in Node
ASSUME BatchAssumption == MaxBatch \in Nat /\ Window \in Nat \ {0}
ASSUME NoneAssumption == None \notin Batch

Replica == Node \ {Primary}

\* Definitions named X_Y are what X would be with mistake Y; no specification
\* uses them.  They show which property notices the mistake.

Slots_OneWindow == Window
\* indexSize is twice what the client may have in flight.
Slots == 2 * Window
Slot(b) == b % Slots
Cell == Batch \cup {None}

VARIABLES
    log,            \* log[s]: the broadcasts of s, in order
    rcvd,           \* rcvd[n][s]: how many of them n has handled
    preStore,       \* preStore and cqryStore, always written together
    prepPStore,     \* PREP messages per slot and sender
    commStore,      \* COMMIT messages per slot and sender
    txn,            \* the TxnManager of the transaction that ends a batch
    execQueue,      \* EXECUTE_MSGs waiting for the execution thread
    g_next_index,   \* the next batch to execute
    accepted,       \* batches process_client_batch has seen
    batchQueue,     \* BATCH_REQs waiting in the primary's work queue
    expectedBatchCount, \* the BATCH_REQ run() lets through next
    aborted         \* nodes stopped by a failed assertion

netVars == <<log, rcvd>>
storeVars == <<preStore, prepPStore, commStore, txn>>
execVars == <<execQueue, g_next_index>>
primaryVars == <<accepted, batchQueue, expectedBatchCount>>
vars == <<netVars, storeVars, execVars, primaryVars, aborted>>

Message == [type : {"BATCH_REQ", "PREP", "COMMIT"}, batch : Batch]

TxnManager == [ prep_rsp_cnt : Int,
                commit_rsp_cnt : Int,
                prepared : BOOLEAN,
                committed_local : BOOLEAN ]

TypeOK ==
    /\ log \in [Node -> Seq(Message)]
    /\ rcvd \in [Node -> [Node -> Nat]]
    /\ preStore \in [Node -> [0 .. Slots - 1 -> Cell]]
    /\ prepPStore \in [Node -> [0 .. Slots - 1 -> [Node -> Cell]]]
    /\ commStore \in [Node -> [0 .. Slots - 1 -> [Node -> Cell]]]
    /\ txn \in [Node -> [Batch -> TxnManager]]
    /\ execQueue \in [Node -> Seq(Batch)]
    /\ g_next_index \in [Node -> Nat]
    /\ accepted \in SUBSET Batch
    /\ batchQueue \in SUBSET Batch
    /\ expectedBatchCount \in Nat
    /\ aborted \in SUBSET Node

-----------------------------------------------------------------------------
\* With the decrements for the node's own messages that other builds make.
InitialTxn_OwnCommit == [ prep_rsp_cnt |-> 2 * F,
                          commit_rsp_cnt |-> 2 * F,
                          prepared |-> FALSE,
                          committed_local |-> FALSE ]

\* Waiting for one PREP more than the others send.
InitialTxn_ExtraPrep == [ prep_rsp_cnt |-> 2 * F + 1,
                          commit_rsp_cnt |-> 2 * F + 1,
                          prepared |-> FALSE,
                          committed_local |-> FALSE ]

\* TxnManager::init gives the counters of a new transaction.
InitialTxn == [ prep_rsp_cnt |-> 2 * F,
                commit_rsp_cnt |-> 2 * F + 1,
                prepared |-> FALSE,
                committed_local |-> FALSE ]

\* g_batch_size - 3, the id of the first BATCH_REQ, an unsigned number.
FirstExpected_Below == -1
FirstExpected == 0

Init ==
    /\ log = [n \in Node |-> <<>>]
    /\ rcvd = [n \in Node |-> [s \in Node |-> 0]]
    /\ preStore = [n \in Node |-> [i \in 0 .. Slots - 1 |-> None]]
    /\ prepPStore = [n \in Node |-> [i \in 0 .. Slots - 1 |-> [s \in Node |-> None]]]
    /\ commStore = [n \in Node |-> [i \in 0 .. Slots - 1 |-> [s \in Node |-> None]]]
    /\ txn = [n \in Node |-> [b \in Batch |-> InitialTxn]]
    /\ execQueue = [n \in Node |-> <<>>]
    /\ g_next_index = [n \in Node |-> 0]
    /\ accepted = {}
    /\ batchQueue = {}
    /\ expectedBatchCount = FirstExpected
    /\ aborted = {}

-----------------------------------------------------------------------------
Msg(type, b) == [type |-> type, batch |-> b]

\* Node n takes the next message of s, which is this one.
Takes(n, s, type, b) ==
    /\ n \notin aborted
    /\ s # n
    /\ rcvd[n][s] < Len(log[s])
    /\ log[s][rcvd[n][s] + 1] = Msg(type, b)
    /\ rcvd' = [rcvd EXCEPT ![n][s] = @ + 1]

Broadcasts(n, msgs) == log' = [log EXCEPT ![n] = @ \o msgs]
QueueForExecution(n, b) == execQueue' = [execQueue EXCEPT ![n] = Append(@, b)]

\* A failed assertion ends the process; what it leaves in memory is lost.
Abort(n) ==
    /\ aborted' = aborted \cup {n}
    /\ UNCHANGED <<log, storeVars, execVars, primaryVars>>

\* The slot of b once the PREP, or the COMMIT, of s for b is stored in it.
Preps(n, s, b) == [prepPStore[n][Slot(b)] EXCEPT ![s] = b]
Comms(n, s, b) == [commStore[n][Slot(b)] EXCEPT ![s] = b]

\* WorkerThread::prepared() and committed_local().  The latter counts the
\* COMMITs that match the PREP its scan of the slot stops at: the first for
\* b, or else whichever is last.
EnoughPreps(preps, b) == Cardinality({s \in Node : preps[s] = b}) >= 2 * F
EnoughCommits(comms, c) ==
    Cardinality({s \in Node : comms[s] = c}) >= 2 * F + 1
ScanStops(preps, b) ==
    IF \E s \in Node : preps[s] = b THEN {b} ELSE {preps[s] : s \in Node}

PreparedByBatch_Never(n, b) == FALSE
\* What process_batch finds when the PREPs, or the COMMITs, overtook b.
PreparedByBatch(n, b) ==
    /\ txn[n][b].prep_rsp_cnt <= 0
    /\ txn[n][b].prepared \/ EnoughPreps(Preps(n, n, b), b)
CommittedByBatch(n, b) ==
    /\ PreparedByBatch(n, b)
    /\ txn[n][b].commit_rsp_cnt <= 0
    /\ EnoughCommits(Comms(n, n, b), b)

\* The 2F-th PREP, with the batch itself there, and the (2F+1)-th COMMIT.
LastPrep(n, b) == txn[n][b].prep_rsp_cnt = 1 /\ ~txn[n][b].prepared
PreparedByPrep(n, s, b) ==
    /\ LastPrep(n, b)
    /\ preStore[n][Slot(b)] = b
    /\ EnoughPreps(Preps(n, s, b), b)
CommittedByCommit_NoQuorum(n, s, b, c) ==
    txn[n][b].prepared /\ ~txn[n][b].committed_local
CommittedByCommit(n, s, b, c) ==
    /\ txn[n][b].commit_rsp_cnt = 1
    /\ txn[n][b].prepared /\ ~txn[n][b].committed_local
    /\ EnoughCommits(Comms(n, s, b), c)

\* The TxnManager t after a batch, a PREP or a COMMIT.
Certified(t, p, c) == [t EXCEPT !.prepared = @ \/ p, !.committed_local = @ \/ c]
PrepCounted(t, p) == [t EXCEPT !.prep_rsp_cnt = @ - 1, !.prepared = @ \/ p]
CommitCounted(t, c) ==
    [t EXCEPT !.commit_rsp_cnt = @ - 1, !.committed_local = @ \/ c]

\* A batch the client has seen 2F+1 responses for has left its window.
Answered_FewReplies == {b \in Batch :
                Cardinality({n \in Node : g_next_index[n] > b}) >= F + 1}
Answered == {b \in Batch :
                Cardinality({n \in Node : g_next_index[n] > b}) >= 2 * F + 1}
Submitted == {b \in Batch : b < Cardinality(Answered) + Window}

-----------------------------------------------------------------------------
\* process_client_batch: the primary stores the client's batch and queues a
\* BATCH_REQ to itself.
ClientBatch(b) ==
    /\ Primary \notin aborted
    /\ b \in Submitted \ accepted
    /\ accepted' = accepted \cup {b}
    /\ batchQueue' = batchQueue \cup {b}
    /\ preStore' = [preStore EXCEPT ![Primary][Slot(b)] = b]
    /\ UNCHANGED <<netVars, prepPStore, commStore, txn, execVars,
                   expectedBatchCount, aborted>>

\* process_batch on the primary: run() puts every BATCH_REQ but the expected
\* one back in the queue.
OrderBatch(b) ==
    /\ Primary \notin aborted
    /\ b \in batchQueue
    /\ b = expectedBatchCount
    /\ batchQueue' = batchQueue \ {b}
    /\ expectedBatchCount' = b + 1
    /\ Broadcasts(Primary, <<Msg("BATCH_REQ", b)>>)
    /\ UNCHANGED <<rcvd, storeVars, execVars, accepted, aborted>>

\* process_batch on a replica.  A PREP always goes out; the COMMIT follows at
\* once if the PREPs of the others overtook the batch, and so does the
\* execution if their COMMITs did.
ReplicaBatch(n, b) ==
    /\ n # Primary
    /\ Takes(n, Primary, "BATCH_REQ", b)
    /\ \/ /\ preStore[n][Slot(b)] = b
          /\ Abort(n)
       \/ /\ preStore[n][Slot(b)] # b
          /\ preStore' = [preStore EXCEPT ![n][Slot(b)] = b]
          /\ prepPStore' = [prepPStore EXCEPT ![n][Slot(b)] = Preps(n, n, b)]
          /\ IF PreparedByBatch(n, b)
             THEN /\ commStore' = [commStore EXCEPT ![n][Slot(b)] = Comms(n, n, b)]
                  /\ Broadcasts(n, <<Msg("PREP", b), Msg("COMMIT", b)>>)
             ELSE /\ Broadcasts(n, <<Msg("PREP", b)>>)
                  /\ UNCHANGED commStore
          /\ txn' = [txn EXCEPT ![n][b] = Certified(txn[n][b],
                        PreparedByBatch(n, b), CommittedByBatch(n, b))]
          /\ IF CommittedByBatch(n, b) THEN QueueForExecution(n, b)
                                       ELSE UNCHANGED execQueue
          /\ UNCHANGED <<g_next_index, primaryVars, aborted>>

\* process_pbft_prep_msg.  A primary without the batch aborts.
Prep(n, s, b) ==
    /\ Takes(n, s, "PREP", b)
    /\ IF n = Primary /\ LastPrep(n, b) /\ preStore[n][Slot(b)] # b
       THEN Abort(n)
       ELSE /\ prepPStore' = [prepPStore EXCEPT ![n][Slot(b)] = Preps(n, s, b)]
            /\ txn' = [txn EXCEPT ![n][b] =
                          PrepCounted(txn[n][b], PreparedByPrep(n, s, b))]
            /\ IF PreparedByPrep(n, s, b)
               THEN /\ commStore' = [commStore EXCEPT ![n][Slot(b)] = Comms(n, n, b)]
                    /\ Broadcasts(n, <<Msg("COMMIT", b)>>)
               ELSE UNCHANGED <<commStore, log>>
            /\ UNCHANGED <<preStore, execVars, primaryVars, aborted>>

\* process_pbft_commit_msg.  A committed batch goes to the execution thread;
\* making the EXECUTE_MSG aborts if another batch has taken the slot.
Commit(n, s, b) ==
    /\ Takes(n, s, "COMMIT", b)
    /\ \E c \in ScanStops(prepPStore[n][Slot(b)], b) :
          IF CommittedByCommit(n, s, b, c) /\ preStore[n][Slot(b)] # b
          THEN Abort(n)
          ELSE /\ commStore' = [commStore EXCEPT ![n][Slot(b)] = Comms(n, s, b)]
               /\ txn' = [txn EXCEPT ![n][b] =
                        CommitCounted(txn[n][b], CommittedByCommit(n, s, b, c))]
               /\ IF CommittedByCommit(n, s, b, c) THEN QueueForExecution(n, b)
                                                  ELSE UNCHANGED execQueue
               /\ UNCHANGED <<log, preStore, prepPStore, g_next_index,
                              primaryVars, aborted>>

\* process_execute_msg: executes the batch and answers the client; it asserts
\* that the batch is the next one.
ExecuteBatch(n) ==
    /\ n \notin aborted
    /\ execQueue[n] # <<>>
    /\ \/ /\ Head(execQueue[n]) # g_next_index[n]
          /\ Abort(n)
          /\ UNCHANGED rcvd
       \/ /\ Head(execQueue[n]) = g_next_index[n]
          /\ execQueue' = [execQueue EXCEPT ![n] = Tail(@)]
          /\ g_next_index' = [g_next_index EXCEPT ![n] = @ + 1]
          /\ UNCHANGED <<netVars, storeVars, primaryVars, aborted>>

\* The run is over: the client has nothing left to submit and everything is
\* executed, or a node is gone.
AllExecuted == \A n \in Node : g_next_index[n] = MaxBatch
Finished == (AllExecuted \/ aborted # {}) /\ UNCHANGED vars

Next ==
    \/ \E b \in Batch : ClientBatch(b) \/ OrderBatch(b)
    \/ \E n \in Node : ExecuteBatch(n)
    \/ \E n \in Node, b \in Batch : ReplicaBatch(n, b)
    \/ \E n, s \in Node, b \in Batch : Prep(n, s, b) \/ Commit(n, s, b)
    \/ Finished

Spec == Init /\ [][Next]_vars

\* As long as some thread has something to do, one of them in the end runs.
\* This is less than the scheduler and the transport give: which thread, and
\* which peer's message, is left open.
Fairness == WF_vars(Next)

FairSpec == Spec /\ Fairness

-----------------------------------------------------------------------------
(* Properties *)

Sent(s, type, b) == \E k \in 1 .. Len(log[s]) : log[s][k] = Msg(type, b)

\* A batch is handed to execution only on a certificate: 2F+1 nodes have
\* broadcast COMMIT, each node that did so with 2F PREPs of replicas behind
\* it, each replica that sent PREP with the primary's BATCH_REQ behind it.
CommittedIsCertified ==
    \A b \in Batch :
        /\ (\E n \in Node : txn[n][b].committed_local)
              => Cardinality({s \in Node : Sent(s, "COMMIT", b)}) >= 2 * F + 1
        /\ (\E s \in Node : Sent(s, "COMMIT", b))
              => Cardinality({s \in Replica : Sent(s, "PREP", b)}) >= 2 * F
        /\ (\E s \in Node : Sent(s, "PREP", b)) => Sent(Primary, "BATCH_REQ", b)

\* No quorum goes unnoticed, in whichever order the messages came: each
\* counter is looked at by one handler only, when it reaches 0, and a batch
\* overtaken by its PREPs or COMMITs is looked at again when it arrives.  A
\* primary whose slot was given to a later batch is excepted: the scan of
\* committed_local() may then miss the certificate for good.
NothingMissed ==
    \A n \in Node \ aborted, b \in Batch :
        n \in Replica \/ preStore[n][Slot(b)] = b =>
            /\ preStore[n][Slot(b)] = b /\ txn[n][b].prep_rsp_cnt <= 0
                  => txn[n][b].prepared
            /\ txn[n][b].prepared /\ txn[n][b].commit_rsp_cnt <= 0
                  => txn[n][b].committed_local

\* On a replica no assertion ever fails: no batch comes twice, the one to be
\* executed is the next, and its slot still holds it when the COMMITs are in.
ReplicasNeverAbort == aborted \subseteq {Primary}

\* Twice the client's window is slots enough for a replica: it never gives
\* a slot to a new batch while the batch in it is still to be committed.
ReplicaSlotsFree ==
    [][\A n \in Replica, i \in 0 .. Slots - 1 :
          preStore'[n][i] # preStore[n][i] =>
              \/ preStore[n][i] = None
              \/ txn[n][preStore[n][i]].committed_local]_vars

\* With four nodes, where 2F+1 COMMITs of others are those of all others
\* (larger systems leave some out), a node that has committed a batch has
\* handled all there will ever be about it: the transaction managers that the
\* execution of the batch releases are not asked for again, and no PREP brings
\* a vote of the batch into a later round.
NoStragglers ==
    Cardinality(Node) = 2 * F + 2 =>
        \A n \in Node : \A s \in Node \ {n} :
            \A k \in rcvd[n][s] + 1 .. Len(log[s]) :
                ~txn[n][log[s][k].batch].committed_local

\* How far a replica falls behind: it has committed all but the last window of
\* what anybody has.  With four nodes the COMMITs of all others must arrive
\* for a batch to be committed, so nobody overtakes a replica by more; the
\* primary, whose answer the client can do without, has no such bound.
Committed(n) == {b \in Batch : txn[n][b].committed_local}
Lag(n) == Cardinality((UNION {Committed(s) : s \in Node}) \ Committed(n))
LagBound == \A n \in Replica : Lag(n) <= Window

\* What the messages, counters and stores above add up to.
Abstract ==
    INSTANCE Replication WITH
        ordered <- expectedBatchCount,
        endorsed <- [n \in Node |-> {b \in Batch : txn[n][b].prepared}],
        executed <- g_next_index
ImplementsReplication == Abstract!Spec

\* Everything the client may submit is executed everywhere, unless a node
\* stopped on a failed assertion.
Progress == <>(AllExecuted \/ aborted # {})

\* "assert(0)" in ExecuteMessage::copy_from_txn and its like.
NoAssertionFails == aborted = {}
=============================================================================
