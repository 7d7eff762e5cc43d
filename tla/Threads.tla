------------------------------ MODULE Threads ------------------------------
(***************************************************************************)
(* The worker threads of the primary and what keeps them apart.  Batching  *)
(* threads take the client's batches, one thread orders them, thread 0     *)
(* counts PREPs and COMMITs, one thread executes.  A thread that works for *)
(* a batch holds a transaction manager: unset_ready() claims it and        *)
(* set_ready() gives it back.  All four kinds of thread work for the same  *)
(* batch at the same time, so they claim managers of different             *)
(* transactions of it: a BATCH_REQ is sent under the id of the last        *)
(* transaction less 2, an EXECUTE_MSG less 1, and the rest use the last.   *)
(*                                                                         *)
(* Where a thread cannot claim a manager the code does one of three        *)
(* things: run() puts the message back at the end of the queue,            *)
(* process_client_batch and process_batch assert that it cannot happen,    *)
(* and process_execute_msg waits.  A handler is two steps here: the claim, *)
(* and the rest with the release.  What the handlers decide is kept to the *)
(* counters; the stores behind them are in Pbft.                           *)
(***************************************************************************)
EXTENDS Batches, Sequences

CONSTANTS
    BatchSize,      \* g_batch_size
    BatchThread     \* the threads that run process_client_batch

\* A batch has the three ids its messages go by.
ASSUME ThreadsAssumption == BatchSize \in Nat /\ BatchSize > 3

VARIABLES
    clientQueue,    \* CL_BATCHes for the batching threads
    orderQueue,     \* BATCH_REQs for the ordering thread
    workQueue,      \* PREPs and COMMITs for thread 0
    executeQueue,   \* EXECUTE_MSGs
    ready,          \* the transactions whose manager nobody holds (txn_ready)
    batching,       \* [BatchThread -> Batch \cup {None}]
    ordering,       \* what the ordering thread holds a manager for
    voting,         \* what thread 0 does
    executing,      \* what the execution thread does
    expectedBatchCount, g_next_index,
    txn,            \* [Batch -> counters and flags of the last manager]
    ordered,        \* SUBSET Batch: BATCH_REQ sent to the replicas
    putBack,        \* SUBSET Batch: a message about it went back in workQueue
    failed          \* the assertion that has failed, after which there is
                    \* no process: none, a claim's or the execution order's

threadVars ==
    <<clientQueue, orderQueue, workQueue, executeQueue, ready, batching,
      ordering, voting, executing, expectedBatchCount, g_next_index, txn,
      ordered, putBack, failed>>

\* get_next_txn_id() gives the first id of a batch; the ids of its messages
\* are counted from the last one.
Last(b) == BatchSize * b + BatchSize - 1

\* Definitions named X_Y are what X would be with mistake Y.
BatchReqId_Last(b) == Last(b)
BatchReqId_Plus(b) == Last(b) + 2
BatchReqId(b) == Last(b) - 2
ExecuteId_Last(b) == Last(b)
ExecuteId(b) == Last(b) - 1
BatchOf(id) == id \div BatchSize

TxnIds == 0 .. BatchSize * BatchCount - 1
Message == [type : {"PREP", "COMMIT"}, txn_id : TxnIds]

\* None is not a message either.
ASSUME NoMessageAssumption == None \notin Message

ThreadsTypeOK ==
    /\ clientQueue \in Seq(Batch)
    /\ orderQueue \in Seq(TxnIds)
    /\ workQueue \in Seq(Message)
    /\ executeQueue \in Seq(Batch)
    /\ ready \in SUBSET TxnIds
    /\ batching \in [BatchThread -> Batch \cup {None}]
    /\ ordering \in TxnIds \cup {None}
    /\ voting \in Message \cup {None}
    /\ executing \in [batch : Batch \cup {None}, claimed : BOOLEAN]
    /\ expectedBatchCount \in Nat
    /\ g_next_index \in Nat
    /\ txn \in [Batch -> [prep_rsp_cnt : Int, commit_rsp_cnt : Int,
                          prepared : BOOLEAN, committed_local : BOOLEAN]]
    /\ ordered \in SUBSET Batch
    /\ putBack \in SUBSET Batch
    /\ failed \in {"no", "claim", "turn"}

ThreadsInit ==
    /\ clientQueue = <<>> /\ orderQueue = <<>>
    /\ workQueue = <<>> /\ executeQueue = <<>>
    /\ ready = TxnIds
    /\ batching = [t \in BatchThread |-> None]
    /\ ordering = None
    /\ voting = None
    /\ executing = [batch |-> None, claimed |-> FALSE]
    /\ expectedBatchCount = BatchReqId(0)      \* g_batch_size - 3
    /\ g_next_index = 0
    /\ txn = [b \in Batch |-> [prep_rsp_cnt |-> 2 * F, commit_rsp_cnt |-> 2 * F + 1,
                               prepared |-> FALSE, committed_local |-> FALSE]]
    /\ ordered = {} /\ putBack = {}
    /\ failed = "no"

-----------------------------------------------------------------------------
(* Claims.  Claimed(id) is the test of unset_ready(); the caller says what *)
(* it does when somebody else holds the manager.                           *)

Live == failed = "no"
Fail(why) == failed' = why

\* set_ready() asserts that it gives back what was taken.
GiveBack(ids) ==
    /\ ready' = ready \cup ids
    /\ failed' = IF ids \cap ready = {} THEN "no" ELSE "claim"

\* A batching thread takes a batch, claims the manager of its last transaction
\* and queues the BATCH_REQ before it returns to run().
TakeClientBatch(t) ==
    /\ Live /\ batching[t] = None /\ clientQueue # <<>>
    /\ LET b == Head(clientQueue) IN
        /\ clientQueue' = Tail(clientQueue)
        /\ IF Last(b) \in ready
           THEN /\ ready' = ready \ {Last(b)}
                /\ batching' = [batching EXCEPT ![t] = b]
                /\ orderQueue' = Append(orderQueue, BatchReqId(b))
                /\ UNCHANGED failed
           ELSE Fail("claim") /\ UNCHANGED <<ready, batching, orderQueue>>
    /\ UNCHANGED <<workQueue, executeQueue, ordering, voting, executing,
                   expectedBatchCount, g_next_index, txn, ordered, putBack>>

\* Back in run(), which gives the manager back.
EndClientBatch(t) ==
    /\ Live /\ batching[t] # None
    /\ GiveBack({Last(batching[t])})
    /\ batching' = [batching EXCEPT ![t] = None]
    /\ UNCHANGED <<clientQueue, orderQueue, workQueue, executeQueue, ordering,
                   voting, executing, expectedBatchCount, g_next_index, txn,
                   ordered, putBack>>

\* The ordering thread: run() puts back a BATCH_REQ that is not the expected
\* one; process_batch claims the manager and broadcasts.
TakeBatchReq ==
    /\ Live /\ ordering = None /\ orderQueue # <<>>
    /\ LET id == Head(orderQueue) IN
        \/ /\ id # expectedBatchCount
           /\ orderQueue' = Append(Tail(orderQueue), id)
           /\ UNCHANGED <<ready, ordering, ordered, failed>>
        \/ /\ id = expectedBatchCount
           /\ orderQueue' = Tail(orderQueue)
           /\ IF id \in ready
              THEN /\ ready' = ready \ {id}
                   /\ ordering' = id
                   /\ ordered' = ordered \cup {BatchOf(id)}
                   /\ UNCHANGED failed
              ELSE Fail("claim") /\ UNCHANGED <<ready, ordering, ordered>>
    /\ UNCHANGED <<clientQueue, workQueue, executeQueue, batching, voting,
                   executing, expectedBatchCount, g_next_index, txn, putBack>>

NextExpected_One(id) == id + 1
NextExpected(id) == BatchSize + id

EndBatchReq ==
    /\ Live /\ ordering # None
    /\ GiveBack({ordering})
    /\ expectedBatchCount' = NextExpected(ordering)
    /\ ordering' = None
    /\ UNCHANGED <<clientQueue, orderQueue, workQueue, executeQueue, batching,
                   voting, executing, g_next_index, txn, ordered, putBack>>

-----------------------------------------------------------------------------
(* Thread 0. *)

\* run(): a message whose manager is taken goes to the end of the queue.
TakeVote ==
    /\ Live /\ voting = None /\ workQueue # <<>>
    /\ LET m == Head(workQueue) IN
        IF m.txn_id \in ready
        THEN /\ ready' = ready \ {m.txn_id}
             /\ voting' = m
             /\ workQueue' = Tail(workQueue)
             /\ UNCHANGED putBack
        ELSE /\ workQueue' = Append(Tail(workQueue), m)
             /\ putBack' = putBack \cup {BatchOf(m.txn_id)}
             /\ UNCHANGED <<ready, voting>>
    /\ UNCHANGED <<clientQueue, orderQueue, executeQueue, batching, ordering,
                   executing, expectedBatchCount, g_next_index, txn, ordered, failed>>

\* process_pbft_prep_msg, process_pbft_commit_msg: the counter is looked at
\* when it comes to 0, and only then.
PrepCounted(t) ==
    [t EXCEPT !.prep_rsp_cnt = @ - 1,
              !.prepared = @ \/ t.prep_rsp_cnt = 1]

CommitCounted_OneMore(t) ==
    [t EXCEPT !.commit_rsp_cnt = @ - 1,
              !.committed_local = @ \/ (t.commit_rsp_cnt = 0 /\ t.prepared)]
CommitCounted(t) ==
    [t EXCEPT !.commit_rsp_cnt = @ - 1,
              !.committed_local = @ \/ (t.commit_rsp_cnt = 1 /\ t.prepared)]

EndVote ==
    /\ Live /\ voting # None
    /\ LET b == BatchOf(voting.txn_id) IN
        /\ txn' = [txn EXCEPT ![b] = IF voting.type = "PREP" THEN PrepCounted(@)
                                                             ELSE CommitCounted(@)]
        /\ executeQueue' = IF txn'[b].committed_local /\ ~txn[b].committed_local
                           THEN Append(executeQueue, b) ELSE executeQueue
    /\ GiveBack({voting.txn_id})
    /\ voting' = None
    /\ UNCHANGED <<clientQueue, orderQueue, workQueue, batching, ordering,
                   executing, expectedBatchCount, g_next_index, ordered, putBack>>

-----------------------------------------------------------------------------
(* The execution thread. *)

\* run() claims the manager the EXECUTE_MSG is sent under, or puts it back.
TakeExecute ==
    /\ Live /\ executing.batch = None /\ executeQueue # <<>>
    /\ LET b == Head(executeQueue) IN
        IF ExecuteId(b) \in ready
        THEN /\ ready' = ready \ {ExecuteId(b)}
             /\ executing' = [batch |-> b, claimed |-> FALSE]
             /\ executeQueue' = Tail(executeQueue)
        ELSE /\ executeQueue' = Append(Tail(executeQueue), b)
             /\ UNCHANGED <<ready, executing>>
    /\ UNCHANGED <<clientQueue, orderQueue, workQueue, batching, ordering, voting,
                   expectedBatchCount, g_next_index, txn, ordered, putBack, failed>>

\* process_execute_msg executes all but the last transaction without a claim
\* and spins until it has the manager of the last one.
ClaimLast ==
    /\ Live /\ executing.batch # None /\ ~executing.claimed
    /\ IF g_next_index = BatchSize * executing.batch
       THEN /\ Last(executing.batch) \in ready
            /\ ready' = ready \ {Last(executing.batch)}
            /\ executing' = [executing EXCEPT !.claimed = TRUE]
            /\ g_next_index' = g_next_index + BatchSize - 1
            /\ UNCHANGED failed
       ELSE Fail("turn") /\ UNCHANGED <<ready, executing, g_next_index>>
    /\ UNCHANGED <<clientQueue, orderQueue, workQueue, executeQueue, batching,
                   ordering, voting, expectedBatchCount, txn, ordered, putBack>>

EndExecute ==
    /\ Live /\ executing.claimed
    /\ GiveBack({Last(executing.batch), ExecuteId(executing.batch)})
    /\ g_next_index' = g_next_index + 1
    /\ executing' = [batch |-> None, claimed |-> FALSE]
    /\ UNCHANGED <<clientQueue, orderQueue, workQueue, executeQueue, batching,
                   ordering, voting, expectedBatchCount, txn, ordered, putBack>>

BatchingNext == \E t \in BatchThread : TakeClientBatch(t) \/ EndClientBatch(t)
OrderingNext == TakeBatchReq \/ EndBatchReq
VotingNext == TakeVote \/ EndVote
ExecutingNext == TakeExecute \/ ClaimLast \/ EndExecute

ThreadsNext == BatchingNext \/ OrderingNext \/ VotingNext \/ ExecutingNext

=============================================================================
