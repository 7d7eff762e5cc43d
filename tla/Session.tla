------------------------------ MODULE Session ------------------------------
(***************************************************************************)
(* A session from its start to its last answer: the processes exchange     *)
(* their keys, the client sends batches, the primary's threads take them   *)
(* through their phases, the client counts the answers.                    *)
(*                                                                         *)
(* The other nodes are here what the primary and the client see of them.   *)
(* In the order of the batches each sends a PREP for a BATCH_REQ, a COMMIT *)
(* when it has the PREPs of all replicas and the answer when it has the    *)
(* COMMITs of all other nodes; Pbft models how it decides that.  Its       *)
(* messages to the primary arrive in the order in which they were sent.    *)
(* Two things need no state: what replicas send each other, since once the *)
(* primary has sent a BATCH_REQ all their PREPs and COMMITs can be out,    *)
(* however late they reach the primary; and who sent a message, since the  *)
(* primary's threads do not look at it: the k-th PREP of each batch and    *)
(* its k-th COMMIT may be taken to be those of the k-th replica.           *)
(***************************************************************************)
EXTENDS Startup, Threads, Responses

CONSTANTS
    Primary,        \* g_view
    QueueBound      \* bound: messages for thread 0 that wait in workQueue

ASSUME SessionAssumption == Primary \in Node /\ QueueBound \in Nat

Replica == Node \ {Primary}

VARIABLES
    prepsIn,        \* [Batch -> Nat]  PREPs that have reached the primary
    commitsIn       \* [Batch -> Nat]  COMMITs that have

linkVars == <<prepsIn, commitsIn>>
sessionVars == <<startupVars, threadVars, responsesVars, linkVars>>

SessionTypeOK ==
    /\ StartupTypeOK /\ ThreadsTypeOK /\ ResponsesTypeOK
    /\ prepsIn \in [Batch -> 0 .. Cardinality(Replica)]
    /\ commitsIn \in [Batch -> 0 .. Cardinality(Replica)]

SessionInit ==
    /\ StartupInit /\ ThreadsInit /\ ResponsesInit
    /\ prepsIn = [b \in Batch |-> 0]
    /\ commitsIn = [b \in Batch |-> 0]

-----------------------------------------------------------------------------
\* A client thread leaves its loop on keyAvail and sends batches; the primary's
\* input thread numbers them and queues them for the batching threads.
ClientSends ==
    /\ keyAvail # {}
    /\ Submit
    /\ clientQueue' = Append(clientQueue, submitted)
    /\ UNCHANGED <<startupVars, linkVars, orderQueue, workQueue, executeQueue,
                   ready, batching, ordering, voting, executing,
                   expectedBatchCount, g_next_index, txn, ordered, putBack, failed>>

\* One step of a thread of the primary.
PrimarySteps(A) == A /\ UNCHANGED <<startupVars, responsesVars, linkVars>>

\* The primary's input thread queues what comes in for thread 0.
Queue(m) ==
    /\ Live /\ Len(workQueue) < QueueBound
    /\ workQueue' = Append(workQueue, m)
    /\ UNCHANGED <<startupVars, responsesVars, clientQueue, orderQueue,
                   executeQueue, ready, batching, ordering, voting, executing,
                   expectedBatchCount, g_next_index, txn, ordered, putBack, failed>>

\* A replica's messages come in its order: the PREPs in that of the batches, the
\* COMMITs too, the COMMIT for a batch after the PREP.
NextFrom(arrived, b) ==
    /\ arrived[b] < Cardinality(Replica)
    /\ b > 0 => arrived[b] < arrived[b - 1]

PrepArrives(b) ==
    /\ b \in ordered /\ NextFrom(prepsIn, b)
    /\ Queue([type |-> "PREP", txn_id |-> Last(b)])
    /\ prepsIn' = [prepsIn EXCEPT ![b] = @ + 1]
    /\ UNCHANGED commitsIn

CommitArrives(b) ==
    /\ prepsIn[b] > commitsIn[b] /\ NextFrom(commitsIn, b)
    /\ Queue([type |-> "COMMIT", txn_id |-> Last(b)])
    /\ commitsIn' = [commitsIn EXCEPT ![b] = @ + 1]
    /\ UNCHANGED prepsIn

\* An answer that reaches the client comes from a node that has executed the
\* batch: the primary's execution thread has been through it; another node has
\* the COMMITs of all, the primary's included, which is sent when the primary is
\* prepared.
Executed(n, b) ==
    IF n = Primary THEN g_next_index >= BatchSize * (b + 1) ELSE txn[b].prepared

AnswerArrives(n) ==
    /\ \E b \in Batch : b = answersTaken[n] /\ Executed(n, b)
    /\ Validate(n)
    /\ UNCHANGED <<startupVars, threadVars, linkVars>>

SessionNext ==
    \/ StartupNext /\ UNCHANGED <<threadVars, responsesVars, linkVars>>
    \/ ClientSends
    \/ PrimarySteps(ThreadsNext)
    \/ \E b \in Batch : PrepArrives(b) \/ CommitArrives(b)
    \/ \E n \in Node : AnswerArrives(n)

\* The primary's threads never stop taking steps; nothing is asked of the client,
\* the other nodes or the links.
ThreadFairness ==
    /\ \A t \in BatchThread :
          WF_sessionVars(PrimarySteps(TakeClientBatch(t) \/ EndClientBatch(t)))
    /\ WF_sessionVars(PrimarySteps(OrderingNext))
    /\ WF_sessionVars(PrimarySteps(VotingNext))
    /\ WF_sessionVars(PrimarySteps(ExecutingNext))

SessionSpec == SessionInit /\ [][SessionNext]_sessionVars /\ ThreadFairness

-----------------------------------------------------------------------------
\* The primary draws its vote on a batch when it orders it and the replicas
\* verify the draw when they get it: by then every vote layer, not only the
\* primary's, has the wallet of every node.  The client's counting of READYs
\* is all that sees to it.
BatchMeetsKeys == ordered # {} => \A n \in Node : KeysComplete(n)

\* Whoever asserts that it gets or gives back a manager does: the three ids by
\* which a batch goes keep the threads that work for it apart.
ClaimsSucceed == failed # "claim"

\* The counters of a batch are looked at when they come to 0.  A primary that
\* has counted every PREP and every COMMIT of a batch and not committed it
\* never will; and one that commits out of order is stopped by the assertion
\* on g_next_index.  Links in order do not let either happen, unless run() has
\* put a message back behind later ones because its manager was taken.
AllCounted(b) ==
    /\ txn[b].prep_rsp_cnt = 2 * F - Cardinality(Replica)
    /\ txn[b].commit_rsp_cnt = 2 * F + 1 - Cardinality(Replica)
MissedOnlyAfterPutBack ==
    putBack = {} =>
        /\ failed # "turn"
        /\ \A b \in Batch : AllCounted(b) => txn[b].committed_local

\* Again and again the primary has ordered all that the client has sent: no
\* BATCH_REQ is taken for one that is too early and put back for ever.
BatchesGetOrdered ==
    []<>(failed # "no" \/ ordered = 0 .. submitted - 1)

\* Again and again everything committed is executed: the execution thread does
\* not wait for a manager that nobody gives back, itself included.
CommittedGetsExecuted ==
    []<>(\/ failed # "no"
         \/ \A b \in Batch :
               txn[b].committed_local => g_next_index >= BatchSize * (b + 1))

=============================================================================
