-------------------------- MODULE SessionInvariant --------------------------
(***************************************************************************)
(* Why the threads of Session keep out of each other's way, and why no     *)
(* batch is missed: what every step of a session preserves.                *)
(***************************************************************************)
EXTENDS Session

\* The batches that a batching thread has taken.
Begun ==
    {b \in 0 .. submitted - 1 : \A k \in DOMAIN clientQueue : clientQueue[k] # b}

\* The client's batches wait once each.
ClientQueueInv ==
    /\ submitted \in 0 .. BatchCount
    /\ clientQueue \in Seq(0 .. submitted - 1)
    /\ \A j, k \in DOMAIN clientQueue : j # k => clientQueue[j] # clientQueue[k]

\* Everything after the batching threads is about batches they have taken.
VoteOn(batches) == [type : {"PREP", "COMMIT"}, txn_id : {Last(b) : b \in batches}]
BegunInv ==
    /\ batching \in [BatchThread -> Begun \cup {None}]
    /\ orderQueue \in Seq({BatchReqId(b) : b \in Begun})
    /\ ordering \in {BatchReqId(b) : b \in Begun} \cup {None}
    /\ ordered \subseteq Begun
    /\ workQueue \in Seq(VoteOn(Begun))
    /\ voting \in VoteOn(Begun) \cup {None}
    /\ executeQueue \in Seq(Begun)
    /\ executing \in [batch : Begun \cup {None}, claimed : BOOLEAN]
    /\ executing.claimed => executing.batch # None
    /\ prepsIn \in [Batch -> Nat] /\ commitsIn \in [Batch -> Nat]
    /\ \A b \in Batch : prepsIn[b] > 0 => b \in Begun

\* Who holds the manager of a transaction.
Held(id) ==
    \/ \E t \in BatchThread : batching[t] # None /\ id = Last(batching[t])
    \/ ordering # None /\ id = ordering
    \/ voting # None /\ id = voting.txn_id
    \/ executing.batch # None /\ id = ExecuteId(executing.batch)
    \/ executing.claimed /\ id = Last(executing.batch)

HeldInv ==
    /\ ready = {id \in TxnIds : ~Held(id)}
    /\ \A t, u \in BatchThread :
          t # u /\ batching[t] # None => batching[t] # batching[u]
    /\ \A t \in BatchThread :
          batching[t] # None =>
            /\ voting # None => voting.txn_id # Last(batching[t])
            /\ executing.claimed => executing.batch # batching[t]
    /\ voting # None /\ executing.claimed => voting.txn_id # Last(executing.batch)

ClaimInv == ClientQueueInv /\ BegunInv /\ HeldInv /\ ClaimsSucceed

-----------------------------------------------------------------------------
\* How many PREPs or COMMITs of b thread 0 has counted.
Counted(type, b) == IF type = "PREP" THEN 2 * F - txn[b].prep_rsp_cnt
                                     ELSE 2 * F + 1 - txn[b].commit_rsp_cnt

\* The places of q up to the k-th where m is.
PlacesOf(q, m, k) == {j \in 1 .. k : q[j] = m}

\* How many have come that are counted, in hand or among the first k that wait.
VoteFor(type, b) == [type |-> type, txn_id |-> Last(b)]
Come(type, b, k) ==
    Counted(type, b) + (IF voting = VoteFor(type, b) THEN 1 ELSE 0)
                     + Cardinality(PlacesOf(workQueue, VoteFor(type, b), k))

CountTypes ==
    /\ txn \in [Batch -> [prep_rsp_cnt : Int, commit_rsp_cnt : Int,
                           prepared : BOOLEAN, committed_local : BOOLEAN]]
    /\ expectedBatchCount \in Nat /\ g_next_index \in Nat
    /\ putBack \subseteq Batch
    /\ failed \in {"no", "claim", "turn"}

\* What has come is counted, in hand or waits, also if it was put back.
NothingLost ==
    \A b \in Batch :
        /\ prepsIn[b] = Come("PREP", b, Len(workQueue))
        /\ commitsIn[b] = Come("COMMIT", b, Len(workQueue))
        /\ prepsIn[b] <= Cardinality(Replica) /\ commitsIn[b] <= Cardinality(Replica)
        /\ txn[b].prepared <=> Counted("PREP", b) >= 2 * F

\* Up to any place there are as many PREPs of a batch as COMMITs, and as many
\* COMMITs of the batch before.
OrderKept ==
    \A b \in Batch, k \in 0 .. Len(workQueue) :
        /\ Come("COMMIT", b, k) <= Come("PREP", b, k)
        /\ b > 0 => Come("COMMIT", b, k) <= Come("COMMIT", b - 1, k)

\* The counter that comes to 0 finds the batch prepared.
NoneMissed ==
    \A b \in Batch : txn[b].committed_local <=> Counted("COMMIT", b) >= 2 * F + 1

\* The execution thread has taken the first x batches; the other committed ones
\* wait, in turn.
Turns(x) ==
    /\ \A k \in DOMAIN executeQueue : executeQueue[k] = x + k - 1
    /\ \A b \in Batch : txn[b].committed_local <=> b < x + Len(executeQueue)
    /\ IF executing.batch = None
       THEN g_next_index = BatchSize * x
       ELSE /\ x = executing.batch + 1
            /\ g_next_index = BatchSize * executing.batch
                                 + (IF executing.claimed THEN BatchSize - 1 ELSE 0)

TurnInv ==
    /\ CountTypes
    /\ NothingLost
    /\ putBack = {} =>
          /\ OrderKept /\ NoneMissed
          /\ \E x \in 0 .. BatchCount : Turns(x)
          /\ failed # "turn"

\* What every step of a session preserves besides the invariants of its parts.
SessionInv == ClaimInv /\ TurnInv

=============================================================================
