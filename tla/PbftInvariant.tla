---------------------------- MODULE PbftInvariant ----------------------------
(***************************************************************************)
(* Why the properties of Pbft hold: three invariants that every step       *)
(* preserves.  IInv ties what the nodes keep (stores, counters, flags) to  *)
(* what was sent, QInv ties the queues to the flags, and FourInv adds what *)
(* holds of the four nodes the program is built for.                       *)
(***************************************************************************)
EXTENDS Pbft

\* Node n has handled this message of s.
Handled(n, s, type, b) == \E k \in 1 .. rcvd[n][s] : log[s][k] = Msg(type, b)

PrepSenders(b) == {s \in Replica : Sent(s, "PREP", b)}
CommitSenders(b) == {s \in Node : Sent(s, "COMMIT", b)}
CommitsHandled(n, b) == {s \in Node : Handled(n, s, "COMMIT", b)}

\* Nobody has handled more than was sent.
Cursors == \A n, s \in Node : rcvd[n][s] <= Len(log[s])

\* A node orders, or votes to commit, a batch once.
NoRepeats ==
    \A s \in Node : \A j, k \in 1 .. Len(log[s]) :
        log[s][j] = log[s][k] /\ log[s][j].type # "PREP" => j = k

\* A stored PREP was sent.
StoredPreps ==
    \A n, s \in Node, i \in 0 .. Slots - 1, b \in Batch :
        prepPStore[n][i][s] = b => Sent(s, "PREP", b)

\* Only ordered batches are sent, and only for those do replicas send PREP.
OrderedInTurn ==
    \A s \in Node, b \in Batch :
        Sent(s, "BATCH_REQ", b) => b < expectedBatchCount
PrepsBacked ==
    \A s \in Node, b \in Batch :
        Sent(s, "PREP", b) => s \in Replica /\ Sent(Primary, "BATCH_REQ", b)

\* A vote to commit is cast by a node that counts as prepared, on 2F PREPs.
CommitsBacked ==
    \A s \in Node, b \in Batch :
        Sent(s, "COMMIT", b) =>
            txn[s][b].prepared /\ Cardinality(PrepSenders(b)) >= 2 * F

\* A replica has in a slot, or is prepared for, what it got from the primary.
ReplicaGotBatch ==
    \A n \in Replica, b \in Batch :
        preStore[n][Slot(b)] = b \/ txn[n][b].prepared
            => Handled(n, Primary, "BATCH_REQ", b)

\* The counter goes down by one for each COMMIT of another, and stands at 0
\* or below when the batch is committed.
CommitsCounted ==
    \A n \in Node, b \in Batch :
        /\ txn[n][b].commit_rsp_cnt + Cardinality(CommitsHandled(n, b)) >= 2 * F + 1
        /\ txn[n][b].committed_local => txn[n][b].commit_rsp_cnt <= 0

\* What every step preserves and what makes certificates sound: each flag and
\* each stored message goes back to messages that were sent, BATCH_REQs and
\* COMMITs are sent once, and a counter that stands at 0 has seen that many
\* COMMITs of different nodes.
IInv ==
    /\ Cursors
    /\ NoRepeats
    /\ StoredPreps
    /\ OrderedInTurn
    /\ PrepsBacked
    /\ CommitsBacked
    /\ ReplicaGotBatch
    /\ CommitsCounted

\* The primary orders what the client sent.
QueuedAccepted == batchQueue \subseteq accepted

\* Only what is prepared is committed, and only what is committed is executed.
CommittedPrepared ==
    \A n \in Node, b \in Batch : txn[n][b].committed_local => txn[n][b].prepared
QueuedCommitted ==
    \A n \in Node : \A k \in 1 .. Len(execQueue[n]) :
        txn[n][execQueue[n][k]].committed_local

\* What the queues of the threads hold has been through the thread before.
QInv ==
    /\ QueuedAccepted
    /\ CommittedPrepared
    /\ QueuedCommitted

-----------------------------------------------------------------------------
(* With four nodes a batch is committed on the COMMITs of all others, so   *)
(* the client's window keeps the nodes together.                           *)

FourNodes == Cardinality(Node) = 4

PrepsHandled(n, b) == {s \in Node : Handled(n, s, "PREP", b)}
SelfUnread == \A n \in Node : rcvd[n][n] = 0

\* Entry k of a log is about a batch of the client's, it is not said twice, nor
\* after the COMMIT for that batch, the entries of its type come in the order of
\* the batches and without a gap, and all votes to commit what lies a window
\* before the batch precede it.
Before(l, k, type, b) == \E j \in 1 .. k - 1 : l[j] = Msg(type, b)
InPlace(l, k) ==
    /\ l[k].batch \in accepted
    /\ ~Before(l, k, l[k].type, l[k].batch)
    /\ ~Before(l, k, "COMMIT", l[k].batch)
    /\ \A b \in Batch :
          /\ b < l[k].batch => Before(l, k, l[k].type, b)
          /\ b + Window <= l[k].batch => Before(l, k, "COMMIT", b)
LogsInPlace == \A s \in Node : \A k \in 1 .. Len(log[s]) : InPlace(log[s], k)

\* When the client submits a batch, all nodes have voted to commit what lies a
\* window before it.
WindowVoted ==
    \A b \in Batch, c \in accepted :
        b + Window <= c => \A s \in Node : Sent(s, "COMMIT", b)

\* What is below the expected batch is ordered, a replica sends PREP for what it
\* got from the primary, and a node votes to commit what it is prepared for.
OrderedSent ==
    \A b \in Batch : b < expectedBatchCount => Sent(Primary, "BATCH_REQ", b)
GotSaid ==
    \A n \in Replica, b \in Batch :
        Handled(n, Primary, "BATCH_REQ", b) <=> Sent(n, "PREP", b)
PreparedSaid ==
    \A n \in Node, b \in Batch : txn[n][b].prepared =>
        txn[n][b].prep_rsp_cnt <= 0 /\ Sent(n, "COMMIT", b)

\* On a node that runs the counters count exactly.
CountersExact ==
    \A n \in Node \ aborted, b \in Batch :
        /\ txn[n][b].prep_rsp_cnt + Cardinality(PrepsHandled(n, b)) = 2 * F
        /\ txn[n][b].commit_rsp_cnt + Cardinality(CommitsHandled(n, b)) = 2 * F + 1

\* A batch stands in its own slot, the primary's slots hold the last batches
\* accepted, and a replica's hold what its own PREPs are for.
SlotsMatch ==
    \A n \in Node, i \in 0 .. Slots - 1 :
        preStore[n][i] # None => Slot(preStore[n][i]) = i
PrimarySlots ==
    \A b \in accepted : /\ preStore[Primary][Slot(b)] \in accepted
                        /\ b <= preStore[Primary][Slot(b)]
OwnPreps ==
    \A n \in Replica, i \in 0 .. Slots - 1 : prepPStore[n][i][n] = preStore[n][i]

\* Nothing is overwritten of a batch that a replica has not committed, or that
\* the primary has in its slot.
Open(n, b) == IF n = Primary THEN preStore[n][Slot(b)] = b
                             ELSE ~txn[n][b].committed_local
OpenKept ==
    \A n \in Node \ aborted, b \in Batch : Open(n, b) =>
        /\ n # Primary /\ Handled(n, Primary, "BATCH_REQ", b)
              => preStore[n][Slot(b)] = b
        /\ \A s \in Node :
              /\ Handled(n, s, "PREP", b) => prepPStore[n][Slot(b)][s] = b
              /\ Handled(n, s, "COMMIT", b) => commStore[n][Slot(b)][s] = b

\* What is executed was committed, and a replica queues batches in their order.
ExecutedCommitted ==
    \A n \in Node, b \in Batch : b < g_next_index[n] => txn[n][b].committed_local
QueuesInOrder ==
    \A n \in Replica :
        /\ \A k \in 1 .. Len(execQueue[n]) : execQueue[n][k] = g_next_index[n] + k - 1
        /\ \A b \in Batch : txn[n][b].committed_local =>
                               b < g_next_index[n] + Len(execQueue[n])

\* What every step of four nodes preserves and what keeps them together.
FourInv ==
    /\ SelfUnread
    /\ LogsInPlace
    /\ WindowVoted
    /\ OrderedSent
    /\ GotSaid
    /\ PreparedSaid
    /\ CountersExact
    /\ SlotsMatch
    /\ PrimarySlots
    /\ OwnPreps
    /\ OpenKept
    /\ ExecutedCommitted
    /\ QueuesInOrder
    /\ NothingMissed
    /\ ReplicasNeverAbort
=============================================================================
