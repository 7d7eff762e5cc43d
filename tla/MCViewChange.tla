---------------------------- MODULE MCViewChange ----------------------------
(* Four nodes, three batches past the first checkpoint, of which the stores  *)
(* hold two.  Every interleaving is too much for TLC: it explores those that *)
(* Reduced allows.                                                           *)
EXTENDS ViewChangeInvariant

CONSTANTS n0, n1, n2, n3

\* What a node has left for its execution thread in the old view makes no
\* difference to others before it is executed, and to the node before it accepts
\* the new view: it is left just before the one or the other.
LeftLast ==
    \A n \in Node : executeMsgs[n] # <<>> /\ ~accepted[n] =>
        executeMsgs'[n] # executeMsgs[n] \/ accepted'[n] \/ aborted'[n] # None

\* The old primary executes as soon as it can: if it is slow the clients only get
\* answers, and others BATCH_REQs, later.
PrimaryFirst ==
    LET b == Interval + 1
    IN executed[Primary] = Interval /\ SentCommit(Primary, b)
       /\ Cardinality({s \in Replica : SentCommit(s, b)}) >= 2 * F
           => executeMsgs'[Primary] # executeMsgs[Primary]

\* The CHECKPOINT that is late is not there before that of a later checkpoint.
LateIsLate ==
    chkptsTaken'[Late][Primary] # chkptsTaken[Late][Primary] =>
        g_last_stable_chkpt[Late] > Interval

\* Of the two replicas that report, Late, for which the CHECKPOINT is late, is the
\* second.
LateReportsLast == report'[n2] # None => report'[n3] # None

Reduced == LeftLast /\ PrimaryFirst /\ LateIsLate /\ LateReportsLast
=============================================================================
