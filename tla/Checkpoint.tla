----------------------------- MODULE Checkpoint -----------------------------
(***************************************************************************)
(* Checkpoints.  A node that has executed a batch whose number is a        *)
(* multiple of Interval tells the others; 2F such messages from others     *)
(* make the batch the node's last stable checkpoint, and messages about    *)
(* earlier checkpoints are dropped from its list.  Batches are numbered    *)
(* from 1; 0 is the state before the first, where g_last_stable_chkpt      *)
(* starts.  The execution thread sends all CHECKPOINTs of a node, so they  *)
(* reach another node in their order.                                      *)
(***************************************************************************)
EXTENDS Nodes

CONSTANT Interval       \* g_txn_per_chkpt, in batches

\* A quorum of 2F others must leave less than 2F others: three nodes out of
\* four do, so do five out of seven; with five nodes they would not.
ASSUME CheckpointAssumption ==
    /\ Interval \in Nat \ {0}
    /\ Cardinality(Node) =< 4 * F

VARIABLES
    executed,           \* [Node -> Nat]  batches n has executed
    g_last_stable_chkpt,    \* [Node -> Nat]  a batch
    g_pbft_chkpt_msgs,  \* [Node -> SUBSET [index : Nat, return_node : Node]]
    chkptsTaken         \* [Node -> [Node -> Nat]]  CHECKPOINTs of s handled by n

checkpointVars == <<g_last_stable_chkpt, g_pbft_chkpt_msgs, chkptsTaken>>

CheckpointMessage == [index : Nat, return_node : Node]

CheckpointTypeOK ==
    /\ executed \in [Node -> Nat]
    /\ g_last_stable_chkpt \in [Node -> Nat]
    /\ g_pbft_chkpt_msgs \in [Node -> SUBSET CheckpointMessage]
    /\ chkptsTaken \in [Node -> [Node -> Nat]]

CheckpointInit ==
    /\ executed = [n \in Node |-> 0]
    /\ g_last_stable_chkpt = [n \in Node |-> 0]
    /\ g_pbft_chkpt_msgs = [n \in Node |-> {}]
    /\ chkptsTaken = [n \in Node |-> [s \in Node |-> 0]]

-----------------------------------------------------------------------------
\* Definitions named X_Y are what X would be with mistake Y.

\* process_execute_msg executes the next batch; if it is the last one of an
\* interval, send_checkpoint_msgs follows, whose messages are implied by
\* executed.  The node does not enter its own message into its list.
Execute(n) ==
    /\ executed' = [executed EXCEPT ![n] = @ + 1]
    /\ UNCHANGED checkpointVars

\* The checkpoint that the next CHECKPOINT of s at n is about.
NextCheckpoint(n, s) == Interval * (chkptsTaken[n][s] + 1)

\* process_pbft_chkpt_msg drops what is older than the new stable checkpoint.
Kept_All(msgs, stable) == msgs
Kept(msgs, stable) == {m \in msgs : m.index >= stable}

\* addAndValidate means to refuse a message about the stable checkpoint but
\* compares its index, which is 4 less, with that of the checkpoint's last
\* transaction; so the last CHECKPOINT for an index makes it stable once more.
HandleCheckpoint(n, s) ==
    LET c == NextCheckpoint(n, s)
        msgs == g_pbft_chkpt_msgs[n] \cup {[index |-> c, return_node |-> s]}
        enough == Cardinality({m \in msgs : m.index = c}) >= 2 * F
    IN /\ s # n
       /\ executed[s] >= c
       /\ chkptsTaken' = [chkptsTaken EXCEPT ![n][s] = @ + 1]
       /\ g_last_stable_chkpt' =
             [g_last_stable_chkpt EXCEPT ![n] = IF enough THEN c ELSE @]
       /\ g_pbft_chkpt_msgs' =
             [g_pbft_chkpt_msgs EXCEPT ![n] = IF enough THEN Kept(msgs, c) ELSE msgs]
       /\ UNCHANGED executed

CheckpointNext == \E n \in Node : Execute(n) \/ \E s \in Node : HandleCheckpoint(n, s)

CheckpointSpec ==
    CheckpointInit /\ [][CheckpointNext]_<<executed, checkpointVars>>

-----------------------------------------------------------------------------
\* A stable checkpoint is not taken back by messages about an older one that
\* come after it, one by one, from the nodes that are behind.
StableMonotone ==
    [][\A n \in Node : g_last_stable_chkpt'[n] >= g_last_stable_chkpt[n]]_checkpointVars

\* A stable checkpoint has been executed by 2F other nodes.
StableIsExecuted ==
    \A n \in Node : g_last_stable_chkpt[n] > 0 =>
        Cardinality({s \in Node \ {n} : executed[s] >= g_last_stable_chkpt[n]}) >= 2 * F

=============================================================================
