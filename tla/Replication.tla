----------------------------- MODULE Replication -----------------------------
(***************************************************************************)
(* What the replication core promises, without messages, counters, stores  *)
(* or threads: batches are ordered one after the other, a node endorses    *)
(* only what is ordered, and it executes, in order and without gaps, only  *)
(* what a quorum with itself in it has endorsed.                           *)
(***************************************************************************)
EXTENDS Integers, FiniteSets

CONSTANTS Node, Window, MaxBatch

Batch == 0 .. MaxBatch - 1
Quorum == 2 * ((Cardinality(Node) - 1) \div 3) + 1

VARIABLES
    accepted,   \* batches the primary has taken from the client
    ordered,    \* how many batches are ordered: 0 .. ordered - 1
    endorsed,   \* endorsed[n]: batches n has voted to commit
    executed    \* executed[n]: how many batches n has executed

vars == <<accepted, ordered, endorsed, executed>>

Init ==
    /\ accepted = {}
    /\ ordered = 0
    /\ endorsed = [n \in Node |-> {}]
    /\ executed = [n \in Node |-> 0]

Answered == {b \in Batch : Cardinality({n \in Node : executed[n] > b}) >= Quorum}
Endorsers(b) == {n \in Node : b \in endorsed[n]}

\* The client keeps at most Window batches unanswered.
Accept(b) ==
    /\ b \notin accepted
    /\ b < Cardinality(Answered) + Window
    /\ accepted' = accepted \cup {b}
    /\ UNCHANGED <<ordered, endorsed, executed>>

Order ==
    /\ ordered \in accepted
    /\ ordered' = ordered + 1
    /\ UNCHANGED <<accepted, endorsed, executed>>

Endorse(n, b) ==
    /\ b < ordered
    /\ b \notin endorsed[n]
    /\ endorsed' = [endorsed EXCEPT ![n] = @ \cup {b}]
    /\ UNCHANGED <<accepted, ordered, executed>>

ExecuteNext(n) ==
    /\ executed[n] \in endorsed[n]
    /\ Cardinality(Endorsers(executed[n])) >= Quorum
    /\ executed' = [executed EXCEPT ![n] = @ + 1]
    /\ UNCHANGED <<accepted, ordered, endorsed>>

Next ==
    \/ \E b \in Batch : Accept(b)
    \/ Order
    \/ \E n \in Node, b \in Batch : Endorse(n, b)
    \/ \E n \in Node : ExecuteNext(n)

Spec == Init /\ [][Next]_vars
=============================================================================
