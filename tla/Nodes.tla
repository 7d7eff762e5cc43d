-------------------------------- MODULE Nodes --------------------------------
(* The server nodes, which every layer of the program counts the same way. *)
EXTENDS Integers, FiniteSets

CONSTANT Node

\* The program is built for four (NODE_CNT).  With fewer, F is 0 and the
\* counters of a transaction start where they should end.
ASSUME NodeAssumption == IsFiniteSet(Node) /\ Cardinality(Node) > 3

F == (Cardinality(Node) - 1) \div 3     \* g_min_invalid_nodes

=============================================================================
