------------------------------- MODULE MCPbft -------------------------------
(* Instances of Pbft for TLC. *)
EXTENDS PbftInvariant, TLC

\* The replicas are interchangeable, the primary is not.
ReplicaSymmetry == Permutations(Replica)
=============================================================================
