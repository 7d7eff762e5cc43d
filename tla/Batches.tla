------------------------------ MODULE Batches ------------------------------
(* The batches of a session, in the order in which the primary numbers     *)
(* them, for the modules that follow a batch as a unit.                    *)
EXTENDS Nodes

CONSTANTS
    BatchCount,     \* how many batches the client sends
    None            \* no batch: an idle thread, an empty slot

ASSUME BatchesAssumption == BatchCount \in Nat \ {0} /\ None \notin Int

Batch == 0 .. BatchCount - 1

=============================================================================
