----------------------------- MODULE Responses -----------------------------
(***************************************************************************)
(* The client's end of a batch.  Every node answers a batch it has         *)
(* executed with one message; ClientResponseMessage::validate keeps the    *)
(* answers in clrspStore, one row for the ids that are equal modulo        *)
(* indexSize and one entry per node, and lets the batch complete with the  *)
(* answer that makes 2F + 1.  The client's i/o thread, which is not in the *)
(* repository, calls it for each answer and frees a place in the client's  *)
(* window for each batch that completes.                                   *)
(***************************************************************************)
EXTENDS Batches

CONSTANTS
    Window,         \* batches the client may have in flight (g_inflight_max)
    Slots           \* rows of clrspStore, counted in batches (indexSize)

ASSUME ResponsesAssumption ==
    Window \in Nat \ {0} /\ Slots \in Nat /\ Slots >= Window

\* The answers to a batch do not make two quorums.  Six nodes would: F is still
\* 1 and every batch would complete with the third answer and with the sixth.
ASSUME AnswersAssumption == Cardinality(Node) < 2 * (2 * F + 1)

Slot == 0 .. Slots - 1

VARIABLES
    submitted,      \* batches the client has sent
    answersTaken,   \* [Node -> Nat]  answers of n the client has validated
    clrspStore,     \* [Slot -> [Node -> Batch \cup {None}]]
    completions     \* [Batch -> Nat] how often the client saw b complete

responsesVars ==
    <<submitted, answersTaken, clrspStore, completions>>

ResponsesTypeOK ==
    /\ submitted \in 0 .. BatchCount
    /\ answersTaken \in [Node -> 0 .. BatchCount]
    /\ clrspStore \in [Slot -> [Node -> Batch \cup {None}]]
    /\ completions \in [Batch -> Nat]

ResponsesInit ==
    /\ submitted = 0
    /\ answersTaken = [n \in Node |-> 0]
    /\ clrspStore = [s \in Slot |-> [n \in Node |-> None]]
    /\ completions = [b \in Batch |-> 0]

-----------------------------------------------------------------------------
\* Definitions named X_Y are what X would be with mistake Y.

Completed == {b \in Batch : completions[b] > 0}
InFlight == submitted - Cardinality(Completed)

\* The client thread sends one more batch if its window has room.
Submit ==
    /\ submitted < BatchCount /\ InFlight < Window
    /\ submitted' = submitted + 1
    /\ UNCHANGED <<answersTaken, clrspStore, completions>>

\* The answers to b when n's arrives: those of the others in the row, which n's
\* has not yet entered, and this one.
AnswersTo_StoredFirst(row, n, b) ==
    Cardinality({m \in Node : m = n \/ row[m] = b}) + 1
AnswersTo(row, n, b) == Cardinality({m \in Node : row[m] = b}) + 1

\* What is left of a row with which b has completed: nothing, so that the
\* answers still to come do not complete it again.
AfterCompletion_Kept(row) == row
AfterCompletion(row) == [n \in Node |-> None]

\* validate, for the next answer of n.
Validate(n) ==
    /\ answersTaken[n] < BatchCount
    /\ answersTaken' = [answersTaken EXCEPT ![n] = @ + 1]
    /\ LET b == answersTaken[n]
           slot == b % Slots
           row == clrspStore[slot]
           stored == [row EXCEPT ![n] = b]
           done == AnswersTo(row, n, b) >= 2 * F + 1
       IN /\ clrspStore' = [clrspStore EXCEPT
                              ![slot] = IF done THEN AfterCompletion(stored) ELSE stored]
          /\ completions' = IF done THEN [completions EXCEPT ![b] = @ + 1]
                                    ELSE completions
    /\ UNCHANGED submitted

ResponsesNext == Submit \/ \E n \in Node : Validate(n)

ResponsesSpec == ResponsesInit /\ [][ResponsesNext]_responsesVars

-----------------------------------------------------------------------------
\* No batch completes twice, though four nodes answer and three answers are
\* enough: the late answer meets a row that was reset, or that has gone on to
\* another batch.
CompletedOnce == \A b \in Batch : completions[b] <= 1

\* A batch that has completed has been answered by 2F + 1 nodes, whatever else
\* is in the row it shares with other batches.
CompletedIsAnswered ==
    \A b \in Completed : Cardinality({n \in Node : answersTaken[n] > b}) >= 2 * F + 1

=============================================================================
