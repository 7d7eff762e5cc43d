-------------------------- MODULE AlgorandInvariant --------------------------
(***************************************************************************)
(* Why the seeds of AlgorandPbft behave: what every step of the four nodes *)
(* preserves besides the invariants of Pbft.                               *)
(***************************************************************************)
EXTENDS AlgorandPbft, PbftInvariant

\* Only batches of the client's are ordered.
OrderedAreBatches == Ordered \subseteq Batch

\* A package goes with every BATCH_REQ and every PREP.
TicketsSent ==
    \A s \in Node, b \in Batch :
        Sent(s, "BATCH_REQ", b) \/ Sent(s, "PREP", b) => ticket[s][b] \in DataPackage

\* Node n has run sortition() for the block proposed with b; b is the last one.
Drawn(n, b) == IF n = Primary THEN Sent(Primary, "BATCH_REQ", b)
                              ELSE Handled(n, Primary, "BATCH_REQ", b)
LastDrawn(n, b) == Drawn(n, b) /\ \A c \in Batch : Drawn(n, c) => c <= b

\* The block of a node, from which reset() cuts its next seed, is the last it
\* has run sortition() for.
BlockIsLast ==
    \A n \in Node :
        (\E c \in Batch : Drawn(n, c)) =>
            \E b \in Batch : LastDrawn(n, b) /\ alg[n].m_block = Proposed(b)

\* A package is that of the node that sends it, made when the node drew.
TicketsDrawn ==
    \A s \in Node, b \in Batch :
        ticket[s][b] # None => ticket[s][b].node = s /\ Drawn(s, b)

\* What every step preserves of any number of nodes.
PackageInv == VoteTypeOK /\ TicketsSent /\ SeedMirror

\* The same of the tallies: no package is put in the place of another, so those
\* that were counted remain what they were.
TallyInv == TicketsDrawn /\ TallyExplained

\* What every step preserves of four nodes, besides FourInv.
RoundInv ==
    /\ VoteTypeOK
    /\ OrderedAreBatches
    /\ TicketsSent
    /\ SeedMirror
    /\ BlockIsLast
    /\ SeedWindow

\* With what TallyInv adds to TallyExplained.
VoteInv == RoundInv /\ TicketsDrawn
=============================================================================
