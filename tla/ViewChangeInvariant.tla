------------------------ MODULE ViewChangeInvariant ------------------------
(* Inductive invariants of the change of view, for the proofs about it and   *)
(* for TLC: VCInv for any number of nodes, SurvivalInv with four.            *)
EXTENDS ViewChange

\* What a replica does in the old view it does in the order of the batches, and
\* no batch is later than what the clients have sent.
InOrder ==
    /\ \A n \in Replica :
          /\ Interval =< prepared[n] /\ prepared[n] =< got[n] /\ got[n] =< Ordered
          /\ ~accepted[n] => executed[n] + Len(executeMsgs[n]) =< prepared[n]
    /\ \A n \in Node : executed[n] =< MaxBatch
    /\ \A n \in Node : Interval =< g_last_stable_chkpt[n]
    /\ ~accepted[Primary]

\* Lists of CHECKPOINTs are finite, so what is counted in them is a number.
ListsFinite == \A n \in Node : IsFiniteSet(g_pbft_chkpt_msgs[n])

\* A report has what was sent after its checkpoint and, unless more was sent
\* than the stores hold, leaves none out before another one.
ReportsInOrder ==
    \A n \in Node : report[n] # None =>
        /\ n \notin {Primary, NextPrimary}
        /\ report[n].index >= Interval
        /\ report[n].index = g_last_stable_chkpt[n]
        /\ \A b \in report[n].batches : report[n].index < b /\ b =< Ordered
        /\ Ordered =< report[n].index + Slots =>
              \A b \in report[n].batches :
                  report[n].index + 1 .. b \subseteq report[n].batches

\* The next primary has one report from each of those it has heard of.
MessagesAreReports ==
    /\ \A s \in ToSet(g_pbft_view_change_msgs) : report[s] # None
    /\ \A i, j \in DOMAIN g_pbft_view_change_msgs :
          g_pbft_view_change_msgs[i] = g_pbft_view_change_msgs[j] => i = j

\* Every batch is proposed for the place it has had.
InPlace == \A pos \in DOMAIN newView.content : newView.content[pos] = newView.index + pos

\* The new view is that of its reports.
NewViewIsOfReports ==
    /\ newView = None <=> ~accepted[NextPrimary]
    /\ newView = None => \A n \in Node : ~accepted[n]
    /\ newView # None =>
          /\ newView.index = g_last_stable_chkpt[NextPrimary]
          /\ newView.index + Len(newView.content) =< MaxBatch
          /\ Len(g_pbft_view_change_msgs) >= 2 * F
          /\ \A s \in ToSet(g_pbft_view_change_msgs) : report[s].index = newView.index
          /\ Proposed = Reports(g_pbft_view_change_msgs)
          /\ Ordered =< newView.index + Slots => InPlace
          /\ (\E n \in Replica \ {NextPrimary} : accepted[n]) => InPlace

\* What a node agrees to in the new view is proposed there; all but the next
\* primary vote for its last batch alone, so no other one is committed.
VotesAreForTheLast ==
    \A n \in Node :
        /\ voted[n] # {} => accepted[n]
        /\ \A b \in voted[n] : b \in Proposed /\ (n # NextPrimary => b = LastProposed)
        /\ recommitted[n] \subseteq voted[n]
        /\ \A b \in recommitted[n] : b = LastProposed

\* The EXECUTE_MSGs of a node are in their order, but for the one that the new
\* view has added.
QueuesInOrder ==
    \A n \in Node : \A i \in DOMAIN executeMsgs[n] :
        \/ executeMsgs[n][i] = executed[n] + i
        \/ executeMsgs[n][i] \in recommitted[n]

VCInv ==
    /\ VCTypeOK
    /\ InOrder
    /\ ListsFinite
    /\ ReportsInOrder
    /\ MessagesAreReports
    /\ NewViewIsOfReports
    /\ VotesAreForTheLast
    /\ QueuesInOrder
    /\ RefusalExplained

-----------------------------------------------------------------------------
\* In the old view 2F replicas have sent their COMMITs for what any node has
\* executed or is to execute.
ExecutedIsPrepared ==
    newView = None =>
        \A m \in Node : Cardinality({s \in Replica :
            prepared[s] >= executed[m] + Len(executeMsgs[m])}) >= 2 * F

OldPrimaryStops == executed[Primary] + Len(executeMsgs[Primary]) =< Interval + 1

Reporters == {n \in Node : report[n] # None}

\* A replica other than the next primary still has b to report, or has reported
\* it or something later.
ReachedBy(n, b) ==
    IF report[n] = None THEN prepared[n] >= b
    ELSE \E p \in report[n].batches \cup {report[n].index} : b =< p

\* So it is with all that was executed when the first timer ran out.
ExecutedIsReported ==
    \A b \in 1 .. MaxBatch :
        Reporters # {} /\ (\A n \in Reporters : b =< report[n].done) =>
            \E n \in Replica \ {NextPrimary} : ReachedBy(n, b)

SurvivalInv ==
    /\ VCInv
    /\ ExecutedIsPrepared
    /\ OldPrimaryStops
    /\ ExecutedIsReported

=============================================================================
