----------------------------- MODULE ViewChange -----------------------------
(***************************************************************************)
(* The change of view of builds with VIEW_CHANGES.  The state starts when  *)
(* all nodes have the first checkpoint; the module follows the batches     *)
(* after it, the reports of the replicas whose timers run out, the message *)
(* the next primary makes of 2F of them (NEW_VIEW), and the agreement on   *)
(* the batches in it.                                                      *)
(*                                                                         *)
(* The stores need no state of their own.  Batches, and the PREPs of each  *)
(* node, arrive in their order, so a store holds the last Slots of them.   *)
(* g_changing_view needs none either: the input thread is what reads it,   *)
(* and a node that is changing its view still handles what is in its work  *)
(* queue, so every message in flight may be one of those.                  *)
(* The agreement of the old view is that of Pbft, but here a node's own    *)
(* PREP and COMMIT count, so three nodes out of four can go on alone.      *)
(***************************************************************************)
EXTENDS Checkpoint, SequencesExt

CONSTANTS
    Primary,        \* node 0
    NextPrimary,    \* node 1, (g_view + 1) % g_node_cnt
    Late,           \* a replica that a CHECKPOINT reaches late
    Window,         \* batches the clients keep under way
    MaxBatch,       \* bound: the batches that are sent
    None            \* no report, no NEW_VIEW, no failed assertion

ASSUME ViewChangeAssumption ==
    /\ {Primary, NextPrimary, Late} \subseteq Node /\ Primary # NextPrimary
    /\ Window \in Nat \ {0}
    /\ MaxBatch \in Nat /\ MaxBatch >= Interval

Replica == Node \ {Primary}
Others(n) == Replica \ {n}      \* whose PREPs n gets

\* Definitions named X_Y are what X would be with mistake Y.

\* indexSize, in batches: the stores hold twice what the clients send.
Slots_OneWindow == Window
Slots == 2 * Window

VARIABLES
    got,            \* [Replica -> Nat]  last batch stored
    prepared,       \* [Replica -> Nat]  last batch n has sent its COMMIT for
    accepted,       \* [Node -> BOOLEAN]  g_view is NextPrimary
    report,         \* [Node -> Report or None]  its PBFTViewChangeMsg
    g_pbft_view_change_msgs,    \* Seq(Replica)  whose reports NextPrimary has,
                    \*   later viewChangeMessages in the NEW_VIEW
    newView,        \* NewView or None: the PBFTNewViewMsg
    lost,           \* [Node -> SUBSET Node]  whose PREPs came before NEW_VIEW did
    voted,          \* [Node -> SUBSET Nat]  what n has sent a second COMMIT for
    recommitted,    \* [Node -> SUBSET Nat]  committed_local once more, after reset()
    executeMsgs,    \* [Node -> Seq(Nat)]  EXECUTE_MSGs in the work queue
    aborted         \* [Node -> the assertion that has ended n, or None]

agreementVars == <<got, prepared>>
changeVars == <<accepted, report, g_pbft_view_change_msgs, newView, lost>>
commitVars == <<voted, recommitted, executeMsgs>>
vars == <<executed, checkpointVars, agreementVars, changeVars, commitVars, aborted>>

\* The batches with enough PREPs at a node, whose order in the message RingPlace
\* gives, and (a history variable) the last batch executed by a node by then.
Report == [index : Nat, batches : SUBSET Nat, done : Nat]

\* The batch whose requests are proposed for each place after the checkpoint.
NewView == [index : Nat, content : Seq(Nat)]

\* What has failed on a node whose assertion has ended it.
Assertions ==
    {"checkpoint", "index", "gap", "store", "new_view", "ready", "execute", "late"}

ASSUME NoneAssumption == None \notin Report /\ None \notin NewView /\ None \notin Assertions

VCTypeOK ==
    /\ CheckpointTypeOK
    /\ got \in [Replica -> 0 .. MaxBatch]
    /\ prepared \in [Replica -> 0 .. MaxBatch]
    /\ \A n \in Node : executed[n] \in 0 .. MaxBatch
    /\ accepted \in [Node -> BOOLEAN]
    /\ report \in [Node -> Report \cup {None}]
    /\ g_pbft_view_change_msgs \in Seq(Replica)
    /\ newView = None \/ newView \in NewView
    /\ lost \in [Node -> SUBSET Node]
    /\ voted \in [Node -> SUBSET (1 .. MaxBatch)]
    /\ recommitted \in [Node -> SUBSET (1 .. MaxBatch)]
    /\ executeMsgs \in [Node -> Seq(1 .. MaxBatch)]
    /\ aborted \in [Node -> Assertions \cup {None}]

\* Every node has executed the batches up to the first checkpoint and has the
\* CHECKPOINTs of all others, but for one of the old primary's, which is late.
FirstCheckpoints(n) == Node \ (IF n = Late THEN {n, Primary} ELSE {n})
VCInit ==
    /\ executed = [n \in Node |-> Interval]
    /\ g_last_stable_chkpt = [n \in Node |-> Interval]
    /\ g_pbft_chkpt_msgs = [n \in Node |->
           [index : {Interval}, return_node : FirstCheckpoints(n)]]
    /\ chkptsTaken = [n \in Node |->
           [s \in Node |-> IF s \in FirstCheckpoints(n) THEN 1 ELSE 0]]
    /\ got = [n \in Replica |-> Interval]
    /\ prepared = [n \in Replica |-> Interval]
    /\ accepted = [n \in Node |-> FALSE]
    /\ report = [n \in Node |-> None]
    /\ g_pbft_view_change_msgs = <<>>
    /\ newView = None
    /\ lost = [n \in Node |-> {}]
    /\ voted = [n \in Node |-> {}]
    /\ recommitted = [n \in Node |-> {}]
    /\ executeMsgs = [n \in Node |-> <<>>]
    /\ aborted = [n \in Node |-> None]

Abort(n, why) == aborted' = [aborted EXCEPT ![n] = why]

\* Bound: once an assertion has failed on a replica nothing is followed further.
Runs == \A n \in Node : aborted[n] = None

-----------------------------------------------------------------------------
\* The old view.

\* The last batch the client has seen 2F+1 answers for.
Answered == CHOOSE b \in 0 .. MaxBatch :
    /\ Cardinality({n \in Node : executed[n] >= b}) >= 2 * F + 1
    /\ Cardinality({n \in Node : executed[n] > b}) < 2 * F + 1

\* process_client_batch and process_batch on the primary send what the client
\* submits.  BATCH_REQs can be late for ever, so nothing is lost by sending
\* them as soon as the client allows it.
Ordered == Min({MaxBatch, Answered + Window})

\* A replica stores the next BATCH_REQ and sends its PREP.  One that has
\* accepted the new view finds the view in the message wrong; at the new primary
\* the message waits with those it is to order, which are not followed.
StoreBatch(n) ==
    /\ Runs /\ n \in Replica
    /\ got[n] < Ordered
    /\ ~(n = NextPrimary /\ accepted[n])
    /\ IF accepted[n]
       THEN Abort(n, "late") /\ UNCHANGED got
       ELSE got' = [got EXCEPT ![n] = @ + 1] /\ UNCHANGED aborted
    /\ UNCHANGED <<executed, checkpointVars, prepared, changeVars, commitVars>>

\* 2F PREPs are there, a replica's own one included: it sends its COMMIT.
Prepare(n) ==
    LET b == prepared[n] + 1
    IN /\ Runs /\ n \in Replica
       /\ ~accepted[n]
       /\ b =< got[n]
       /\ Cardinality({s \in Replica : got[s] >= b}) >= 2 * F
       /\ prepared' = [prepared EXCEPT ![n] = b]
       /\ UNCHANGED <<executed, checkpointVars, got, changeVars, commitVars, aborted>>

\* The COMMIT of s for b can have been sent.  The primary's needs 2F PREPs and
\* nothing else, and like its BATCH_REQs may be late for ever.
SentCommit(s, b) ==
    IF s = Primary THEN Cardinality({r \in Replica : got[r] >= b}) >= 2 * F
                   ELSE prepared[s] >= b

\* process_pbft_commit_msg: 2F COMMITs of others are there besides its own, and
\* an EXECUTE_MSG is left for the execution thread.  Node 0 fails an assertion
\* on purpose, to show a change of view, at the second batch after the first
\* checkpoint; the others cannot tell whether it has failed or waits.
Commit(n) ==
    LET b == executed[n] + Len(executeMsgs[n]) + 1
    IN /\ Runs /\ ~accepted[n]
       /\ SentCommit(n, b)
       /\ Cardinality({s \in Node \ {n} : SentCommit(s, b)}) >= 2 * F
       /\ n = Primary => b =< Interval + 1
       /\ executeMsgs' = [executeMsgs EXCEPT ![n] = Append(@, b)]
       /\ UNCHANGED <<executed, checkpointVars, agreementVars, changeVars,
                      voted, recommitted, aborted>>

-----------------------------------------------------------------------------
\* PBFTViewChangeMsg

Holds(last, b) == last - Slots < b /\ b =< last

\* The batches of n with 2F PREPs in the store if h[s] are in from s, listed from
\* the slot after the checkpoint's to the end of the stores, then from their start.
EnoughToReport_Commits(cnt) == cnt >= 2 * F + 1
EnoughToReport(cnt) == cnt >= 2 * F

RingPlace_FromZero(b, stable) == (b - 1) % Slots
RingPlace(b, stable) == (b - 1 - stable) % Slots

Reported(n, h) ==
    {b \in g_last_stable_chkpt[n] + 1 .. MaxBatch :
        /\ Holds(got[n], b)
        /\ EnoughToReport(1 + Cardinality({s \in Others(n) : Holds(h[s], b)}))}

\* What n can have handled: the PREPs that made it send its COMMITs, and none
\* that would have made it send another one.
Handled(n) ==
    {h \in [Others(n) -> Interval .. MaxBatch] :
        /\ \A s \in Others(n) : h[s] =< got[s]
        /\ \A b \in Interval + 1 .. got[n] :
              b =< prepared[n] <=>
                  Cardinality({s \in Others(n) : h[s] >= b}) >= 2 * F - 1}

\* run(): the timer of a replica runs out; the next primary only waits then.
TimerRunsOut(n) ==
    /\ Runs /\ n \notin {Primary, NextPrimary}
    /\ ~accepted[n] /\ report[n] = None
    /\ IF Cardinality(g_pbft_chkpt_msgs[n]) < 2 * F
       THEN Abort(n, "checkpoint") /\ UNCHANGED report
       ELSE /\ \E h \in Handled(n) : report' = [report EXCEPT ![n] =
                   [index |-> g_last_stable_chkpt[n],
                    batches |-> Reported(n, h),
                    done |-> IF \E m \in Node : report[m] # None THEN MaxBatch
                            ELSE Max({executed[m] : m \in Node})]]
            /\ UNCHANGED aborted
    /\ UNCHANGED <<executed, checkpointVars, agreementVars, accepted,
                   g_pbft_view_change_msgs, newView, lost, commitVars>>

\* process_pbft_view_change_msg at the other replicas, which do nothing with the
\* reports, their own among them, but compare the checkpoints.
CompareReports(n, s) ==
    /\ Runs /\ n \notin {Primary, NextPrimary, s}
    /\ ~accepted[n] /\ report[n] # None /\ report[s] # None
    /\ report[n].index # report[s].index
    /\ Abort(n, "index")
    /\ UNCHANGED <<executed, checkpointVars, agreementVars, changeVars, commitVars>>

-----------------------------------------------------------------------------
\* PBFTNewViewMsg::init walks through the reports, and comes across b before c
\* in an earlier one, or in the same one.
Reports(msgs) == UNION {report[s].batches : s \in ToSet(msgs)}

Precedes(b, c, msgs) ==
    \E j \in DOMAIN msgs :
        LET r == report[msgs[j]]
        IN /\ b \in r.batches
           /\ \A i \in 1 .. j - 1 : report[msgs[i]].batches \cap {b, c} = {}
           /\ c \in r.batches => RingPlace(b, r.index) < RingPlace(c, r.index)

\* A batch gets its place, but the k-th one it comes across gets the requests of
\* the k-th batch after the checkpoint (nextSetId), from cqryStore.
Turn(b, msgs) == 1 + Cardinality({c \in Reports(msgs) : Precedes(c, b, msgs)})

Contents(stable, msgs) ==
    [pos \in 1 .. Cardinality(Reports(msgs)) |-> stable + Turn(stable + pos, msgs)]

\* process_pbft_view_change_msg at the next primary.
HandleReport(s) ==
    LET msgs == Append(g_pbft_view_change_msgs, s)
        stable == g_last_stable_chkpt[NextPrimary]
        found == Reports(msgs)
        places == {stable + k : k \in 1 .. Cardinality(found)}
        failure ==
            IF \E r \in ToSet(msgs) : report[r].index # report[s].index THEN "index"
            ELSE IF Len(msgs) < 2 * F THEN None
            ELSE IF report[s].index # stable THEN "index"
            ELSE IF found # places THEN "gap"
            ELSE IF \E b \in places : ~Holds(got[NextPrimary], b) THEN "store"
            ELSE None
    IN /\ Runs /\ ~accepted[NextPrimary]
       /\ report[s] # None /\ s \notin ToSet(g_pbft_view_change_msgs)
       /\ g_pbft_view_change_msgs' = msgs
       /\ Abort(NextPrimary, failure)
       /\ IF failure # None \/ Len(msgs) < 2 * F
          THEN UNCHANGED <<accepted, newView>>
          ELSE /\ newView' = [index |-> stable, content |-> Contents(stable, msgs)]
               /\ accepted' = [accepted EXCEPT ![NextPrimary] = TRUE]
       /\ UNCHANGED <<executed, checkpointVars, agreementVars, report, lost, commitVars>>

\* The batches of the new view.  PREPs and COMMITs are for one of these.
Proposed_OneMore == newView.index + 1 .. newView.index + Len(newView.content) + 1
Proposed == newView.index + 1 .. newView.index + Len(newView.content)
LastProposed == newView.index + Len(newView.content)

\* process_batch claims the manager of every batch that is proposed, and run()
\* gives back that of the last one alone.  What needs another waits for ever: it
\* is put back again and again, and the execution thread spins.
HeldBack(n, b) == accepted[n] /\ n # NextPrimary /\ b \in Proposed /\ b # LastProposed

\* A replica compares what is proposed for each place with the reports, resets
\* its stores and its counters, and sends its PREPs; no manager it claims may be
\* with the execution thread.  PREPs of other replicas that came before NEW_VIEW
\* are in g_msg_wait, which only a new primary looks into, and does so before
\* there are any.  The old primary is left in the old view.
AcceptNewView(n) ==
    /\ Runs /\ n \notin {Primary, NextPrimary}
    /\ newView # None /\ ~accepted[n]
    /\ \/ /\ \E pos \in DOMAIN newView.content : newView.content[pos] # newView.index + pos
          /\ Abort(n, "new_view") /\ UNCHANGED <<accepted, lost>>
       \/ /\ executeMsgs[n] # <<>> /\ Head(executeMsgs[n]) \in Proposed
          /\ Abort(n, "ready") /\ UNCHANGED <<accepted, lost>>
       \/ /\ \A pos \in DOMAIN newView.content : newView.content[pos] = newView.index + pos
          /\ accepted' = [accepted EXCEPT ![n] = TRUE]
          /\ \E early \in SUBSET {s \in Others(n) \ {NextPrimary} : accepted[s]} :
                lost' = [lost EXCEPT ![n] = early]
          /\ UNCHANGED aborted
    /\ UNCHANGED <<executed, checkpointVars, agreementVars, report,
                   g_pbft_view_change_msgs, newView, commitVars>>

-----------------------------------------------------------------------------
\* The new view.

\* 2F PREPs are there, a replica's own one included; the next primary sends none.
HasNewPreps(n, b) ==
    /\ ~HeldBack(n, b)
    /\ LET from == {s \in Others(n) \ ({NextPrimary} \cup lost[n]) : accepted[s]}
       IN Cardinality(from) >= IF n = NextPrimary THEN 2 * F ELSE 2 * F - 1

\* process_pbft_prep_msg drops the PREPs of a batch that has been executed
\* (g_next_index) when they come.
VotesInNewView_Again(n, b) == HasNewPreps(n, b)
VotesInNewView(n, b) == HasNewPreps(n, b) /\ executed[n] < b

\* 2F PREPs are there: the node sends its COMMIT.
PrepareInNewView(n) ==
    /\ Runs /\ accepted[n]
    /\ \E b \in Proposed :
          /\ VotesInNewView(n, b) /\ b \notin voted[n]
          /\ voted' = [voted EXCEPT ![n] = @ \cup {b}]
    /\ UNCHANGED <<executed, checkpointVars, agreementVars, changeVars,
                   recommitted, executeMsgs, aborted>>

CommitsInNewView(n, b) ==
    /\ executed[n] < b
    /\ Cardinality({s \in Node \ {n} : b \in voted[s]}) >= 2 * F

\* What reset() has made of a batch that waits for the execution thread does not
\* keep it from getting a second EXECUTE_MSG.
CommitInNewView(n) ==
    /\ Runs
    /\ \E b \in voted[n] \ recommitted[n] :
          /\ CommitsInNewView(n, b)
          /\ recommitted' = [recommitted EXCEPT ![n] = @ \cup {b}]
          /\ executeMsgs' = [executeMsgs EXCEPT ![n] = Append(@, b)]
    /\ UNCHANGED <<executed, checkpointVars, agreementVars, changeVars, voted, aborted>>

-----------------------------------------------------------------------------
\* process_execute_msg, in the old view and in the new one: it asserts that the
\* batch is the next one (g_next_index).
ExecuteNext(n) ==
    /\ Runs /\ executeMsgs[n] # <<>>
    /\ LET b == Head(executeMsgs[n])
       IN /\ ~HeldBack(n, b)
          /\ IF b = executed[n] + 1
             THEN /\ Execute(n) /\ UNCHANGED aborted
                  /\ executeMsgs' = [executeMsgs EXCEPT ![n] = Tail(@)]
             ELSE /\ Abort(n, "execute")
                  /\ UNCHANGED <<executed, checkpointVars, executeMsgs>>
    /\ UNCHANGED <<agreementVars, changeVars, voted, recommitted>>

\* The old primary's list plays no part in the change, nor does that of a node
\* that has reported or accepted: what comes later is left out.
TakeCheckpoint(n, s) ==
    /\ Runs /\ n # Primary
    /\ report[n] = None /\ ~accepted[n]
    /\ HandleCheckpoint(n, s)
    /\ UNCHANGED <<agreementVars, changeVars, commitVars, aborted>>

VCNext ==
    \E n \in Node :
          \/ StoreBatch(n) \/ Prepare(n) \/ Commit(n) \/ ExecuteNext(n)
          \/ TimerRunsOut(n) \/ AcceptNewView(n) \/ HandleReport(n)
          \/ PrepareInNewView(n) \/ CommitInNewView(n)
          \/ \E s \in Node : CompareReports(n, s) \/ TakeCheckpoint(n, s)

\* As long as there are EXECUTE_MSGs, or messages of the new view, on some replica,
\* one of its threads gets to one; timers, and who is slow, are left open.
VCFairness == WF_vars(\E n \in Replica :
    ExecuteNext(n) \/ PrepareInNewView(n) \/ CommitInNewView(n))
VCSpec == VCInit /\ [][VCNext]_vars /\ VCFairness

-----------------------------------------------------------------------------
Changed == newView # None /\ \A n \in Replica : accepted[n]

\* A batch that some node had executed when the first timer ran out is in the
\* new view, at its place if a replica has accepted it: the reports of 2F
\* replicas are enough although one of its 2F+1 COMMITs is the old primary's
\* and one may be the next primary's, who makes no report.
ExecutedSurvives ==
    newView # None =>
        \A b \in 1 .. MaxBatch :
            (\A s \in ToSet(g_pbft_view_change_msgs) : b =< report[s].done) =>
                /\ b =< newView.index \/ b \in Proposed
                /\ (\E n \in Replica \ {NextPrimary} : accepted[n]) /\ b \in Proposed
                      => newView.content[b - newView.index] = b

\* What can have gone wrong when an assertion fails.  A report always has the
\* checkpoint messages it needs.  NEW_VIEW cannot be made or is refused (the
\* assertions on gaps, on the requests and on the places) if more batches than
\* the stores hold were sent after the checkpoint, or the next primary lacks a
\* batch that another replica reports.  Checkpoints differ if some node has got
\* past the first one.  The only batch that comes to the execution thread out of
\* turn is the last one of the new view, if it was left in the queue in the old
\* view too, or one before it is held back.  (A BATCH_REQ that comes late, and a
\* manager that is with the execution thread, need no further reason.)
RefusalExplained ==
    \A n \in Node :
        /\ aborted[n] # "checkpoint"
        /\ aborted[n] \in {"gap", "new_view", "store"} =>
              \/ Ordered > g_last_stable_chkpt[NextPrimary] + Slots
              \/ /\ aborted[n] = "store"
                 /\ \E s \in ToSet(g_pbft_view_change_msgs) :
                       \E b \in report[s].batches : b > got[NextPrimary]
        /\ aborted[n] = "index" => \E m \in Node : g_last_stable_chkpt[m] > Interval
        /\ aborted[n] = "execute" =>
              Head(executeMsgs[n]) = LastProposed /\ LastProposed \in recommitted[n]

\* b waits for nobody at n, who has not executed it, and m has executed it before
\* it could vote for it in the new view.
Behind(n, m, b) ==
    /\ accepted[n] /\ executed[n] < b /\ b \notin ToSet(executeMsgs[n])
    /\ accepted[m] /\ executed[m] >= b /\ b \notin voted[m]

\* A replica that has accepted the new view without having, or still waiting to
\* execute, a batch that another one has executed never executes it: the other
\* does not vote a second time, and without the old primary every vote is needed.
LateNodesStayBehind ==
    [][newView # None =>
          \A n, m \in Replica, b \in Proposed : Behind(n, m, b) => Behind(n, m, b)']_vars

Completed == newView # None /\ \A n \in Replica, b \in Proposed : executed[n] >= b

\* All replicas have or are about to execute what is before the last batch of the
\* new view, none has that one, and no PREP came before NEW_VIEW.
OnlyLastIsLeft ==
    Changed /\ \A n \in Replica :
        /\ lost[n] = {}
        /\ executed[n] + Len(executeMsgs[n]) = LastProposed - 1
        /\ \A b \in ToSet(executeMsgs[n]) : ~HeldBack(n, b)

=============================================================================
