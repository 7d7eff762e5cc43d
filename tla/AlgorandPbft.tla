----------------------------- MODULE AlgorandPbft -----------------------------
(***************************************************************************)
(* The whole node: the replication core of Pbft with the vote layer of     *)
(* Algorand that rides on its messages.  Each action is the action of Pbft *)
(* together with what the same handler does to g_algorand and to m_dp,     *)
(* inside #if ALGORAND.  The layer reads the core and never the converse.  *)
(*                                                                         *)
(* The hash of the block made of batch b is written b.  Of m_dp, the seed  *)
(* and the value are kept: the rest is filled in from sortition() just     *)
(* before a package is sent.  The package a COMMIT carries is read by      *)
(* nobody and left out.                                                    *)
(***************************************************************************)
EXTENDS Pbft, Algorand, FiniteSetsExt

VARIABLES
    alg,        \* alg[n]: the object g_algorand of n
    m_dp,       \* m_dp[n]: the package n prepares its votes in
    ticket      \* ticket[s][b]: the package in s's BATCH_REQ or PREP of b

voteVars == <<alg, m_dp, ticket>>
nodeVars == <<vars, voteVars>>

ASSUME ValueAssumption == Value = Batch \cup {WarmUp} /\ WarmUp \notin Batch
ASSUME NoPackageAssumption == None \notin DataPackage

VoteTypeOK ==
    /\ alg \in [Node -> Object]
    /\ m_dp \in [Node -> [seed : Seed, value : Value]]
    /\ ticket \in [Node -> [Batch -> DataPackage \cup {None}]]

-----------------------------------------------------------------------------
NodeInit ==
    /\ Init
    /\ alg = [n \in Node |-> InitialObject]
    /\ m_dp = [n \in Node |-> [seed |-> Genesis, value |-> WarmUp]]
    /\ ticket = [s \in Node |-> [b \in Batch |-> None]]

\* process_batch on a replica: the proposer's vote counts if it is valid.
AfterBatch(a, dp) ==
    IF Verify(a, dp) # Invalid THEN CountVotes(a, dp) ELSE a

\* process_pbft_prep_msg: "if(votes)" also lets Invalid through.
AfterPrep(a, dp) == IF Verify(a, dp) # 0 THEN CountVotes(a, dp) ELSE a

\* Node n, its object being a, draws its own lot for value, counts it and
\* sends it along with batch b.
Vote(n, b, a, value) ==
    LET dp == Ticket(a, n, value)
    IN  /\ alg' = [alg EXCEPT ![n] = CountVotes(Sortition(a, n, value), dp)]
        /\ m_dp' = [m_dp EXCEPT ![n] = [seed |-> a.seed, value |-> value]]
        /\ ticket' = [ticket EXCEPT ![n][b] = dp]

\* The round ends: execute() is given the old seed, reset() makes the new one.
AfterRound_SeedFromPackage(a, n, dp) ==
    [Reset(Execute(a, n, FirstChar(dp.seed))) EXCEPT !.seed = Prefix(dp.value)]
AfterRound(a, n, dp) == Reset(Execute(a, n, FirstChar(dp.seed)))
EndRound_OldPackage(n) ==
    /\ alg' = [alg EXCEPT ![n] = AfterRound(alg[n], n, m_dp[n])]
    /\ UNCHANGED <<m_dp, ticket>>
EndRound(n) ==
    LET a == AfterRound(alg[n], n, m_dp[n])
    IN  /\ alg' = [alg EXCEPT ![n] = a]
        /\ m_dp' = [m_dp EXCEPT ![n].seed = a.seed]
        /\ UNCHANGED ticket

-----------------------------------------------------------------------------
\* The block to propose is the client's newest batch.
NodeClientBatch(b) ==
    /\ ClientBatch(b)
    /\ m_dp' = [m_dp EXCEPT ![Primary] =
                   [seed |-> alg[Primary].seed, value |-> b]]
    /\ UNCHANGED <<alg, ticket>>

\* What is proposed with b is the value m_dp holds by then.
NodeOrderBatch(b) ==
    /\ OrderBatch(b)
    /\ Vote(Primary, b, alg[Primary], m_dp[Primary].value)

NodeReplicaBatch(n, b) ==
    LET dp == ticket[Primary][b]
    IN  /\ ReplicaBatch(n, b)
        /\ IF n \in aborted'
           THEN UNCHANGED voteVars
           ELSE Vote(n, b, AfterBatch(alg[n], dp), dp.value)

NodePrep(n, s, b) ==
    LET dp == ticket[s][b]
    IN  /\ Prep(n, s, b)
        /\ IF n \in aborted'
           THEN UNCHANGED voteVars
           ELSE /\ alg' = [alg EXCEPT ![n] = AfterPrep(@, dp)]
                /\ m_dp' = [m_dp EXCEPT ![n].value = dp.value]
                /\ UNCHANGED ticket

NodeCommit(n, s, b) ==
    /\ Commit(n, s, b)
    /\ IF execQueue' # execQueue THEN EndRound(n) ELSE UNCHANGED voteVars

NodeNext ==
    \/ \E b \in Batch : NodeClientBatch(b) \/ NodeOrderBatch(b)
    \/ \E n \in Node : ExecuteBatch(n) /\ UNCHANGED voteVars
    \/ \E n \in Node, b \in Batch : NodeReplicaBatch(n, b)
    \/ \E n, s \in Node, b \in Batch : NodePrep(n, s, b) \/ NodeCommit(n, s, b)
    \/ Finished /\ UNCHANGED voteVars

NodeSpec == NodeInit /\ [][NodeNext]_nodeVars

-----------------------------------------------------------------------------
(* Properties *)

\* The block hash the primary sent with batch b, and the batches it has sent.
Ordered == 0 .. expectedBatchCount - 1
Proposed(b) == ticket[Primary][b].value

\* The seed of a node was cut from the block proposed with the last batch it has
\* committed, or with a later one that took that batch's place in the round: no
\* later than the slots reach, on a primary that lags behind no less than on a
\* replica.
SeedWindow ==
    \A n \in Node :
        /\ Committed(n) = {} => alg[n].seed = Genesis
        /\ \A last \in Committed(n) :
              (\A b \in Committed(n) : b <= last) =>
                  \E b \in Ordered : /\ last <= b /\ b < last + Slots
                                     /\ alg[n].seed = Prefix(Proposed(b))

\* Seeds that drifted apart meet again: two nodes that have committed all
\* there is are on the same seed, whatever happened on the way.
SettledSeedsAgree ==
    \A n, m \in Node \ aborted :
        Committed(n) = Ordered /\ Committed(m) = Ordered
            => alg[n].seed = alg[m].seed

\* The tally of a round is made of one package for each key that counts as
\* seen, the value and the votes being those of a package its owner sent.
TallyExplained ==
    \A n \in Node : \E from \in [alg[n].countvotes_pk -> Batch] :
        LET dp(s) == ticket[s][from[s]]
            Add(s, tally) == [tally EXCEPT ![dp(s).value] = @ + dp(s).j]
        IN  /\ \A s \in alg[n].countvotes_pk : dp(s) # None
            /\ alg[n].counts = FoldSet(Add, [v \in Value |-> 0],
                                      alg[n].countvotes_pk)

\* m_dp.seed, which is what the seed of a message is compared with and what
\* execute() is given, is the seed of the node's own object.
SeedMirror == \A n \in Node : m_dp[n].seed = alg[n].seed

\* dataPackage::value, "the hash of proposed block": the package sent with a
\* batch is for that batch.
ProposalCarriesItsBlock ==
    \A b \in Ordered : Proposed(b) = b

\* "verify and count votes": the vote of another is counted if it is valid
\* for the seed of the node that counts it.
OnlyVerifiedVotesCounted ==
    [][\A n \in Node :
          \A s \in (alg'[n].countvotes_pk \ alg[n].countvotes_pk) \ {n} :
              LET b == log[s][rcvd[n][s] + 1].batch
              IN  Verify(alg[n], ticket[s][b]) # Invalid]_nodeVars

\* "it will change the property of everyone": when all nodes have committed
\* the same batches, what a node takes for the wallet of another is what
\* execute() gave the other.
WalletsAgree ==
    (\A n \in Node : Committed(n) = Ordered) =>
        \A n, s \in Node : alg[n].wallet[s] = alg[s].m_wallet
=============================================================================
