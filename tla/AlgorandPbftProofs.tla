-------------------------- MODULE AlgorandPbftProofs --------------------------
(* Theorems about AlgorandPbft: it adds nothing to what the core does, and   *)
(* what becomes of the seeds of the four nodes, for any window and batches.  *)
EXTENDS AlgorandInvariant, PbftWindowProofs

-----------------------------------------------------------------------------
(* The core within the node *)

\* A step of the node is one of the core, or leaves the core alone.
LEMMA NodeStepsOfCore == [NodeNext]_nodeVars => [Next]_vars
  BY DEF NodeNext, Next, NodeClientBatch, NodeOrderBatch, NodeReplicaBatch, NodePrep,
         NodeCommit, nodeVars

\* The vote layer reads the core and never the converse: whatever the lottery,
\* the node runs as the core alone may run, so that all that is proved of Pbft
\* is true of it.
THEOREM NodeKeepsCore == NodeSpec => Spec
  <1>1. NodeInit => Init
    BY DEF NodeInit
  <1> QED BY <1>1, NodeStepsOfCore, PTL DEF NodeSpec, Spec

-----------------------------------------------------------------------------
(* The methods of the class *)

\* The remainder by 100 of a character lies below 100.
LEMMA CharRemainder == \A c \in 0 .. 127 : c % 100 \in 0 .. 99
  OBVIOUS

\* sortition() gives the object its block and leaves the seed.
LEMMA SortitionType ==
  ASSUME NEW a \in Object, NEW n \in Node, NEW v \in Value
  PROVE  /\ Sortition(a, n, v) \in Object
         /\ Sortition(a, n, v).seed = a.seed
         /\ Sortition(a, n, v).m_block = v
  BY DEF Object, Sortition

\* countVotes() leaves block and seed.
LEMMA CountVotesType ==
  ASSUME NEW a \in Object, NEW dp \in DataPackage
  PROVE  /\ CountVotes(a, dp) \in Object
         /\ CountVotes(a, dp).seed = a.seed
         /\ CountVotes(a, dp).m_block = a.m_block
  <1>1. CASE dp.node \in a.countvotes_pk
    BY <1>1 DEF CountVotes
  <1>2. CASE dp.node \notin a.countvotes_pk
    <2> DEFINE counted == [a.counts EXCEPT ![dp.value] = @ + dp.j]
               keys == a.countvotes_pk \cup {dp.node}
               u == [a EXCEPT !.countvotes_pk = keys, !.counts = counted]
    <2>1. dp.node \in Node /\ dp.value \in Value /\ dp.j \in Nat
      BY DEF DataPackage
    <2>2. a.counts \in [Value -> Nat] /\ a.countvotes_pk \in SUBSET Node
      BY DEF Object
    <2>3. counted \in [Value -> Nat] /\ keys \in SUBSET Node
      BY <2>1, <2>2
    <2>4. CountVotes(a, dp) = u
      BY <1>2 DEF CountVotes
    <2> HIDE DEF counted, keys
    <2>5. u \in Object /\ u.seed = a.seed /\ u.m_block = a.m_block
      BY <2>3 DEF Object
    <2> QED BY <2>4, <2>5
  <1> QED BY <1>1, <1>2

\* What a replica makes of the package of a BATCH_REQ or of a PREP.
LEMMA AfterMessageType ==
  ASSUME NEW a \in Object, NEW dp \in DataPackage
  PROVE  /\ AfterBatch(a, dp) \in Object /\ AfterPrep(a, dp) \in Object
         /\ AfterBatch(a, dp).seed = a.seed /\ AfterPrep(a, dp).seed = a.seed
         /\ AfterPrep(a, dp).m_block = a.m_block
  BY CountVotesType DEF AfterBatch, AfterPrep

\* A package made of an object.
LEMMA TicketType ==
  ASSUME NEW a \in Object, NEW n \in Node, NEW v \in Value
  PROVE  Ticket(a, n, v) \in DataPackage /\ Ticket(a, n, v).value = v
  BY DrawAssumption DEF Object, Ticket, DataPackage

\* At the end of a round the next seed is cut out of the block.
LEMMA AfterRoundType ==
  ASSUME NEW a \in Object, NEW n \in Node, NEW dp, dp.seed \in Seed
  PROVE  /\ AfterRound(a, n, dp) \in Object
         /\ AfterRound(a, n, dp).seed = Prefix(a.m_block)
         /\ AfterRound(a, n, dp).m_block = a.m_block
  <1> DEFINE amount == ((FirstChar(dp.seed) % 100) + 1) * 2
             e == Execute(a, n, FirstChar(dp.seed))
  <1>1. amount \in Wallet
    <2>1. FirstChar(dp.seed) % 100 \in 0 .. 99
      BY FirstCharAssumption, CharRemainder
    <2> QED BY <2>1 DEF Wallet
  <1>2. e = [a EXCEPT !.m_wallet = amount, !.wallet[n] = amount]
    BY DEF Execute
  <1> HIDE DEF amount, e
  <1>3. e \in Object /\ e.m_block = a.m_block
    BY <1>1, <1>2 DEF Object
  <1>4. AfterRound(a, n, dp) = Reset(e)
    BY DEF AfterRound, e
  <1>5. a.m_block \in Value /\ Prefix(a.m_block) \in Seed
    BY DEF Object, Seed
  <1> DEFINE none == [v \in Value |-> 0]
             next == Prefix(e.m_block)
  <1>6. Reset(e) = [e EXCEPT !.counts = none, !.countvotes_pk = {}, !.seed = next]
    BY DEF Reset
  <1>7. none \in [Value -> Nat] /\ next \in Seed /\ next = Prefix(a.m_block)
    BY <1>3, <1>5
  <1> HIDE DEF none, next
  <1>8. /\ Reset(e) \in Object /\ Reset(e).seed = next
        /\ Reset(e).m_block = e.m_block
    BY <1>3, <1>6, <1>7 DEF Object
  <1> QED BY <1>3, <1>4, <1>7, <1>8

-----------------------------------------------------------------------------
(* What the handlers do to object, package and tickets *)

\* The object and the package of node n are those given, nothing else changes.
Becomes(n, a, dp) == alg' = [alg EXCEPT ![n] = a] /\ m_dp' = [m_dp EXCEPT ![n] = dp]
LEMMA BecomesKeeps ==
  ASSUME VoteTypeOK, SeedMirror, NEW n \in Node, NEW a \in Object,
         NEW dp \in [seed : Seed, value : Value], dp.seed = a.seed, Becomes(n, a, dp)
  PROVE  /\ alg' \in [Node -> Object]
         /\ m_dp' \in [Node -> [seed : Seed, value : Value]]
         /\ SeedMirror'
         /\ alg'[n] = a
         /\ \A m \in Node \ {n} : alg'[m] = alg[m]
  BY DEF VoteTypeOK, SeedMirror, Becomes

\* What a node's object, package and tickets are.
LEMMA VoteTypes ==
  ASSUME VoteTypeOK, NEW n \in Node
  PROVE  /\ alg[n] \in Object /\ alg[n].seed \in Seed /\ alg[n].m_block \in Value
         /\ m_dp[n] \in [seed : Seed, value : Value]
         /\ m_dp[n].seed \in Seed /\ m_dp[n].value \in Value
  BY DEF VoteTypeOK, Object

\* A node that votes with b has drawn for the value, and sends it with b.
LEMMA VoteKeeps ==
  ASSUME VoteTypeOK, SeedMirror, NEW n \in Node, NEW b \in Batch, NEW a \in Object,
         NEW v \in Value, a.seed = alg[n].seed, Vote(n, b, a, v)
  PROVE  /\ VoteTypeOK' /\ SeedMirror'
         /\ alg'[n].m_block = v /\ alg'[n].seed = alg[n].seed
         /\ \A m \in Node \ {n} : alg'[m] = alg[m]
         /\ ticket'[n][b] \in DataPackage /\ ticket'[n][b].value = v
         /\ \A s \in Node, c \in Batch : s # n \/ c # b => ticket'[s][c] = ticket[s][c]
  <1> DEFINE dp == Ticket(a, n, v)
             o == CountVotes(Sortition(a, n, v), dp)
             p == [seed |-> a.seed, value |-> v]
  <1>1. dp \in DataPackage /\ dp.value = v
    BY TicketType
  <1>2. o \in Object /\ o.seed = a.seed /\ o.m_block = v
    BY <1>1, SortitionType, CountVotesType
  <1>3. p \in [seed : Seed, value : Value] /\ p.seed = o.seed
    BY <1>2 DEF Object
  <1>4. Becomes(n, o, p) /\ ticket' = [ticket EXCEPT ![n][b] = dp]
    BY DEF Vote, Becomes
  <1> HIDE DEF dp, o, p
  <1>5. /\ alg' \in [Node -> Object] /\ m_dp' \in [Node -> [seed : Seed, value : Value]]
        /\ SeedMirror' /\ alg'[n] = o
        /\ \A m \in Node \ {n} : alg'[m] = alg[m]
    BY <1>2, <1>3, <1>4, BecomesKeeps
  <1>6. /\ ticket' \in [Node -> [Batch -> DataPackage \cup {None}]]
        /\ ticket'[n][b] = dp
        /\ \A s \in Node, c \in Batch : s # n \/ c # b => ticket'[s][c] = ticket[s][c]
    <2>1. ticket \in [Node -> [Batch -> DataPackage \cup {None}]]
      BY DEF VoteTypeOK
    <2> QED BY <1>1, <1>4, <2>1
  <1> QED BY <1>1, <1>2, <1>5, <1>6 DEF VoteTypeOK

\* A node that has committed is on the seed cut from its block.
LEMMA EndRoundKeeps ==
  ASSUME VoteTypeOK, SeedMirror, NEW n \in Node, EndRound(n)
  PROVE  /\ VoteTypeOK' /\ SeedMirror' /\ ticket' = ticket
         /\ alg'[n].m_block = alg[n].m_block
         /\ alg'[n].seed = Prefix(alg[n].m_block)
         /\ \A m \in Node \ {n} : alg'[m] = alg[m]
  <1> DEFINE o == AfterRound(alg[n], n, m_dp[n])
             p == [m_dp[n] EXCEPT !.seed = o.seed]
  <1>1. /\ alg[n] \in Object /\ m_dp[n].seed \in Seed
        /\ m_dp[n] \in [seed : Seed, value : Value]
    BY VoteTypes
  <1>2. /\ o \in Object /\ o.seed = Prefix(alg[n].m_block)
        /\ o.m_block = alg[n].m_block
    BY <1>1, AfterRoundType
  <1>3. Becomes(n, o, p) /\ ticket' = ticket
    BY DEF EndRound, Becomes
  <1> HIDE DEF o
  <1>4. p \in [seed : Seed, value : Value] /\ p.seed = o.seed
    BY <1>1, <1>2 DEF Object
  <1> HIDE DEF p
  <1> QED BY <1>2, <1>3, <1>4, BecomesKeeps DEF VoteTypeOK

-----------------------------------------------------------------------------
(* Objects, packages and tickets of any number of nodes *)

\* Nothing is sent that a package goes with.
NothingNew ==
    \A s \in Node, b \in Batch :
        (Sent(s, "BATCH_REQ", b) \/ Sent(s, "PREP", b))'
           => Sent(s, "BATCH_REQ", b) \/ Sent(s, "PREP", b)

\* A step that leaves the vote layer alone and sends nothing of the kind.
LEMMA PackagesQuiet ==
  ASSUME PackageInv, NothingNew, UNCHANGED voteVars
  PROVE  PackageInv'
  BY DEF PackageInv, VoteTypeOK, TicketsSent, SeedMirror, NothingNew, voteVars

\* What is in the logs was sent.
LEMMA QuietLogs == UNCHANGED log => NothingNew
  BY DEF NothingNew, Sent, Msg

\* Node n draws for v and sends the package with its message of batch b.
LEMMA VotePackages ==
  ASSUME PackageInv, NEW n \in Node, NEW b \in Batch, NEW a \in Object, NEW v \in Value,
         a.seed = alg[n].seed, Vote(n, b, a, v),
         \A s \in Node, c \in Batch :
            (Sent(s, "BATCH_REQ", c) \/ Sent(s, "PREP", c))'
               => Sent(s, "BATCH_REQ", c) \/ Sent(s, "PREP", c) \/ (s = n /\ c = b)
  PROVE  PackageInv'
  <1>1. /\ VoteTypeOK' /\ SeedMirror' /\ ticket'[n][b] \in DataPackage
        /\ \A s \in Node, c \in Batch : s # n \/ c # b => ticket'[s][c] = ticket[s][c]
    BY VoteKeeps DEF PackageInv
  <1> QED BY <1>1 DEF PackageInv, TicketsSent

\* The package that comes with the message a node takes.
LEMMA TakenPackage ==
  ASSUME TypeOK, PackageInv, NEW n \in Node, NEW s \in Node, NEW b \in Batch,
         Takes(n, s, "BATCH_REQ", b) \/ Takes(n, s, "PREP", b)
  PROVE  ticket[s][b] \in DataPackage /\ ticket[s][b].value \in Value
  <1>1. Sent(s, "BATCH_REQ", b) \/ Sent(s, "PREP", b)
    BY TakenWasSent
  <1> QED BY <1>1 DEF PackageInv, TicketsSent, DataPackage

\* process_client_batch puts the new block into the package of the primary.
LEMMA ClientBatchPackages ==
  ASSUME PackageInv, NEW b \in Batch, NodeClientBatch(b)
  PROVE  PackageInv'
  <1>1. NothingNew
    BY QuietLogs DEF NodeClientBatch, ClientBatch, netVars
  <1>2. alg' = alg /\ ticket' = ticket /\ Primary \in Node /\ b \in Value
    BY PrimaryAssumption, ValueAssumption DEF NodeClientBatch
  <1> DEFINE dp == [seed |-> alg[Primary].seed, value |-> b]
  <1>3. m_dp' = [m_dp EXCEPT ![Primary] = dp]
    BY DEF NodeClientBatch
  <1>4. dp \in [seed : Seed, value : Value] /\ dp.seed = alg[Primary].seed
    BY <1>2, VoteTypes DEF PackageInv
  <1> HIDE DEF dp
  <1>5. VoteTypeOK' /\ SeedMirror'
    BY <1>2, <1>3, <1>4 DEF PackageInv, VoteTypeOK, SeedMirror
  <1> QED BY <1>1, <1>2, <1>5 DEF PackageInv, TicketsSent, NothingNew

\* process_batch on the primary.
LEMMA OrderBatchPackages ==
  ASSUME TypeOK, PackageInv, NEW b \in Batch, NodeOrderBatch(b)
  PROVE  PackageInv'
  <1> DEFINE v == m_dp[Primary].value
  <1>1. /\ Broadcasts(Primary, <<Msg("BATCH_REQ", b)>>) /\ Primary \in Node
        /\ Vote(Primary, b, alg[Primary], v)
    BY PrimaryAssumption DEF NodeOrderBatch, OrderBatch
  <1>2. v \in Value /\ alg[Primary] \in Object
    BY <1>1, VoteTypes DEF PackageInv
  <1> HIDE DEF v
  <1>3. \A r \in Node : \A t, c :
           Sent(r, t, c)' <=> Sent(r, t, c) \/ (r = Primary /\ t = "BATCH_REQ" /\ c = b)
    BY <1>1, SendsOne
  <1> QED BY <1>1, <1>2, <1>3, VotePackages

\* process_batch on a replica, unless it aborts.
LEMMA ReplicaBatchPackages ==
  ASSUME TypeOK, PackageInv, NEW n \in Node, NEW b \in Batch, NodeReplicaBatch(n, b)
  PROVE  PackageInv'
  <1> DEFINE dp == ticket[Primary][b]
             a == AfterBatch(alg[n], dp)
             v == dp.value
  <1>1. /\ Takes(n, Primary, "BATCH_REQ", b) /\ Primary \in Node /\ n \notin aborted
        /\ \/ Abort(n)
           \/ aborted' = aborted /\ Broadcasts(n, <<Msg("PREP", b)>>)
           \/ aborted' = aborted /\ Broadcasts(n, <<Msg("PREP", b), Msg("COMMIT", b)>>)
    BY PrimaryAssumption DEF NodeReplicaBatch, ReplicaBatch, Takes
  <1>2. CASE Abort(n)
    <2>1. NothingNew
      BY <1>2, QuietLogs DEF Abort
    <2>2. UNCHANGED voteVars
      BY <1>2 DEF Abort, NodeReplicaBatch
    <2> QED BY <2>1, <2>2, PackagesQuiet
  <1>3. CASE ~Abort(n)
    <2>1. dp \in DataPackage /\ alg[n] \in Object /\ v \in Value
      BY <1>1, TakenPackage, VoteTypes DEF PackageInv
    <2>2. Vote(n, b, a, v)
      BY <1>1, <1>3 DEF NodeReplicaBatch
    <2>3. a \in Object /\ a.seed = alg[n].seed
      <3> HIDE DEF dp
      <3> QED BY <2>1, AfterMessageType
    <2> HIDE DEF dp, a, v
    <2>4. \A r \in Node : \A t, c :
             Sent(r, t, c)' => Sent(r, t, c) \/ (r = n /\ c = b)
      <3>1. CASE Broadcasts(n, <<Msg("PREP", b)>>)
        BY <3>1, SendsOne
      <3>2. CASE Broadcasts(n, <<Msg("PREP", b), Msg("COMMIT", b)>>)
        BY <3>2, SendsTwo
      <3> QED BY <1>1, <1>3, <3>1, <3>2
    <2> QED BY <2>1, <2>2, <2>3, <2>4, VotePackages
  <1> QED BY <1>2, <1>3

\* process_pbft_prep_msg: the value of the package the message carries is kept.
LEMMA PrepKeeps ==
  ASSUME TypeOK, PackageInv, NEW n \in Node, NEW s \in Node, NEW b \in Batch,
         NodePrep(n, s, b)
  PROVE  /\ VoteTypeOK' /\ SeedMirror' /\ ticket' = ticket
         /\ \A m \in Node : /\ alg'[m].seed = alg[m].seed
                           /\ alg'[m].m_block = alg[m].m_block
  <1> DEFINE dp == ticket[s][b]
  <1>1. dp \in DataPackage /\ dp.value \in Value
    BY TakenPackage DEF NodePrep, Prep
  <1>2. CASE UNCHANGED voteVars
    BY <1>2 DEF voteVars, PackageInv, VoteTypeOK, SeedMirror
  <1>3. CASE /\ alg' = [alg EXCEPT ![n] = AfterPrep(alg[n], dp)]
             /\ m_dp' = [m_dp EXCEPT ![n].value = dp.value]
             /\ UNCHANGED ticket
    <2> DEFINE a == AfterPrep(alg[n], dp)
               d == [m_dp[n] EXCEPT !.value = dp.value]
    <2>1. /\ alg[n] \in Object /\ m_dp[n] \in [seed : Seed, value : Value]
          /\ m_dp[n].seed = alg[n].seed
      BY VoteTypes DEF PackageInv, SeedMirror
    <2>2. Becomes(n, a, d)
      BY <1>3 DEF Becomes
    <2> HIDE DEF dp
    <2>3. a \in Object /\ a.seed = alg[n].seed /\ a.m_block = alg[n].m_block
      BY <1>1, <2>1, AfterMessageType
    <2> HIDE DEF a
    <2>4. d \in [seed : Seed, value : Value] /\ d.seed = a.seed
      BY <1>1, <2>1, <2>3
    <2> HIDE DEF d
    <2>5. /\ alg' \in [Node -> Object] /\ m_dp' \in [Node -> [seed : Seed, value : Value]]
          /\ SeedMirror' /\ alg'[n] = a /\ \A m \in Node \ {n} : alg'[m] = alg[m]
      BY <2>2, <2>3, <2>4, BecomesKeeps DEF PackageInv
    <2> QED BY <1>3, <2>3, <2>5 DEF PackageInv, VoteTypeOK
  <1>4. IF n \in aborted'
        THEN UNCHANGED voteVars
        ELSE /\ alg' = [alg EXCEPT ![n] = AfterPrep(alg[n], dp)]
             /\ m_dp' = [m_dp EXCEPT ![n].value = dp.value]
             /\ UNCHANGED ticket
    BY DEF NodePrep
  <1> HIDE DEF dp
  <1> QED BY <1>2, <1>3, <1>4

\* A node that handles a PREP says nothing but COMMIT.
LEMMA PrepSays ==
  ASSUME TypeOK, NEW n \in Node, NEW s \in Node, NEW b \in Batch, Prep(n, s, b)
  PROVE  /\ LogsGrow
         /\ \A r \in Node, c \in Batch : /\ Sent(r, "BATCH_REQ", c)' <=> Sent(r, "BATCH_REQ", c)
                                         /\ Sent(r, "PREP", c)' <=> Sent(r, "PREP", c)
  <1>1. CASE log' = log
    BY <1>1, LogType DEF LogsGrow, Sent, Msg
  <1>2. CASE Broadcasts(n, <<Msg("COMMIT", b)>>)
    <2>1. /\ LogsGrow
          /\ \A r \in Node : \A t, c :
                Sent(r, t, c)' <=> Sent(r, t, c) \/ (r = n /\ t = "COMMIT" /\ c = b)
      BY <1>2, SendsOne
    <2> QED BY <2>1
  <1> QED BY <1>1, <1>2 DEF Prep, Abort

\* process_pbft_commit_msg: the round ends or nothing happens.
LEMMA CommitPackages ==
  ASSUME PackageInv, NEW n \in Node, NEW s \in Node, NEW b \in Batch, NodeCommit(n, s, b)
  PROVE  PackageInv'
  <1>1. NothingNew
    BY QuietLogs DEF NodeCommit, Commit, Abort
  <1>2. CASE UNCHANGED voteVars
    BY <1>1, <1>2, PackagesQuiet
  <1>3. CASE EndRound(n)
    <2>1. VoteTypeOK' /\ SeedMirror' /\ ticket' = ticket
      BY <1>3, EndRoundKeeps DEF PackageInv
    <2> QED BY <1>1, <2>1 DEF PackageInv, TicketsSent, NothingNew
  <1> QED BY <1>2, <1>3 DEF NodeCommit

\* Every step of any number of nodes keeps objects, packages and tickets.
LEMMA NextPackageInv == TypeOK /\ PackageInv /\ [NodeNext]_nodeVars => PackageInv'
  <1> SUFFICES ASSUME TypeOK, PackageInv, [NodeNext]_nodeVars PROVE PackageInv'
    OBVIOUS
  <1>1. ASSUME NEW n \in Node, NEW s \in Node, NEW b \in Batch, NodePrep(n, s, b)
        PROVE  PackageInv'
    <2>1. Prep(n, s, b)
      BY <1>1 DEF NodePrep
    <2>2. NothingNew
      BY <2>1, PrepSays DEF NothingNew
    <2>3. VoteTypeOK' /\ SeedMirror' /\ ticket' = ticket
      BY <1>1, PrepKeeps
    <2> QED BY <2>2, <2>3 DEF PackageInv, TicketsSent, NothingNew
  <1>2. CASE \/ UNCHANGED nodeVars
             \/ Finished /\ UNCHANGED voteVars
             \/ \E n \in Node : ExecuteBatch(n) /\ UNCHANGED voteVars
    <2>1. UNCHANGED log /\ UNCHANGED voteVars
      BY <1>2 DEF nodeVars, Finished, vars, netVars, ExecuteBatch, Abort
    <2> QED BY <2>1, QuietLogs, PackagesQuiet
  <1> QED BY <1>1, <1>2, ClientBatchPackages, OrderBatchPackages, ReplicaBatchPackages,
             CommitPackages DEF NodeNext

\* At the start nothing is sent, and every node is on the first seed.
LEMMA InitPackageInv == NodeInit => PackageInv
  <1> SUFFICES ASSUME NodeInit PROVE PackageInv
    OBVIOUS
  <1>1. \A s \in Node : \A t, b : ~Sent(s, t, b)
    BY DEF NodeInit, Init, Sent
  <1>2. /\ alg = [n \in Node |-> InitialObject]
        /\ m_dp = [n \in Node |-> [seed |-> Genesis, value |-> WarmUp]]
        /\ ticket = [s \in Node |-> [b \in Batch |-> None]]
    BY DEF NodeInit
  <1>3. Genesis \in Seed /\ WarmUp \in Value /\ 100 \in Wallet
    BY WarmUpAssumption DEF Seed, Wallet
  <1>4. InitialObject \in Object /\ InitialObject.seed = Genesis
    BY <1>3 DEF InitialObject, Object
  <1> QED BY <1>1, <1>2, <1>3, <1>4 DEF PackageInv, VoteTypeOK, TicketsSent, SeedMirror

\* What the vote layer keeps of its objects and messages, for any number of nodes.
LEMMA AlwaysPackageInv == NodeSpec => []PackageInv
  BY TypeCorrect, NodeKeepsCore, InitPackageInv, NextPackageInv, PTL DEF NodeSpec

\* Object, package and tickets stay of the types that the class and the messages
\* declare, and a wallet within the range that execute() leaves it in.
THEOREM VoteTypeCorrect == NodeSpec => []VoteTypeOK
  <1>1. PackageInv => VoteTypeOK
    BY DEF PackageInv
  <1> QED BY <1>1, AlwaysPackageInv, PTL

\* m_dp.seed is the seed of the node's own object, whichever handler wrote last.
THEOREM SeedsMirrored == NodeSpec => []SeedMirror
  <1>1. PackageInv => SeedMirror
    BY DEF PackageInv
  <1> QED BY <1>1, AlwaysPackageInv, PTL

-----------------------------------------------------------------------------
(* Steps that leave the rounds, and steps that draw *)

\* Neither a batch drawn for, nor one committed, nor a package sent: the rounds
\* are as they were.
LEMMA SameRounds ==
  ASSUME RoundInv, VoteTypeOK', SeedMirror', ticket' = ticket,
         expectedBatchCount' = expectedBatchCount,
         \A n \in Node, b \in Batch : Drawn(n, b)' <=> Drawn(n, b),
         \A n \in Node : Committed(n)' = Committed(n),
         \A s \in Node, b \in Batch :
            (Sent(s, "BATCH_REQ", b) \/ Sent(s, "PREP", b))'
               => Sent(s, "BATCH_REQ", b) \/ Sent(s, "PREP", b),
         \A n \in Node : alg'[n].seed = alg[n].seed /\ alg'[n].m_block = alg[n].m_block
  PROVE  RoundInv'
  <1>1. TicketsSent'
    BY DEF RoundInv, TicketsSent
  <1>2. BlockIsLast'
    BY DEF RoundInv, BlockIsLast, LastDrawn, Proposed
  <1>3. SeedWindow'
    BY DEF RoundInv, SeedWindow, Ordered, Proposed, Slots
  <1>4. OrderedAreBatches'
    BY DEF RoundInv, OrderedAreBatches, Ordered, Batch
  <1> QED BY <1>1, <1>2, <1>3, <1>4 DEF RoundInv

\* The same when object, package and tickets are left alone.
LEMMA UnchangedRounds ==
  ASSUME RoundInv, UNCHANGED voteVars, expectedBatchCount' = expectedBatchCount,
         \A n \in Node, b \in Batch : Drawn(n, b)' <=> Drawn(n, b),
         \A n \in Node : Committed(n)' = Committed(n),
         \A s \in Node, b \in Batch :
            (Sent(s, "BATCH_REQ", b) \/ Sent(s, "PREP", b))'
               => Sent(s, "BATCH_REQ", b) \/ Sent(s, "PREP", b)
  PROVE  RoundInv'
  <1>1. alg' = alg /\ m_dp' = m_dp /\ ticket' = ticket
    BY DEF voteVars
  <1>2. VoteTypeOK' /\ SeedMirror'
    BY <1>1 DEF RoundInv, VoteTypeOK, SeedMirror
  <1> QED BY <1>1, <1>2, SameRounds

\* Node n draws for the block proposed with b, the latest.
LEMMA NewDraw ==
  ASSUME RoundInv, VoteTypeOK', SeedMirror', TicketsSent', NEW n \in Node, NEW b \in Batch,
         \A m \in Node, c \in Batch : Drawn(m, c)' <=> Drawn(m, c) \/ (m = n /\ c = b),
         \A c \in Batch : Drawn(n, c) => c <= b,
         \A m \in Node, c \in Batch : Drawn(m, c) => c \in Ordered,
         Ordered \subseteq Ordered', Ordered' \subseteq Batch,
         n = Primary => b \notin Ordered,
         \A m \in Node : Committed(m)' = Committed(m),
         \A s \in Node, c \in Batch : s # n \/ c # b => ticket'[s][c] = ticket[s][c],
         alg'[n].m_block = ticket'[Primary][b].value,
         \A m \in Node : alg'[m].seed = alg[m].seed,
         \A m \in Node \ {n} : alg'[m].m_block = alg[m].m_block
  PROVE  RoundInv'
  <1>1. \A c \in Batch : c \in Ordered => Proposed(c)' = Proposed(c)
    BY PrimaryAssumption DEF Proposed
  <1>2. BlockIsLast'
    <2> SUFFICES ASSUME NEW m \in Node, NEW d \in Batch, Drawn(m, d)'
                 PROVE  \E c \in Batch : LastDrawn(m, c)' /\ alg'[m].m_block = Proposed(c)'
      BY DEF BlockIsLast
    <2>1. CASE m = n
      <3>1. LastDrawn(n, b)'
        <4>1. \A c \in Batch : Drawn(n, c)' => c <= b
          BY DEF Batch
        <4> QED BY <4>1 DEF LastDrawn
      <3> QED BY <2>1, <3>1 DEF Proposed
    <2>2. CASE m # n
      <3>1. PICK c \in Batch : LastDrawn(m, c) /\ alg[m].m_block = Proposed(c)
        BY <2>2 DEF RoundInv, BlockIsLast
      <3>2. LastDrawn(m, c)' /\ Drawn(m, c)
        BY <2>2, <3>1 DEF LastDrawn
      <3> QED BY <1>1, <2>2, <3>1, <3>2
    <2> QED BY <2>1, <2>2
  <1>3. SeedWindow'
    <2> SUFFICES ASSUME NEW m \in Node
                 PROVE  /\ Committed(m)' = {} => alg'[m].seed = Genesis
                        /\ \A last \in Committed(m)' :
                              (\A c \in Committed(m)' : c <= last) =>
                                 \E c \in Ordered' : /\ last <= c /\ c < last + Slots
                                                     /\ alg'[m].seed = Prefix(Proposed(c)')
      BY DEF SeedWindow, Slots
    <2>1. Ordered \subseteq Batch
      BY DEF RoundInv, OrderedAreBatches
    <2>2. \A c \in Ordered : c \in Ordered' /\ Proposed(c)' = Proposed(c)
      BY <1>1, <2>1
    <2> QED BY <2>2 DEF RoundInv, SeedWindow
  <1>4. OrderedAreBatches'
    BY DEF OrderedAreBatches, Batch
  <1> QED BY <1>2, <1>3, <1>4 DEF RoundInv

-----------------------------------------------------------------------------
(* One lemma per handler: the rounds that are kept or advanced *)

\* What was drawn for, committed and sent depends on logs, cursors and managers.
LEMMA CoreQuiet ==
  ASSUME UNCHANGED <<log, rcvd, txn>>
  PROVE  /\ \A n \in Node, b \in Batch : Drawn(n, b)' <=> Drawn(n, b)
         /\ \A n \in Node : Committed(n)' = Committed(n)
         /\ \A s \in Node, b \in Batch :
              (Sent(s, "BATCH_REQ", b) \/ Sent(s, "PREP", b))'
                 => Sent(s, "BATCH_REQ", b) \/ Sent(s, "PREP", b)
  BY DEF Drawn, Committed, Sent, Handled, Msg

\* What a node has drawn for has been ordered.
LEMMA DrawnIsOrdered ==
  ASSUME Kept, NEW m \in Node, NEW c \in Batch, Drawn(m, c)
  PROVE  Sent(Primary, "BATCH_REQ", c) /\ c \in Ordered
  <1>1. Sent(Primary, "BATCH_REQ", c)
    BY PrimaryAssumption, HandledWasSent DEF Drawn, Kept, IInv
  <1>2. c < expectedBatchCount /\ expectedBatchCount \in Nat
    BY <1>1, PrimaryAssumption DEF Kept, TypeOK, IInv, OrderedInTurn
  <1> QED BY <1>1, <1>2 DEF Ordered, Batch

\* What a handler that updates one manager makes of the flags committed_local.
Updates(n, b, t) == txn' = [txn EXCEPT ![n][b] = t]
LEMMA CommittedAfter ==
  ASSUME Kept, NEW n \in Node, NEW b \in Batch, NEW t \in TxnManager, Updates(n, b, t),
         NEW d \in BOOLEAN, t.committed_local <=> txn[n][b].committed_local \/ d
  PROVE  /\ \A m \in Node \ {n} : Committed(m)' = Committed(m)
         /\ Committed(n)' = Committed(n) \cup (IF d THEN {b} ELSE {})
  <1>1. txn \in [Node -> [Batch -> TxnManager]]
    BY DEF Kept, TypeOK
  <1>2. \A q \in Node, e \in Batch :
           txn'[q][e] = IF q = n /\ e = b THEN t ELSE txn[q][e]
    BY <1>1 DEF Updates
  <1>3. \A q \in Node, e \in Batch :
           txn'[q][e].committed_local <=>
              \/ txn[q][e].committed_local
              \/ d /\ q = n /\ e = b
    BY <1>2
  <1> QED BY <1>3 DEF Committed

\* process_client_batch.
LEMMA NodeClientBatchInv ==
  ASSUME RoundInv, NEW b \in Batch, NodeClientBatch(b)
  PROVE  RoundInv'
  <1>1. UNCHANGED <<log, rcvd, txn, expectedBatchCount>>
    BY DEF NodeClientBatch, ClientBatch, netVars
  <1>2. alg' = alg /\ ticket' = ticket
    BY DEF NodeClientBatch
  <1>3. VoteTypeOK' /\ SeedMirror'
    BY ClientBatchPackages DEF RoundInv, PackageInv
  <1> QED BY <1>1, <1>2, <1>3, CoreQuiet, SameRounds

\* A step that touches neither the vote layer nor logs and managers.
LEMMA QuietRoundInv ==
  ASSUME RoundInv, UNCHANGED <<log, rcvd, txn, expectedBatchCount>>, UNCHANGED voteVars
  PROVE  RoundInv'
  BY CoreQuiet, UnchangedRounds

\* process_batch on the primary: it draws for the batch it orders.
LEMMA NodeOrderBatchInv ==
  ASSUME Kept, RoundInv, NEW b \in Batch, NodeOrderBatch(b)
  PROVE  RoundInv'
  <1> DEFINE v == m_dp[Primary].value
  <1>1. /\ b = expectedBatchCount /\ expectedBatchCount' = b + 1
        /\ Broadcasts(Primary, <<Msg("BATCH_REQ", b)>>)
        /\ rcvd' = rcvd /\ txn' = txn /\ Primary \in Node
    BY PrimaryAssumption DEF NodeOrderBatch, OrderBatch, storeVars
  <1>2. v \in Value /\ alg[Primary] \in Object
    BY <1>1, VoteTypes DEF RoundInv
  <1>3. Vote(Primary, b, alg[Primary], v)
    BY DEF NodeOrderBatch
  <1> HIDE DEF v
  <1>4. /\ VoteTypeOK' /\ SeedMirror'
        /\ alg'[Primary].m_block = v /\ alg'[Primary].seed = alg[Primary].seed
        /\ \A m \in Node \ {Primary} : alg'[m] = alg[m]
        /\ ticket'[Primary][b] \in DataPackage /\ ticket'[Primary][b].value = v
        /\ \A s \in Node, c \in Batch : s # Primary \/ c # b => ticket'[s][c] = ticket[s][c]
    BY <1>1, <1>2, <1>3, VoteKeeps DEF RoundInv
  <1>5. /\ LogsGrow
        /\ \A r \in Node : \A t, c :
              Sent(r, t, c)' <=> Sent(r, t, c) \/ (r = Primary /\ t = "BATCH_REQ" /\ c = b)
    BY <1>1, SendsOne DEF Kept
  <1>6. \A q, r \in Node : \A t, c : Handled(q, r, t, c)' <=> Handled(q, r, t, c)
    BY <1>1, <1>5, HandledKept DEF Kept, IInv
  <1>7. \A m \in Node, c \in Batch : Drawn(m, c)' <=> Drawn(m, c) \/ (m = Primary /\ c = b)
    BY <1>1, <1>5, <1>6 DEF Drawn
  <1>8. \A m \in Node, c \in Batch : Drawn(m, c) => c \in Ordered /\ c < b
    BY <1>1, DrawnIsOrdered DEF Ordered, Batch
  <1>9. \A m \in Node : Committed(m)' = Committed(m)
    BY <1>1 DEF Committed
  <1>10. Ordered \subseteq Ordered' /\ Ordered' \subseteq Batch /\ b \notin Ordered
    BY <1>1, BatchAssumption DEF Ordered, Batch
  <1>11. TicketsSent'
    BY OrderBatchPackages DEF Kept, RoundInv, PackageInv
  <1>12. \A c \in Batch : Drawn(Primary, c) => c <= b
    BY <1>1, <1>8 DEF Batch
  <1>13. \A m \in Node : alg'[m].seed = alg[m].seed
    BY <1>4
  <1>14. \A m \in Node \ {Primary} : alg'[m].m_block = alg[m].m_block
    BY <1>4
  <1>15. alg'[Primary].m_block = ticket'[Primary][b].value
    BY <1>4
  <1> QED BY <1>1, <1>4, <1>7, <1>8, <1>9, <1>10, <1>11, <1>12, <1>13, <1>14, <1>15,
             NewDraw

\* process_batch on a replica: it draws for the block proposed with the batch.
LEMMA NodeReplicaBatchInv ==
  ASSUME FourNodes, Kept, RoundInv, NEW n \in Node, NEW b \in Batch, NodeReplicaBatch(n, b)
  PROVE  RoundInv'
  <1> DEFINE dp == ticket[Primary][b]
             a == AfterBatch(alg[n], dp)
             v == dp.value
  <1>1. /\ n # Primary /\ n \in Replica /\ Takes(n, Primary, "BATCH_REQ", b)
        /\ ReplicaBatch(n, b) /\ Primary \in Node
    BY PrimaryAssumption DEF NodeReplicaBatch, ReplicaBatch, Replica
  <1>2. /\ b \in accepted /\ n \notin aborted
        /\ ~Handled(n, Primary, "BATCH_REQ", b) /\ ~Handled(n, Primary, "COMMIT", b)
    BY <1>1, TakenInPlace DEF Kept, IInv, FourInv
  <1>3. preStore[n][Slot(b)] # b
    BY <1>1, <1>2 DEF Kept, IInv, ReplicaGotBatch
  <1>4. ~CommittedByBatch(n, b)
    <2>1. ~(txn[n][b].commit_rsp_cnt <= 0)
      BY <1>1, <1>2, CommitsHeard
    <2> QED BY <2>1 DEF CommittedByBatch
  <1> DEFINE p == PreparedByBatch(n, b)
  <1>5. /\ p => Broadcasts(n, <<Msg("PREP", b), Msg("COMMIT", b)>>)
        /\ ~p => Broadcasts(n, <<Msg("PREP", b)>>)
        /\ txn' = [txn EXCEPT ![n][b] = Certified(txn[n][b], p, CommittedByBatch(n, b))]
        /\ aborted' = aborted /\ expectedBatchCount' = expectedBatchCount
    BY <1>1, <1>3 DEF ReplicaBatch, primaryVars
  <1>6. p \in BOOLEAN
    BY DEF PreparedByBatch
  <1> HIDE DEF p
  <1>7. dp \in DataPackage
    BY <1>1, TakenPackage DEF Kept, RoundInv, PackageInv
  <1>8. a \in Object /\ a.seed = alg[n].seed /\ v \in Value
    <2>1. alg[n] \in Object /\ v \in Value
      BY <1>7, VoteTypes DEF RoundInv, DataPackage
    <2> HIDE DEF dp
    <2> QED BY <1>7, <2>1, AfterMessageType
  <1>9. Vote(n, b, a, v)
    BY <1>2, <1>5 DEF NodeReplicaBatch
  <1> HIDE DEF a
  <1>10. /\ VoteTypeOK' /\ SeedMirror'
         /\ alg'[n].m_block = v /\ alg'[n].seed = alg[n].seed
         /\ \A m \in Node \ {n} : alg'[m] = alg[m]
         /\ ticket'[n][b] \in DataPackage
         /\ \A s \in Node, c \in Batch : s # n \/ c # b => ticket'[s][c] = ticket[s][c]
    <2> HIDE DEF dp, v
    <2> QED BY <1>8, <1>9, VoteKeeps DEF RoundInv
  <1>11. /\ LogsGrow
         /\ \A r \in Node : \A t, c :
               Sent(r, t, c)' <=>
                  \/ Sent(r, t, c)
                  \/ r = n /\ (t = "PREP" \/ (p /\ t = "COMMIT")) /\ c = b
    <2>1. CASE p
      BY <1>5, <2>1, SendsTwo DEF Kept
    <2>2. CASE ~p
      BY <1>5, <2>2, SendsOne DEF Kept
    <2> QED BY <2>1, <2>2
  <1>12. \A q, r \in Node : \A t, c :
            Handled(q, r, t, c)' <=>
               \/ Handled(q, r, t, c)
               \/ q = n /\ r = Primary /\ t = "BATCH_REQ" /\ c = b
    BY <1>1, <1>11, HandledAfter, SameMsg DEF Kept, IInv
  <1>13. \A m \in Node, c \in Batch : Drawn(m, c)' <=> Drawn(m, c) \/ (m = n /\ c = b)
    BY <1>1, <1>11, <1>12 DEF Drawn
  <1>14. \A m \in Node, c \in Batch : Drawn(m, c) => c \in Ordered
    BY DrawnIsOrdered
  <1>15. \A c \in Batch : Drawn(n, c) => c <= b
    <2> SUFFICES ASSUME NEW c \in Batch, Drawn(n, c), b < c PROVE FALSE
      BY DEF Batch
    <2>1. Handled(n, Primary, "BATCH_REQ", c)
      BY <1>1 DEF Drawn
    <2>2. Handled(n, Primary, "BATCH_REQ", b)
      BY <1>1, <2>1, HandledEarlier DEF Kept, IInv, FourInv
    <2> QED BY <1>2, <2>2
  <1>16. \A m \in Node : Committed(m)' = Committed(m)
    <2> DEFINE o == txn[n][b]
               d == CommittedByBatch(n, b)
               t == Certified(o, p, d)
    <2>1. o \in TxnManager /\ d \in BOOLEAN /\ ~d
      BY <1>4 DEF Kept, TypeOK, CommittedByBatch, PreparedByBatch
    <2>2. Updates(n, b, t)
      BY <1>5 DEF Updates
    <2>3. o = txn[n][b]
      OBVIOUS
    <2> HIDE DEF o, d
    <2>4. t \in TxnManager
      BY <1>6, <2>1, UpdatedTxnType
    <2>5. t.committed_local <=> o.committed_local \/ FALSE
      BY <1>6, <2>1, UpdatedTxn
    <2> HIDE DEF t
    <2> QED BY <2>2, <2>3, <2>4, <2>5, CommittedAfter
  <1>17. Ordered' = Ordered /\ Ordered \subseteq Batch
    BY <1>5 DEF Ordered, RoundInv, OrderedAreBatches
  <1>18. TicketsSent'
    BY ReplicaBatchPackages DEF Kept, RoundInv, PackageInv
  <1>19. \A m \in Node : alg'[m].seed = alg[m].seed
    BY <1>10
  <1>20. \A m \in Node \ {n} : alg'[m].m_block = alg[m].m_block
    BY <1>10
  <1>21. alg'[n].m_block = ticket'[Primary][b].value
    BY <1>1, <1>10
  <1>22. Ordered \subseteq Ordered' /\ Ordered' \subseteq Batch
    BY <1>17
  <1> HIDE DEF dp, v
  <1> QED BY <1>1, <1>10, <1>13, <1>14, <1>15, <1>16, <1>18, <1>19, <1>20, <1>21, <1>22,
             NewDraw

\* process_pbft_prep_msg: a vote is counted, the round goes on.
LEMMA NodePrepInv ==
  ASSUME Kept, RoundInv, NEW n \in Node, NEW s \in Node, NEW b \in Batch, NodePrep(n, s, b)
  PROVE  RoundInv'
  <1> DEFINE o == txn[n][b]
             p == PreparedByPrep(n, s, b)
             t == PrepCounted(o, p)
  <1>1. Takes(n, s, "PREP", b) /\ Prep(n, s, b)
    BY DEF NodePrep, Prep
  <1>2. expectedBatchCount' = expectedBatchCount
    BY <1>1 DEF Prep, Abort, primaryVars
  <1>3. /\ LogsGrow
        /\ \A r \in Node, c \in Batch : /\ Sent(r, "BATCH_REQ", c)' <=> Sent(r, "BATCH_REQ", c)
                                        /\ Sent(r, "PREP", c)' <=> Sent(r, "PREP", c)
    BY <1>1, PrepSays DEF Kept
  <1>4. \A q, r \in Node : \A c :
           Handled(q, r, "BATCH_REQ", c)' <=> Handled(q, r, "BATCH_REQ", c)
    <2>1. \A q, r \in Node : \A u, c :
             Handled(q, r, u, c)' <=>
                \/ Handled(q, r, u, c)
                \/ q = n /\ r = s /\ u = "PREP" /\ c = b
      BY <1>1, <1>3, HandledAfter, SameMsg DEF Kept, IInv
    <2> QED BY <2>1
  <1>5. \A m \in Node, c \in Batch : Drawn(m, c)' <=> Drawn(m, c)
    BY <1>3, <1>4, PrimaryAssumption DEF Drawn
  <1>6. \A m \in Node : Committed(m)' = Committed(m)
    <2>1. CASE txn' = txn
      BY <2>1 DEF Committed
    <2>2. CASE Updates(n, b, t)
      <3>1. o \in TxnManager /\ p \in BOOLEAN /\ o = txn[n][b]
        BY DEF Kept, TypeOK, PreparedByPrep
      <3> HIDE DEF o, p
      <3>2. t \in TxnManager
        BY <3>1, UpdatedTxnType
      <3>3. t.committed_local <=> o.committed_local \/ FALSE
        BY <3>1, UpdatedTxn
      <3> HIDE DEF t
      <3> QED BY <2>2, <3>1, <3>2, <3>3, CommittedAfter
    <2> QED BY <1>1, <2>1, <2>2 DEF Prep, Abort, storeVars, Updates
  <1>7. /\ VoteTypeOK' /\ SeedMirror' /\ ticket' = ticket
        /\ \A m \in Node : alg'[m].seed = alg[m].seed /\ alg'[m].m_block = alg[m].m_block
    BY PrepKeeps DEF Kept, RoundInv, PackageInv
  <1> QED BY <1>2, <1>3, <1>5, <1>6, <1>7, SameRounds

-----------------------------------------------------------------------------
(* The end of a round *)

\* Numbers a divisor apart have the same remainder.
LEMMA SameRemainder ==
  ASSUME NEW b \in Int, NEW d \in Int, d > 0
  PROVE  (b + d) % d = b % d
  <1> DEFINE p == b \div d
             q == (b + d) \div d
             r == b % d
             s == (b + d) % d
  <1>1. p \in Int /\ r \in Int /\ b = d * p + r
    BY Quotient
  <1>2. q \in Int /\ s \in Int /\ b + d = d * q + s
    BY Quotient
  <1>3. 0 <= r /\ r < d /\ 0 <= s /\ s < d
    OBVIOUS
  <1> SUFFICES r = s
    OBVIOUS
  <1> HIDE DEF p, q, r, s
  <1> DEFINE k == q - p - 1
  <1>4. k \in Int /\ r - s = d * k
    BY <1>1, <1>2
  <1> HIDE DEF k
  <1>5. ~(k >= 1)
    <2> SUFFICES ASSUME k >= 1 PROVE FALSE
      OBVIOUS
    <2>1. d * k >= d
      BY <1>4
    <2> QED BY <1>1, <1>2, <1>3, <1>4, <2>1
  <1>6. ~(k <= -1)
    <2> SUFFICES ASSUME k <= -1 PROVE FALSE
      OBVIOUS
    <2>1. d * k <= -d
      BY <1>4
    <2> QED BY <1>1, <1>2, <1>3, <1>4, <2>1
  <1>7. k = 0
    BY <1>4, <1>5, <1>6
  <1> QED BY <1>1, <1>2, <1>4, <1>7

\* A node draws for a batch before it prepares it.
LEMMA PreparedIsDrawn ==
  ASSUME FourNodes, Kept, NEW n \in Node, NEW b \in Batch, txn[n][b].prepared
  PROVE  Drawn(n, b)
  <1>1. CASE n = Primary
    <2>1. Cardinality(PrepSenders(b)) >= 2
      <3>1. Sent(n, "COMMIT", b)
        BY DEF Kept, FourInv, PreparedSaid
      <3> QED BY <3>1, FourNumbers DEF Kept, IInv, CommitsBacked
    <2>2. PICK r \in Node : Sent(r, "PREP", b)
      <3>1. PrepSenders(b) \in SUBSET Node
        BY DEF PrepSenders, Replica
      <3>2. \E x, y \in PrepSenders(b) : x # y
        BY <2>1, <3>1, TwoOf
      <3> QED BY <3>1, <3>2 DEF PrepSenders
    <2>3. Sent(Primary, "BATCH_REQ", b)
      BY <2>2 DEF Kept, IInv, PrepsBacked
    <2> QED BY <1>1, <2>3 DEF Drawn
  <1>2. CASE n # Primary
    <2>1. Handled(n, Primary, "BATCH_REQ", b)
      BY <1>2 DEF Kept, IInv, ReplicaGotBatch, Replica
    <2> QED BY <1>2, <2>1 DEF Drawn
  <1> QED BY <1>1, <1>2

\* While a batch is open, nothing is drawn for as far on as the slots reach.
LEMMA DrawnWithinSlots ==
  ASSUME FourNodes, Kept, NEW n \in Node, NEW b \in Batch, Open(n, b),
         NEW c \in Batch, Sent(Primary, "BATCH_REQ", c)
  PROVE  c < b + Slots
  <1> DEFINE e == b + Slots
  <1>1. /\ b \in Nat /\ c \in Nat /\ Slots \in Nat /\ Slots > 0 /\ MaxBatch \in Nat
        /\ c < MaxBatch
    BY BatchAssumption DEF Batch, Slots
  <1> SUFFICES ASSUME e <= c PROVE FALSE
    BY <1>1
  <1>2. e \in Batch
    BY <1>1 DEF Batch
  <1>3. Slot(e) = Slot(b)
    BY <1>1, SameRemainder DEF Slot
  <1> HIDE DEF e
  <1>4. e = c \/ e < c
    BY <1>1, <1>2 DEF Batch
  <1>5. Sent(Primary, "BATCH_REQ", e)
    BY <1>2, <1>4, PrimaryAssumption, SentEarlier DEF Kept, FourInv
  <1>6. e \in accepted
    BY <1>2, <1>5, PrimaryAssumption, SentEarlier DEF Kept, FourInv
  <1>7. e <= b
    BY <1>3, <1>6, SlotStaysOpen
  <1> QED BY <1>1, <1>7 DEF e

\* Node n commits b, the first batch it has not committed yet: the round ends
\* on the block the node last drew for, that of b or of a batch the slots reach.
LEMMA RoundEnds ==
  ASSUME FourNodes, Kept, RoundInv, NEW n \in Node, NEW b \in Batch, EndRound(n),
         Open(n, b), Drawn(n, b), \A e \in Committed(n) : e < b,
         expectedBatchCount' = expectedBatchCount,
         \A m \in Node, c \in Batch : Drawn(m, c)' <=> Drawn(m, c),
         Committed(n)' = Committed(n) \cup {b},
         \A m \in Node \ {n} : Committed(m)' = Committed(m),
         \A s \in Node, c \in Batch :
            (Sent(s, "BATCH_REQ", c) \/ Sent(s, "PREP", c))'
               => Sent(s, "BATCH_REQ", c) \/ Sent(s, "PREP", c)
  PROVE  RoundInv'
  <1>1. /\ VoteTypeOK' /\ SeedMirror' /\ ticket' = ticket
        /\ alg'[n].m_block = alg[n].m_block
        /\ alg'[n].seed = Prefix(alg[n].m_block)
        /\ \A m \in Node \ {n} : alg'[m] = alg[m]
    BY EndRoundKeeps DEF RoundInv
  <1>2. TicketsSent'
    BY <1>1 DEF RoundInv, TicketsSent
  <1>3. OrderedAreBatches'
    BY DEF RoundInv, OrderedAreBatches, Ordered, Batch
  <1>4. BlockIsLast'
    <2>1. \A m \in Node : alg'[m].m_block = alg[m].m_block
      BY <1>1
    <2>2. \A c \in Batch : Proposed(c)' = Proposed(c)
      BY <1>1 DEF Proposed
    <2> QED BY <2>1, <2>2 DEF RoundInv, BlockIsLast, LastDrawn
  <1>5. PICK c \in Batch : LastDrawn(n, c) /\ alg[n].m_block = Proposed(c)
    BY DEF RoundInv, BlockIsLast
  <1>6. c \in Ordered /\ b <= c /\ c < b + Slots
    BY <1>5, DrawnIsOrdered, DrawnWithinSlots DEF LastDrawn
  <1>7. SeedWindow'
    <2>1. Ordered' = Ordered /\ \A e \in Ordered : Proposed(e)' = Proposed(e)
      BY <1>1 DEF Ordered, Proposed
    <2> SUFFICES ASSUME NEW m \in Node
                 PROVE  /\ Committed(m)' = {} => alg'[m].seed = Genesis
                        /\ \A last \in Committed(m)' :
                              (\A e \in Committed(m)' : e <= last) =>
                                 \E e \in Ordered' : /\ last <= e /\ e < last + Slots
                                                     /\ alg'[m].seed = Prefix(Proposed(e)')
      BY DEF SeedWindow, Slots
    <2>2. CASE m # n
      BY <1>1, <2>1, <2>2 DEF RoundInv, SeedWindow
    <2>3. CASE m = n
      <3>1. \A last \in Committed(n)' : (\A e \in Committed(n)' : e <= last) => last = b
        BY DEF Committed, Batch
      <3>2. alg'[n].seed = Prefix(Proposed(c)')
        BY <1>1, <1>5, <1>6, <2>1
      <3>3. Committed(n)' # {}
        OBVIOUS
      <3> QED BY <1>6, <2>1, <2>3, <3>1, <3>2, <3>3
    <2> QED BY <2>2, <2>3
  <1> QED BY <1>1, <1>2, <1>3, <1>4, <1>7 DEF RoundInv

\* process_pbft_commit_msg: another COMMIT, and a round that ends with it or not.
LEMMA NodeCommitInv ==
  ASSUME FourNodes, Kept, RoundInv, NEW n \in Node, NEW s \in Node, NEW b \in Batch,
         NodeCommit(n, s, b)
  PROVE  RoundInv'
  <1>1. Takes(n, s, "COMMIT", b) /\ Commit(n, s, b)
    BY DEF NodeCommit, Commit
  <1>2. log' = log /\ expectedBatchCount' = expectedBatchCount
    BY <1>1 DEF Commit, Abort, primaryVars
  <1>3. \A m \in Node, c \in Batch : Drawn(m, c)' <=> Drawn(m, c)
    <2>1. LogsGrow
      BY <1>2, LogType DEF LogsGrow, Kept
    <2>2. \A q, r \in Node : \A t, c :
             Handled(q, r, t, c)' <=>
                \/ Handled(q, r, t, c)
                \/ q = n /\ r = s /\ t = "COMMIT" /\ c = b
      BY <1>1, <2>1, HandledAfter, SameMsg DEF Kept, IInv
    <2>3. \A r \in Node : \A t, c : Sent(r, t, c)' <=> Sent(r, t, c)
      BY <1>2 DEF Sent, Msg
    <2> QED BY <2>2, <2>3, PrimaryAssumption DEF Drawn
  <1>4. \A r \in Node, c \in Batch :
           (Sent(r, "BATCH_REQ", c) \/ Sent(r, "PREP", c))'
              => Sent(r, "BATCH_REQ", c) \/ Sent(r, "PREP", c)
    BY <1>2 DEF Sent, Msg
  <1>5. PICK c \in ScanStops(prepPStore[n][Slot(b)], b) :
           IF CommittedByCommit(n, s, b, c) /\ preStore[n][Slot(b)] # b
           THEN Abort(n)
           ELSE /\ txn' = [txn EXCEPT ![n][b] =
                              CommitCounted(txn[n][b], CommittedByCommit(n, s, b, c))]
                /\ IF CommittedByCommit(n, s, b, c) THEN QueueForExecution(n, b)
                                                   ELSE UNCHANGED execQueue
    BY <1>1 DEF Commit
  <1> DEFINE d == CommittedByCommit(n, s, b, c)
  <1>6. d \in BOOLEAN /\ (d => txn[n][b].prepared /\ ~txn[n][b].committed_local)
    BY DEF CommittedByCommit
  <1>7. CASE Abort(n)
    <2>1. execQueue' = execQueue /\ txn' = txn
      BY <1>7 DEF Abort, execVars, storeVars
    <2>2. UNCHANGED voteVars
      BY <2>1 DEF NodeCommit
    <2>3. \A m \in Node : Committed(m)' = Committed(m)
      BY <2>1 DEF Committed
    <2> QED BY <1>2, <1>3, <1>4, <2>2, <2>3, UnchangedRounds
  <1>8. ASSUME ~Abort(n)
        PROVE  RoundInv'
    <2> DEFINE o == txn[n][b]
               t == CommitCounted(o, d)
    <2>1. Updates(n, b, t)
      BY <1>5, <1>8 DEF Updates
    <2>2. o \in TxnManager
      BY DEF Kept, TypeOK
    <2>3. d => preStore[n][Slot(b)] = b /\ QueueForExecution(n, b)
      BY <1>5, <1>8
    <2>4. ~d => UNCHANGED execQueue
      BY <1>5, <1>8
    <2>5. o.prepared = txn[n][b].prepared /\ o.committed_local = txn[n][b].committed_local
      OBVIOUS
    <2> HIDE DEF d, o
    <2>6. t \in TxnManager
      BY <1>6, <2>2, UpdatedTxnType
    <2>7. t.committed_local <=> o.committed_local \/ d
      BY <1>6, <2>2, UpdatedTxn
    <2> HIDE DEF t
    <2>8. /\ \A m \in Node \ {n} : Committed(m)' = Committed(m)
          /\ Committed(n)' = Committed(n) \cup (IF d THEN {b} ELSE {})
      BY <1>6, <2>1, <2>5, <2>6, <2>7, CommittedAfter
    <2>9. CASE ~d
      <3>1. UNCHANGED voteVars
        BY <2>4, <2>9 DEF NodeCommit
      <3>2. \A m \in Node : Committed(m)' = Committed(m)
        BY <2>8, <2>9
      <3> QED BY <1>2, <1>3, <1>4, <3>1, <3>2, UnchangedRounds
    <2>10. CASE d
      <3>1. EndRound(n)
        <4>1. execQueue[n] \in Seq(Batch) /\ execQueue \in [Node -> Seq(Batch)]
          BY DEF Kept, TypeOK
        <4>2. execQueue'[n] = Append(execQueue[n], b)
          BY <2>3, <2>10, <4>1 DEF QueueForExecution
        <4>3. execQueue' # execQueue
          BY <4>1, <4>2
        <4> QED BY <4>3 DEF NodeCommit
      <3>2. Committed(n)' = Committed(n) \cup {b}
        BY <2>8, <2>10
      <3>3. \A m \in Node \ {n} : Committed(m)' = Committed(m)
        BY <2>8
      <3>4. Open(n, b) /\ Drawn(n, b)
        <4>1. Drawn(n, b)
          BY <1>6, <2>10, PreparedIsDrawn
        <4> QED BY <1>6, <2>3, <2>10, <4>1 DEF Open
      <3>5. \A e \in Committed(n) : e < b
        <4> SUFFICES ASSUME NEW e \in Batch, txn[n][e].committed_local, ~(e < b)
                     PROVE  FALSE
          BY DEF Committed
        <4>1. b < e
          BY <1>6, <2>10 DEF Batch
        <4>2. Handled(n, s, "COMMIT", e) /\ ~Handled(n, s, "COMMIT", b)
          BY <1>1, CommittedHeard, TakenInPlace DEF Kept, IInv, FourInv
        <4> QED BY <4>1, <4>2, HandledEarlier DEF Kept, IInv, FourInv
      <3> QED BY <1>2, <1>3, <1>4, <3>1, <3>2, <3>3, <3>4, <3>5, RoundEnds
    <2> QED BY <1>6, <2>9, <2>10
  <1> QED BY <1>7, <1>8

\* At the start nothing is ordered, and every node is on the first seed.
LEMMA NodeInitRoundInv == NodeInit => RoundInv
  <1> SUFFICES ASSUME NodeInit PROVE RoundInv
    OBVIOUS
  <1>1. /\ log = [n \in Node |-> <<>>] /\ rcvd = [n \in Node |-> [s \in Node |-> 0]]
        /\ txn = [n \in Node |-> [b \in Batch |-> InitialTxn]]
        /\ expectedBatchCount = 0
    BY DEF NodeInit, Init, FirstExpected
  <1>2. \A s \in Node : \A t, b : ~Sent(s, t, b)
    BY <1>1 DEF Sent
  <1>3. \A n, s \in Node : \A t, b : ~Handled(n, s, t, b)
    BY <1>1 DEF Handled
  <1>4. OrderedAreBatches /\ BlockIsLast
    <2>1. OrderedAreBatches
      BY <1>1 DEF OrderedAreBatches, Ordered
    <2>2. \A n \in Node, b \in Batch : ~Drawn(n, b)
      BY <1>2, <1>3, PrimaryAssumption DEF Drawn
    <2> QED BY <2>1, <2>2 DEF BlockIsLast
  <1>5. PackageInv /\ \A n \in Node : alg[n].seed = Genesis
    BY InitPackageInv DEF NodeInit, InitialObject
  <1>6. SeedWindow
    <2>1. \A n \in Node : Committed(n) = {}
      BY <1>1 DEF Committed, InitialTxn
    <2> QED BY <1>5, <2>1 DEF SeedWindow
  <1> QED BY <1>4, <1>5, <1>6 DEF RoundInv, PackageInv

\* A step that leaves the core alone, or only executes, leaves the rounds alone.
LEMMA OtherStepsRoundInv ==
  ASSUME RoundInv, \/ UNCHANGED nodeVars
                   \/ Finished /\ UNCHANGED voteVars
                   \/ \E n \in Node : ExecuteBatch(n) /\ UNCHANGED voteVars
  PROVE  RoundInv'
  <1>1. UNCHANGED voteVars
    BY DEF nodeVars
  <1>2. UNCHANGED <<log, rcvd, txn, expectedBatchCount>>
    BY DEF nodeVars, Finished, vars, netVars, storeVars, primaryVars, ExecuteBatch, Abort
  <1> QED BY <1>1, <1>2, QuietRoundInv

\* Every step of the four nodes preserves the rounds.
LEMMA NextRoundInv == FourNodes /\ Kept /\ RoundInv /\ [NodeNext]_nodeVars => RoundInv'
  BY NodeClientBatchInv, NodeOrderBatchInv, NodeReplicaBatchInv, NodePrepInv, NodeCommitInv,
     OtherStepsRoundInv DEF NodeNext

\* All that is proved of the votes rests on this.
LEMMA AlwaysRoundInv == ASSUME FourNodes PROVE NodeSpec => []RoundInv
  <1>1. Spec => []Kept
    BY AlwaysKept
  <1> QED BY <1>1, NodeKeepsCore, NodeInitRoundInv, NextRoundInv, PTL DEF NodeSpec

-----------------------------------------------------------------------------
(* The properties of AlgorandPbft that hold of four nodes *)

\* A node's seed is cut from the block of a batch at or after the last it has
\* committed, and nearer than the slots reach.
THEOREM SeedsStayNear == ASSUME FourNodes PROVE NodeSpec => []SeedWindow
  <1>1. RoundInv => SeedWindow
    BY DEF RoundInv
  <1> QED BY <1>1, AlwaysRoundInv, PTL

\* Of nodes that have committed all there is, the last batch leaves one choice.
LEMMA WindowSettles == Kept /\ RoundInv => SettledSeedsAgree
  <1> SUFFICES ASSUME Kept, RoundInv, NEW n \in Node, NEW m \in Node,
                      Committed(n) = Ordered, Committed(m) = Ordered
               PROVE  alg[n].seed = alg[m].seed
    BY DEF SettledSeedsAgree
  <1>1. expectedBatchCount \in Nat
    BY DEF Kept, TypeOK
  <1>2. CASE Ordered = {}
    BY <1>2 DEF RoundInv, SeedWindow
  <1>3. CASE Ordered # {}
    <2> DEFINE last == expectedBatchCount - 1
    <2>1. last \in Ordered /\ \A b \in Ordered : b <= last /\ (last <= b => b = last)
      BY <1>1, <1>3 DEF Ordered
    <2> HIDE DEF last
    <2>2. ASSUME NEW s \in Node, Committed(s) = Ordered
          PROVE  alg[s].seed = Prefix(Proposed(last))
      <3>1. \E b \in Ordered : last <= b /\ alg[s].seed = Prefix(Proposed(b))
        BY <2>1, <2>2 DEF RoundInv, SeedWindow
      <3> QED BY <2>1, <3>1
    <2> QED BY <2>2
  <1> QED BY <1>2, <1>3

\* Nodes that have committed all there is are on the same seed, whatever became
\* of the slots, rounds and seeds on the way.
THEOREM SettledSeeds == ASSUME FourNodes PROVE NodeSpec => []SettledSeedsAgree
  <1>1. Spec => []Kept
    BY AlwaysKept
  <1> QED BY <1>1, NodeKeepsCore, AlwaysRoundInv, WindowSettles, PTL

-----------------------------------------------------------------------------
(* Tallies: what a fold over the keys comes to *)

\* The package of key s, if it is the one s sent with batch from[s].
Package(tk, from, s) == tk[s][from[s]]

\* What counting the package of s makes of a tally, and the tally of the keys S.
Adds(tk, from, s, tally) ==
    [tally EXCEPT ![Package(tk, from, s).value] = @ + Package(tk, from, s).j]
Folded(tk, from, S) ==
    FoldSet(LAMBDA s, tally : Adds(tk, from, s, tally), [v \in Value |-> 0], S)

\* The votes of the keys S for v, one by one, and how many there are.
VotesFor(tk, from, S, v) ==
    {t \in S \X Nat : /\ Package(tk, from, t[1]).value = v
                      /\ t[2] < Package(tk, from, t[1]).j}
Tally(tk, from, S) == [v \in Value |-> Cardinality(VotesFor(tk, from, S, v))]

\* A finite number of keys has a finite number of votes.
LEMMA VotesFinite ==
  ASSUME NEW S, IsFiniteSet(S), NEW tk, NEW from,
         \A s \in S : Package(tk, from, s) \in DataPackage, NEW v
  PROVE  IsFiniteSet(VotesFor(tk, from, S, v))
  <1> DEFINE j(s) == Package(tk, from, s).j
             W(s) == {s} \X (0 .. j(s))
             all == {W(s) : s \in S}
  <1>1. \A s \in S : IsFiniteSet(W(s))
    <2> SUFFICES ASSUME NEW s \in S PROVE IsFiniteSet(W(s))
      OBVIOUS
    <2>1. IsFiniteSet({s})
      BY FS_Singleton
    <2>2. j(s) \in Nat
      BY DEF DataPackage
    <2>3. IsFiniteSet(0 .. j(s))
      BY <2>2, FS_Interval
    <2> HIDE DEF j
    <2> QED BY <2>1, <2>3, FS_Product
  <1>2. IsFiniteSet(all)
    <2> DEFINE f == [s \in S |-> W(s)]
    <2>1. f \in Surjection(S, all)
      BY DEF Surjection
    <2> HIDE DEF f, all
    <2> QED BY <2>1, FS_Surjection
  <1>3. IsFiniteSet(UNION all)
    BY <1>1, <1>2, FS_UNION
  <1>4. VotesFor(tk, from, S, v) \subseteq UNION all
    <2> SUFFICES ASSUME NEW t \in VotesFor(tk, from, S, v) PROVE t \in W(t[1]) /\ t[1] \in S
      OBVIOUS
    <2>1. t = <<t[1], t[2]>> /\ t[1] \in S /\ t[2] \in Nat /\ t[2] < j(t[1])
      BY DEF VotesFor
    <2>2. j(t[1]) \in Nat
      BY <2>1 DEF DataPackage
    <2> HIDE DEF j
    <2> QED BY <2>1, <2>2
  <1> QED BY <1>3, <1>4, FS_Subset

\* One more key adds its votes to those for its value.
LEMMA VotesAdded ==
  ASSUME NEW S, IsFiniteSet(S), NEW x, x \notin S, NEW tk, NEW from,
         \A s \in S \cup {x} : Package(tk, from, s) \in DataPackage, NEW v
  PROVE  Cardinality(VotesFor(tk, from, S \cup {x}, v)) =
            Cardinality(VotesFor(tk, from, S, v))
               + (IF Package(tk, from, x).value = v THEN Package(tk, from, x).j ELSE 0)
  <1> DEFINE old == VotesFor(tk, from, S, v)
             new == VotesFor(tk, from, {x}, v)
             k == Package(tk, from, x).j
  <1>1. VotesFor(tk, from, S \cup {x}, v) = old \cup new
    BY DEF VotesFor
  <1>2. old \cap new = {}
    BY DEF VotesFor
  <1>3. IsFiniteSet(old) /\ IsFiniteSet(new)
    BY VotesFinite, FS_Singleton
  <1>4. Cardinality(old \cup new) = Cardinality(old) + Cardinality(new)
    <2> HIDE DEF old, new
    <2>1. Cardinality(old \cap new) = 0
      BY <1>2, FS_EmptySet
    <2>2. Cardinality(old) \in Nat /\ Cardinality(new) \in Nat
      BY <1>3, FS_CardinalityType
    <2>3. Cardinality(old \cup new)
             = Cardinality(old) + Cardinality(new) - Cardinality(old \cap new)
      BY <1>3, FS_Union
    <2> QED BY <2>1, <2>2, <2>3
  <1>5. Cardinality(new) = IF Package(tk, from, x).value = v THEN k ELSE 0
    <2>1. CASE Package(tk, from, x).value # v
      <3>1. new = {}
        BY <2>1 DEF VotesFor
      <3> QED BY <2>1, <3>1, FS_EmptySet
    <2>2. CASE Package(tk, from, x).value = v
      <3>1. k \in Nat
        BY DEF DataPackage
      <3>2. new = {x} \X (0 .. k - 1)
        <4>1. ASSUME NEW t \in {x} \X Nat
              PROVE  t[1] = x /\ t[2] \in Nat
                     /\ (t \in new <=> t[2] < k)
          BY <2>2, <4>1 DEF VotesFor
        <4>2. new \subseteq {x} \X Nat
          BY DEF VotesFor
        <4> HIDE DEF k, new
        <4>3. \A t \in {x} \X Nat : t \in {x} \X (0 .. k - 1) <=> t[2] < k
          BY <3>1
        <4>4. {x} \X (0 .. k - 1) \subseteq {x} \X Nat
          BY <3>1
        <4> QED BY <4>1, <4>2, <4>3, <4>4
      <3>3. Cardinality(0 .. k - 1) = k /\ IsFiniteSet(0 .. k - 1)
        <4> HIDE DEF k
        <4>1. IsFiniteSet(0 .. k - 1)
          BY <3>1, FS_Interval
        <4>2. 0 \in Int /\ k - 1 \in Int
          BY <3>1
        <4>3. Cardinality(0 .. k - 1) = IF 0 > k - 1 THEN 0 ELSE k - 1 - 0 + 1
          BY <4>2, FS_Interval
        <4>4. (IF 0 > k - 1 THEN 0 ELSE k - 1 - 0 + 1) = k
          BY <3>1
        <4> QED BY <4>1, <4>3, <4>4
      <3>4. IsFiniteSet({x}) /\ Cardinality({x}) = 1
        BY FS_Singleton
      <3> HIDE DEF k, new
      <3>5. Cardinality({x} \X (0 .. k - 1)) = Cardinality({x}) * Cardinality(0 .. k - 1)
        BY <3>3, <3>4, FS_Product
      <3>6. Cardinality({x} \X (0 .. k - 1)) = 1 * k
        BY <3>3, <3>4, <3>5, Zenon
      <3> QED BY <2>2, <3>1, <3>2, <3>6
    <2> QED BY <2>1, <2>2
  <1> QED BY <1>1, <1>4, <1>5

\* Counting one more package is what countVotes() does to a tally.
LEMMA TallyAdded ==
  ASSUME NEW S, IsFiniteSet(S), NEW x, x \notin S, NEW tk, NEW from,
         \A s \in S \cup {x} : Package(tk, from, s) \in DataPackage
  PROVE  Tally(tk, from, S \cup {x}) = Adds(tk, from, x, Tally(tk, from, S))
  <1> DEFINE w == Package(tk, from, x).value
             k == Package(tk, from, x).j
             N(v) == Cardinality(VotesFor(tk, from, S, v))
             M(v) == Cardinality(VotesFor(tk, from, S \cup {x}, v))
  <1>1. w \in Value /\ k \in Nat
    BY DEF DataPackage
  <1>2. \A v \in Value : N(v) \in Nat
    BY VotesFinite, FS_CardinalityType
  <1>3. \A v \in Value : M(v) = N(v) + (IF w = v THEN k ELSE 0)
    BY VotesAdded
  <1> HIDE DEF w, k, N, M
  <1>4. \A v \in Value : M(v) = IF v = w THEN N(v) + k ELSE N(v)
    BY <1>1, <1>2, <1>3
  <1>5. [v \in Value |-> M(v)] = [[v \in Value |-> N(v)] EXCEPT ![w] = @ + k]
    BY <1>1, <1>4
  <1> QED BY <1>5 DEF Tally, Adds, w, k, N, M

\* Nothing counted, no votes.
LEMMA TallyOfNone ==
  ASSUME NEW tk, NEW from
  PROVE  Tally(tk, from, {}) = [v \in Value |-> 0]
  <1>1. \A v : VotesFor(tk, from, {}, v) = {}
    BY DEF VotesFor
  <1> QED BY <1>1, FS_EmptySet DEF Tally

\* A tally is made of the packages of its keys.
LEMMA TallySame ==
  ASSUME NEW S, NEW tk, NEW from, NEW uk, NEW frum,
         \A s \in S : Package(tk, from, s) = Package(uk, frum, s)
  PROVE  Tally(tk, from, S) = Tally(uk, frum, S)
  <1>1. \A v : VotesFor(tk, from, S, v) = VotesFor(uk, frum, S, v)
    BY DEF VotesFor
  <1> QED BY <1>1 DEF Tally

\* What FoldSet makes its value from: a function f on the sets of keys.
IsFold(f, tk, from, S) ==
    f = [T \in SUBSET S |->
            IF T = {} THEN [v \in Value |-> 0]
            ELSE LET x == CHOOSE y \in T : TRUE IN Adds(tk, from, x, f[T \ {x}])]

\* The definition of FoldSet in the community modules.
LEMMA FoldedIsFold ==
  ASSUME NEW tk, NEW from, NEW S
  PROVE  Folded(tk, from, S) = (CHOOSE f : IsFold(f, tk, from, S))[S]
  BY DEF Folded, FoldSet, MapThenFoldSet, IsFold

\* The tallies are such a function.
LEMMA TallyFolds ==
  ASSUME NEW S, IsFiniteSet(S), NEW tk, NEW from,
         \A s \in S : Package(tk, from, s) \in DataPackage
  PROVE  IsFold([T \in SUBSET S |-> Tally(tk, from, T)], tk, from, S)
  <1> DEFINE g == [T \in SUBSET S |-> Tally(tk, from, T)]
             next(T) == IF T = {} THEN [v \in Value |-> 0]
                        ELSE LET x == CHOOSE y \in T : TRUE
                             IN  Adds(tk, from, x, g[T \ {x}])
  <1>1. ASSUME NEW T \in SUBSET S, T # {}
        PROVE  LET x == CHOOSE y \in T : TRUE IN g[T] = Adds(tk, from, x, g[T \ {x}])
    <2> DEFINE x == CHOOSE y \in T : TRUE
               R == T \ {x}
    <2>1. x \in T
      BY <1>1
    <2>2. T = R \cup {x} /\ x \notin R /\ R \in SUBSET S
      BY <2>1
    <2>3. IsFiniteSet(R)
      BY <2>2, FS_Subset
    <2>4. Tally(tk, from, R \cup {x}) = Adds(tk, from, x, Tally(tk, from, R))
      <3> HIDE DEF x, R
      <3> QED BY <2>1, <2>2, <2>3, TallyAdded
    <2> QED BY <2>2, <2>4
  <1>2. g[{}] = [v \in Value |-> 0]
    BY TallyOfNone
  <1>3. \A T \in SUBSET S : Tally(tk, from, T) = next(T)
    <2> SUFFICES ASSUME NEW T \in SUBSET S PROVE g[T] = next(T)
      OBVIOUS
    <2> HIDE DEF g
    <2> QED BY <1>1, <1>2
  <1>4. [T \in SUBSET S |-> Tally(tk, from, T)] = [T \in SUBSET S |-> next(T)]
    <2> HIDE DEF next
    <2> QED BY <1>3
  <1> QED BY <1>4, Zenon DEF IsFold

\* There is no other: the sets on which two of them differ have no smallest one.
LEMMA FoldUnique ==
  ASSUME NEW S, IsFiniteSet(S), NEW tk, NEW from, NEW f, NEW g,
         IsFold(f, tk, from, S), IsFold(g, tk, from, S)
  PROVE  f = g
  <1> DEFINE bad == {T \in SUBSET S : f[T] # g[T]}
             less == StrictSubsetOrdering(S)
  <1>1. bad = {}
    <2> SUFFICES ASSUME bad # {} PROVE FALSE
      OBVIOUS
    <2>1. IsWellFoundedOn(less, SUBSET S)
      BY FS_StrictSubsetOrderingWellFounded, FS_FiniteSubsetsOfFinite
    <2>2. PICK T \in bad : \A R \in bad : <<R, T>> \notin less
      <3>1. bad \subseteq SUBSET S
        OBVIOUS
      <3> HIDE DEF bad, less
      <3> QED BY <2>1, <3>1, WFMin
    <2>3. T \in SUBSET S /\ f[T] # g[T]
      BY <2>2
    <2>4. ASSUME NEW y \in T PROVE f[T \ {y}] = g[T \ {y}]
      <3>1. T \ {y} \in SUBSET S /\ T \ {y} \subseteq T /\ T \ {y} # T
        BY <2>3
      <3>2. <<T \ {y}, T>> \in less
        BY <2>3, <3>1 DEF StrictSubsetOrdering
      <3>3. T \ {y} \notin bad
        BY <2>2, <3>2
      <3> QED BY <3>1, <3>3
    <2>5. CASE T = {}
      <3>1. f[T] = [v \in Value |-> 0] /\ g[T] = [v \in Value |-> 0]
        BY <2>3, <2>5 DEF IsFold
      <3> QED BY <2>3, <3>1
    <2>6. CASE T # {}
      <3> DEFINE x == CHOOSE y \in T : TRUE
      <3>1. x \in T
        BY <2>6
      <3>2. f[T] = Adds(tk, from, x, f[T \ {x}])
        BY <2>3, <2>6 DEF IsFold
      <3>3. g[T] = Adds(tk, from, x, g[T \ {x}])
        BY <2>3, <2>6 DEF IsFold
      <3> HIDE DEF x
      <3> QED BY <2>3, <2>4, <3>1, <3>2, <3>3
    <2> QED BY <2>5, <2>6
  <1> QED BY <1>1 DEF IsFold

\* A fold over the keys comes to their tally, whichever key it takes first.
LEMMA FoldedIsTally ==
  ASSUME NEW S, IsFiniteSet(S), NEW tk, NEW from,
         \A s \in S : Package(tk, from, s) \in DataPackage
  PROVE  Folded(tk, from, S) = Tally(tk, from, S)
  <1> DEFINE g == [T \in SUBSET S |-> Tally(tk, from, T)]
             f == CHOOSE h : IsFold(h, tk, from, S)
  <1>1. IsFold(g, tk, from, S)
    BY TallyFolds
  <1>2. IsFold(f, tk, from, S)
    BY <1>1
  <1>3. f = g
    <2> HIDE DEF f, g
    <2> QED BY <1>1, <1>2, FoldUnique
  <1> QED BY <1>3, FoldedIsFold

-----------------------------------------------------------------------------
(* Tallies: what the handlers count *)

\* TallyExplained of one object, for the packages tk.
Explained(a, tk) ==
    \E from \in [a.countvotes_pk -> Batch] :
        /\ \A s \in a.countvotes_pk : Package(tk, from, s) \in DataPackage
        /\ a.counts = Tally(tk, from, a.countvotes_pk)

\* Keys are finite in number.
LEMMA KeysFinite == \A a \in Object : IsFiniteSet(a.countvotes_pk)
  <1> SUFFICES ASSUME NEW a \in Object PROVE IsFiniteSet(a.countvotes_pk)
    OBVIOUS
  <1>1. a.countvotes_pk \in SUBSET Node
    BY DEF Object
  <1> QED BY <1>1, NodeAssumption, FS_Subset

\* The property says so of every node.
LEMMA TallyMeansExplained ==
  ASSUME VoteTypeOK
  PROVE  TallyExplained <=> \A n \in Node : Explained(alg[n], ticket)
  <1> SUFFICES ASSUME NEW n \in Node, NEW from \in [alg[n].countvotes_pk -> Batch]
               PROVE  LET S == alg[n].countvotes_pk
                      IN  /\ \A s \in S : Package(ticket, from, s) \in DataPackage
                          /\ alg[n].counts = Tally(ticket, from, S)
                          <=>
                          /\ \A s \in S : Package(ticket, from, s) # None
                          /\ alg[n].counts = Folded(ticket, from, S)
    BY Zenon DEF TallyExplained, Explained, Package, Folded, Adds
  <1> DEFINE S == alg[n].countvotes_pk
  <1>1. alg[n] \in Object /\ S \subseteq Node
    BY DEF VoteTypeOK, Object
  <1>2. \A s \in S : Package(ticket, from, s) \in DataPackage
                    <=> Package(ticket, from, s) # None
    BY <1>1, NoPackageAssumption DEF VoteTypeOK, Package
  <1>3. (\A s \in S : Package(ticket, from, s) \in DataPackage)
           => Folded(ticket, from, S) = Tally(ticket, from, S)
    BY <1>1, KeysFinite, FoldedIsTally
  <1> HIDE DEF S
  <1> QED BY <1>2, <1>3 DEF S

\* What counts is explained as long as the packages stay.
LEMMA StaysExplained ==
  ASSUME NEW a, NEW c, NEW tk, NEW uk, Explained(a, tk),
         c.counts = a.counts, c.countvotes_pk = a.countvotes_pk,
         a.countvotes_pk \subseteq Node,
         \A s \in Node, b \in Batch : tk[s][b] \in DataPackage => uk[s][b] = tk[s][b]
  PROVE  Explained(c, uk)
  <1> DEFINE S == a.countvotes_pk
  <1>1. PICK from \in [S -> Batch] :
           /\ \A s \in S : Package(tk, from, s) \in DataPackage
           /\ a.counts = Tally(tk, from, S)
    BY DEF Explained
  <1>2. \A s \in S : Package(tk, from, s) = Package(uk, from, s)
    BY <1>1 DEF Package
  <1>3. Tally(tk, from, S) = Tally(uk, from, S)
    BY <1>2, TallySame
  <1> HIDE DEF S
  <1> QED BY <1>1, <1>2, <1>3 DEF Explained, S

\* countVotes() adds a package that was sent.
LEMMA CountedExplained ==
  ASSUME NEW a \in Object, NEW tk, Explained(a, tk), NEW s \in Node, NEW b \in Batch,
         tk[s][b] \in DataPackage, tk[s][b].node = s
  PROVE  Explained(CountVotes(a, tk[s][b]), tk)
  <1> DEFINE S == a.countvotes_pk
             dp == tk[s][b]
             c == CountVotes(a, dp)
  <1>1. CASE s \in S
    BY <1>1 DEF CountVotes
  <1>2. CASE s \notin S
    <2>1. PICK from \in [S -> Batch] :
             /\ \A x \in S : Package(tk, from, x) \in DataPackage
             /\ a.counts = Tally(tk, from, S)
      BY DEF Explained
    <2> DEFINE with == [x \in S \cup {s} |-> IF x = s THEN b ELSE from[x]]
    <2>2. with \in [S \cup {s} -> Batch] /\ with[s] = b /\ \A x \in S : with[x] = from[x]
      BY <1>2
    <2> HIDE DEF with
    <2>3. /\ \A x \in S : Package(tk, from, x) = Package(tk, with, x)
          /\ Package(tk, with, s) = dp
      BY <2>2 DEF Package
    <2>4. \A x \in S \cup {s} : Package(tk, with, x) \in DataPackage
      BY <2>1, <2>3
    <2>5. Tally(tk, from, S) = Tally(tk, with, S)
      BY <2>3, TallySame
    <2>6. Tally(tk, with, S \cup {s}) = Adds(tk, with, s, Tally(tk, with, S))
      <3>1. IsFiniteSet(S)
        BY KeysFinite
      <3> HIDE DEF S
      <3> QED BY <1>2, <2>4, <3>1, TallyAdded
    <2>7. Adds(tk, with, s, a.counts) = [a.counts EXCEPT ![dp.value] = @ + dp.j]
      BY <2>3 DEF Adds
    <2>8. /\ c.countvotes_pk = S \cup {s}
          /\ c.counts = [a.counts EXCEPT ![dp.value] = @ + dp.j]
      <3> DEFINE keys == S \cup {s}
                 counted == [a.counts EXCEPT ![dp.value] = @ + dp.j]
      <3>1. c = [a EXCEPT !.countvotes_pk = keys, !.counts = counted]
        BY <1>2 DEF CountVotes
      <3> HIDE DEF keys, counted, c
      <3>2. c.countvotes_pk = keys /\ c.counts = counted
        BY <3>1 DEF Object
      <3> QED BY <3>2 DEF keys, counted
    <2>9. c.counts = Tally(tk, with, S \cup {s})
      BY <2>1, <2>5, <2>6, <2>7, <2>8
    <2> HIDE DEF S, c, dp
    <2>10. Explained(c, tk)
      BY <2>2, <2>4, <2>8, <2>9 DEF Explained
    <2> QED BY <2>10 DEF c, dp
  <1> QED BY <1>1, <1>2

\* reset() starts again from nothing.
LEMMA ResetExplained ==
  ASSUME NEW a \in Object, NEW n \in Node, NEW dp, dp.seed \in Seed, NEW tk
  PROVE  Explained(AfterRound(a, n, dp), tk)
  <1> DEFINE c == AfterRound(a, n, dp)
             e == Execute(a, n, FirstChar(dp.seed))
             none == [v \in Value |-> 0]
             next == Prefix(e.m_block)
             amount == ((FirstChar(dp.seed) % 100) + 1) * 2
  <1>1. c = [e EXCEPT !.counts = none, !.countvotes_pk = {}, !.seed = next]
    BY DEF AfterRound, Reset
  <1>2. DOMAIN e = DOMAIN a
    <2>1. e = [a EXCEPT !.m_wallet = amount, !.wallet[n] = amount]
      BY DEF Execute
    <2> HIDE DEF amount, e
    <2> QED BY <2>1
  <1>3. DOMAIN a = {"seed", "m_block", "counts", "countvotes_pk", "m_wallet", "wallet"}
    BY DEF Object
  <1> HIDE DEF e, none, next, c
  <1>4. c.counts = none /\ c.countvotes_pk = {}
    BY <1>1, <1>2, <1>3
  <1>5. [x \in {} |-> 0] \in [{} -> Batch]
    OBVIOUS
  <1>6. \A from : Tally(tk, from, {}) = none
    BY TallyOfNone DEF none
  <1>7. Explained(c, tk)
    BY <1>4, <1>5, <1>6 DEF Explained
  <1> QED BY <1>7 DEF c

-----------------------------------------------------------------------------
(* Tallies: the steps *)

\* A node that has drawn for a batch has done so for good.
LEMMA DrawnStays ==
  ASSUME TypeOK, IInv, [Next]_vars
  PROVE  \A n \in Node, b \in Batch : Drawn(n, b) => Drawn(n, b)'
  <1>1. LogsGrow
    <2>1. CASE log' = log
      BY <2>1, LogType DEF LogsGrow
    <2>2. ASSUME NEW n \in Node, NEW b \in Batch, NEW u \in {"BATCH_REQ", "PREP", "COMMIT"},
                 Broadcasts(n, <<Msg(u, b)>>)
          PROVE  LogsGrow
      BY <2>2, SendsOne
    <2>3. ASSUME NEW n \in Node, NEW b \in Batch,
                 Broadcasts(n, <<Msg("PREP", b), Msg("COMMIT", b)>>)
          PROVE  LogsGrow
      BY <2>3, SendsTwo
    <2>4. CASE UNCHANGED vars \/ Finished \/ \E n \in Node : ExecuteBatch(n)
      BY <2>1, <2>4 DEF Finished, ExecuteBatch, Abort, vars, netVars
    <2>5. CASE \E b \in Batch : ClientBatch(b) \/ OrderBatch(b)
      BY <2>1, <2>2, <2>5, PrimaryAssumption DEF ClientBatch, OrderBatch, netVars
    <2>6. CASE \E n \in Node, b \in Batch : ReplicaBatch(n, b)
      BY <2>1, <2>2, <2>3, <2>6 DEF ReplicaBatch, Abort
    <2>7. CASE \E n, s \in Node, b \in Batch : Prep(n, s, b) \/ Commit(n, s, b)
      <3>1. log' = log \/ \E n \in Node, b \in Batch : Broadcasts(n, <<Msg("COMMIT", b)>>)
        <4>1. ASSUME NEW n \in Node, NEW s \in Node, NEW b \in Batch, Prep(n, s, b)
              PROVE  log' = log \/ Broadcasts(n, <<Msg("COMMIT", b)>>)
          BY <4>1 DEF Prep, Abort
        <4>2. ASSUME NEW n \in Node, NEW s \in Node, NEW b \in Batch, Commit(n, s, b)
              PROVE  log' = log
          BY <4>2 DEF Commit, Abort
        <4> QED BY <2>7, <4>1, <4>2
      <3> QED BY <2>1, <2>2, <3>1
    <2> QED BY <2>4, <2>5, <2>6, <2>7 DEF Next
  <1>2. \A n, s \in Node : \A t, b : Handled(n, s, t, b) => Handled(n, s, t, b)'
    <2>1. CASE rcvd' = rcvd
      BY <1>1, <2>1, HandledKept DEF IInv
    <2>2. ASSUME NEW n \in Node, NEW s \in Node, NEW u, NEW c, Takes(n, s, u, c)
          PROVE  \A m, r \in Node : \A t, b : Handled(m, r, t, b) => Handled(m, r, t, b)'
      BY <1>1, <2>2, HandledAfter DEF IInv
    <2>3. CASE UNCHANGED vars \/ Finished \/ \E n \in Node : ExecuteBatch(n)
      BY <2>1, <2>3 DEF Finished, ExecuteBatch, Abort, vars, netVars
    <2>4. CASE \E b \in Batch : ClientBatch(b) \/ OrderBatch(b)
      BY <2>1, <2>4 DEF ClientBatch, OrderBatch, netVars
    <2>5. CASE \/ \E n \in Node, b \in Batch : ReplicaBatch(n, b)
               \/ \E n, s \in Node, b \in Batch : Prep(n, s, b) \/ Commit(n, s, b)
      <3>1. ASSUME NEW n \in Node, NEW b \in Batch, ReplicaBatch(n, b)
            PROVE  Takes(n, Primary, "BATCH_REQ", b)
        BY <3>1 DEF ReplicaBatch
      <3>2. ASSUME NEW n \in Node, NEW s \in Node, NEW b \in Batch, Prep(n, s, b)
            PROVE  Takes(n, s, "PREP", b)
        BY <3>2 DEF Prep
      <3>3. ASSUME NEW n \in Node, NEW s \in Node, NEW b \in Batch, Commit(n, s, b)
            PROVE  Takes(n, s, "COMMIT", b)
        BY <3>3 DEF Commit
      <3>4. \E n, s \in Node : \E u, c : Takes(n, s, u, c)
        BY <2>5, <3>1, <3>2, <3>3, PrimaryAssumption
      <3> QED BY <2>2, <3>4
    <2> QED BY <2>3, <2>4, <2>5 DEF Next
  <1>3. \A s \in Node : \A t, b : Sent(s, t, b) => Sent(s, t, b)'
    BY <1>1, SentStays
  <1> QED BY <1>2, <1>3, PrimaryAssumption DEF Drawn

\* What TallyInv says of the nodes one by one.
TalliesKept == TicketsDrawn /\ \A n \in Node : Explained(alg[n], ticket)

\* A step that sends no package and counts only packages that were sent.
LEMMA SameTickets ==
  ASSUME TypeOK, IInv, PackageInv, TalliesKept, [Next]_vars, ticket' = ticket,
         \A n \in Node : Explained(alg'[n], ticket)
  PROVE  TalliesKept'
  BY DrawnStays DEF TalliesKept, TicketsDrawn

\* Node n votes with b, which it has not drawn for before.
LEMMA VoteExplained ==
  ASSUME TypeOK, IInv, PackageInv, TalliesKept, [Next]_vars,
         NEW n \in Node, NEW b \in Batch, NEW a \in Object, NEW v \in Value,
         a.seed = alg[n].seed, Explained(a, ticket), Vote(n, b, a, v),
         ~Drawn(n, b), Drawn(n, b)'
  PROVE  TalliesKept'
  <1> DEFINE dp == Ticket(a, n, v)
             o == Sortition(a, n, v)
  <1>1. dp \in DataPackage /\ dp.node = n
    BY TicketType DEF Ticket
  <1>2. o \in Object /\ o.counts = a.counts /\ o.countvotes_pk = a.countvotes_pk
    BY SortitionType DEF Sortition, Object
  <1>3. ticket' = [ticket EXCEPT ![n][b] = dp] /\ alg' = [alg EXCEPT ![n] = CountVotes(o, dp)]
    BY DEF Vote
  <1> HIDE DEF dp, o
  <1>4. /\ ticket \in [Node -> [Batch -> DataPackage \cup {None}]]
        /\ alg \in [Node -> Object]
    BY DEF PackageInv, VoteTypeOK
  <1>5. /\ ticket'[n][b] = dp
        /\ \A s \in Node, c \in Batch : s # n \/ c # b => ticket'[s][c] = ticket[s][c]
    BY <1>3, <1>4
  <1>6. TicketsDrawn'
    BY <1>1, <1>5, DrawnStays DEF TalliesKept, TicketsDrawn
  <1>7. ticket[n][b] = None
    BY DEF TalliesKept, TicketsDrawn
  <1>8. \A s \in Node, c \in Batch :
           ticket[s][c] \in DataPackage => ticket'[s][c] = ticket[s][c]
    BY <1>5, <1>7, NoPackageAssumption
  <1>9. ASSUME NEW m \in Node \ {n} PROVE Explained(alg'[m], ticket')
    <2>1. alg'[m] = alg[m] /\ alg[m].countvotes_pk \subseteq Node
      BY <1>3, <1>4 DEF Object
    <2>2. Explained(alg[m], ticket)
      BY DEF TalliesKept
    <2> QED BY <1>8, <2>1, <2>2, StaysExplained
  <1>10. Explained(alg'[n], ticket')
    <2>1. alg'[n] = CountVotes(o, ticket'[n][b])
      BY <1>3, <1>4, <1>5
    <2>2. Explained(o, ticket')
      <3>1. a.countvotes_pk \subseteq Node
        BY DEF Object
      <3> QED BY <1>2, <1>8, <3>1, StaysExplained
    <2>3. Explained(CountVotes(o, ticket'[n][b]), ticket')
      BY <1>1, <1>2, <1>5, <2>2, CountedExplained
    <2> QED BY <2>1, <2>3
  <1> QED BY <1>6, <1>9, <1>10 DEF TalliesKept

\* process_batch on the primary.
LEMMA OrderBatchTallies ==
  ASSUME TypeOK, IInv, PackageInv, TalliesKept, NEW b \in Batch, NodeOrderBatch(b)
  PROVE  TalliesKept'
  <1> DEFINE v == m_dp[Primary].value
  <1>1. /\ OrderBatch(b) /\ Vote(Primary, b, alg[Primary], v) /\ Primary \in Node
        /\ b = expectedBatchCount /\ Broadcasts(Primary, <<Msg("BATCH_REQ", b)>>)
    BY PrimaryAssumption DEF NodeOrderBatch, OrderBatch
  <1>2. v \in Value /\ alg[Primary] \in Object
    BY <1>1, VoteTypes DEF PackageInv
  <1> HIDE DEF v
  <1>3. ~Drawn(Primary, b)
    <2>1. expectedBatchCount \in Nat
      BY DEF TypeOK
    <2> QED BY <1>1, <2>1 DEF Drawn, IInv, OrderedInTurn
  <1>4. Drawn(Primary, b)'
    BY <1>1, SendsOne DEF Drawn
  <1>5. Explained(alg[Primary], ticket) /\ Next
    BY <1>1 DEF TalliesKept, Next
  <1> QED BY <1>1, <1>2, <1>3, <1>4, <1>5, VoteExplained

\* process_batch on a replica counts the primary's package and its own.
LEMMA ReplicaBatchTallies ==
  ASSUME TypeOK, IInv, PackageInv, TalliesKept, NEW n \in Node, NEW b \in Batch,
         NodeReplicaBatch(n, b)
  PROVE  TalliesKept'
  <1> DEFINE dp == ticket[Primary][b]
             a == AfterBatch(alg[n], dp)
             v == dp.value
  <1>1. /\ Takes(n, Primary, "BATCH_REQ", b) /\ Primary \in Node /\ n # Primary
        /\ ReplicaBatch(n, b) /\ Next
    BY PrimaryAssumption DEF NodeReplicaBatch, ReplicaBatch, Next
  <1>2. CASE UNCHANGED voteVars
    <2>1. ticket' = ticket /\ alg' = alg
      BY <1>2 DEF voteVars
    <2> QED BY <1>1, <2>1, SameTickets DEF TalliesKept
  <1>3. CASE Vote(n, b, a, v)
    <2>1. /\ dp \in DataPackage /\ alg[n] \in Object /\ v \in Value
          /\ Explained(alg[n], ticket)
      BY <1>1, TakenPackage, VoteTypes DEF PackageInv, TalliesKept
    <2>2. dp.node = Primary
      BY <1>1, <2>1, NoPackageAssumption DEF TalliesKept, TicketsDrawn
    <2>3. Explained(a, ticket)
      <3>1. Explained(CountVotes(alg[n], dp), ticket)
        BY <1>1, <2>1, <2>2, CountedExplained
      <3> QED BY <2>1, <3>1 DEF AfterBatch
    <2>4. a \in Object /\ a.seed = alg[n].seed
      <3> HIDE DEF dp
      <3> QED BY <2>1, AfterMessageType
    <2>5. ~Drawn(n, b)
      BY <1>1, TakenOnce DEF Drawn, IInv
    <2>6. Drawn(n, b)'
      <3>1. LogsGrow
        <4>1. \/ log' = log
              \/ Broadcasts(n, <<Msg("PREP", b)>>)
              \/ Broadcasts(n, <<Msg("PREP", b), Msg("COMMIT", b)>>)
          BY <1>1 DEF ReplicaBatch, Abort
        <4>2. CASE log' = log
          BY <4>2, LogType DEF LogsGrow
        <4> QED BY <4>1, <4>2, SendsOne, SendsTwo
      <3>2. Handled(n, Primary, "BATCH_REQ", b)'
        BY <1>1, <3>1, HandledAfter DEF IInv
      <3> QED BY <1>1, <3>2 DEF Drawn
    <2> HIDE DEF a, v, dp
    <2> QED BY <1>1, <1>3, <2>1, <2>3, <2>4, <2>5, <2>6, VoteExplained
  <1>4. UNCHANGED voteVars \/ Vote(n, b, a, v)
    BY DEF NodeReplicaBatch
  <1> QED BY <1>2, <1>3, <1>4

\* process_pbft_prep_msg counts the sender's package.
LEMMA PrepTallies ==
  ASSUME TypeOK, IInv, PackageInv, TalliesKept, NEW n \in Node, NEW s \in Node,
         NEW b \in Batch, NodePrep(n, s, b)
  PROVE  TalliesKept'
  <1> DEFINE dp == ticket[s][b]
  <1>1. Takes(n, s, "PREP", b) /\ Next /\ ticket' = ticket
    BY DEF NodePrep, Prep, Next, voteVars
  <1>2. alg' = alg \/ alg' = [alg EXCEPT ![n] = AfterPrep(alg[n], dp)]
    BY DEF NodePrep, voteVars
  <1>3. dp \in DataPackage /\ alg \in [Node -> Object]
    BY <1>1, TakenPackage DEF PackageInv, VoteTypeOK
  <1>4. dp.node = s
    BY <1>3, NoPackageAssumption DEF TalliesKept, TicketsDrawn
  <1>5. Explained(CountVotes(alg[n], dp), ticket) /\ Explained(alg[n], ticket)
    BY <1>3, <1>4, CountedExplained DEF TalliesKept
  <1>6. Explained(AfterPrep(alg[n], dp), ticket)
    BY <1>5 DEF AfterPrep
  <1> HIDE DEF dp
  <1>7. \A m \in Node : Explained(alg'[m], ticket)
    BY <1>2, <1>3, <1>6 DEF TalliesKept
  <1> QED BY <1>1, <1>7, SameTickets

\* process_pbft_commit_msg ends the round or leaves it alone.
LEMMA CommitTallies ==
  ASSUME TypeOK, IInv, PackageInv, TalliesKept, NEW n \in Node, NEW s \in Node,
         NEW b \in Batch, NodeCommit(n, s, b)
  PROVE  TalliesKept'
  <1>1. Next
    BY DEF NodeCommit, Next
  <1>2. CASE UNCHANGED voteVars
    <2>1. ticket' = ticket /\ alg' = alg
      BY <1>2 DEF voteVars
    <2> QED BY <1>1, <2>1, SameTickets DEF TalliesKept
  <1>3. CASE EndRound(n)
    <2> DEFINE o == AfterRound(alg[n], n, m_dp[n])
    <2>1. alg' = [alg EXCEPT ![n] = o] /\ ticket' = ticket
      BY <1>3 DEF EndRound
    <2>2. Explained(o, ticket)
      BY VoteTypes, ResetExplained DEF PackageInv
    <2> HIDE DEF o
    <2>3. \A m \in Node : Explained(alg'[m], ticket)
      BY <2>1, <2>2 DEF PackageInv, VoteTypeOK, TalliesKept
    <2> QED BY <1>1, <2>1, <2>3, SameTickets
  <1> QED BY <1>2, <1>3 DEF NodeCommit

\* Every step keeps the tallies.
LEMMA NextTallies ==
  TypeOK /\ IInv /\ PackageInv /\ TalliesKept /\ [NodeNext]_nodeVars => TalliesKept'
  <1> SUFFICES ASSUME TypeOK, IInv, PackageInv, TalliesKept, [NodeNext]_nodeVars
               PROVE  TalliesKept'
    OBVIOUS
  <1>1. CASE \/ UNCHANGED nodeVars
             \/ Finished /\ UNCHANGED voteVars
             \/ \E n \in Node : ExecuteBatch(n) /\ UNCHANGED voteVars
             \/ \E b \in Batch : NodeClientBatch(b)
    <2>1. ticket' = ticket /\ alg' = alg
      BY <1>1 DEF nodeVars, voteVars, NodeClientBatch
    <2>2. [Next]_vars
      BY NodeStepsOfCore
    <2> QED BY <2>1, <2>2, SameTickets DEF TalliesKept
  <1> QED BY <1>1, OrderBatchTallies, ReplicaBatchTallies, PrepTallies, CommitTallies
          DEF NodeNext

\* At the start nothing is counted and no package is sent.
LEMMA InitTallies == NodeInit => TalliesKept
  <1> SUFFICES ASSUME NodeInit PROVE TalliesKept
    OBVIOUS
  <1>1. /\ ticket = [s \in Node |-> [b \in Batch |-> None]]
        /\ alg = [n \in Node |-> InitialObject]
    BY DEF NodeInit
  <1>2. TicketsDrawn
    BY <1>1 DEF TicketsDrawn
  <1>3. Explained(InitialObject, ticket)
    <2>1. /\ InitialObject.countvotes_pk = {}
          /\ InitialObject.counts = [v \in Value |-> 0]
      BY DEF InitialObject
    <2>2. [x \in {} |-> 0] \in [{} -> Batch]
      OBVIOUS
    <2>3. \A from : Tally(ticket, from, {}) = [v \in Value |-> 0]
      BY TallyOfNone
    <2> QED BY <2>1, <2>2, <2>3 DEF Explained
  <1> QED BY <1>1, <1>2, <1>3 DEF TalliesKept

\* The votes that a node holds in a round are those of packages that were sent, one of
\* each key it has counted, in whichever order they came: countVotes() counts a key once
\* and reset() forgets them all, on any number of nodes.
THEOREM TalliesAreExplained == NodeSpec => []TallyInv
  <1>1. Spec => [](TypeOK /\ IInv)
    BY TypeCorrect, FlagsGoBackToMessages, PTL
  <1>2. NodeSpec => []TalliesKept
    BY <1>1, NodeKeepsCore, AlwaysPackageInv, InitTallies, NextTallies, PTL DEF NodeSpec
  <1>3. PackageInv /\ TalliesKept => TallyInv
    BY TallyMeansExplained DEF PackageInv, TalliesKept, TallyInv
  <1> QED BY <1>2, <1>3, AlwaysPackageInv, PTL

\* TallyExplained in particular.
THEOREM VotesAreOfPackages == NodeSpec => []TallyExplained
  <1>1. TallyInv => TallyExplained
    BY DEF TallyInv
  <1> QED BY <1>1, TalliesAreExplained, PTL

\* VoteInv holds throughout, whatever the lottery draws, the window and the number of
\* batches.
THEOREM RoundsKept == ASSUME FourNodes PROVE NodeSpec => []VoteInv
  <1>1. RoundInv /\ TallyInv => VoteInv
    BY DEF VoteInv, TallyInv
  <1> QED BY <1>1, AlwaysRoundInv, TalliesAreExplained, PTL

=============================================================================
