--------------------------- MODULE PbftWindowProofs ---------------------------
(* FourInv of PbftInvariant is inductive, and with it the properties of Pbft *)
(* that hold of four nodes, for any window and any number of batches.        *)
EXTENDS PbftProofs

-----------------------------------------------------------------------------
(* Four nodes, and slots *)

\* One fault is tolerated, and three nodes are not the primary.
LEMMA FourNumbers ==
  ASSUME FourNodes
  PROVE  /\ F = 1
         /\ IsFiniteSet(Replica) /\ Cardinality(Replica) = 3
  <1>1. F = 1
    BY DEF FourNodes, F
  <1>2. IsFiniteSet(Replica) /\ Cardinality(Replica) = 3
    BY NodeAssumption, PrimaryAssumption, FS_RemoveElement DEF FourNodes, Replica
  <1> QED BY <1>1, <1>2

\* Three nodes that are not n are all the others.
LEMMA AllOthers ==
  ASSUME FourNodes, NEW n \in Node, NEW S \in SUBSET (Node \ {n}), Cardinality(S) >= 3
  PROVE  S = Node \ {n}
  <1>1. IsFiniteSet(Node \ {n}) /\ Cardinality(Node \ {n}) = 3
    BY NodeAssumption, FS_RemoveElement DEF FourNodes
  <1>2. Cardinality(S) <= 3 /\ IsFiniteSet(S)
    BY <1>1, FS_Subset
  <1>3. Cardinality(S) \in Nat
    BY <1>2, FS_CardinalityType
  <1> QED BY <1>1, <1>2, <1>3, FS_Subset

\* Two replicas that are not n are the other replicas.
LEMMA OtherReplicas ==
  ASSUME FourNodes, NEW n \in Replica, NEW S \in SUBSET (Replica \ {n}),
         Cardinality(S) >= 2
  PROVE  S = Replica \ {n}
  <1>1. IsFiniteSet(Replica \ {n}) /\ Cardinality(Replica \ {n}) = 2
    BY FourNumbers, FS_RemoveElement
  <1>2. Cardinality(S) <= 2 /\ IsFiniteSet(S)
    BY <1>1, FS_Subset
  <1>3. Cardinality(S) \in Nat
    BY <1>2, FS_CardinalityType
  <1> QED BY <1>1, <1>2, <1>3, FS_Subset

\* Two nodes, or three, are no fewer.
LEMMA TwoAreTwo ==
  ASSUME NEW S \in SUBSET Node, NEW x \in S, NEW y \in S, x # y
  PROVE  Cardinality(S) >= 2
  <1>1. IsFiniteSet({x}) /\ Cardinality({x}) = 1
    BY FS_Singleton
  <1>2. Cardinality({x} \cup {y}) = 2
    BY <1>1, FS_AddElement
  <1>3. {x} \cup {y} \in SUBSET S
    OBVIOUS
  <1> QED BY <1>2, <1>3, NodeSets

\* Whoever is not n, three of them.
LEMMA OthersAreThree ==
  ASSUME FourNodes, NEW n \in Node, NEW S \in SUBSET Node, Node \ {n} \subseteq S
  PROVE  Cardinality(S) >= 3
  <1>1. Cardinality(Node \ {n}) = 3
    BY NodeAssumption, FS_RemoveElement DEF FourNodes
  <1> QED BY <1>1, NodeSets

\* A set with two elements has them.
LEMMA TwoOf ==
  ASSUME NEW S \in SUBSET Node, Cardinality(S) >= 2
  PROVE  \E x, y \in S : x # y
  <1>1. IsFiniteSet(S) /\ Cardinality(S) \in Nat
    BY NodeAssumption, FS_Subset, FS_CardinalityType
  <1>2. PICK x : x \in S
    BY <1>1, FS_EmptySet
  <1>3. Cardinality(S \ {x}) = Cardinality(S) - 1 /\ IsFiniteSet(S \ {x})
    BY <1>1, <1>2, FS_RemoveElement
  <1>4. S \ {x} # {}
    BY <1>1, <1>3, FS_EmptySet
  <1> QED BY <1>2, <1>4

\* A number is its quotient times the divisor and its remainder.
LEMMA Quotient ==
  ASSUME NEW a \in Int, NEW d \in Int, d > 0
  PROVE  (a \div d) \in Int /\ (a % d) \in Int /\ a = d * (a \div d) + (a % d)
  OBVIOUS

\* Two numbers with the same remainder lie a multiple of the divisor apart.
LEMMA RemainderGap ==
  ASSUME NEW b \in Int, NEW c \in Int, NEW d \in Int, d > 0, b < c, b % d = c % d
  PROVE  b + d <= c
  <1> DEFINE p == b \div d
             q == c \div d
             r == b % d
  <1>1. p \in Int /\ q \in Int /\ r \in Int /\ b = d * p + r /\ c = d * q + r
    BY Quotient
  <1> HIDE DEF p, q, r
  <1>2. c - b = d * (q - p)
    BY <1>1
  <1>3. q - p >= 1
    BY <1>1, <1>2
  <1>4. d * (q - p) >= d
    BY <1>1, <1>3
  <1> QED BY <1>2, <1>4

\* Batches that share a slot are two windows apart.
LEMMA SlotGap ==
  ASSUME NEW b \in Batch, NEW c \in Batch, b < c, Slot(b) = Slot(c)
  PROVE  b + 2 * Window <= c
  BY RemainderGap, BatchAssumption DEF Slot, Slots, Batch

-----------------------------------------------------------------------------
(* Logs are read in the order in which they were written *)

\* An entry before one that was handled was handled.
LEMMA BeforeHandled ==
  ASSUME TypeOK, NEW n \in Node, NEW s \in Node, NEW k \in 1 .. rcvd[n][s],
         NEW t, NEW b, Before(log[s], k, t, b)
  PROVE  Handled(n, s, t, b)
  <1>1. rcvd[n][s] \in Nat
    BY DEF TypeOK
  <1>2. PICK j \in 1 .. k - 1 : log[s][j] = Msg(t, b)
    BY DEF Before
  <1>3. j \in 1 .. rcvd[n][s]
    BY <1>1, <1>2
  <1> QED BY <1>2, <1>3 DEF Handled

\* With a message a node has handled those that precede it.
LEMMA HandledEarlier ==
  ASSUME TypeOK, Cursors, LogsInPlace,
         NEW n \in Node, NEW s \in Node, NEW t, NEW c, Handled(n, s, t, c)
  PROVE  /\ c \in accepted
         /\ \A b \in Batch : /\ b < c => Handled(n, s, t, b)
                             /\ b + Window <= c => Handled(n, s, "COMMIT", b)
  <1>1. PICK k \in 1 .. rcvd[n][s] : log[s][k] = Msg(t, c)
    BY DEF Handled
  <1>2. k \in 1 .. Len(log[s])
    <2>1. rcvd[n][s] \in Nat /\ Len(log[s]) \in Nat /\ rcvd[n][s] <= Len(log[s])
      BY LogType DEF TypeOK, Cursors
    <2> QED BY <1>1, <2>1
  <1>3. log[s][k].type = t /\ log[s][k].batch = c
    BY <1>1 DEF Msg
  <1>4. InPlace(log[s], k)
    BY <1>2 DEF LogsInPlace
  <1> QED BY <1>1, <1>3, <1>4, BeforeHandled DEF InPlace

\* With a message a node has sent those that precede it.
LEMMA SentEarlier ==
  ASSUME TypeOK, LogsInPlace, NEW s \in Node, NEW t, NEW c, Sent(s, t, c)
  PROVE  /\ c \in accepted
         /\ \A b \in Batch : /\ b < c => Sent(s, t, b)
                             /\ b + Window <= c => Sent(s, "COMMIT", b)
  <1>1. PICK k \in 1 .. Len(log[s]) : log[s][k] = Msg(t, c)
    BY DEF Sent
  <1>2. log[s][k].type = t /\ log[s][k].batch = c
    BY <1>1 DEF Msg
  <1>3. InPlace(log[s], k)
    BY DEF LogsInPlace
  <1>4. ASSUME NEW u, NEW b, Before(log[s], k, u, b) PROVE Sent(s, u, b)
    <2>1. PICK j \in 1 .. k - 1 : log[s][j] = Msg(u, b)
      BY <1>4 DEF Before
    <2>2. j \in 1 .. Len(log[s])
      <3>1. Len(log[s]) \in Nat
        BY LogType
      <3> QED BY <2>1, <3>1
    <2> QED BY <2>1, <2>2 DEF Sent
  <1> QED BY <1>2, <1>3, <1>4 DEF InPlace

\* The message a node takes is new to it, its COMMIT too, all that precedes the
\* message was handled, and nothing was of a batch a window later.
LEMMA TakenInPlace ==
  ASSUME TypeOK, Cursors, LogsInPlace,
         NEW n \in Node, NEW s \in Node, NEW t, NEW c \in Batch, Takes(n, s, t, c)
  PROVE  /\ c \in accepted /\ s # n /\ n \notin aborted
         /\ ~Handled(n, s, t, c) /\ ~Handled(n, s, "COMMIT", c)
         /\ \A b \in Batch : /\ b < c => Handled(n, s, t, b)
                             /\ b + Window <= c => Handled(n, s, "COMMIT", b)
         /\ \A u, b : Handled(n, s, u, b) => ~(c + Window <= b)
  <1>1. rcvd[n][s] \in Nat /\ Len(log[s]) \in Nat
    BY LogType DEF TypeOK
  <1> DEFINE k == rcvd[n][s] + 1
  <1>2. /\ k \in 1 .. Len(log[s]) /\ log[s][k] = Msg(t, c)
        /\ s # n /\ n \notin aborted
    BY <1>1 DEF Takes
  <1>3. log[s][k].type = t /\ log[s][k].batch = c /\ InPlace(log[s], k)
    BY <1>2 DEF LogsInPlace, Msg
  <1>4. \A u, b : Before(log[s], k, u, b) <=> Handled(n, s, u, b)
    <2>1. k - 1 = rcvd[n][s]
      BY <1>1
    <2> QED BY <2>1 DEF Before, Handled
  <1> HIDE DEF k
  <1>5. /\ c \in accepted
        /\ ~Handled(n, s, t, c) /\ ~Handled(n, s, "COMMIT", c)
        /\ \A b \in Batch : /\ b < c => Handled(n, s, t, b)
                            /\ b + Window <= c => Handled(n, s, "COMMIT", b)
    BY <1>3, <1>4 DEF InPlace
  <1>6. ASSUME NEW u, NEW b, Handled(n, s, u, b), c + Window <= b PROVE FALSE
    BY <1>5, <1>6, HandledEarlier
  <1> QED BY <1>2, <1>5, <1>6

\* New entries in their places leave all entries in theirs.
LEMMA LogsInPlaceAfter ==
  ASSUME TypeOK, LogsInPlace, LogsGrow, accepted' = accepted,
         NEW n \in Node, \A s \in Node \ {n} : log'[s] = log[s],
         \A k \in 1 .. Len(log'[n]) : k > Len(log[n]) => InPlace(log[n], k)'
  PROVE  LogsInPlace'
  <1> SUFFICES ASSUME NEW s \in Node, NEW k \in 1 .. Len(log'[s])
               PROVE  InPlace(log[s], k)'
    BY DEF LogsInPlace
  <1>1. CASE s # n
    <2>1. InPlace(log[s], k)
      BY <1>1 DEF LogsInPlace
    <2> QED BY <1>1, <2>1 DEF InPlace, Before, Msg
  <1>2. CASE s = n /\ k > Len(log[s])
    BY <1>2
  <1>3. CASE ~(k > Len(log[s]))
    <2>1. Len(log[s]) \in Nat
      BY LogType
    <2>2. k \in 1 .. Len(log[s])
      BY <1>3, <2>1
    <2>3. \A j \in 1 .. k : log'[s][j] = log[s][j]
      BY <2>1, <2>2 DEF LogsGrow
    <2>4. InPlace(log[s], k)
      BY <2>2 DEF LogsInPlace
    <2>5. \A t, b : Before(log[s], k, t, b) <=> Before(log'[s], k, t, b)
      <3>1. \A j \in 1 .. k - 1 : log'[s][j] = log[s][j]
        BY <2>2, <2>3
      <3> QED BY <3>1 DEF Before, Msg
    <2>6. log'[s][k] = log[s][k]
      BY <2>2, <2>3
    <2> QED BY <2>4, <2>5, <2>6 DEF InPlace
  <1> QED BY <1>1, <1>2, <1>3

\* May node n say next that, of batch b?
MaySay(n, t, b) ==
    /\ b \in accepted
    /\ ~Sent(n, t, b) /\ ~Sent(n, "COMMIT", b)
    /\ \A c \in Batch : /\ c < b => Sent(n, t, c)
                        /\ c + Window <= b => Sent(n, "COMMIT", c)

\* A broadcast of one message.
LEMMA SaidOne ==
  ASSUME TypeOK, LogsInPlace, accepted' = accepted, NEW n \in Node,
         NEW t \in {"BATCH_REQ", "PREP", "COMMIT"}, NEW b \in Batch,
         Broadcasts(n, <<Msg(t, b)>>), MaySay(n, t, b)
  PROVE  LogsInPlace'
  <1> DEFINE m == Msg(t, b)
  <1>1. m \in Message /\ m.type = t /\ m.batch = b
    BY MsgType DEF Msg
  <1>2. <<m>> \in Seq(Message) /\ Len(<<m>>) = 1 /\ <<m>>[1] = m
    BY <1>1
  <1>3. Broadcasts(n, <<m>>)
    OBVIOUS
  <1> HIDE DEF m
  <1>4. /\ LogsGrow
        /\ \A s \in Node \ {n} : log'[s] = log[s]
        /\ Len(log'[n]) = Len(log[n]) + 1
        /\ \A j \in 1 .. Len(log[n]) : log'[n][j] = log[n][j]
        /\ log'[n][Len(log[n]) + 1] = m
    <2> DEFINE msgs == <<m>>
    <2>1. LogsGrow
      BY <1>1, <1>3, SentOne
    <2>2. msgs \in Seq(Message) /\ Len(msgs) = 1 /\ msgs[1] = m /\ Broadcasts(n, msgs)
      BY <1>2, <1>3
    <2> HIDE DEF msgs
    <2>3. \A s \in Node \ {n} : log'[s] = log[s]
      BY <2>2, Appended
    <2>4. /\ Len(log'[n]) = Len(log[n]) + Len(msgs)
          /\ \A k \in 1 .. Len(log[n]) : log'[n][k] = log[n][k]
          /\ \A k \in 1 .. Len(msgs) : log'[n][Len(log[n]) + k] = msgs[k]
      BY <2>2, Appended
    <2> QED BY <2>1, <2>2, <2>3, <2>4
  <1>5. Len(log[n]) \in Nat
    BY LogType
  <1>6. \A u, c : Before(log'[n], Len(log[n]) + 1, u, c) <=> Sent(n, u, c)
    <2>1. 1 .. (Len(log[n]) + 1 - 1) = 1 .. Len(log[n])
      BY <1>5
    <2>2. \A u, c : Before(log'[n], Len(log[n]) + 1, u, c)
                      <=> \E j \in 1 .. Len(log[n]) : log'[n][j] = Msg(u, c)
      BY <2>1 DEF Before
    <2> QED BY <1>4, <2>2 DEF Sent
  <1>7. \A k : k = Len(log[n]) + 1 => InPlace(log[n], k)'
    BY <1>1, <1>4, <1>6 DEF InPlace, MaySay
  <1>8. \A k \in 1 .. Len(log'[n]) : k > Len(log[n]) => k = Len(log[n]) + 1
    BY <1>4, <1>5
  <1> QED BY <1>4, <1>7, <1>8, LogsInPlaceAfter

\* A broadcast of PREP and COMMIT.
LEMMA SaidTwo ==
  ASSUME TypeOK, LogsInPlace, accepted' = accepted, NEW n \in Node, NEW b \in Batch,
         Broadcasts(n, <<Msg("PREP", b), Msg("COMMIT", b)>>),
         MaySay(n, "PREP", b), MaySay(n, "COMMIT", b)
  PROVE  LogsInPlace'
  <1> DEFINE m == Msg("PREP", b)
             u == Msg("COMMIT", b)
             old == Len(log[n])
  <1>1. /\ m \in Message /\ m.type = "PREP" /\ m.batch = b
        /\ u \in Message /\ u.type = "COMMIT" /\ u.batch = b
        /\ \A c : m # Msg("COMMIT", c)
    BY MsgType DEF Msg
  <1>2. /\ <<m, u>> \in Seq(Message) /\ Len(<<m, u>>) = 2
        /\ <<m, u>>[1] = m /\ <<m, u>>[2] = u
    BY <1>1
  <1>3. Broadcasts(n, <<m, u>>)
    OBVIOUS
  <1> HIDE DEF m, u
  <1>4. /\ LogsGrow
        /\ \A s \in Node \ {n} : log'[s] = log[s]
        /\ Len(log'[n]) = old + 2
        /\ \A j \in 1 .. old : log'[n][j] = log[n][j]
        /\ log'[n][old + 1] = m
        /\ log'[n][old + 2] = u
    <2> DEFINE msgs == <<m, u>>
    <2>1. LogsGrow
      BY <1>1, <1>3, SentTwo
    <2>2. /\ msgs \in Seq(Message) /\ Len(msgs) = 2 /\ msgs[1] = m /\ msgs[2] = u
          /\ Broadcasts(n, msgs)
      BY <1>2, <1>3
    <2> HIDE DEF msgs, old
    <2>3. \A s \in Node \ {n} : log'[s] = log[s]
      BY <2>2, Appended
    <2>4. /\ Len(log'[n]) = old + Len(msgs)
          /\ \A k \in 1 .. old : log'[n][k] = log[n][k]
          /\ \A k \in 1 .. Len(msgs) : log'[n][old + k] = msgs[k]
      BY <2>2, Appended DEF old
    <2> QED BY <2>1, <2>2, <2>3, <2>4
  <1>5. old \in Nat
    BY LogType
  <1>6. \A k : k = old + 1 => InPlace(log[n], k)'
    <2>1. \A t, c : Before(log'[n], old + 1, t, c) <=> Sent(n, t, c)
      <3>1. 1 .. (old + 1 - 1) = 1 .. old
        BY <1>5
      <3>2. \A t, c : Before(log'[n], old + 1, t, c)
                        <=> \E j \in 1 .. old : log'[n][j] = Msg(t, c)
        BY <3>1 DEF Before
      <3> QED BY <1>4, <3>2 DEF Sent
    <2> QED BY <1>1, <1>4, <2>1 DEF InPlace, MaySay
  <1>7. \A k : k = old + 2 => InPlace(log[n], k)'
    <2>1. \A t, c : Before(log'[n], old + 2, t, c) <=> Sent(n, t, c) \/ m = Msg(t, c)
      <3>1. \A j : j \in 1 .. old + 2 - 1 <=> j \in 1 .. old \/ j = old + 1
        BY <1>5
      <3>2. \A t, c : Before(log'[n], old + 2, t, c)
                        <=> \/ \E j \in 1 .. old : log'[n][j] = Msg(t, c)
                            \/ log'[n][old + 1] = Msg(t, c)
        BY <3>1 DEF Before
      <3> QED BY <1>4, <3>2 DEF Sent
    <2>2. \A c : Before(log'[n], old + 2, "COMMIT", c) <=> Sent(n, "COMMIT", c)
      BY <1>1, <2>1
    <2> QED BY <1>1, <1>4, <2>2 DEF InPlace, MaySay
  <1>8. \A k \in 1 .. Len(log'[n]) : k > old => k = old + 1 \/ k = old + 2
    BY <1>4, <1>5
  <1> HIDE DEF old
  <1>9. \A k \in 1 .. Len(log'[n]) : k > old => InPlace(log[n], k)'
    BY <1>6, <1>7, <1>8
  <1> QED BY <1>4, <1>9, LogsInPlaceAfter DEF old

-----------------------------------------------------------------------------
(* What the counters say *)

Kept == TypeOK /\ IInv /\ QInv /\ FourInv

\* A node handles nothing of its own.
LEMMA NothingOfOwn ==
  ASSUME SelfUnread, NEW n \in Node, NEW t, NEW b
  PROVE  ~Handled(n, n, t, b)
  BY DEF SelfUnread, Handled

\* A counter of COMMITs at 0 has seen those of all others.
LEMMA CommitsHeard ==
  ASSUME FourNodes, Kept, NEW n \in Node, NEW b \in Batch,
         txn[n][b].commit_rsp_cnt <= 0
  PROVE  \A s \in Node \ {n} : Handled(n, s, "COMMIT", b)
  <1>1. CommitsHandled(n, b) \in SUBSET (Node \ {n})
    BY NothingOfOwn DEF Kept, FourInv, CommitsHandled
  <1>2. Cardinality(CommitsHandled(n, b)) >= 3
    <2>1. txn[n][b].commit_rsp_cnt + Cardinality(CommitsHandled(n, b)) >= 2 * F + 1
      BY DEF Kept, IInv, CommitsCounted
    <2>2. txn[n][b].commit_rsp_cnt \in Int
      BY DEF Kept, TypeOK, TxnManager
    <2>3. CommitsHandled(n, b) \in SUBSET Node
      BY DEF CommitsHandled
    <2>4. Cardinality(CommitsHandled(n, b)) \in Nat
      BY <2>3, NodeSets
    <2> QED BY <2>1, <2>2, <2>4, FourNumbers
  <1>3. CommitsHandled(n, b) = Node \ {n}
    BY <1>1, <1>2, AllOthers
  <1> QED BY <1>3 DEF CommitsHandled

\* So has a node that has committed.
LEMMA CommittedHeard ==
  ASSUME FourNodes, Kept, NEW n \in Node, NEW b \in Batch, txn[n][b].committed_local
  PROVE  \A s \in Node \ {n} : Handled(n, s, "COMMIT", b)
  BY CommitsHeard DEF Kept, IInv, CommitsCounted

\* A counter that has seen the COMMITs of all others is at 0.
LEMMA CommitsAllIn ==
  ASSUME FourNodes, Kept, NEW n \in Node \ aborted, NEW b \in Batch,
         \A s \in Node \ {n} : Handled(n, s, "COMMIT", b)
  PROVE  txn[n][b].commit_rsp_cnt <= 0
  <1>1. CommitsHandled(n, b) \in SUBSET Node /\ Node \ {n} \subseteq CommitsHandled(n, b)
    BY DEF CommitsHandled
  <1>2. Cardinality(CommitsHandled(n, b)) >= 3 /\ Cardinality(CommitsHandled(n, b)) \in Nat
    BY <1>1, OthersAreThree, NodeSets
  <1>3. txn[n][b].commit_rsp_cnt + Cardinality(CommitsHandled(n, b)) = 2 * F + 1
    BY DEF Kept, FourInv, CountersExact
  <1>4. txn[n][b].commit_rsp_cnt \in Int
    BY DEF Kept, TypeOK, TxnManager
  <1> QED BY <1>2, <1>3, <1>4, FourNumbers

\* Only replicas send PREPs.
LEMMA PrepsAreReplicas ==
  ASSUME Kept, NEW n \in Node, NEW b \in Batch
  PROVE  /\ PrepsHandled(n, b) \in SUBSET Replica
         /\ n \notin PrepsHandled(n, b)
         /\ IsFiniteSet(PrepsHandled(n, b)) /\ Cardinality(PrepsHandled(n, b)) \in Nat
  <1>1. n \notin PrepsHandled(n, b)
    BY NothingOfOwn DEF Kept, FourInv, PrepsHandled
  <1>2. PrepsHandled(n, b) \in SUBSET Replica
    BY HandledWasSent DEF Kept, IInv, PrepsBacked, PrepsHandled
  <1>3. PrepsHandled(n, b) \in SUBSET Node
    BY <1>2 DEF Replica
  <1> QED BY <1>1, <1>2, <1>3, NodeAssumption, FS_Subset, FS_CardinalityType

\* The counter of PREPs of a node that runs.
LEMMA PrepsCounted ==
  ASSUME FourNodes, Kept, NEW n \in Node \ aborted, NEW b \in Batch
  PROVE  /\ txn[n][b].prep_rsp_cnt \in Int
         /\ txn[n][b].prep_rsp_cnt + Cardinality(PrepsHandled(n, b)) = 2
  <1>1. txn[n][b].prep_rsp_cnt \in Int
    BY DEF Kept, TypeOK, TxnManager
  <1>2. txn[n][b].prep_rsp_cnt + Cardinality(PrepsHandled(n, b)) = 2 * F
    BY DEF Kept, FourInv, CountersExact
  <1> QED BY <1>1, <1>2, FourNumbers

\* At 1 it has seen a PREP, at 0 two.
LEMMA PrepsHeard ==
  ASSUME FourNodes, Kept, NEW n \in Node \ aborted, NEW b \in Batch
  PROVE  /\ txn[n][b].prep_rsp_cnt <= 1 =>
               \E s \in Replica \ {n} : Handled(n, s, "PREP", b)
         /\ txn[n][b].prep_rsp_cnt <= 0 =>
               \E s, r \in Replica \ {n} :
                  s # r /\ Handled(n, s, "PREP", b) /\ Handled(n, r, "PREP", b)
  <1> DEFINE H == PrepsHandled(n, b)
  <1>1. /\ H \in SUBSET Replica /\ n \notin H
        /\ IsFiniteSet(H) /\ Cardinality(H) \in Nat
    BY PrepsAreReplicas
  <1>2. txn[n][b].prep_rsp_cnt \in Int /\ txn[n][b].prep_rsp_cnt + Cardinality(H) = 2
    BY PrepsCounted
  <1>3. \A s \in H : s \in Replica \ {n} /\ Handled(n, s, "PREP", b)
    BY <1>1 DEF PrepsHandled
  <1> HIDE DEF H
  <1>4. txn[n][b].prep_rsp_cnt <= 1 => H # {}
    BY <1>1, <1>2, FS_EmptySet
  <1>5. txn[n][b].prep_rsp_cnt <= 0 => \E s, r \in H : s # r
    <2>1. H \in SUBSET Node
      BY <1>1 DEF Replica
    <2>2. txn[n][b].prep_rsp_cnt <= 0 => Cardinality(H) >= 2
      BY <1>1, <1>2
    <2> QED BY <2>1, <2>2, TwoOf
  <1> QED BY <1>3, <1>4, <1>5

\* On a replica those are the PREPs of both other replicas.
LEMMA ReplicaPrepsHeard ==
  ASSUME FourNodes, Kept, NEW n \in Replica, NEW b \in Batch,
         txn[n][b].prep_rsp_cnt <= 0
  PROVE  \A s \in Replica \ {n} : Handled(n, s, "PREP", b)
  <1> DEFINE H == PrepsHandled(n, b)
  <1>1. n \in Node \ aborted
    BY DEF Kept, FourInv, ReplicasNeverAbort, Replica
  <1>2. H \in SUBSET (Replica \ {n}) /\ Cardinality(H) \in Nat
    BY <1>1, PrepsAreReplicas
  <1>3. Cardinality(H) >= 2
    BY <1>1, <1>2, PrepsCounted
  <1> HIDE DEF H
  <1>4. H = Replica \ {n}
    BY <1>2, <1>3, OtherReplicas
  <1> QED BY <1>4 DEF H, PrepsHandled

\* Two PREPs bring the counter to 0.
LEMMA PrepsAllIn ==
  ASSUME FourNodes, Kept, NEW n \in Node \ aborted, NEW b \in Batch,
         NEW s \in Node, NEW r \in Node, s # r,
         Handled(n, s, "PREP", b), Handled(n, r, "PREP", b)
  PROVE  txn[n][b].prep_rsp_cnt <= 0
  <1> DEFINE H == PrepsHandled(n, b)
  <1>1. H \in SUBSET Node /\ s \in H /\ r \in H
    BY DEF PrepsHandled
  <1>2. Cardinality(H) \in Nat
    BY PrepsAreReplicas
  <1>3. txn[n][b].prep_rsp_cnt \in Int /\ txn[n][b].prep_rsp_cnt + Cardinality(H) = 2
    BY PrepsCounted
  <1> HIDE DEF H
  <1>4. Cardinality(H) >= 2
    BY <1>1, TwoAreTwo
  <1> QED BY <1>2, <1>3, <1>4

-----------------------------------------------------------------------------
(* The window keeps the nodes together *)

\* A replica that votes to commit a batch has committed what lies a window
\* before: whoever endorsed or ordered the batch voted on that first.
LEMMA WindowCommitted ==
  ASSUME FourNodes, Kept, NEW n \in Replica, NEW b \in Batch, NEW c \in Batch,
         b + Window <= c, Sent(n, "COMMIT", c)
  PROVE  txn[n][b].committed_local
  <1>1. n \in Node /\ n \in Node \ aborted
    BY DEF Kept, FourInv, ReplicasNeverAbort, Replica
  <1>2. txn[n][c].prepared
    BY <1>1 DEF Kept, IInv, CommitsBacked
  <1>3. \A s \in Replica \ {n} : Handled(n, s, "PREP", c)
    <2>1. txn[n][c].prep_rsp_cnt <= 0
      BY <1>1, <1>2 DEF Kept, FourInv, PreparedSaid
    <2> QED BY <2>1, ReplicaPrepsHeard
  <1>4. Handled(n, Primary, "BATCH_REQ", c)
    BY <1>2 DEF Kept, IInv, ReplicaGotBatch
  <1>5. ASSUME NEW s \in Node \ {n} PROVE Handled(n, s, "COMMIT", b)
    BY <1>1, <1>3, <1>4, HandledEarlier DEF Replica, Kept, IInv, FourInv
  <1>6. txn[n][b].commit_rsp_cnt <= 0
    BY <1>1, <1>5, CommitsAllIn
  <1>7. txn[n][b].prepared
    <2>1. Sent(n, "COMMIT", b)
      BY <1>1, SentEarlier DEF Kept, FourInv
    <2> QED BY <1>1, <2>1 DEF Kept, IInv, CommitsBacked
  <1> QED BY <1>1, <1>6, <1>7 DEF Kept, FourInv, NothingMissed

\* So nobody submits a batch for the slot of one that is still open.
LEMMA SlotStaysOpen ==
  ASSUME FourNodes, Kept, NEW n \in Node, NEW b \in Batch, NEW c \in accepted,
         Open(n, b), Slot(c) = Slot(b)
  PROVE  c <= b
  <1>1. c \in Batch /\ b \in Nat /\ c \in Nat /\ Window \in Nat
    BY BatchAssumption DEF Kept, TypeOK, Batch
  <1>2. CASE n = Primary
    <2>1. preStore[Primary][Slot(c)] = b /\ c <= preStore[Primary][Slot(c)]
      BY <1>2 DEF Open, Kept, FourInv, PrimarySlots
    <2> QED BY <2>1
  <1>3. CASE n # Primary
    <2> SUFFICES ASSUME b < c PROVE FALSE
      BY <1>1
    <2>1. b + 2 * Window <= c
      BY <1>1, SlotGap
    <2>2. b + Window \in Batch /\ (b + Window) + Window <= c
      BY <1>1, <2>1, BatchAssumption DEF Batch
    <2>3. Sent(n, "COMMIT", b + Window)
      BY <2>2 DEF Kept, FourInv, WindowVoted
    <2>4. txn[n][b].committed_local
      BY <1>1, <1>3, <2>2, <2>3, WindowCommitted DEF Replica
    <2> QED BY <1>3, <2>4 DEF Open
  <1> QED BY <1>2, <1>3

\* A node that takes a message of b has handled nothing of an open batch for
\* the same slot from that sender.
LEMMA TakenIsOpen ==
  ASSUME FourNodes, Kept, NEW n \in Node, NEW s \in Node, NEW t, NEW b \in Batch,
         Takes(n, s, t, b), NEW u, NEW e \in Batch, Open(n, e), Slot(e) = Slot(b),
         Handled(n, s, u, e)
  PROVE  e = b
  <1>1. b \in accepted
    BY TakenInPlace DEF Kept, IInv, FourInv
  <1>2. b <= e
    BY <1>1, SlotStaysOpen
  <1>3. ~(b + Window <= e)
    BY TakenInPlace DEF Kept, IInv, FourInv
  <1>4. b \in Nat /\ e \in Nat /\ Window \in Nat
    BY BatchAssumption DEF Batch
  <1>5. ~(b < e)
    BY <1>3, <1>4, SlotGap
  <1> QED BY <1>2, <1>4, <1>5

\* A replica that has the batch, and the PREPs of the others, votes to commit.
LEMMA ReplicaVoted ==
  ASSUME FourNodes, Kept, NEW n \in Replica, NEW b \in Batch,
         Handled(n, Primary, "BATCH_REQ", b),
         \A s \in Replica \ {n} : Handled(n, s, "PREP", b)
  PROVE  Sent(n, "COMMIT", b)
  <1>1. n \in Node /\ n \in Node \ aborted /\ n # Primary
    BY DEF Kept, FourInv, ReplicasNeverAbort, Replica
  <1>2. txn[n][b].prep_rsp_cnt <= 0
    <2>1. IsFiniteSet(Replica \ {n}) /\ Cardinality(Replica \ {n}) = 2
      BY FourNumbers, FS_RemoveElement
    <2>2. \E s, r \in Replica \ {n} : s # r
      BY <2>1, TwoOf DEF Replica
    <2> QED BY <1>1, <2>2, PrepsAllIn DEF Replica
  <1>3. txn[n][b].prepared
    <2>1. CASE txn[n][b].committed_local
      BY <1>1, <2>1 DEF Kept, QInv, CommittedPrepared
    <2>2. CASE ~txn[n][b].committed_local
      <3>1. preStore[n][Slot(b)] = b
        BY <1>1, <2>2 DEF Kept, FourInv, OpenKept, Open
      <3> QED BY <1>1, <1>2, <3>1 DEF Kept, FourInv, NothingMissed
    <2> QED BY <2>1, <2>2
  <1> QED BY <1>1, <1>3 DEF Kept, FourInv, PreparedSaid

\* So does the primary, on the PREPs of two.
LEMMA PrimaryVoted ==
  ASSUME FourNodes, Kept, Primary \notin aborted, NEW b \in Batch,
         NEW s \in Node, NEW r \in Node, s # r,
         Handled(Primary, s, "PREP", b), Handled(Primary, r, "PREP", b)
  PROVE  Sent(Primary, "COMMIT", b)
  <1>1. Primary \in Node \ aborted
    BY PrimaryAssumption
  <1>2. b \in accepted
    BY <1>1, HandledEarlier DEF Kept, IInv, FourInv
  <1> DEFINE c == preStore[Primary][Slot(b)]
  <1>3. c \in accepted /\ b <= c /\ c \in Batch
    BY <1>2 DEF Kept, FourInv, PrimarySlots, TypeOK
  <1>4. CASE c = b
    <2>1. txn[Primary][b].prep_rsp_cnt <= 0
      BY <1>1, PrepsAllIn
    <2>2. txn[Primary][b].prepared
      BY <1>1, <1>4, <2>1 DEF Kept, FourInv, NothingMissed
    <2> QED BY <1>1, <2>2 DEF Kept, FourInv, PreparedSaid
  <1>5. CASE c # b
    <2>1. Slot(c) = Slot(b)
      <3>1. c # None
        BY <1>3, NoneAssumption
      <3> QED BY <3>1, SlotType, PrimaryAssumption DEF Kept, FourInv, SlotsMatch
    <2> HIDE DEF c
    <2>2. b \in Nat /\ c \in Nat /\ Window \in Nat
      BY <1>3, BatchAssumption DEF Batch
    <2>3. b + Window <= c
      BY <1>3, <1>5, <2>1, <2>2, SlotGap
    <2> QED BY <1>3, <2>3, PrimaryAssumption DEF Kept, FourInv, WindowVoted
  <1> QED BY <1>4, <1>5

-----------------------------------------------------------------------------
(* The handlers one by one *)

\* What the client has an answer for, when it submits a batch, all nodes have
\* voted to commit: two of those that executed it heard everybody else.
LEMMA AnsweredVoted ==
  ASSUME FourNodes, Kept, NEW b \in Submitted, NEW e \in Batch, e + Window <= b,
         NEW s \in Node
  PROVE  Sent(s, "COMMIT", e)
  <1>1. /\ e \in Nat /\ b \in Nat /\ Window \in Nat /\ b < Cardinality(Answered) + Window
        /\ MaxBatch \in Nat
    BY BatchAssumption DEF Batch, Submitted
  <1> DEFINE done(d) == {n \in Node : g_next_index[n] > d}
  <1>2. e \in Answered
    <2> SUFFICES ASSUME e \notin Answered PROVE FALSE
      OBVIOUS
    <2>1. ASSUME NEW d \in Answered PROVE d \in 0 .. e - 1
      <3> SUFFICES ASSUME e <= d PROVE FALSE
        BY <1>1, <2>1 DEF Answered, Batch
      <3>1. \A n \in Node : g_next_index[n] \in Nat
        BY DEF Kept, TypeOK
      <3>2. d \in Nat
        BY DEF Answered, Batch
      <3>3. done(d) \in SUBSET done(e) /\ done(e) \in SUBSET Node
        BY <1>1, <3>1, <3>2
      <3>4. Cardinality(done(d)) <= Cardinality(done(e)) /\ Cardinality(done(e)) \in Nat
            /\ Cardinality(done(d)) \in Nat
        BY <3>3, NodeSets
      <3>5. Cardinality(done(d)) >= 2 * F + 1
        BY DEF Answered
      <3>6. Cardinality(done(e)) >= 2 * F + 1
        BY <3>4, <3>5, FourNumbers
      <3> QED BY <2>1, <3>6 DEF Answered
    <2>2. IsFiniteSet(0 .. e - 1) /\ Cardinality(0 .. e - 1) = e
      <3>1. 0 \in Int /\ e - 1 \in Int
        BY <1>1
      <3>2. /\ IsFiniteSet(0 .. e - 1)
            /\ Cardinality(0 .. e - 1) = IF 0 > e - 1 THEN 0 ELSE (e - 1) - 0 + 1
        BY <3>1, FS_Interval
      <3> QED BY <1>1, <3>2
    <2>3. Answered \in SUBSET (0 .. e - 1)
      BY <2>1
    <2>4. Cardinality(Answered) <= e /\ IsFiniteSet(Answered)
      BY <2>2, <2>3, FS_Subset
    <2>5. Cardinality(Answered) \in Nat
      BY <2>4, FS_CardinalityType
    <2> QED BY <1>1, <2>4, <2>5
  <1>3. Cardinality(done(e)) >= 2 /\ done(e) \in SUBSET Node
    <2>1. Cardinality(done(e)) >= 2 * F + 1
      BY <1>2 DEF Answered
    <2>2. done(e) \in SUBSET Node
      OBVIOUS
    <2>3. Cardinality(done(e)) \in Nat
      BY <2>2, NodeSets
    <2> QED BY <2>1, <2>2, <2>3, FourNumbers
  <1>4. \A n \in done(e) : n \in Node /\ g_next_index[n] > e /\ g_next_index[n] \in Nat
    BY DEF Kept, TypeOK
  <1> HIDE DEF done
  <1>5. PICK x \in done(e), y \in done(e) : x # y
    BY <1>3, TwoOf
  <1>6. \A n \in done(e) : txn[n][e].committed_local
    BY <1>1, <1>4 DEF Kept, FourInv, ExecutedCommitted
  <1>7. PICK n \in done(e) : n # s
    BY <1>5
  <1>8. Handled(n, s, "COMMIT", e)
    BY <1>4, <1>6, <1>7, CommittedHeard
  <1> QED BY <1>4, <1>8, HandledWasSent DEF Kept, IInv

\* A step that leaves the counters, and what is handled of PREPs and COMMITs, on
\* the nodes that run.
LEMMA CountersStay ==
  ASSUME Kept, aborted \subseteq aborted',
         \A n \in Node \ aborted', b \in Batch :
            /\ txn'[n][b].prep_rsp_cnt = txn[n][b].prep_rsp_cnt
            /\ txn'[n][b].commit_rsp_cnt = txn[n][b].commit_rsp_cnt
            /\ \A s \in Node :
                  /\ Handled(n, s, "PREP", b)' <=> Handled(n, s, "PREP", b)
                  /\ Handled(n, s, "COMMIT", b)' <=> Handled(n, s, "COMMIT", b)
  PROVE  CountersExact'
  <1> SUFFICES ASSUME NEW n \in Node \ aborted', NEW b \in Batch
               PROVE  /\ txn'[n][b].prep_rsp_cnt + Cardinality(PrepsHandled(n, b)')
                             = 2 * F
                      /\ txn'[n][b].commit_rsp_cnt + Cardinality(CommitsHandled(n, b)')
                             = 2 * F + 1
    BY DEF CountersExact, F
  <1>1. PrepsHandled(n, b)' = PrepsHandled(n, b)
    BY DEF PrepsHandled
  <1>2. CommitsHandled(n, b)' = CommitsHandled(n, b)
    BY DEF CommitsHandled
  <1> QED BY <1>1, <1>2 DEF Kept, FourInv, CountersExact

\* process_client_batch: nobody has spoken of the batch, and all have voted on
\* what lies a window before it.
LEMMA ClientBatchFour ==
  ASSUME FourNodes, Kept, NEW b \in Batch, ClientBatch(b)
  PROVE  FourInv'
  <1>1. /\ Primary \notin aborted /\ b \in Submitted /\ b \notin accepted
        /\ accepted' = accepted \cup {b}
        /\ preStore' = [preStore EXCEPT ![Primary][Slot(b)] = b]
        /\ UNCHANGED <<log, rcvd, prepPStore, commStore, txn, execQueue,
                       g_next_index, expectedBatchCount, aborted>>
    BY DEF ClientBatch, netVars, execVars
  <1>2. \A n, s \in Node : \A t, c : /\ Sent(s, t, c)' <=> Sent(s, t, c)
                                     /\ Handled(n, s, t, c)' <=> Handled(n, s, t, c)
    BY <1>1 DEF Sent, Handled, Msg
  <1>3. \A n, s \in Node : \A t : ~Sent(s, t, b) /\ ~Handled(n, s, t, b)
    BY <1>1, SentEarlier, HandledEarlier DEF Kept, IInv, FourInv
  <1>4. /\ \A n \in Node, i \in 0 .. Slots - 1 :
              preStore'[n][i] = IF n = Primary /\ i = Slot(b) THEN b ELSE preStore[n][i]
        /\ Slot(b) \in 0 .. Slots - 1
    <2>1. preStore \in [Node -> [0 .. Slots - 1 -> Cell]]
      BY DEF Kept, TypeOK
    <2> QED BY <1>1, <2>1, SlotType
  <1>5. SelfUnread' /\ ReplicasNeverAbort' /\ ExecutedCommitted' /\ QueuesInOrder'
    BY <1>1 DEF Kept, FourInv, SelfUnread, ReplicasNeverAbort, ExecutedCommitted,
                QueuesInOrder, Replica
  <1>6. OrderedSent' /\ GotSaid' /\ PreparedSaid'
    BY <1>1, <1>2, PrimaryAssumption
    DEF Kept, FourInv, OrderedSent, GotSaid, PreparedSaid, Replica
  <1>7. CountersExact'
    BY <1>1, <1>2, CountersStay
  <1>8. LogsInPlace'
    BY <1>1 DEF Kept, FourInv, LogsInPlace, InPlace, Before, Msg
  <1>9. WindowVoted'
    <2> SUFFICES ASSUME NEW e \in Batch, NEW c \in accepted', e + Window <= c,
                        NEW s \in Node
                 PROVE  Sent(s, "COMMIT", e)
      BY <1>2 DEF WindowVoted
    <2>1. CASE c = b
      BY <1>1, <2>1, AnsweredVoted
    <2>2. CASE c # b
      BY <1>1, <2>2 DEF Kept, FourInv, WindowVoted
    <2> QED BY <2>1, <2>2
  <1>10. SlotsMatch'
    BY <1>4, SlotType DEF Kept, FourInv, SlotsMatch, Slot, Slots
  <1>11. PrimarySlots'
    <2> SUFFICES ASSUME NEW e \in accepted'
                 PROVE  /\ preStore'[Primary][Slot(e)] \in accepted'
                        /\ e <= preStore'[Primary][Slot(e)]
      BY DEF PrimarySlots, Slot, Slots
    <2>1. e \in Batch /\ Slot(e) \in 0 .. Slots - 1 /\ b \in Nat /\ e \in Nat
          /\ Window \in Nat
      BY <1>1, SlotType, BatchAssumption DEF Kept, TypeOK, Batch
    <2>2. CASE Slot(e) = Slot(b)
      <3>1. preStore'[Primary][Slot(e)] = b
        BY <1>4, <2>1, <2>2, PrimaryAssumption
      <3>2. e <= b
        <4> SUFFICES ASSUME b < e PROVE FALSE
          BY <2>1
        <4>1. b + Window <= e
          BY <2>1, <2>2, SlotGap
        <4>2. e \in accepted
          BY <1>1, <2>1
        <4> QED BY <1>3, <4>1, <4>2, PrimaryAssumption DEF Kept, FourInv, WindowVoted
      <3> QED BY <1>1, <3>1, <3>2
    <2>3. CASE Slot(e) # Slot(b)
      <3>1. preStore'[Primary][Slot(e)] = preStore[Primary][Slot(e)]
        BY <1>4, <2>1, <2>3, PrimaryAssumption
      <3>2. e \in accepted
        BY <1>1, <2>3
      <3> QED BY <1>1, <3>1, <3>2 DEF Kept, FourInv, PrimarySlots
    <2> QED BY <2>2, <2>3
  <1>12. OwnPreps'
    BY <1>1, <1>4 DEF Kept, FourInv, OwnPreps, Replica, Slots
  <1>13. \A n \in Node, e \in Batch : Open(n, e)' /\ ~(n = Primary /\ e = b) =>
            Open(n, e) /\ (preStore'[n][Slot(e)] = preStore[n][Slot(e)])
    BY <1>1, <1>4, SlotType DEF Open, Slot, Slots
  <1>14. OpenKept'
    <2> SUFFICES ASSUME NEW n \in Node \ aborted, NEW e \in Batch, Open(n, e)'
                 PROVE  /\ n # Primary /\ Handled(n, Primary, "BATCH_REQ", e)
                              => preStore'[n][Slot(e)] = e
                        /\ \A s \in Node :
                              /\ Handled(n, s, "PREP", e) => prepPStore[n][Slot(e)][s] = e
                              /\ Handled(n, s, "COMMIT", e) => commStore[n][Slot(e)][s] = e
      BY <1>1, <1>2, PrimaryAssumption DEF OpenKept, Slot, Slots
    <2>1. CASE n = Primary /\ e = b
      BY <1>3, <2>1
    <2>2. CASE ~(n = Primary /\ e = b)
      BY <1>13, <2>2 DEF Kept, FourInv, OpenKept
    <2> QED BY <2>1, <2>2
  <1>15. NothingMissed'
    <2> SUFFICES ASSUME NEW n \in Node \ aborted, NEW e \in Batch,
                        n \in Replica \/ preStore'[n][Slot(e)] = e
                 PROVE  /\ preStore'[n][Slot(e)] = e /\ txn[n][e].prep_rsp_cnt <= 0
                              => txn[n][e].prepared
                        /\ txn[n][e].prepared /\ txn[n][e].commit_rsp_cnt <= 0
                              => txn[n][e].committed_local
      BY <1>1 DEF NothingMissed, Replica, Slot, Slots
    <2>1. CASE n = Primary /\ e = b
      <3>1. ~(txn[n][e].prep_rsp_cnt <= 0)
        BY <1>3, <2>1, PrepsHeard DEF Replica
      <3>2. ~txn[n][e].prepared
        BY <3>1 DEF Kept, FourInv, PreparedSaid
      <3> QED BY <3>1, <3>2
    <2>2. CASE ~(n = Primary /\ e = b)
      <3>1. n \in Replica \/ preStore[n][Slot(e)] = e
        BY <1>4, <2>2, SlotType
      <3>2. preStore'[n][Slot(e)] = e => preStore[n][Slot(e)] = e
        BY <1>4, <2>2, SlotType
      <3> QED BY <3>1, <3>2 DEF Kept, FourInv, NothingMissed
    <2> QED BY <2>1, <2>2
  <1> QED
    BY <1>5, <1>6, <1>7, <1>8, <1>9, <1>10, <1>11, <1>12, <1>14, <1>15 DEF FourInv

\* An abort of the primary, whatever message it was about: the replicas and the
\* logs do not notice.
LEMMA AbortFour ==
  ASSUME FourNodes, Kept, Abort(Primary),
         \/ UNCHANGED rcvd
         \/ \E s \in Node : \E t, b : Takes(Primary, s, t, b)
  PROVE  FourInv'
  <1>1. /\ aborted' = aborted \cup {Primary}
        /\ UNCHANGED <<log, preStore, prepPStore, commStore, txn, execQueue,
                       g_next_index, accepted, expectedBatchCount>>
    BY DEF Abort, storeVars, execVars, primaryVars
  <1>2. \A n \in Node : /\ rcvd'[n][n] = rcvd[n][n]
                        /\ n # Primary => rcvd'[n] = rcvd[n]
    <2>1. rcvd \in [Node -> [Node -> Nat]]
      BY DEF Kept, TypeOK
    <2> QED BY <2>1 DEF Takes
  <1>3. /\ \A s \in Node : \A t, c : Sent(s, t, c)' <=> Sent(s, t, c)
        /\ \A n \in Node \ {Primary}, s \in Node : \A t, c :
              Handled(n, s, t, c)' <=> Handled(n, s, t, c)
    BY <1>1, <1>2 DEF Sent, Handled, Msg
  <1>4. /\ \A n \in Node \ aborted' : n \in Node \ aborted /\ n # Primary
        /\ \A n \in Replica : n \in Node \ {Primary}
    BY <1>1 DEF Replica
  <1>5. SelfUnread' /\ ReplicasNeverAbort' /\ ExecutedCommitted' /\ QueuesInOrder'
    BY <1>1, <1>2 DEF Kept, FourInv, SelfUnread, ReplicasNeverAbort, ExecutedCommitted,
                      QueuesInOrder, Replica
  <1>6. OrderedSent' /\ PreparedSaid' /\ WindowVoted'
    BY <1>1, <1>3, PrimaryAssumption
    DEF Kept, FourInv, OrderedSent, PreparedSaid, WindowVoted
  <1>7. GotSaid'
    BY <1>3, <1>4, PrimaryAssumption DEF Kept, FourInv, GotSaid, Replica
  <1>8. CountersExact'
    BY <1>1, <1>3, <1>4, CountersStay
  <1>9. LogsInPlace'
    BY <1>1 DEF Kept, FourInv, LogsInPlace, InPlace, Before, Msg
  <1>10. SlotsMatch' /\ PrimarySlots' /\ OwnPreps'
    BY <1>1 DEF Kept, FourInv, SlotsMatch, PrimarySlots, OwnPreps, Slot, Slots, Replica
  <1>11. OpenKept'
    BY <1>1, <1>3, <1>4, PrimaryAssumption DEF Kept, FourInv, OpenKept, Open, Slot, Slots
  <1>12. NothingMissed'
    BY <1>1, <1>4 DEF Kept, FourInv, NothingMissed, Slot, Slots, Replica
  <1> QED
    BY <1>5, <1>6, <1>7, <1>8, <1>9, <1>10, <1>11, <1>12 DEF FourInv

\* process_batch on the primary: all below the batch is ordered.
LEMMA OrderBatchFour ==
  ASSUME FourNodes, Kept, NEW b \in Batch, OrderBatch(b)
  PROVE  FourInv'
  <1>1. /\ b \in accepted /\ b = expectedBatchCount /\ expectedBatchCount' = b + 1
        /\ Broadcasts(Primary, <<Msg("BATCH_REQ", b)>>)
        /\ UNCHANGED <<rcvd, preStore, prepPStore, commStore, txn, execQueue,
                       g_next_index, accepted, aborted>>
    BY DEF OrderBatch, storeVars, execVars, Kept, QInv, QueuedAccepted
  <1>2. /\ LogsGrow
        /\ \A s \in Node : \A t, c :
              Sent(s, t, c)' <=> \/ Sent(s, t, c)
                                 \/ s = Primary /\ t = "BATCH_REQ" /\ c = b
    <2>1. Msg("BATCH_REQ", b) \in Message
      BY MsgType
    <2> QED BY <1>1, <2>1, SentOne, SameMsg, PrimaryAssumption DEF Kept
  <1>3. \A n, s \in Node : \A t, c : Handled(n, s, t, c)' <=> Handled(n, s, t, c)
    BY <1>1, <1>2, HandledKept DEF Kept, IInv
  <1>4. SelfUnread' /\ ReplicasNeverAbort' /\ ExecutedCommitted' /\ QueuesInOrder'
    BY <1>1 DEF Kept, FourInv, SelfUnread, ReplicasNeverAbort, ExecutedCommitted,
                QueuesInOrder, Replica
  <1>5. OrderedSent'
    <2> SUFFICES ASSUME NEW c \in Batch, c < b + 1 PROVE Sent(Primary, "BATCH_REQ", c)'
      BY <1>1 DEF OrderedSent
    <2>1. c < b \/ c = b
      BY DEF Batch
    <2> QED BY <1>1, <1>2, <2>1, PrimaryAssumption DEF Kept, FourInv, OrderedSent
  <1>6. GotSaid' /\ PreparedSaid' /\ WindowVoted'
    BY <1>1, <1>2, <1>3, PrimaryAssumption
    DEF Kept, FourInv, GotSaid, PreparedSaid, WindowVoted, Replica
  <1>7. CountersExact'
    BY <1>1, <1>3, CountersStay
  <1>8. LogsInPlace'
    <2>1. ~Sent(Primary, "BATCH_REQ", b) /\ ~Sent(Primary, "COMMIT", b)
      <3>1. ~(b < expectedBatchCount)
        BY <1>1 DEF Batch
      <3> QED BY <3>1, SentIsOrdered, PrimaryAssumption DEF Kept, IInv, OrderedInTurn
    <2>2. \A c \in Batch : c < b => Sent(Primary, "BATCH_REQ", c)
      BY <1>1 DEF Kept, FourInv, OrderedSent
    <2>3. \A c \in Batch : c + Window <= b => Sent(Primary, "COMMIT", c)
      BY <1>1, PrimaryAssumption DEF Kept, FourInv, WindowVoted
    <2>4. MaySay(Primary, "BATCH_REQ", b)
      BY <1>1, <2>1, <2>2, <2>3 DEF MaySay
    <2> QED BY <1>1, <2>4, SaidOne, PrimaryAssumption DEF Kept, FourInv
  <1>9. SlotsMatch' /\ PrimarySlots' /\ OwnPreps'
    BY <1>1 DEF Kept, FourInv, SlotsMatch, PrimarySlots, OwnPreps, Slot, Slots, Replica
  <1>10. OpenKept'
    BY <1>1, <1>3, PrimaryAssumption DEF Kept, FourInv, OpenKept, Open, Slot, Slots
  <1>11. NothingMissed'
    BY <1>1 DEF Kept, FourInv, NothingMissed, Slot, Slots, Replica
  <1> QED
    BY <1>4, <1>5, <1>6, <1>7, <1>8, <1>9, <1>10, <1>11 DEF FourInv

\* process_execute_msg: on a replica the queue starts with the next batch.
LEMMA ExecuteBatchFour ==
  ASSUME FourNodes, Kept, NEW n \in Node, ExecuteBatch(n)
  PROVE  FourInv'
  <1>1. /\ execQueue[n] \in Seq(Batch) /\ execQueue[n] # <<>> /\ n \notin aborted
        /\ g_next_index \in [Node -> Nat] /\ execQueue \in [Node -> Seq(Batch)]
    BY DEF ExecuteBatch, Kept, TypeOK
  <1> DEFINE q == execQueue[n]
             g == g_next_index[n]
  <1>2. /\ 1 \in 1 .. Len(q) /\ Head(q) = q[1] /\ q[1] \in Batch
        /\ Len(Tail(q)) = Len(q) - 1 /\ Len(q) \in Nat /\ Len(q) > 0
        /\ \A k \in 1 .. Len(q) - 1 : Tail(q)[k] = q[k + 1]
    BY <1>1, HeadTailProperties
  <1>3. txn[n][q[1]].committed_local
    BY <1>2 DEF Kept, QInv, QueuedCommitted
  <1>4. CASE Head(q) # g /\ Abort(n) /\ UNCHANGED rcvd
    <2>1. n \notin Replica
      <3> SUFFICES ASSUME n \in Replica PROVE FALSE
        OBVIOUS
      <3>1. q[1] = g + 1 - 1 /\ g \in Nat
        BY <1>1, <1>2 DEF Kept, FourInv, QueuesInOrder
      <3> QED BY <1>2, <1>4, <3>1
    <2>2. n = Primary
      BY <2>1 DEF Replica
    <2> QED BY <1>4, <2>2, AbortFour
  <1>5. CASE /\ Head(q) = g
             /\ execQueue' = [execQueue EXCEPT ![n] = Tail(@)]
             /\ g_next_index' = [g_next_index EXCEPT ![n] = @ + 1]
             /\ UNCHANGED <<netVars, storeVars, primaryVars, aborted>>
    <2>1. UNCHANGED <<log, rcvd, preStore, prepPStore, commStore, txn, accepted,
                      expectedBatchCount, aborted>>
      BY <1>5 DEF netVars, storeVars, primaryVars
    <2>2. \A m, s \in Node : \A t, c : /\ Sent(s, t, c)' <=> Sent(s, t, c)
                                       /\ Handled(m, s, t, c)' <=> Handled(m, s, t, c)
      BY <2>1 DEF Sent, Handled, Msg
    <2>3. \A m \in Node : /\ execQueue'[m] = IF m = n THEN Tail(q) ELSE execQueue[m]
                          /\ g_next_index'[m] = IF m = n THEN g + 1 ELSE g_next_index[m]
      BY <1>1, <1>5
    <2>4. SelfUnread' /\ ReplicasNeverAbort'
      BY <2>1 DEF Kept, FourInv, SelfUnread, ReplicasNeverAbort
    <2>5. OrderedSent' /\ GotSaid' /\ PreparedSaid' /\ WindowVoted'
      BY <2>1, <2>2, PrimaryAssumption
      DEF Kept, FourInv, OrderedSent, GotSaid, PreparedSaid, WindowVoted, Replica
    <2>6. CountersExact'
      BY <2>1, <2>2, CountersStay
    <2>7. LogsInPlace'
      BY <2>1 DEF Kept, FourInv, LogsInPlace, InPlace, Before, Msg
    <2>8. SlotsMatch' /\ PrimarySlots' /\ OwnPreps'
      BY <2>1 DEF Kept, FourInv, SlotsMatch, PrimarySlots, OwnPreps, Slot, Slots, Replica
    <2>9. OpenKept'
      BY <2>1, <2>2, PrimaryAssumption DEF Kept, FourInv, OpenKept, Open, Slot, Slots
    <2>10. NothingMissed'
      BY <2>1 DEF Kept, FourInv, NothingMissed, Slot, Slots, Replica
    <2>11. ExecutedCommitted'
      <3> SUFFICES ASSUME NEW m \in Node, NEW b \in Batch, b < g_next_index'[m]
                   PROVE  txn[m][b].committed_local
        BY <2>1 DEF ExecutedCommitted
      <3>1. CASE b < g_next_index[m]
        BY <3>1 DEF Kept, FourInv, ExecutedCommitted
      <3>2. CASE ~(b < g_next_index[m])
        <4>1. m = n /\ b = g
          BY <1>1, <2>3, <3>2 DEF Batch
        <4> QED BY <1>2, <1>3, <1>5, <4>1
      <3> QED BY <3>1, <3>2
    <2>12. QueuesInOrder'
      <3> SUFFICES ASSUME NEW m \in Replica
                   PROVE  /\ \A k \in 1 .. Len(execQueue'[m]) :
                                execQueue'[m][k] = g_next_index'[m] + k - 1
                          /\ \A b \in Batch : txn[m][b].committed_local =>
                                b < g_next_index'[m] + Len(execQueue'[m])
        BY <2>1 DEF QueuesInOrder, Replica
      <3>1. /\ \A k \in 1 .. Len(execQueue[m]) : execQueue[m][k] = g_next_index[m] + k - 1
            /\ \A b \in Batch : txn[m][b].committed_local =>
                  b < g_next_index[m] + Len(execQueue[m])
            /\ m \in Node
        BY DEF Kept, FourInv, QueuesInOrder, Replica
      <3>2. CASE m # n
        BY <2>3, <3>1, <3>2
      <3>3. CASE m = n
        <4>1. execQueue'[m] = Tail(q) /\ g_next_index'[m] = g + 1 /\ g \in Nat
          BY <1>1, <2>3, <3>1, <3>3
        <4>2. g + 1 + Len(Tail(q)) = g + Len(q)
          BY <1>2, <4>1
        <4>3. ASSUME NEW k \in 1 .. Len(Tail(q))
              PROVE  Tail(q)[k] = g + 1 + k - 1
          <5>1. k + 1 \in 1 .. Len(q) /\ k \in 1 .. Len(q) - 1 /\ k \in Nat
            BY <1>2
          <5>2. Tail(q)[k] = q[k + 1]
            BY <1>2, <5>1
          <5>3. q[k + 1] = g + (k + 1) - 1
            BY <3>1, <3>3, <5>1
          <5> QED BY <4>1, <5>1, <5>2, <5>3
        <4> QED BY <3>1, <3>3, <4>1, <4>2, <4>3
      <3> QED BY <3>2, <3>3
    <2> QED
      BY <2>4, <2>5, <2>6, <2>7, <2>8, <2>9, <2>10, <2>11, <2>12 DEF FourInv
  <1> QED BY <1>4, <1>5 DEF ExecuteBatch

\* Two PREPs in a slot are enough, and so are three COMMITs.
LEMMA TwoPreps ==
  ASSUME FourNodes, NEW preps, NEW b, NEW x \in Node, NEW y \in Node, x # y,
         preps[x] = b, preps[y] = b
  PROVE  EnoughPreps(preps, b)
  <1> DEFINE S == {s \in Node : preps[s] = b}
  <1>1. S \in SUBSET Node /\ x \in S /\ y \in S
    OBVIOUS
  <1>2. Cardinality(S) >= 2
    <2> HIDE DEF S
    <2> QED BY <1>1, TwoAreTwo
  <1>3. 2 * F = 2
    BY FourNumbers
  <1> QED BY <1>2, <1>3 DEF EnoughPreps

\* What the updates do to the counter of PREPs.
LEMMA UpdatedPrepCount ==
  ASSUME NEW t \in TxnManager, NEW p \in BOOLEAN, NEW c \in BOOLEAN
  PROVE  /\ Certified(t, p, c).prep_rsp_cnt = t.prep_rsp_cnt
         /\ PrepCounted(t, p).prep_rsp_cnt = t.prep_rsp_cnt - 1
         /\ CommitCounted(t, c).prep_rsp_cnt = t.prep_rsp_cnt
  BY DEF TxnManager, Certified, PrepCounted, CommitCounted

\* What a handler does to the store of PREPs, and to that of COMMITs.
StoresPrep(n, s, b) ==
    prepPStore' = [prepPStore EXCEPT ![n][Slot(b)] = Preps(n, s, b)]
StoresCommit(n, s, b) ==
    commStore' = [commStore EXCEPT ![n][Slot(b)] = Comms(n, s, b)]

\* Only that place of the store of PREPs changes.
LEMMA PrepCell ==
  ASSUME TypeOK, NEW n \in Node, NEW s \in Node, NEW b \in Batch, StoresPrep(n, s, b)
  PROVE  \A m \in Node, i \in 0 .. Slots - 1, r \in Node :
            prepPStore'[m][i][r] = IF m = n /\ i = Slot(b) /\ r = s
                                   THEN b ELSE prepPStore[m][i][r]
  <1>1. prepPStore \in [Node -> [0 .. Slots - 1 -> [Node -> Cell]]]
    BY DEF TypeOK
  <1> QED BY <1>1, SlotType DEF StoresPrep, Preps

\* Only that place of the store of COMMITs changes.
LEMMA CommCell ==
  ASSUME TypeOK, NEW n \in Node, NEW s \in Node, NEW b \in Batch, StoresCommit(n, s, b)
  PROVE  \A m \in Node, i \in 0 .. Slots - 1, r \in Node :
            commStore'[m][i][r] = IF m = n /\ i = Slot(b) /\ r = s
                                  THEN b ELSE commStore[m][i][r]
  <1>1. commStore \in [Node -> [0 .. Slots - 1 -> [Node -> Cell]]]
    BY DEF TypeOK
  <1> QED BY <1>1, SlotType DEF StoresCommit, Comms

\* What a handler does to the transaction managers.
LEMMA TxnCell ==
  ASSUME TypeOK, NEW n \in Node, NEW b \in Batch, NEW t \in TxnManager,
         txn' = [txn EXCEPT ![n][b] = t]
  PROVE  \A m \in Node, c \in Batch :
            txn'[m][c] = IF m = n /\ c = b THEN t ELSE txn[m][c]
  <1>1. txn \in [Node -> [Batch -> TxnManager]]
    BY DEF TypeOK
  <1> QED BY <1>1

\* Sending one message, or a PREP and a COMMIT.
LEMMA SendsOne ==
  ASSUME TypeOK, NEW n \in Node, NEW u \in {"BATCH_REQ", "PREP", "COMMIT"},
         NEW b \in Batch, Broadcasts(n, <<Msg(u, b)>>)
  PROVE  /\ LogsGrow
         /\ \A r \in Node : \A t, c :
               Sent(r, t, c)' <=> Sent(r, t, c) \/ (r = n /\ t = u /\ c = b)
  <1> DEFINE m == Msg(u, b)
  <1>1. m \in Message /\ \A t, c : m = Msg(t, c) <=> t = u /\ c = b
    BY MsgType, SameMsg
  <1>2. Broadcasts(n, <<m>>)
    OBVIOUS
  <1> HIDE DEF m
  <1> QED BY <1>1, <1>2, SentOne

\* The same of two messages.
LEMMA SendsTwo ==
  ASSUME TypeOK, NEW n \in Node, NEW b \in Batch,
         Broadcasts(n, <<Msg("PREP", b), Msg("COMMIT", b)>>)
  PROVE  /\ LogsGrow
         /\ \A r \in Node : \A t, c :
               Sent(r, t, c)' <=>
                  Sent(r, t, c) \/ (r = n /\ (t = "PREP" \/ t = "COMMIT") /\ c = b)
  <1> DEFINE m == Msg("PREP", b)
             u == Msg("COMMIT", b)
  <1>1. /\ m \in Message /\ \A t, c : m = Msg(t, c) <=> t = "PREP" /\ c = b
        /\ u \in Message /\ \A t, c : u = Msg(t, c) <=> t = "COMMIT" /\ c = b
    BY MsgType, SameMsg
  <1>2. Broadcasts(n, <<m, u>>)
    OBVIOUS
  <1> HIDE DEF m, u
  <1>3. /\ LogsGrow
        /\ \A r \in Node : \A t, c :
              Sent(r, t, c)' <=>
                 Sent(r, t, c) \/ (r = n /\ (m = Msg(t, c) \/ u = Msg(t, c)))
    BY <1>1, <1>2, SentTwo
  <1> QED BY <1>1, <1>3

\* process_batch on a replica: the batch is new, no COMMIT of the primary for it
\* has come, and what the replica says is in its place.
LEMMA ReplicaBatchFour ==
  ASSUME FourNodes, Kept, NEW n \in Node, NEW b \in Batch, ReplicaBatch(n, b)
  PROVE  FourInv'
  <1>1. /\ n # Primary /\ n \in Replica /\ Takes(n, Primary, "BATCH_REQ", b)
        /\ Primary \in Node /\ n \in Node \ aborted
    BY PrimaryAssumption DEF ReplicaBatch, Replica, Takes
  <1>2. /\ b \in accepted
        /\ ~Handled(n, Primary, "BATCH_REQ", b) /\ ~Handled(n, Primary, "COMMIT", b)
        /\ \A c \in Batch : c < b => Handled(n, Primary, "BATCH_REQ", c)
    BY <1>1, TakenInPlace DEF Kept, IInv, FourInv
  <1>3. /\ preStore[n][Slot(b)] # b /\ ~txn[n][b].prepared
        /\ ~txn[n][b].committed_local /\ ~Sent(n, "PREP", b) /\ ~Sent(n, "COMMIT", b)
    BY <1>1, <1>2 DEF Kept, IInv, QInv, FourInv, ReplicaGotBatch, CommittedPrepared,
                      GotSaid, CommitsBacked
  <1>4. ~(txn[n][b].commit_rsp_cnt <= 0)
    BY <1>1, <1>2, CommitsHeard
  <1> DEFINE p == PreparedByBatch(n, b)
  <1>5. ~CommittedByBatch(n, b) /\ p \in BOOLEAN
    BY <1>4 DEF CommittedByBatch, PreparedByBatch
  <1>6. /\ preStore' = [preStore EXCEPT ![n][Slot(b)] = b]
        /\ prepPStore' = [prepPStore EXCEPT ![n][Slot(b)] = Preps(n, n, b)]
        /\ p => /\ commStore' = [commStore EXCEPT ![n][Slot(b)] = Comms(n, n, b)]
                /\ Broadcasts(n, <<Msg("PREP", b), Msg("COMMIT", b)>>)
        /\ ~p => /\ commStore' = commStore
                 /\ Broadcasts(n, <<Msg("PREP", b)>>)
        /\ txn' = [txn EXCEPT ![n][b] = Certified(txn[n][b], p, CommittedByBatch(n, b))]
        /\ UNCHANGED <<execQueue, g_next_index, accepted, expectedBatchCount, aborted>>
    BY <1>3, <1>5 DEF ReplicaBatch, primaryVars
  <1>7. p => txn[n][b].prep_rsp_cnt <= 0
    BY DEF PreparedByBatch
  <1>8. p <=> txn[n][b].prep_rsp_cnt <= 0 /\ EnoughPreps(Preps(n, n, b), b)
    BY <1>3 DEF PreparedByBatch
  <1> HIDE DEF p
  <1>9. MaySay(n, "PREP", b)
    BY <1>1, <1>2, <1>3 DEF MaySay, Kept, FourInv, GotSaid, WindowVoted
  <1>10. p => MaySay(n, "COMMIT", b)
    <2> SUFFICES ASSUME p, NEW c \in Batch, c < b PROVE Sent(n, "COMMIT", c)
      BY <1>9 DEF MaySay
    <2>1. \A s \in Replica \ {n} : Handled(n, s, "PREP", b)
      BY <1>1, <1>7, ReplicaPrepsHeard
    <2>2. \A s \in Replica \ {n} : Handled(n, s, "PREP", c)
      BY <2>1, HandledEarlier DEF Replica, Kept, IInv, FourInv
    <2> QED BY <1>1, <1>2, <2>2, ReplicaVoted
  <1>11. LogsInPlace'
    <2>1. CASE p
      BY <1>6, <1>9, <1>10, <2>1, SaidTwo DEF Kept, FourInv
    <2>2. CASE ~p
      BY <1>6, <1>9, <2>2, SaidOne DEF Kept, FourInv
    <2> QED BY <2>1, <2>2
  <1>12. /\ LogsGrow
         /\ \A r \in Node : \A t, c :
               Sent(r, t, c)' <=>
                  \/ Sent(r, t, c)
                  \/ r = n /\ c = b /\ (t = "PREP" \/ (p /\ t = "COMMIT"))
    <2>1. CASE p
      <3>1. TypeOK /\ Broadcasts(n, <<Msg("PREP", b), Msg("COMMIT", b)>>)
        BY <1>6, <2>1 DEF Kept
      <3>2. /\ LogsGrow
            /\ \A r \in Node : \A t, c :
                  Sent(r, t, c)' <=>
                     Sent(r, t, c) \/ (r = n /\ (t = "PREP" \/ t = "COMMIT") /\ c = b)
        BY <3>1, SendsTwo
      <3> QED BY <2>1, <3>2
    <2>2. CASE ~p
      <3>1. TypeOK /\ Broadcasts(n, <<Msg("PREP", b)>>)
        BY <1>6, <2>2 DEF Kept
      <3>2. /\ LogsGrow
            /\ \A r \in Node : \A t, c :
                  Sent(r, t, c)' <=> Sent(r, t, c) \/ (r = n /\ t = "PREP" /\ c = b)
        BY <3>1, SendsOne
      <3> QED BY <2>2, <3>2
    <2> QED BY <2>1, <2>2
  <1>13. \A q, r \in Node : \A t, c :
            Handled(q, r, t, c)' <=>
               \/ Handled(q, r, t, c)
               \/ q = n /\ r = Primary /\ t = "BATCH_REQ" /\ c = b
    BY <1>1, <1>12, HandledAfter, SameMsg DEF Kept, IInv
  <1>14. \A q \in Node, c \in Batch :
            /\ txn'[q][c].prep_rsp_cnt = txn[q][c].prep_rsp_cnt
            /\ txn'[q][c].commit_rsp_cnt = txn[q][c].commit_rsp_cnt
            /\ txn'[q][c].committed_local <=> txn[q][c].committed_local
            /\ txn'[q][c].prepared <=> txn[q][c].prepared \/ (p /\ q = n /\ c = b)
    <2> DEFINE t == Certified(txn[n][b], p, CommittedByBatch(n, b))
    <2>1. txn[n][b] \in TxnManager /\ CommittedByBatch(n, b) \in BOOLEAN
      BY DEF Kept, TypeOK, CommittedByBatch, PreparedByBatch
    <2>2. /\ t \in TxnManager
          /\ t.prep_rsp_cnt = txn[n][b].prep_rsp_cnt
          /\ t.commit_rsp_cnt = txn[n][b].commit_rsp_cnt
          /\ t.committed_local <=> txn[n][b].committed_local
          /\ t.prepared <=> txn[n][b].prepared \/ p
      <3> DEFINE o == txn[n][b]
                 d == CommittedByBatch(n, b)
      <3>1. o \in TxnManager /\ p \in BOOLEAN /\ d \in BOOLEAN /\ ~d
        BY <1>5, <2>1
      <3> HIDE DEF o, d
      <3>2. Certified(o, p, d) \in TxnManager
        BY <3>1, UpdatedTxnType
      <3>3. Certified(o, p, d).prep_rsp_cnt = o.prep_rsp_cnt
        BY <3>1, UpdatedPrepCount
      <3>4. /\ Certified(o, p, d).commit_rsp_cnt = o.commit_rsp_cnt
            /\ Certified(o, p, d).committed_local <=> o.committed_local \/ d
            /\ Certified(o, p, d).prepared <=> o.prepared \/ p
        BY <3>1, UpdatedTxn
      <3> QED BY <3>1, <3>2, <3>3, <3>4 DEF o, d
    <2>3. txn' = [txn EXCEPT ![n][b] = t]
      BY <1>6
    <2> HIDE DEF t
    <2>4. \A q \in Node, c \in Batch :
             txn'[q][c] = IF q = n /\ c = b THEN t ELSE txn[q][c]
      BY <2>2, <2>3, TxnCell DEF Kept
    <2> QED BY <2>2, <2>4
  <1>15. \A q \in Node, i \in 0 .. Slots - 1 :
            preStore'[q][i] = IF q = n /\ i = Slot(b) THEN b ELSE preStore[q][i]
    <2>1. preStore \in [Node -> [0 .. Slots - 1 -> Cell]]
      BY DEF Kept, TypeOK
    <2> QED BY <1>6, <2>1, SlotType
  <1>16. \A q \in Node, i \in 0 .. Slots - 1, r \in Node :
            prepPStore'[q][i][r] = IF q = n /\ i = Slot(b) /\ r = n
                                   THEN b ELSE prepPStore[q][i][r]
    <2>1. StoresPrep(n, n, b)
      BY <1>6 DEF StoresPrep
    <2> QED BY <2>1, PrepCell DEF Kept
  <1>17. \A q \in Node, i \in 0 .. Slots - 1, r \in Node :
            ~(q = n /\ r = n) => commStore'[q][i][r] = commStore[q][i][r]
    <2>1. CASE p
      <3>1. StoresCommit(n, n, b)
        BY <1>6, <2>1 DEF StoresCommit
      <3> QED BY <3>1, CommCell DEF Kept
    <2>2. CASE ~p
      BY <1>6, <2>2
    <2> QED BY <2>1, <2>2
  <1>18. SelfUnread' /\ ReplicasNeverAbort' /\ ExecutedCommitted' /\ QueuesInOrder'
    <2>1. SelfUnread'
      BY <1>1 DEF Kept, TypeOK, FourInv, SelfUnread, Takes
    <2> QED BY <1>6, <1>14, <2>1 DEF Kept, FourInv, ReplicasNeverAbort, ExecutedCommitted,
                                     QueuesInOrder, Replica
  <1>19. OrderedSent' /\ WindowVoted'
    BY <1>1, <1>6, <1>12 DEF Kept, FourInv, OrderedSent, WindowVoted
  <1>20. GotSaid'
    <2> SUFFICES ASSUME NEW q \in Replica, NEW c \in Batch
                 PROVE  Handled(q, Primary, "BATCH_REQ", c)' <=> Sent(q, "PREP", c)'
      BY DEF GotSaid, Replica
    <2>1. /\ q \in Node
          /\ Handled(q, Primary, "BATCH_REQ", c) <=> Sent(q, "PREP", c)
      BY DEF Kept, FourInv, GotSaid, Replica
    <2>2. Handled(q, Primary, "BATCH_REQ", c)' <=>
             Handled(q, Primary, "BATCH_REQ", c) \/ (q = n /\ c = b)
      BY <1>1, <1>13, <2>1
    <2>3. Sent(q, "PREP", c)' <=> Sent(q, "PREP", c) \/ (q = n /\ c = b)
      <3>1. \A t : Sent(q, t, c)' <=>
                      \/ Sent(q, t, c)
                      \/ q = n /\ c = b /\ (t = "PREP" \/ (p /\ t = "COMMIT"))
        BY <1>12, <2>1
      <3> QED BY <3>1
    <2> QED BY <2>1, <2>2, <2>3
  <1>21. PreparedSaid'
    BY <1>7, <1>12, <1>14 DEF Kept, FourInv, PreparedSaid
  <1>22. CountersExact'
    BY <1>6, <1>13, <1>14, CountersStay
  <1>23. SlotsMatch'
    BY <1>15, SlotType DEF Kept, FourInv, SlotsMatch, Slot, Slots
  <1>24. PrimarySlots'
    BY <1>1, <1>6, <1>15, SlotType DEF Kept, FourInv, TypeOK, PrimarySlots, Slot, Slots
  <1>25. OwnPreps'
    BY <1>1, <1>15, <1>16 DEF Kept, FourInv, OwnPreps, Replica, Slots
  <1>26. \A m \in Node, e \in Batch : Open(m, e)' => Open(m, e)
    BY <1>1, <1>14, <1>15, SlotType DEF Open, Slot, Slots
  <1>27. OpenKept'
    <2> SUFFICES ASSUME NEW m \in Node \ aborted, NEW e \in Batch, Open(m, e)'
                 PROVE  /\ m # Primary /\ Handled(m, Primary, "BATCH_REQ", e)'
                              => preStore'[m][Slot(e)] = e
                        /\ \A s \in Node :
                              /\ Handled(m, s, "PREP", e)' => prepPStore'[m][Slot(e)][s] = e
                              /\ Handled(m, s, "COMMIT", e)'
                                    => commStore'[m][Slot(e)][s] = e
      BY <1>6, PrimaryAssumption DEF OpenKept, Slot, Slots
    <2>1. Open(m, e) /\ Slot(e) \in 0 .. Slots - 1
      BY <1>26, SlotType
    <2>2. ASSUME m # Primary, Handled(m, Primary, "BATCH_REQ", e)'
          PROVE  preStore'[m][Slot(e)] = e
      <3>1. CASE m = n /\ e = b
        BY <1>15, <2>1, <3>1
      <3>2. CASE ~(m = n /\ e = b)
        <4>1. Handled(m, Primary, "BATCH_REQ", e)
          BY <1>1, <1>13, <2>2, <3>2
        <4>2. preStore[m][Slot(e)] = e
          BY <2>1, <2>2, <4>1 DEF Kept, FourInv, OpenKept
        <4>3. ~(m = n /\ Slot(e) = Slot(b))
          BY <1>1, <2>1, <3>2, <4>1, TakenIsOpen
        <4> QED BY <1>15, <2>1, <4>2, <4>3
      <3> QED BY <3>1, <3>2
    <2>3. ASSUME NEW s \in Node, Handled(m, s, "PREP", e)'
          PROVE  prepPStore'[m][Slot(e)][s] = e
      <3>1. Handled(m, s, "PREP", e)
        BY <1>13, <2>3
      <3>2. prepPStore[m][Slot(e)][s] = e /\ s # m
        BY <2>1, <3>1, NothingOfOwn DEF Kept, FourInv, OpenKept
      <3> QED BY <1>16, <2>1, <3>2
    <2>4. ASSUME NEW s \in Node, Handled(m, s, "COMMIT", e)'
          PROVE  commStore'[m][Slot(e)][s] = e
      <3>1. Handled(m, s, "COMMIT", e)
        BY <1>13, <2>4
      <3>2. commStore[m][Slot(e)][s] = e /\ s # m
        BY <2>1, <3>1, NothingOfOwn DEF Kept, FourInv, OpenKept
      <3> QED BY <1>17, <2>1, <3>2
    <2> QED BY <2>2, <2>3, <2>4
  <1>28. NothingMissed'
    <2> SUFFICES ASSUME NEW q \in Node \ aborted, NEW e \in Batch,
                        q \in Replica \/ preStore'[q][Slot(e)] = e
                 PROVE  /\ preStore'[q][Slot(e)] = e /\ txn'[q][e].prep_rsp_cnt <= 0
                              => txn'[q][e].prepared
                        /\ txn'[q][e].prepared /\ txn'[q][e].commit_rsp_cnt <= 0
                              => txn'[q][e].committed_local
      BY <1>6 DEF NothingMissed, Replica, Slot, Slots
    <2>1. CASE q = n /\ e = b
      <3>1. txn[n][b].prep_rsp_cnt <= 0 => p
        <4> SUFFICES ASSUME txn[n][b].prep_rsp_cnt <= 0
                     PROVE  EnoughPreps(Preps(n, n, b), b)
          BY <1>8
        <4>1. PICK s \in Replica \ {n} : Handled(n, s, "PREP", b)
          BY <1>1, ReplicaPrepsHeard, PrepsHeard
        <4>2. s \in Node /\ prepPStore[n][Slot(b)][s] = b
          BY <1>1, <1>3, <4>1 DEF Kept, FourInv, OpenKept, Open, Replica
        <4>3. prepPStore[n][Slot(b)] \in [Node -> Cell]
          <5>1. prepPStore \in [Node -> [0 .. Slots - 1 -> [Node -> Cell]]]
            BY DEF Kept, TypeOK
          <5> QED BY <5>1, SlotType
        <4>4. Preps(n, n, b)[n] = b /\ Preps(n, n, b)[s] = b
          BY <4>2, <4>3 DEF Preps
        <4> QED BY <4>1, <4>2, <4>4, TwoPreps
      <3> QED BY <1>4, <1>14, <2>1, <3>1
    <2>2. CASE ~(q = n /\ e = b)
      <3>1. preStore'[q][Slot(e)] = e => preStore[q][Slot(e)] = e
        BY <1>15, <2>2, SlotType
      <3> QED BY <1>14, <2>2, <3>1 DEF Kept, FourInv, NothingMissed
    <2> QED BY <2>1, <2>2
  <1> QED
    BY <1>11, <1>18, <1>19, <1>20, <1>21, <1>22, <1>23, <1>24, <1>25, <1>27, <1>28
    DEF FourInv

\* Two replicas that are not n, one of them known from a counter at 1.
LEMMA OtherPrep ==
  ASSUME FourNodes, Kept, NEW n \in Node, NEW s \in Node, NEW b \in Batch,
         Takes(n, s, "PREP", b), txn[n][b].prep_rsp_cnt <= 1
  PROVE  \E r \in Replica \ {n} :
            /\ r # s /\ Handled(n, r, "PREP", b)
            /\ n \in Replica => Replica \ {n} = {r, s}
  <1>1. s # n /\ n \in Node \ aborted /\ ~Handled(n, s, "PREP", b)
    BY TakenInPlace DEF Kept, IInv, FourInv
  <1>2. s \in Replica
    BY TakenWasSent DEF Kept, IInv, PrepsBacked
  <1>3. PICK r \in Replica \ {n} : Handled(n, r, "PREP", b)
    BY <1>1, PrepsHeard
  <1>4. r # s
    BY <1>1, <1>3
  <1>5. ASSUME n \in Replica PROVE Replica \ {n} = {r, s}
    <2>1. {r, s} \in SUBSET Node /\ r \in {r, s} /\ s \in {r, s}
      BY DEF Replica
    <2>2. Cardinality({r, s}) >= 2
      BY <1>4, <2>1, TwoAreTwo
    <2>3. {r, s} \in SUBSET (Replica \ {n})
      BY <1>1, <1>2
    <2> QED BY <1>5, <2>2, <2>3, OtherReplicas
  <1> QED BY <1>3, <1>4, <1>5

\* process_pbft_prep_msg: the COMMIT it may send is in its place, and it is sent
\* before the COMMITs of the others can all be there.
LEMMA PrepFour ==
  ASSUME FourNodes, Kept, NEW n \in Node, NEW s \in Node, NEW b \in Batch, Prep(n, s, b)
  PROVE  FourInv'
  <1>1. /\ Takes(n, s, "PREP", b) /\ s # n /\ n \in Node \ aborted
        /\ Primary \in Node
    BY PrimaryAssumption DEF Prep, Takes
  <1>2. /\ b \in accepted
        /\ ~Handled(n, s, "PREP", b) /\ ~Handled(n, s, "COMMIT", b)
        /\ \A c \in Batch : c < b => Handled(n, s, "PREP", c)
    BY <1>1, TakenInPlace DEF Kept, IInv, FourInv
  <1>3. CASE n = Primary /\ Abort(n)
    BY <1>1, <1>3, AbortFour
  <1> DEFINE p == PreparedByPrep(n, s, b)
  <1>4. CASE /\ prepPStore' = [prepPStore EXCEPT ![n][Slot(b)] = Preps(n, s, b)]
             /\ txn' = [txn EXCEPT ![n][b] = PrepCounted(txn[n][b], p)]
             /\ IF p
                THEN /\ commStore' = [commStore EXCEPT ![n][Slot(b)] = Comms(n, n, b)]
                     /\ Broadcasts(n, <<Msg("COMMIT", b)>>)
                ELSE UNCHANGED <<commStore, log>>
             /\ UNCHANGED <<preStore, execVars, primaryVars, aborted>>
    <2>1. /\ prepPStore' = [prepPStore EXCEPT ![n][Slot(b)] = Preps(n, s, b)]
          /\ txn' = [txn EXCEPT ![n][b] = PrepCounted(txn[n][b], p)]
          /\ p => /\ commStore' = [commStore EXCEPT ![n][Slot(b)] = Comms(n, n, b)]
                  /\ Broadcasts(n, <<Msg("COMMIT", b)>>)
          /\ ~p => UNCHANGED <<commStore, log>>
          /\ UNCHANGED <<preStore, execQueue, g_next_index, accepted,
                         expectedBatchCount, aborted>>
      BY <1>4 DEF execVars, primaryVars
    <2>2. ~(txn[n][b].commit_rsp_cnt <= 0)
      BY <1>1, <1>2, CommitsHeard
    <2>3. /\ p \in BOOLEAN
          /\ p <=> /\ txn[n][b].prep_rsp_cnt = 1 /\ ~txn[n][b].prepared
                   /\ preStore[n][Slot(b)] = b /\ EnoughPreps(Preps(n, s, b), b)
      BY DEF PreparedByPrep, LastPrep
    <2> HIDE DEF p
    <2>4. p => MaySay(n, "COMMIT", b)
      <3> SUFFICES ASSUME p, NEW c \in Batch, c < b PROVE Sent(n, "COMMIT", c)
        BY <1>2, <2>3 DEF MaySay, Kept, IInv, CommitsBacked, FourInv, WindowVoted
      <3>1. PICK r \in Replica \ {n} :
               /\ r # s /\ Handled(n, r, "PREP", b)
               /\ n \in Replica => Replica \ {n} = {r, s}
        <4>1. txn[n][b].prep_rsp_cnt <= 1
          BY <2>3
        <4> QED BY <1>1, <4>1, OtherPrep
      <3>2. r \in Node /\ Handled(n, s, "PREP", c) /\ Handled(n, r, "PREP", c)
        BY <1>2, <3>1, HandledEarlier DEF Replica, Kept, IInv, FourInv
      <3>3. CASE n \in Replica
        <4>1. Handled(n, Primary, "BATCH_REQ", b)
          BY <2>3, <3>3 DEF Kept, IInv, ReplicaGotBatch
        <4>2. Handled(n, Primary, "BATCH_REQ", c)
          BY <1>1, <4>1, HandledEarlier DEF Kept, IInv, FourInv
        <4> QED BY <3>1, <3>2, <3>3, <4>2, ReplicaVoted
      <3>4. CASE n \notin Replica
        <4>1. n = Primary
          BY <3>4 DEF Replica
        <4> QED BY <1>1, <3>1, <3>2, <4>1, PrimaryVoted
      <3> QED BY <3>3, <3>4
    <2>5. LogsInPlace'
      <3>1. CASE p
        BY <2>1, <2>4, <3>1, SaidOne DEF Kept, FourInv
      <3>2. CASE ~p
        BY <2>1, <3>2 DEF Kept, FourInv, LogsInPlace, InPlace, Before, Msg
      <3> QED BY <3>1, <3>2
    <2>6. /\ LogsGrow
          /\ \A r \in Node : \A t, c :
                Sent(r, t, c)' <=>
                   Sent(r, t, c) \/ (p /\ r = n /\ t = "COMMIT" /\ c = b)
      <3>1. CASE p
        <4>1. TypeOK /\ Broadcasts(n, <<Msg("COMMIT", b)>>)
          BY <2>1, <3>1 DEF Kept
        <4>2. /\ LogsGrow
              /\ \A r \in Node : \A t, c :
                    Sent(r, t, c)' <=> Sent(r, t, c) \/ (r = n /\ t = "COMMIT" /\ c = b)
          BY <4>1, SendsOne
        <4> QED BY <3>1, <4>2
      <3>2. CASE ~p
        BY <2>1, <3>2, LogType DEF LogsGrow, Sent, Msg, Kept
      <3> QED BY <3>1, <3>2
    <2>7. \A q, r \in Node : \A t, c :
             Handled(q, r, t, c)' <=>
                \/ Handled(q, r, t, c)
                \/ q = n /\ r = s /\ t = "PREP" /\ c = b
      BY <1>1, <2>6, HandledAfter, SameMsg DEF Kept, IInv
    <2>8. \A q \in Node, c \in Batch :
             /\ txn'[q][c].prep_rsp_cnt = IF q = n /\ c = b
                   THEN txn[n][b].prep_rsp_cnt - 1 ELSE txn[q][c].prep_rsp_cnt
             /\ txn'[q][c].commit_rsp_cnt = txn[q][c].commit_rsp_cnt
             /\ txn'[q][c].committed_local <=> txn[q][c].committed_local
             /\ txn'[q][c].prepared <=> txn[q][c].prepared \/ (p /\ q = n /\ c = b)
      <3> DEFINE t == PrepCounted(txn[n][b], p)
      <3>1. txn[n][b] \in TxnManager
        BY DEF Kept, TypeOK
      <3>2. /\ t \in TxnManager
            /\ t.prep_rsp_cnt = txn[n][b].prep_rsp_cnt - 1
            /\ t.commit_rsp_cnt = txn[n][b].commit_rsp_cnt
            /\ t.committed_local <=> txn[n][b].committed_local
            /\ t.prepared <=> txn[n][b].prepared \/ p
        BY <2>3, <3>1, UpdatedTxn, UpdatedPrepCount, UpdatedTxnType
      <3>3. txn' = [txn EXCEPT ![n][b] = t]
        BY <2>1
      <3> HIDE DEF t
      <3>4. \A q \in Node, c \in Batch :
               txn'[q][c] = IF q = n /\ c = b THEN t ELSE txn[q][c]
        BY <3>2, <3>3, TxnCell DEF Kept
      <3> QED BY <3>2, <3>4
    <2>9. txn[n][b].prep_rsp_cnt \in Int
      BY DEF Kept, TypeOK, TxnManager
    <2>10. \A q \in Node, i \in 0 .. Slots - 1, r \in Node :
              prepPStore'[q][i][r] = IF q = n /\ i = Slot(b) /\ r = s
                                     THEN b ELSE prepPStore[q][i][r]
      <3>1. StoresPrep(n, s, b)
        BY <2>1 DEF StoresPrep
      <3> QED BY <3>1, PrepCell DEF Kept
    <2>11. \A q \in Node, i \in 0 .. Slots - 1, r \in Node :
              ~(q = n /\ r = n) => commStore'[q][i][r] = commStore[q][i][r]
      <3>1. CASE p
        <4>1. StoresCommit(n, n, b)
          BY <2>1, <3>1 DEF StoresCommit
        <4> QED BY <4>1, CommCell DEF Kept
      <3>2. CASE ~p
        BY <2>1, <3>2
      <3> QED BY <3>1, <3>2
    <2>12. SelfUnread' /\ ReplicasNeverAbort' /\ ExecutedCommitted' /\ QueuesInOrder'
      <3>1. SelfUnread'
        BY <1>1 DEF Kept, TypeOK, FourInv, SelfUnread, Takes
      <3> QED BY <2>1, <2>8, <3>1 DEF Kept, FourInv, ReplicasNeverAbort,
                                      ExecutedCommitted, QueuesInOrder, Replica
    <2>13. OrderedSent' /\ WindowVoted'
      BY <1>1, <2>1, <2>6 DEF Kept, FourInv, OrderedSent, WindowVoted
    <2>14. GotSaid'
      BY <1>1, <2>6, <2>7 DEF Kept, FourInv, GotSaid, Replica
    <2>15. PreparedSaid'
      <3> SUFFICES ASSUME NEW q \in Node, NEW c \in Batch, txn'[q][c].prepared
                   PROVE  txn'[q][c].prep_rsp_cnt <= 0 /\ Sent(q, "COMMIT", c)'
        BY DEF PreparedSaid
      <3>1. CASE txn[q][c].prepared
        <4>1. txn[q][c].prep_rsp_cnt <= 0 /\ Sent(q, "COMMIT", c)
          BY <3>1 DEF Kept, FourInv, PreparedSaid
        <4> QED BY <2>6, <2>8, <2>9, <4>1
      <3>2. CASE ~txn[q][c].prepared
        BY <2>3, <2>6, <2>8, <3>2
      <3> QED BY <3>1, <3>2
    <2>16. CountersExact'
      <3> SUFFICES ASSUME NEW q \in Node \ aborted, NEW c \in Batch
                   PROVE  /\ txn'[q][c].prep_rsp_cnt + Cardinality(PrepsHandled(q, c)')
                                = 2 * F
                          /\ txn'[q][c].commit_rsp_cnt
                                + Cardinality(CommitsHandled(q, c)') = 2 * F + 1
        BY <2>1 DEF CountersExact, F
      <3>1. /\ txn[q][c].prep_rsp_cnt + Cardinality(PrepsHandled(q, c)) = 2 * F
            /\ txn[q][c].commit_rsp_cnt + Cardinality(CommitsHandled(q, c)) = 2 * F + 1
        BY DEF Kept, FourInv, CountersExact
      <3>2. CommitsHandled(q, c)' = CommitsHandled(q, c)
        BY <2>7 DEF CommitsHandled
      <3>3. CASE q = n /\ c = b
        <4>1. PrepsHandled(q, c)' = PrepsHandled(q, c) \cup {s}
          BY <2>7, <3>3 DEF PrepsHandled
        <4>2. s \notin PrepsHandled(q, c)
          BY <1>2, <3>3 DEF PrepsHandled
        <4>3. IsFiniteSet(PrepsHandled(q, c)) /\ Cardinality(PrepsHandled(q, c)) \in Nat
          BY PrepsAreReplicas
        <4>4. Cardinality(PrepsHandled(q, c)') = Cardinality(PrepsHandled(q, c)) + 1
          BY <4>1, <4>2, <4>3, FS_AddElement
        <4> QED BY <2>8, <2>9, <3>1, <3>2, <3>3, <4>3, <4>4, FourNumbers
      <3>4. CASE ~(q = n /\ c = b)
        <4>1. PrepsHandled(q, c)' = PrepsHandled(q, c)
          BY <2>7, <3>4 DEF PrepsHandled
        <4> QED BY <2>8, <3>1, <3>2, <3>4, <4>1
      <3> QED BY <3>3, <3>4
    <2>17. SlotsMatch' /\ PrimarySlots'
      BY <2>1 DEF Kept, FourInv, SlotsMatch, PrimarySlots, Slot, Slots
    <2>18. OwnPreps'
      BY <1>1, <2>1, <2>10 DEF Kept, FourInv, OwnPreps, Replica, Slots
    <2>19. \A m \in Node, e \in Batch : Open(m, e)' => Open(m, e)
      BY <2>1, <2>8 DEF Open, Slot, Slots
    <2>20. OpenKept'
      <3> SUFFICES ASSUME NEW m \in Node \ aborted, NEW e \in Batch, Open(m, e)'
                   PROVE  /\ m # Primary /\ Handled(m, Primary, "BATCH_REQ", e)'
                                => preStore[m][Slot(e)] = e
                          /\ \A r \in Node :
                                /\ Handled(m, r, "PREP", e)'
                                      => prepPStore'[m][Slot(e)][r] = e
                                /\ Handled(m, r, "COMMIT", e)'
                                      => commStore'[m][Slot(e)][r] = e
        BY <2>1, PrimaryAssumption DEF OpenKept, Slot, Slots
      <3>1. Open(m, e) /\ Slot(e) \in 0 .. Slots - 1
        BY <2>19, SlotType
      <3>2. m # Primary /\ Handled(m, Primary, "BATCH_REQ", e)' => preStore[m][Slot(e)] = e
        BY <1>1, <2>7, <3>1 DEF Kept, FourInv, OpenKept
      <3>3. ASSUME NEW r \in Node, Handled(m, r, "PREP", e)'
            PROVE  prepPStore'[m][Slot(e)][r] = e
        <4>1. CASE m = n /\ r = s /\ e = b
          BY <2>10, <3>1, <4>1
        <4>2. CASE ~(m = n /\ r = s /\ e = b)
          <5>1. Handled(m, r, "PREP", e)
            BY <2>7, <3>3, <4>2
          <5>2. prepPStore[m][Slot(e)][r] = e
            BY <3>1, <5>1 DEF Kept, FourInv, OpenKept
          <5>3. ~(m = n /\ r = s /\ Slot(e) = Slot(b))
            BY <1>1, <3>1, <4>2, <5>1, TakenIsOpen
          <5> QED BY <2>10, <3>1, <5>2, <5>3
        <4> QED BY <4>1, <4>2
      <3>4. ASSUME NEW r \in Node, Handled(m, r, "COMMIT", e)'
            PROVE  commStore'[m][Slot(e)][r] = e
        <4>1. Handled(m, r, "COMMIT", e)
          BY <2>7, <3>4
        <4>2. commStore[m][Slot(e)][r] = e /\ r # m
          BY <3>1, <4>1, NothingOfOwn DEF Kept, FourInv, OpenKept
        <4> QED BY <2>11, <3>1, <4>2
      <3> QED BY <3>2, <3>3, <3>4
    <2>21. NothingMissed'
      <3> SUFFICES ASSUME NEW q \in Node \ aborted, NEW e \in Batch,
                          q \in Replica \/ preStore[q][Slot(e)] = e
                   PROVE  /\ preStore[q][Slot(e)] = e /\ txn'[q][e].prep_rsp_cnt <= 0
                                => txn'[q][e].prepared
                          /\ txn'[q][e].prepared /\ txn'[q][e].commit_rsp_cnt <= 0
                                => txn'[q][e].committed_local
        BY <2>1 DEF NothingMissed, Replica, Slot, Slots
      <3>1. CASE q = n /\ e = b
        <4> SUFFICES ASSUME preStore[n][Slot(b)] = b, txn'[n][b].prep_rsp_cnt <= 0,
                            ~txn[n][b].prepared
                     PROVE  EnoughPreps(Preps(n, s, b), b) /\ txn[n][b].prep_rsp_cnt = 1
          BY <2>2, <2>3, <2>8, <3>1
        <4>1. ~(txn[n][b].prep_rsp_cnt <= 0)
          BY <3>1 DEF Kept, FourInv, NothingMissed
        <4>2. txn[n][b].prep_rsp_cnt = 1
          BY <2>8, <2>9, <4>1
        <4>3. PICK r \in Replica \ {n} : r # s /\ Handled(n, r, "PREP", b)
          BY <1>1, <2>9, <4>2, OtherPrep
        <4>4. \E x \in Node \ {s} : prepPStore[n][Slot(b)][x] = b
          <5>1. CASE n \in Replica
            <6>1. prepPStore[n][Slot(b)][n] = b
              BY <5>1, SlotType DEF Kept, FourInv, OwnPreps
            <6> QED BY <1>1, <6>1
          <5>2. CASE n \notin Replica
            <6>1. Open(n, b)
              BY <5>2 DEF Open, Replica
            <6>2. r \in Node /\ prepPStore[n][Slot(b)][r] = b
              BY <1>1, <4>3, <6>1 DEF Kept, FourInv, OpenKept, Replica
            <6> QED BY <4>3, <6>2
          <5> QED BY <5>1, <5>2
        <4>5. PICK x \in Node \ {s} : prepPStore[n][Slot(b)][x] = b
          BY <4>4
        <4>6. prepPStore[n][Slot(b)] \in [Node -> Cell]
          <5>1. prepPStore \in [Node -> [0 .. Slots - 1 -> [Node -> Cell]]]
            BY DEF Kept, TypeOK
          <5> QED BY <5>1, SlotType
        <4>7. Preps(n, s, b)[s] = b /\ Preps(n, s, b)[x] = b
          BY <4>5, <4>6 DEF Preps
        <4> QED BY <4>2, <4>5, <4>7, TwoPreps
      <3>2. CASE ~(q = n /\ e = b)
        BY <2>8, <3>2 DEF Kept, FourInv, NothingMissed
      <3> QED BY <3>1, <3>2
    <2> QED
      BY <2>5, <2>12, <2>13, <2>14, <2>15, <2>16, <2>17, <2>18, <2>20, <2>21 DEF FourInv
  <1> QED BY <1>3, <1>4 DEF Prep

\* The COMMITs of all others in a slot are enough.
LEMMA ThreeCommits ==
  ASSUME FourNodes, NEW comms, NEW b, NEW n \in Node, \A r \in Node \ {n} : comms[r] = b
  PROVE  EnoughCommits(comms, b)
  <1> DEFINE S == {s \in Node : comms[s] = b}
  <1>1. S \in SUBSET Node /\ Node \ {n} \subseteq S
    OBVIOUS
  <1>2. Cardinality(S) >= 3
    <2> HIDE DEF S
    <2> QED BY <1>1, OthersAreThree
  <1>3. 2 * F + 1 = 3
    BY FourNumbers
  <1> QED BY <1>2, <1>3 DEF EnoughCommits

\* When the counter of COMMITs stands at 1, the last one comes.
LEMMA LastCommit ==
  ASSUME FourNodes, Kept, NEW n \in Node, NEW s \in Node, NEW b \in Batch,
         Takes(n, s, "COMMIT", b), txn[n][b].commit_rsp_cnt <= 1
  PROVE  \A r \in Node \ {n, s} : Handled(n, r, "COMMIT", b)
  <1> DEFINE H == CommitsHandled(n, b)
  <1>1. s # n /\ n \in Node \ aborted /\ s \notin H
    BY TakenInPlace DEF Kept, IInv, FourInv, CommitsHandled
  <1>2. H \in SUBSET (Node \ {n}) /\ H \in SUBSET Node
    BY NothingOfOwn DEF Kept, FourInv, CommitsHandled
  <1>3. txn[n][b].commit_rsp_cnt + Cardinality(H) = 2 * F + 1
    BY <1>1 DEF Kept, FourInv, CountersExact
  <1>4. txn[n][b].commit_rsp_cnt \in Int
    BY DEF Kept, TypeOK, TxnManager
  <1> HIDE DEF H
  <1>5. IsFiniteSet(H) /\ Cardinality(H) \in Nat
    BY <1>2, NodeAssumption, FS_Subset, FS_CardinalityType
  <1>6. Cardinality(H) >= 2
    BY <1>3, <1>4, <1>5, FourNumbers
  <1>7. Cardinality(H \cup {s}) = Cardinality(H) + 1
    BY <1>1, <1>5, FS_AddElement
  <1>8. Cardinality(H \cup {s}) >= 3 /\ H \cup {s} \in SUBSET (Node \ {n})
    BY <1>1, <1>2, <1>5, <1>6, <1>7
  <1>9. H \cup {s} = Node \ {n}
    BY <1>8, AllOthers
  <1> QED BY <1>9 DEF H, CommitsHandled

\* A replica that commits a batch has committed those before it.
LEMMA CommitsInOrder ==
  ASSUME FourNodes, Kept, NEW n \in Replica, NEW s \in Node, NEW b \in Batch,
         Takes(n, s, "COMMIT", b), txn[n][b].commit_rsp_cnt <= 1, txn[n][b].prepared,
         NEW e \in Batch, e < b
  PROVE  txn[n][e].committed_local
  <1>1. n \in Node /\ n \in Node \ aborted
    BY DEF Kept, FourInv, ReplicasNeverAbort, Replica
  <1>2. ASSUME NEW r \in Node \ {n} PROVE Handled(n, r, "COMMIT", e)
    <2>1. CASE r = s
      BY <1>1, <2>1, TakenInPlace DEF Kept, IInv, FourInv
    <2>2. CASE r # s
      <3>1. Handled(n, r, "COMMIT", b)
        BY <1>1, <2>2, LastCommit
      <3> QED BY <1>1, <3>1, HandledEarlier DEF Kept, IInv, FourInv
    <2> QED BY <2>1, <2>2
  <1>3. txn[n][e].commit_rsp_cnt <= 0
    BY <1>1, <1>2, CommitsAllIn
  <1>4. txn[n][e].prepared
    <2>1. Sent(n, "COMMIT", b)
      BY <1>1 DEF Kept, FourInv, PreparedSaid
    <2>2. Sent(n, "COMMIT", e)
      BY <1>1, <2>1, SentEarlier DEF Kept, FourInv
    <2> QED BY <1>1, <2>2 DEF Kept, IInv, CommitsBacked
  <1> QED BY <1>1, <1>3, <1>4 DEF Kept, FourInv, NothingMissed

\* So it queues that batch behind them.
LEMMA QueuedNext ==
  ASSUME FourNodes, Kept, NEW n \in Replica, NEW s \in Node, NEW b \in Batch,
         Takes(n, s, "COMMIT", b), txn[n][b].commit_rsp_cnt <= 1, txn[n][b].prepared,
         ~txn[n][b].committed_local
  PROVE  b = g_next_index[n] + Len(execQueue[n])
  <1> DEFINE g == g_next_index[n]
             q == execQueue[n]
  <1>1. n \in Node /\ g \in Nat /\ Len(q) \in Nat /\ b \in Nat /\ MaxBatch \in Nat
    BY BatchAssumption DEF Kept, TypeOK, Replica, Batch
  <1>2. /\ \A k \in 1 .. Len(q) : q[k] = g + k - 1
        /\ \A e \in Batch : txn[n][e].committed_local => e < g + Len(q)
    BY DEF Kept, FourInv, QueuesInOrder
  <1>3. ~(b < g)
    BY <1>1 DEF Kept, FourInv, ExecutedCommitted
  <1>4. ASSUME g <= b, b < g + Len(q) PROVE FALSE
    <2>1. b - g + 1 \in 1 .. Len(q) /\ g + (b - g + 1) - 1 = b
      BY <1>1, <1>4
    <2>2. q[b - g + 1] = b
      BY <1>2, <2>1
    <2>3. txn[n][q[b - g + 1]].committed_local
      BY <1>1, <2>1 DEF Kept, QInv, QueuedCommitted
    <2> QED BY <2>2, <2>3
  <1>5. ASSUME g + Len(q) < b PROVE FALSE
    <2>1. g + Len(q) \in Batch
      BY <1>1, <1>5 DEF Batch
    <2>2. txn[n][g + Len(q)].committed_local
      BY <1>5, <2>1, CommitsInOrder
    <2>3. g + Len(q) < g + Len(q)
      BY <1>2, <2>1, <2>2
    <2> QED BY <1>1, <2>3
  <1> QED BY <1>1, <1>3, <1>4, <1>5

\* process_pbft_commit_msg: a replica commits in the order of the batches, and
\* with the COMMITs of all others the scan finds them.
LEMMA CommitFour ==
  ASSUME FourNodes, Kept, NEW n \in Node, NEW s \in Node, NEW b \in Batch, Commit(n, s, b)
  PROVE  FourInv'
  <1>1. Takes(n, s, "COMMIT", b) /\ s # n /\ n \in Node \ aborted /\ Primary \in Node
    BY PrimaryAssumption DEF Commit, Takes
  <1>2. /\ b \in accepted /\ ~Handled(n, s, "COMMIT", b)
        /\ \A e \in Batch : e < b => Handled(n, s, "COMMIT", e)
    BY <1>1, TakenInPlace DEF Kept, IInv, FourInv
  <1>3. PICK c \in ScanStops(prepPStore[n][Slot(b)], b) : Commit(n, s, b)!2!(c)
    BY DEF Commit
  <1> DEFINE d == CommittedByCommit(n, s, b, c)
  <1>4. /\ d \in BOOLEAN
        /\ d <=> /\ txn[n][b].commit_rsp_cnt = 1 /\ txn[n][b].prepared
                 /\ ~txn[n][b].committed_local /\ EnoughCommits(Comms(n, s, b), c)
    BY DEF CommittedByCommit
  <1>5. n \in Replica /\ txn[n][b].prepared /\ ~txn[n][b].committed_local
           => preStore[n][Slot(b)] = b
    <2> SUFFICES ASSUME n \in Replica, txn[n][b].prepared, ~txn[n][b].committed_local
                 PROVE  preStore[n][Slot(b)] = b
      OBVIOUS
    <2>1. Handled(n, Primary, "BATCH_REQ", b)
      BY DEF Kept, IInv, ReplicaGotBatch
    <2> QED BY <1>1, <2>1 DEF Kept, FourInv, OpenKept, Open, Replica
  <1>6. CASE d /\ preStore[n][Slot(b)] # b /\ Abort(n)
    <2>1. n = Primary
      BY <1>4, <1>5, <1>6 DEF Replica
    <2> QED BY <1>1, <1>6, <2>1, AbortFour
  <1>7. CASE /\ commStore' = [commStore EXCEPT ![n][Slot(b)] = Comms(n, s, b)]
             /\ txn' = [txn EXCEPT ![n][b] = CommitCounted(txn[n][b], d)]
             /\ IF d THEN QueueForExecution(n, b) ELSE UNCHANGED execQueue
             /\ UNCHANGED <<log, preStore, prepPStore, g_next_index, primaryVars, aborted>>
    <2>1. /\ commStore' = [commStore EXCEPT ![n][Slot(b)] = Comms(n, s, b)]
          /\ txn' = [txn EXCEPT ![n][b] = CommitCounted(txn[n][b], d)]
          /\ d => execQueue' = [execQueue EXCEPT ![n] = Append(execQueue[n], b)]
          /\ ~d => UNCHANGED execQueue
          /\ UNCHANGED <<log, preStore, prepPStore, g_next_index, accepted,
                         expectedBatchCount, aborted>>
      BY <1>7 DEF primaryVars, QueueForExecution
    <2> HIDE DEF d
    <2>2. LogsInPlace'
      BY <2>1 DEF Kept, FourInv, LogsInPlace, InPlace, Before, Msg
    <2>3. LogsGrow /\ \A r \in Node : \A t, e : Sent(r, t, e)' <=> Sent(r, t, e)
      BY <2>1, LogType DEF LogsGrow, Sent, Msg, Kept
    <2>4. \A q, r \in Node : \A t, e :
             Handled(q, r, t, e)' <=>
                \/ Handled(q, r, t, e)
                \/ q = n /\ r = s /\ t = "COMMIT" /\ e = b
      BY <1>1, <2>3, HandledAfter, SameMsg DEF Kept, IInv
    <2>5. \A q \in Node, e \in Batch :
             /\ txn'[q][e].prep_rsp_cnt = txn[q][e].prep_rsp_cnt
             /\ txn'[q][e].commit_rsp_cnt = IF q = n /\ e = b
                   THEN txn[n][b].commit_rsp_cnt - 1 ELSE txn[q][e].commit_rsp_cnt
             /\ txn'[q][e].committed_local <=>
                   txn[q][e].committed_local \/ (d /\ q = n /\ e = b)
             /\ txn'[q][e].prepared <=> txn[q][e].prepared
      <3> DEFINE t == CommitCounted(txn[n][b], d)
      <3>1. txn[n][b] \in TxnManager
        BY DEF Kept, TypeOK
      <3>2. /\ t \in TxnManager
            /\ t.prep_rsp_cnt = txn[n][b].prep_rsp_cnt
            /\ t.commit_rsp_cnt = txn[n][b].commit_rsp_cnt - 1
            /\ t.committed_local <=> txn[n][b].committed_local \/ d
            /\ t.prepared <=> txn[n][b].prepared
        BY <1>4, <3>1, UpdatedTxn, UpdatedPrepCount, UpdatedTxnType
      <3>3. txn' = [txn EXCEPT ![n][b] = t]
        BY <2>1
      <3> HIDE DEF t
      <3>4. \A q \in Node, e \in Batch :
               txn'[q][e] = IF q = n /\ e = b THEN t ELSE txn[q][e]
        BY <3>2, <3>3, TxnCell DEF Kept
      <3> QED BY <3>2, <3>4
    <2>6. txn[n][b].commit_rsp_cnt \in Int
      BY DEF Kept, TypeOK, TxnManager
    <2>7. \A q \in Node, i \in 0 .. Slots - 1, r \in Node :
             commStore'[q][i][r] = IF q = n /\ i = Slot(b) /\ r = s
                                   THEN b ELSE commStore[q][i][r]
      <3>1. StoresCommit(n, s, b)
        BY <2>1 DEF StoresCommit
      <3> QED BY <3>1, CommCell DEF Kept
    <2>8. SelfUnread' /\ ReplicasNeverAbort' /\ ExecutedCommitted'
      <3>1. SelfUnread'
        BY <1>1 DEF Kept, TypeOK, FourInv, SelfUnread, Takes
      <3> QED BY <2>1, <2>5, <3>1 DEF Kept, FourInv, ReplicasNeverAbort,
                                      ExecutedCommitted
    <2>9. OrderedSent' /\ WindowVoted' /\ GotSaid' /\ PreparedSaid'
      BY <1>1, <2>1, <2>3, <2>4, <2>5
      DEF Kept, FourInv, OrderedSent, WindowVoted, GotSaid, PreparedSaid, Replica
    <2>10. SlotsMatch' /\ PrimarySlots' /\ OwnPreps'
      BY <2>1 DEF Kept, FourInv, SlotsMatch, PrimarySlots, OwnPreps, Slot, Slots, Replica
    <2>11. CountersExact'
      <3> SUFFICES ASSUME NEW q \in Node \ aborted, NEW e \in Batch
                   PROVE  /\ txn'[q][e].prep_rsp_cnt + Cardinality(PrepsHandled(q, e)')
                                = 2 * F
                          /\ txn'[q][e].commit_rsp_cnt
                                + Cardinality(CommitsHandled(q, e)') = 2 * F + 1
        BY <2>1 DEF CountersExact, F
      <3>1. /\ txn[q][e].prep_rsp_cnt + Cardinality(PrepsHandled(q, e)) = 2 * F
            /\ txn[q][e].commit_rsp_cnt + Cardinality(CommitsHandled(q, e)) = 2 * F + 1
        BY DEF Kept, FourInv, CountersExact
      <3>2. PrepsHandled(q, e)' = PrepsHandled(q, e)
        BY <2>4 DEF PrepsHandled
      <3>3. CASE q = n /\ e = b
        <4>1. CommitsHandled(q, e)' = CommitsHandled(q, e) \cup {s}
          BY <2>4, <3>3 DEF CommitsHandled
        <4>2. s \notin CommitsHandled(q, e)
          BY <1>2, <3>3 DEF CommitsHandled
        <4>3. IsFiniteSet(CommitsHandled(q, e)) /\ Cardinality(CommitsHandled(q, e)) \in Nat
          <5>1. CommitsHandled(q, e) \in SUBSET Node
            BY DEF CommitsHandled
          <5> QED BY <5>1, NodeAssumption, FS_Subset, FS_CardinalityType
        <4>4. Cardinality(CommitsHandled(q, e)') = Cardinality(CommitsHandled(q, e)) + 1
          BY <4>1, <4>2, <4>3, FS_AddElement
        <4> QED BY <2>5, <2>6, <3>1, <3>2, <3>3, <4>3, <4>4, FourNumbers
      <3>4. CASE ~(q = n /\ e = b)
        <4>1. CommitsHandled(q, e)' = CommitsHandled(q, e)
          BY <2>4, <3>4 DEF CommitsHandled
        <4> QED BY <2>5, <3>1, <3>2, <3>4, <4>1
      <3> QED BY <3>3, <3>4
    <2>12. OpenKept'
      <3> SUFFICES ASSUME NEW m \in Node \ aborted, NEW e \in Batch, Open(m, e)'
                   PROVE  /\ m # Primary /\ Handled(m, Primary, "BATCH_REQ", e)'
                                => preStore[m][Slot(e)] = e
                          /\ \A r \in Node :
                                /\ Handled(m, r, "PREP", e)'
                                      => prepPStore[m][Slot(e)][r] = e
                                /\ Handled(m, r, "COMMIT", e)'
                                      => commStore'[m][Slot(e)][r] = e
        BY <2>1, PrimaryAssumption DEF OpenKept, Slot, Slots
      <3>1. Open(m, e) /\ Slot(e) \in 0 .. Slots - 1
        BY <2>1, <2>5, SlotType DEF Open, Slot, Slots
      <3>2. /\ m # Primary /\ Handled(m, Primary, "BATCH_REQ", e)'
                  => preStore[m][Slot(e)] = e
            /\ \A r \in Node : Handled(m, r, "PREP", e)' => prepPStore[m][Slot(e)][r] = e
        BY <1>1, <2>4, <3>1 DEF Kept, FourInv, OpenKept
      <3>3. ASSUME NEW r \in Node, Handled(m, r, "COMMIT", e)'
            PROVE  commStore'[m][Slot(e)][r] = e
        <4>1. CASE m = n /\ r = s /\ e = b
          BY <2>7, <3>1, <4>1
        <4>2. CASE ~(m = n /\ r = s /\ e = b)
          <5>1. Handled(m, r, "COMMIT", e)
            BY <2>4, <3>3, <4>2
          <5>2. commStore[m][Slot(e)][r] = e
            BY <3>1, <5>1 DEF Kept, FourInv, OpenKept
          <5>3. ~(m = n /\ r = s /\ Slot(e) = Slot(b))
            BY <1>1, <3>1, <4>2, <5>1, TakenIsOpen
          <5> QED BY <2>7, <3>1, <5>2, <5>3
        <4> QED BY <4>1, <4>2
      <3> QED BY <3>2, <3>3
    <2>13. QueuesInOrder'
      <3> SUFFICES ASSUME NEW m \in Replica
                   PROVE  /\ \A k \in 1 .. Len(execQueue'[m]) :
                                execQueue'[m][k] = g_next_index[m] + k - 1
                          /\ \A e \in Batch : txn'[m][e].committed_local =>
                                e < g_next_index[m] + Len(execQueue'[m])
        BY <2>1 DEF QueuesInOrder, Replica
      <3> DEFINE q == execQueue[m]
      <3>1. /\ m \in Node /\ g_next_index[m] \in Nat
            /\ q \in Seq(Batch) /\ Len(q) \in Nat
            /\ execQueue \in [Node -> Seq(Batch)]
        <4>1. m \in Node
          BY DEF Replica
        <4>2. /\ g_next_index \in [Node -> Nat]
              /\ execQueue \in [Node -> Seq(Batch)]
          BY DEF Kept, TypeOK
        <4>3. q \in Seq(Batch) /\ g_next_index[m] \in Nat
          BY <4>1, <4>2
        <4> HIDE DEF q
        <4> QED BY <4>1, <4>2, <4>3
      <3>2. /\ \A k \in 1 .. Len(q) : q[k] = g_next_index[m] + k - 1
            /\ \A e \in Batch : txn[m][e].committed_local => e < g_next_index[m] + Len(q)
        BY DEF Kept, FourInv, QueuesInOrder
      <3>3. CASE ~(d /\ m = n)
        <4>1. execQueue'[m] = q
          BY <2>1, <3>1, <3>3
        <4>2. \A e \in Batch : txn'[m][e].committed_local <=> txn[m][e].committed_local
          BY <2>5, <3>1, <3>3
        <4> QED BY <3>2, <4>1, <4>2
      <3>4. CASE d /\ m = n
        <4>1. b = g_next_index[m] + Len(q)
          BY <1>1, <1>4, <3>4, QueuedNext
        <4>2. /\ execQueue'[m] = Append(q, b) /\ Len(Append(q, b)) = Len(q) + 1
              /\ \A k \in 1 .. Len(q) : Append(q, b)[k] = q[k]
              /\ Append(q, b)[Len(q) + 1] = b
          <5>1. execQueue'[m] = Append(q, b)
            BY <2>1, <3>1, <3>4
          <5> QED BY <3>1, <5>1, AppendProperties
        <4>3. ASSUME NEW k \in 1 .. Len(q) + 1
              PROVE  Append(q, b)[k] = g_next_index[m] + k - 1
          <5>1. CASE k \in 1 .. Len(q)
            BY <3>2, <4>2, <5>1
          <5>2. CASE k \notin 1 .. Len(q)
            <6>1. k = Len(q) + 1
              BY <3>1, <5>2
            <6> QED BY <3>1, <4>1, <4>2, <6>1
          <5> QED BY <5>1, <5>2
        <4>4. ASSUME NEW e \in Batch, txn'[m][e].committed_local
              PROVE  e < g_next_index[m] + (Len(q) + 1)
          <5>1. e \in Nat /\ (txn[m][e].committed_local \/ e = b)
            BY <2>5, <3>1, <4>4, BatchAssumption DEF Batch
          <5>2. e < g_next_index[m] + Len(q) \/ e = g_next_index[m] + Len(q)
            BY <3>2, <4>1, <5>1
          <5> QED BY <3>1, <5>1, <5>2
        <4> QED BY <4>2, <4>3, <4>4
      <3> QED BY <3>3, <3>4
    <2>14. NothingMissed'
      <3> SUFFICES ASSUME NEW q \in Node \ aborted, NEW e \in Batch,
                          q \in Replica \/ preStore[q][Slot(e)] = e
                   PROVE  /\ preStore[q][Slot(e)] = e /\ txn'[q][e].prep_rsp_cnt <= 0
                                => txn'[q][e].prepared
                          /\ txn'[q][e].prepared /\ txn'[q][e].commit_rsp_cnt <= 0
                                => txn'[q][e].committed_local
        BY <2>1 DEF NothingMissed, Replica, Slot, Slots
      <3>1. preStore[q][Slot(e)] = e /\ txn'[q][e].prep_rsp_cnt <= 0 => txn'[q][e].prepared
        BY <2>5 DEF Kept, FourInv, NothingMissed
      <3>2. CASE q = n /\ e = b
        <4> SUFFICES ASSUME txn[n][b].prepared, txn[n][b].commit_rsp_cnt - 1 <= 0,
                            ~txn[n][b].committed_local
                     PROVE  d
          BY <2>5, <3>1, <3>2
        <4>1. txn[n][b].commit_rsp_cnt = 1
          <5>1. ~(txn[n][b].commit_rsp_cnt <= 0)
            BY <3>2 DEF Kept, FourInv, NothingMissed
          <5> QED BY <2>6, <5>1
        <4>2. preStore[n][Slot(b)] = b /\ Open(n, b)
          BY <1>5, <3>2 DEF Open, Replica
        <4>3. c = b
          <5>1. \E x \in Node : prepPStore[n][Slot(b)][x] = b
            <6>1. CASE n \in Replica
              BY <1>1, <4>2, <6>1, SlotType DEF Kept, FourInv, OwnPreps
            <6>2. CASE n \notin Replica
              <7>1. txn[n][b].prep_rsp_cnt <= 0
                BY DEF Kept, FourInv, PreparedSaid
              <7>2. PICK x \in Replica \ {n} : Handled(n, x, "PREP", b)
                BY <1>1, <7>1, PrepsHeard
              <7> QED BY <1>1, <4>2, <7>2 DEF Kept, FourInv, OpenKept, Replica
            <6> QED BY <6>1, <6>2
          <5> QED BY <1>3, <5>1 DEF ScanStops
        <4>4. ASSUME NEW r \in Node \ {n} PROVE Comms(n, s, b)[r] = b
          <5>1. commStore[n][Slot(b)] \in [Node -> Cell]
            <6>1. commStore \in [Node -> [0 .. Slots - 1 -> [Node -> Cell]]]
              BY DEF Kept, TypeOK
            <6> QED BY <6>1, SlotType
          <5>2. r # s => commStore[n][Slot(b)][r] = b
            <6> SUFFICES ASSUME r # s PROVE commStore[n][Slot(b)][r] = b
              OBVIOUS
            <6>1. Handled(n, r, "COMMIT", b)
              BY <1>1, <4>1, LastCommit
            <6> QED BY <1>1, <4>2, <6>1 DEF Kept, FourInv, OpenKept
          <5> QED BY <5>1, <5>2 DEF Comms
        <4>5. EnoughCommits(Comms(n, s, b), b)
          BY <4>4, ThreeCommits
        <4> QED BY <1>4, <4>1, <4>3, <4>5
      <3>3. CASE ~(q = n /\ e = b)
        BY <2>5, <3>1, <3>3 DEF Kept, FourInv, NothingMissed
      <3> QED BY <3>2, <3>3
    <2> QED
      BY <2>2, <2>8, <2>9, <2>10, <2>11, <2>12, <2>13, <2>14 DEF FourInv
  <1> QED BY <1>3, <1>6, <1>7

-----------------------------------------------------------------------------
(* FourInv is inductive *)

\* In the initial state nothing is sent, stored or counted.
LEMMA InitFourInv == Init => FourInv
  <1> SUFFICES ASSUME Init PROVE FourInv
    OBVIOUS
  <1>1. \A n, s \in Node : \A t, b : ~Sent(s, t, b) /\ ~Handled(n, s, t, b)
    BY DEF Init, Sent, Handled
  <1>2. SelfUnread /\ LogsInPlace /\ WindowVoted /\ ReplicasNeverAbort
    BY DEF Init, SelfUnread, LogsInPlace, WindowVoted, ReplicasNeverAbort
  <1>3. OrderedSent
    BY BatchAssumption DEF Init, FirstExpected, OrderedSent, Batch
  <1>4. GotSaid
    BY <1>1, PrimaryAssumption DEF GotSaid, Replica
  <1>5. \A n \in Node, b \in Batch :
           /\ txn[n][b].prep_rsp_cnt = 2 * F
           /\ txn[n][b].commit_rsp_cnt = 2 * F + 1
           /\ ~txn[n][b].prepared /\ ~txn[n][b].committed_local
    BY DEF Init, InitialTxn
  <1>6. PreparedSaid
    BY <1>5 DEF PreparedSaid
  <1>7. CountersExact
    <2> SUFFICES ASSUME NEW n \in Node, NEW b \in Batch
                 PROVE  /\ txn[n][b].prep_rsp_cnt + Cardinality(PrepsHandled(n, b)) = 2 * F
                        /\ txn[n][b].commit_rsp_cnt + Cardinality(CommitsHandled(n, b))
                              = 2 * F + 1
      BY DEF CountersExact
    <2>1. PrepsHandled(n, b) = {} /\ CommitsHandled(n, b) = {}
      BY <1>1 DEF PrepsHandled, CommitsHandled
    <2> QED BY <1>5, <2>1, FType, FS_EmptySet
  <1>8. \A n, s \in Node, i \in 0 .. Slots - 1 :
           preStore[n][i] = None /\ prepPStore[n][i][s] = None
    BY DEF Init
  <1>9. SlotsMatch /\ PrimarySlots /\ OwnPreps
    BY <1>8 DEF Init, SlotsMatch, PrimarySlots, OwnPreps, Replica
  <1>10. OpenKept
    BY <1>1, PrimaryAssumption DEF OpenKept
  <1>11. ExecutedCommitted
    BY BatchAssumption DEF Init, ExecutedCommitted, Batch
  <1>12. QueuesInOrder
    BY <1>5 DEF Init, QueuesInOrder, Replica
  <1>13. NothingMissed
    <2> SUFFICES ASSUME NEW n \in Node, NEW b \in Batch
                 PROVE  preStore[n][Slot(b)] # b
      BY <1>5 DEF NothingMissed
    <2> QED BY <1>8, SlotType, NoneAssumption
  <1> QED
    BY <1>2, <1>3, <1>4, <1>6, <1>7, <1>9, <1>10, <1>11, <1>12, <1>13 DEF FourInv

\* A step that leaves everything as it is.
LEMMA StutterFour ==
  ASSUME FourInv, UNCHANGED vars PROVE FourInv'
  <1>1. UNCHANGED <<log, rcvd, preStore, prepPStore, commStore, txn, execQueue,
                    g_next_index, accepted, batchQueue, expectedBatchCount, aborted>>
    BY DEF vars, netVars, storeVars, execVars, primaryVars
  <1>0. \A n, s \in Node : \A t, b : Handled(n, s, t, b)' <=> Handled(n, s, t, b)
    BY <1>1 DEF Handled, Msg
  <1>2. SelfUnread' /\ LogsInPlace' /\ ReplicasNeverAbort' /\ ExecutedCommitted'
    BY <1>1 DEF FourInv, SelfUnread, LogsInPlace, ReplicasNeverAbort, ExecutedCommitted,
                InPlace, Before, Msg
  <1>3. WindowVoted' /\ OrderedSent' /\ GotSaid' /\ PreparedSaid'
    BY <1>1 DEF FourInv, WindowVoted, OrderedSent, GotSaid, PreparedSaid, Sent, Handled,
                Msg, Replica
  <1>4. CountersExact'
    <2>1. \A n \in Node, b \in Batch : /\ PrepsHandled(n, b)' = PrepsHandled(n, b)
                                      /\ CommitsHandled(n, b)' = CommitsHandled(n, b)
      BY <1>0 DEF PrepsHandled, CommitsHandled
    <2> QED BY <1>1, <2>1 DEF FourInv, CountersExact, F
  <1>5. SlotsMatch' /\ PrimarySlots' /\ OwnPreps' /\ QueuesInOrder' /\ NothingMissed'
    BY <1>1 DEF FourInv, SlotsMatch, PrimarySlots, OwnPreps, QueuesInOrder, NothingMissed,
                Slot, Slots, Replica
  <1>6. OpenKept'
    BY <1>0, <1>1, PrimaryAssumption DEF FourInv, OpenKept, Open, Slot, Slots
  <1> QED BY <1>2, <1>3, <1>4, <1>5, <1>6 DEF FourInv

\* What the four nodes of the program keep holds at the start.
LEMMA InitKept == Init => Kept
  BY InitTypeOK, InitIInv, InitQInv, InitFourInv DEF Kept

\* Every step of theirs preserves it.
LEMMA NextKept == FourNodes /\ Kept /\ [Next]_vars => Kept'
  <1> SUFFICES ASSUME FourNodes, Kept, [Next]_vars PROVE Kept'
    OBVIOUS
  <1>1. TypeOK' /\ IInv' /\ QInv'
    BY NextTypeOK, NextIInv, NextQInv DEF Kept
  <1>2. FourInv'
    <2>1. CASE UNCHANGED vars
      BY <2>1, StutterFour DEF Kept
    <2> QED
      BY <2>1, ClientBatchFour, OrderBatchFour, ReplicaBatchFour, PrepFour, CommitFour,
         ExecuteBatchFour DEF Next, Finished
  <1> QED BY <1>1, <1>2 DEF Kept

\* All that is proved of four nodes rests on this.
LEMMA AlwaysKept == ASSUME FourNodes PROVE Spec => []Kept
  BY InitKept, NextKept, PTL DEF Spec

-----------------------------------------------------------------------------
(* The properties of Pbft that hold of four nodes *)

\* FourInv holds throughout, whatever the window and the number of batches.
THEOREM FourNodesKeepTogether == ASSUME FourNodes PROVE Spec => []FourInv
  <1>1. Kept => FourInv
    BY DEF Kept
  <1> QED BY <1>1, AlwaysKept, PTL

\* No quorum of PREPs or of COMMITs goes unnoticed by prepared() and
\* committed_local().
THEOREM QuorumsNoticed == ASSUME FourNodes PROVE Spec => []NothingMissed
  <1>1. Kept => NothingMissed
    BY DEF Kept, FourInv
  <1> QED BY <1>1, AlwaysKept, PTL

\* No assertion fails on a replica.
THEOREM ReplicasRun == ASSUME FourNodes PROVE Spec => []ReplicasNeverAbort
  <1>1. Kept => ReplicasNeverAbort
    BY DEF Kept, FourInv
  <1> QED BY <1>1, AlwaysKept, PTL

\* A node that has committed a batch heard the COMMITs of all others, and what a
\* node says of a batch it says before its COMMIT.
LEMMA KeptNoStragglers == FourNodes /\ Kept => NoStragglers
  <1> SUFFICES ASSUME FourNodes, Kept, NEW n \in Node, NEW s \in Node \ {n},
                      NEW k \in rcvd[n][s] + 1 .. Len(log[s]),
                      txn[n][log[s][k].batch].committed_local
               PROVE  FALSE
    BY DEF NoStragglers
  <1> DEFINE b == log[s][k].batch
  <1>1. rcvd[n][s] \in Nat /\ Len(log[s]) \in Nat
    BY LogType DEF Kept, TypeOK
  <1>2. k \in 1 .. Len(log[s])
    BY <1>1
  <1>3. b \in Batch
    BY <1>2, LogType DEF Kept, Message
  <1>4. PICK j \in 1 .. rcvd[n][s] : log[s][j] = Msg("COMMIT", b)
    BY <1>3, CommittedHeard DEF Handled
  <1>5. j \in 1 .. k - 1
    BY <1>1, <1>2
  <1>6. ~Before(log[s], k, "COMMIT", b)
    BY <1>2 DEF Kept, FourInv, LogsInPlace, InPlace
  <1> QED BY <1>4, <1>5, <1>6 DEF Before

\* Once a node has committed a batch, nothing of the batch is on its way to the
\* node: with it goes the transaction manager.  Of more than four nodes
\* NoStragglers says nothing.
THEOREM NothingStraggles == Spec => []NoStragglers
  <1>1. CASE FourNodes
    <2>1. Kept => NoStragglers
      BY <1>1, KeptNoStragglers
    <2> QED BY <1>1, <2>1, AlwaysKept, PTL
  <1>2. CASE ~FourNodes
    <2>1. Cardinality(Node) # 2 * F + 2
      BY <1>2, NodeAssumption, FType DEF FourNodes, F
    <2>2. NoStragglers
      BY <2>1 DEF NoStragglers
    <2> QED BY <2>2, PTL
  <1> QED BY <1>1, <1>2

\* A replica commits the batches in their order.
LEMMA CommittedPrefix ==
  ASSUME FourNodes, Kept, NEW n \in Replica
  PROVE  LET g == g_next_index[n] + Len(execQueue[n])
         IN  /\ g \in Nat
             /\ Committed(n) = {b \in Batch : b < g}
  <1> DEFINE h == g_next_index[n]
             q == execQueue[n]
  <1>1. n \in Node /\ h \in Nat /\ Len(q) \in Nat /\ h + Len(q) \in Nat
    BY DEF Kept, TypeOK, Replica
  <1>2. /\ \A k \in 1 .. Len(q) : q[k] = h + k - 1
        /\ \A b \in Batch : txn[n][b].committed_local => b < h + Len(q)
    BY DEF Kept, FourInv, QueuesInOrder
  <1>3. ASSUME NEW b \in Batch, b < h + Len(q) PROVE txn[n][b].committed_local
    <2>1. CASE b < h
      BY <1>1, <2>1 DEF Kept, FourInv, ExecutedCommitted
    <2>2. CASE ~(b < h)
      <3>1. b - h + 1 \in 1 .. Len(q) /\ h + (b - h + 1) - 1 = b
        BY <1>1, <1>3, <2>2 DEF Batch
      <3>2. q[b - h + 1] = b
        BY <1>2, <3>1
      <3>3. txn[n][q[b - h + 1]].committed_local
        BY <1>1, <3>1 DEF Kept, QInv, QueuedCommitted
      <3> QED BY <3>2, <3>3
    <2> QED BY <2>1, <2>2
  <1> QED BY <1>1, <1>2, <1>3 DEF Committed

\* What others have committed and a replica has not is the next window at most:
\* the COMMIT of the replica is among those they needed.
LEMMA KeptLagBound == FourNodes /\ Kept => LagBound
  <1> SUFFICES ASSUME FourNodes, Kept, NEW n \in Replica PROVE Lag(n) <= Window
    BY DEF LagBound
  <1> DEFINE g == g_next_index[n] + Len(execQueue[n])
             U == (UNION {Committed(s) : s \in Node}) \ Committed(n)
  <1>1. g \in Nat /\ Committed(n) = {b \in Batch : b < g} /\ n \in Node
    BY CommittedPrefix DEF Replica
  <1> HIDE DEF g
  <1>2. Window \in Nat /\ Window > 0 /\ MaxBatch \in Nat
    BY BatchAssumption
  <1>3. ASSUME NEW s \in Node, NEW x \in Committed(s), x \notin Committed(n)
        PROVE  x \in g .. g + Window - 1
    <2>1. x \in Committed(s)
      OBVIOUS
    <2>2. x \in Batch /\ txn[s][x].committed_local /\ x \in Nat
      BY <2>1, BatchAssumption DEF Committed, Batch
    <2>3. ~(x < g) /\ s # n
      BY <1>1, <1>3, <2>2
    <2>4. ~(g + Window <= x)
      <3> SUFFICES ASSUME g + Window <= x PROVE FALSE
        OBVIOUS
      <3>1. g \in Batch
        BY <1>1, <1>2, <2>2 DEF Batch
      <3>2. Handled(s, n, "COMMIT", x)
        BY <1>1, <2>2, <2>3, CommittedHeard
      <3>3. Sent(n, "COMMIT", x)
        BY <1>1, <3>2, HandledWasSent DEF Kept, IInv
      <3>4. txn[n][g].committed_local
        BY <2>2, <3>1, <3>3, WindowCommitted
      <3>5. g \in Committed(n)
        BY <3>1, <3>4 DEF Committed
      <3> QED BY <1>1, <3>5
    <2> QED BY <1>1, <1>2, <2>2, <2>3, <2>4
  <1>4. IsFiniteSet(g .. g + Window - 1) /\ Cardinality(g .. g + Window - 1) = Window
    <2>1. g \in Int /\ g + Window - 1 \in Int
      BY <1>1, <1>2
    <2>2. /\ IsFiniteSet(g .. g + Window - 1)
          /\ Cardinality(g .. g + Window - 1)
                = IF g > g + Window - 1 THEN 0 ELSE (g + Window - 1) - g + 1
      BY <2>1, FS_Interval
    <2> QED BY <1>1, <1>2, <2>2
  <1>5. U \in SUBSET (g .. g + Window - 1)
    <2>1. \A x \in U : /\ x \notin Committed(n)
                      /\ \E S \in {Committed(s) : s \in Node} : x \in S
      BY DEF U
    <2>2. \A x \in U : x \notin Committed(n) /\ \E s \in Node : x \in Committed(s)
      BY <2>1
    <2> HIDE DEF U
    <2> QED BY <1>3, <2>2
  <1>6. Cardinality(U) <= Window
    <2> HIDE DEF U
    <2> QED BY <1>4, <1>5, FS_Subset
  <1> QED BY <1>6 DEF Lag

\* No replica is more than the client's window behind what anybody has committed.
THEOREM ReplicasKeepUp == ASSUME FourNodes PROVE Spec => []LagBound
  <1>1. Kept => LagBound
    BY KeptLagBound
  <1> QED BY <1>1, AlwaysKept, PTL

\* What a replica's slot holds is committed when another batch is stored there.
SlotsFreed ==
    \A n \in Replica, i \in 0 .. Slots - 1 :
        preStore'[n][i] # preStore[n][i] =>
            \/ preStore[n][i] = None
            \/ txn[n][preStore[n][i]].committed_local

\* Only process_batch stores on a replica, and the primary's BATCH_REQ for the
\* slot of a batch that is open cannot come before the batch is closed.
LEMMA NextSlotsFreed == FourNodes /\ Kept /\ [Next]_vars => SlotsFreed
  <1> SUFFICES ASSUME FourNodes, Kept, [Next]_vars, NEW n \in Replica,
                      NEW i \in 0 .. Slots - 1, preStore'[n][i] # preStore[n][i],
                      preStore[n][i] # None, ~txn[n][preStore[n][i]].committed_local
               PROVE  FALSE
    BY DEF SlotsFreed
  <1> DEFINE e == preStore[n][i]
  <1>0. preStore \in [Node -> [0 .. Slots - 1 -> Cell]]
    BY DEF Kept, TypeOK
  <1>1. n \in Node /\ n # Primary /\ e \in Batch /\ Slot(e) = i
    <2>1. n \in Node /\ n # Primary
      BY DEF Replica
    <2>2. e \in Cell /\ e # None
      BY <1>0, <2>1
    <2> QED BY <2>1, <2>2 DEF Kept, FourInv, SlotsMatch, Cell
  <1>3. Open(n, e) /\ Handled(n, Primary, "BATCH_REQ", e)
    BY <1>1 DEF Open, Kept, IInv, ReplicaGotBatch
  <1>4. CASE \E b \in Batch : ClientBatch(b) \/ OrderBatch(b)
    <2>1. PICK c \in Batch : ClientBatch(c) \/ OrderBatch(c)
      BY <1>4
    <2>2. preStore' = [preStore EXCEPT ![Primary][Slot(c)] = c] \/ preStore' = preStore
      BY <2>1 DEF ClientBatch, OrderBatch, storeVars
    <2> QED BY <1>0, <1>1, <2>2, SlotType
  <1>5. CASE \E m \in Node, b \in Batch : ReplicaBatch(m, b)
    <2>1. PICK m \in Node, b \in Batch : ReplicaBatch(m, b)
      BY <1>5
    <2>2. preStore' = [preStore EXCEPT ![m][Slot(b)] = b] \/ preStore' = preStore
      BY <2>1 DEF ReplicaBatch, Abort, storeVars
    <2>3. m = n /\ i = Slot(b) /\ preStore'[n][i] = b
      <3>1. preStore' # preStore
        OBVIOUS
      <3>2. preStore' = [preStore EXCEPT ![m][Slot(b)] = b] /\ Slot(b) \in 0 .. Slots - 1
        BY <2>2, <3>1, SlotType
      <3> HIDE DEF e
      <3> QED BY <1>0, <1>1, <3>2
    <2>4. Takes(n, Primary, "BATCH_REQ", b)
      BY <2>1, <2>3 DEF ReplicaBatch
    <2>5. e = b
      BY <1>1, <1>3, <2>3, <2>4, TakenIsOpen, PrimaryAssumption
    <2> QED BY <2>3, <2>5
  <1>6. CASE \/ UNCHANGED vars
             \/ \E m \in Node : ExecuteBatch(m)
             \/ \E m, s \in Node, b \in Batch : Prep(m, s, b) \/ Commit(m, s, b)
    <2>1. preStore' = preStore
      <3>1. CASE UNCHANGED vars
        BY <3>1 DEF vars, storeVars
      <3>2. CASE \E m \in Node : ExecuteBatch(m)
        BY <3>2 DEF ExecuteBatch, Abort, storeVars
      <3>3. CASE \E m, s \in Node, b \in Batch : Prep(m, s, b)
        BY <3>3 DEF Prep, Abort, storeVars
      <3>4. CASE \E m, s \in Node, b \in Batch : Commit(m, s, b)
        BY <3>4 DEF Commit, Abort, storeVars
      <3> QED BY <1>6, <3>1, <3>2, <3>3, <3>4
    <2> QED BY <2>1
  <1> QED BY <1>4, <1>5, <1>6 DEF Next, Finished

\* Twice the client's window is slots enough, whatever the window.
THEOREM SlotsAreEnough == ASSUME FourNodes PROVE Spec => ReplicaSlotsFree
  <1>1. Kept /\ [Next]_vars => [SlotsFreed]_vars
    BY NextSlotsFreed
  <1> QED BY <1>1, AlwaysKept, PTL DEF Spec, ReplicaSlotsFree, SlotsFreed

=============================================================================
