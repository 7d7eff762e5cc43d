-------------------------- MODULE ViewChangeProofs --------------------------
(* Theorems about Checkpoint, for any number of nodes that its assumption    *)
(* admits and any interval, and about ViewChange, for any window and number  *)
(* of batches and, where they say so, for the four nodes of the build.       *)
EXTENDS ViewChangeInvariant, TLAPS, FiniteSetTheorems, NaturalsInduction

-----------------------------------------------------------------------------
(* The inductive invariant *)

\* The messages of a list about one checkpoint, and who sent them.
About(msgs, c) == {m \in msgs : m.index = c}
Senders(msgs, c) == {s \in Node : [index |-> c, return_node |-> s] \in msgs}

\* A message in the list of n is that of another node, which has executed the
\* checkpoint; n has taken that message, and later ones are about later
\* checkpoints.
ListedIsTaken ==
    \A n \in Node : \A m \in g_pbft_chkpt_msgs[n] :
        /\ m.return_node # n
        /\ m.index > 0
        /\ m.index =< Interval * chkptsTaken[n][m.return_node]
        /\ m.index =< executed[m.return_node]

\* The messages that made a checkpoint stable are still in the list.
StableIsListed ==
    \A n \in Node : g_last_stable_chkpt[n] > 0 =>
        Cardinality(Senders(g_pbft_chkpt_msgs[n], g_last_stable_chkpt[n])) >= 2 * F

\* What is listed about earlier checkpoints came after the list was cut, from
\* nodes that had not reached the stable one.
OlderFromOthers ==
    \A n \in Node : \A m \in g_pbft_chkpt_msgs[n] :
        m.index < g_last_stable_chkpt[n] =>
            m.return_node \notin Senders(g_pbft_chkpt_msgs[n], g_last_stable_chkpt[n])

CheckpointInv ==
    /\ CheckpointTypeOK
    /\ ListedIsTaken
    /\ StableIsListed
    /\ OlderFromOthers

-----------------------------------------------------------------------------
\* The numbers of nodes are numbers.
LEMMA NumbersType ==
  /\ F \in Nat /\ F > 0
  /\ Cardinality(Node) \in Nat
  /\ \A S \in SUBSET Node : IsFiniteSet(S) /\ Cardinality(S) \in Nat
  <1>1. Cardinality(Node) \in Nat
    BY NodeAssumption, FS_CardinalityType
  <1>2. \A S \in SUBSET Node : IsFiniteSet(S)
    BY NodeAssumption, FS_Subset
  <1>3. \A S \in SUBSET Node : Cardinality(S) \in Nat
    BY <1>2, FS_CardinalityType
  <1> QED BY <1>1, <1>2, <1>3, NodeAssumption DEF F

\* A node sends one message about a checkpoint.
LEMMA OneEach ==
  ASSUME NEW msgs \in SUBSET CheckpointMessage, NEW c \in Nat
  PROVE  /\ Cardinality(About(msgs, c)) = Cardinality(Senders(msgs, c))
         /\ Cardinality(Senders(msgs, c)) \in Nat
  <1> DEFINE S == Senders(msgs, c)
             T == About(msgs, c)
             f == [s \in S |-> [index |-> c, return_node |-> s]]
  <1>1. IsFiniteSet(S) /\ Cardinality(S) \in Nat
    BY NumbersType DEF Senders
  <1>2. f \in [S -> T]
    BY DEF Senders, About
  <1>3. \A s, t \in S : f[s] = f[t] => s = t
    <2> SUFFICES ASSUME NEW s \in S, NEW t \in S, f[s] = f[t] PROVE s = t
      OBVIOUS
    <2>1. f[s].return_node = s /\ f[t].return_node = t
      OBVIOUS
    <2> QED BY <2>1
  <1>4. \A m \in T : \E s \in S : f[s] = m
    <2> SUFFICES ASSUME NEW m \in T PROVE \E s \in S : f[s] = m
      OBVIOUS
    <2>1. m = [index |-> c, return_node |-> m.return_node] /\ m.return_node \in Node
      BY DEF About, CheckpointMessage
    <2>2. m \in msgs
      BY DEF About
    <2>3. m.return_node \in S
      BY <2>1, <2>2 DEF Senders
    <2> QED BY <2>1, <2>3
  <1>5. f \in Bijection(S, T)
    BY <1>2, <1>3, <1>4 DEF Bijection, Injection, Surjection, IsInjective
  <1>6. ExistsBijection(S, T)
    BY <1>5 DEF ExistsBijection
  <1> QED BY <1>1, <1>6, FS_Bijection

\* Two quorums of others have a node in common.
LEMMA QuorumsMeet ==
  ASSUME NEW n \in Node, NEW A \in SUBSET (Node \ {n}), NEW B \in SUBSET (Node \ {n}),
         Cardinality(A) >= 2 * F, Cardinality(B) >= 2 * F
  PROVE  A \cap B # {}
  <1>1. /\ IsFiniteSet(Node \ {n})
        /\ Cardinality(Node \ {n}) = Cardinality(Node) - 1
    BY NodeAssumption, FS_RemoveElement
  <1>2. Cardinality(A) \in Nat /\ Cardinality(B) \in Nat
    BY NumbersType
  <1>3. Cardinality(A) + Cardinality(B) > Cardinality(Node \ {n})
    BY <1>1, <1>2, NumbersType, CheckpointAssumption
  <1> QED BY <1>1, <1>3, FS_MajoritiesIntersect

\* A message about a checkpoint is later than what its sender has sent.
LEMMA NextIsLater ==
  ASSUME CheckpointTypeOK, NEW n \in Node, NEW s \in Node
  PROVE  /\ NextCheckpoint(n, s) \in Nat /\ NextCheckpoint(n, s) > 0
         /\ Interval * chkptsTaken[n][s] \in Nat
         /\ Interval * chkptsTaken[n][s] < NextCheckpoint(n, s)
  <1>1. chkptsTaken[n][s] \in Nat /\ Interval \in Nat /\ Interval > 0
    BY CheckpointAssumption DEF CheckpointTypeOK
  <1> DEFINE t == chkptsTaken[n][s]
  <1> HIDE DEF t
  <1>2. t \in Nat
    BY <1>1 DEF t
  <1>3. /\ Interval * t \in Nat
        /\ Interval * (t + 1) = Interval * t + Interval
    BY <1>1, <1>2
  <1> QED BY <1>1, <1>3 DEF NextCheckpoint, t

\* The list that n has when it handles a message of s: one more entry.
LEMMA ListGrows ==
  ASSUME CheckpointInv, NEW n \in Node, NEW s \in Node, s # n,
         executed[s] >= NextCheckpoint(n, s)
  PROVE  LET c == NextCheckpoint(n, s)
             msgs == g_pbft_chkpt_msgs[n] \cup {[index |-> c, return_node |-> s]}
         IN /\ msgs \in SUBSET CheckpointMessage
            /\ \A d \in Nat : Senders(msgs, d) \in SUBSET (Node \ {n})
            /\ \A d \in Nat \ {c} : Senders(msgs, d) = Senders(g_pbft_chkpt_msgs[n], d)
            /\ Senders(msgs, c) = Senders(g_pbft_chkpt_msgs[n], c) \cup {s}
            /\ \A d \in Nat : d >= c => s \notin Senders(g_pbft_chkpt_msgs[n], d)
  <1> DEFINE c == NextCheckpoint(n, s)
             old == g_pbft_chkpt_msgs[n]
             msgs == old \cup {[index |-> c, return_node |-> s]}
  <1>1. /\ c \in Nat /\ Interval * chkptsTaken[n][s] < c
        /\ Interval * chkptsTaken[n][s] \in Nat
    BY NextIsLater DEF CheckpointInv
  <1>2. old \in SUBSET CheckpointMessage /\ \A m \in old : m.return_node # n
    BY DEF CheckpointInv, CheckpointTypeOK, ListedIsTaken
  <1> HIDE DEF c
  <1>3. msgs \in SUBSET CheckpointMessage
    BY <1>1, <1>2 DEF CheckpointMessage
  <1>4. \A d \in Nat : Senders(msgs, d) \in SUBSET (Node \ {n})
    <2> SUFFICES ASSUME NEW d \in Nat, NEW r \in Node,
                        [index |-> d, return_node |-> r] \in msgs
                 PROVE  r # n
      BY DEF Senders
    <2> DEFINE m == [index |-> d, return_node |-> r]
    <2>1. m.return_node = r
      OBVIOUS
    <2>2. CASE m \in old
      BY <1>2, <2>1, <2>2
    <2>3. CASE m = [index |-> c, return_node |-> s]
      BY <2>1, <2>3
    <2> QED BY <2>2, <2>3
  <1>5. \A d \in Nat \ {c} : Senders(msgs, d) = Senders(old, d)
    BY DEF Senders
  <1>6. Senders(msgs, c) = Senders(old, c) \cup {s}
    BY DEF Senders
  <1>7. ASSUME NEW d \in Nat, d >= c, s \in Senders(old, d) PROVE FALSE
    <2> DEFINE m == [index |-> d, return_node |-> s]
    <2>1. m \in old /\ m.index = d /\ m.return_node = s
      BY <1>7 DEF Senders
    <2>2. d =< Interval * chkptsTaken[n][s]
      BY <2>1 DEF CheckpointInv, ListedIsTaken
    <2> QED BY <2>2, <1>1, <1>7
  <1> QED BY <1>3, <1>4, <1>5, <1>6, <1>7 DEF c

\* A checkpoint that becomes stable is no older than the last one.
LEMMA StableAdvances ==
  ASSUME CheckpointInv, NEW n \in Node, NEW s \in Node, s # n,
         executed[s] >= NextCheckpoint(n, s),
         Cardinality(About(g_pbft_chkpt_msgs[n] \cup
             {[index |-> NextCheckpoint(n, s), return_node |-> s]},
             NextCheckpoint(n, s))) >= 2 * F
  PROVE  NextCheckpoint(n, s) >= g_last_stable_chkpt[n]
  <1> DEFINE c == NextCheckpoint(n, s)
             stable == g_last_stable_chkpt[n]
             old == g_pbft_chkpt_msgs[n]
             msgs == old \cup {[index |-> c, return_node |-> s]}
             A == Senders(old, stable)
             B == Senders(msgs, c)
  <1>1. c \in Nat /\ c > 0 /\ stable \in Nat
    BY NextIsLater DEF CheckpointInv, CheckpointTypeOK
  <1> SUFFICES ASSUME c < stable PROVE FALSE
    BY <1>1
  <1>2. /\ msgs \in SUBSET CheckpointMessage
        /\ B \in SUBSET (Node \ {n})
        /\ Senders(msgs, stable) = A
        /\ A \in SUBSET (Node \ {n})
        /\ B = Senders(old, c) \cup {s}
        /\ s \notin A
    <2>1. stable \in Nat \ {c} /\ stable >= c /\ c \in Nat
      BY <1>1
    <2>2. /\ msgs \in SUBSET CheckpointMessage
          /\ \A d \in Nat : Senders(msgs, d) \in SUBSET (Node \ {n})
          /\ \A d \in Nat \ {c} : Senders(msgs, d) = Senders(old, d)
          /\ Senders(msgs, c) = Senders(old, c) \cup {s}
          /\ \A d \in Nat : d >= c => s \notin Senders(old, d)
      BY ListGrows
    <2> HIDE DEF c, msgs, old, stable
    <2> QED BY <2>1, <2>2
  <1>3. Cardinality(B) >= 2 * F
    BY <1>1, <1>2, OneEach
  <1>4. Cardinality(A) >= 2 * F
    <2>1. stable > 0
      BY <1>1
    <2> QED BY <2>1 DEF CheckpointInv, StableIsListed
  <1>5. PICK r \in Node : r \in A /\ r \in B
    <2>1. A \in SUBSET (Node \ {n}) /\ B \in SUBSET (Node \ {n})
      BY <1>2
    <2> HIDE DEF A, B
    <2>2. A \cap B # {}
      BY <2>1, <1>3, <1>4, QuorumsMeet
    <2> QED BY <2>1, <2>2
  <1>6. r \in Senders(old, c)
    BY <1>2, <1>5
  <1> DEFINE m == [index |-> c, return_node |-> r]
  <1>7. m \in old /\ m.index = c /\ m.return_node = r
    BY <1>6 DEF Senders
  <1>8. r \notin A
    <2> HIDE DEF c
    <2> QED BY <1>7 DEF CheckpointInv, OlderFromOthers
  <1> QED BY <1>5, <1>8

-----------------------------------------------------------------------------
\* A list that has been cut to a checkpoint has all that is about it.
LEMMA KeptSenders ==
  ASSUME NEW msgs \in SUBSET CheckpointMessage, NEW c \in Nat
  PROVE  /\ Kept(msgs, c) \in SUBSET CheckpointMessage
         /\ Senders(Kept(msgs, c), c) = Senders(msgs, c)
         /\ \A m \in Kept(msgs, c) : ~(m.index < c)
  BY DEF Kept, Senders, CheckpointMessage

\* The handler of a CHECKPOINT.
LEMMA HandleCheckpointInv ==
  ASSUME CheckpointInv, NEW n \in Node, NEW s \in Node, HandleCheckpoint(n, s)
  PROVE  CheckpointInv'
  <1> DEFINE c == NextCheckpoint(n, s)
             stable == g_last_stable_chkpt[n]
             old == g_pbft_chkpt_msgs[n]
             new == [index |-> c, return_node |-> s]
             msgs == old \cup {new}
             enough == Cardinality(About(msgs, c)) >= 2 * F
             list2 == IF enough THEN Kept(msgs, c) ELSE msgs
             stable2 == IF enough THEN c ELSE stable
             Quorum == stable2 > 0 => Cardinality(Senders(list2, stable2)) >= 2 * F
             Older == \A m \in list2 :
                         m.index < stable2 => m.return_node \notin Senders(list2, stable2)
  <1>1. /\ s # n /\ executed[s] >= c
        /\ chkptsTaken' = [chkptsTaken EXCEPT ![n][s] = @ + 1]
        /\ g_last_stable_chkpt' = [g_last_stable_chkpt EXCEPT ![n] = stable2]
        /\ g_pbft_chkpt_msgs' = [g_pbft_chkpt_msgs EXCEPT ![n] = list2]
        /\ executed' = executed
    BY DEF HandleCheckpoint, About
  <1>2. /\ c \in Nat /\ c > 0 /\ stable \in Nat /\ c = Interval * (chkptsTaken[n][s] + 1)
        /\ old \in SUBSET CheckpointMessage
    BY NextIsLater DEF CheckpointInv, CheckpointTypeOK, NextCheckpoint
  <1>3. /\ msgs \in SUBSET CheckpointMessage
        /\ \A d \in Nat \ {c} : Senders(msgs, d) = Senders(old, d)
        /\ Senders(msgs, c) = Senders(old, c) \cup {s}
        /\ \A d \in Nat : d >= c => s \notin Senders(old, d)
    BY <1>1, ListGrows
  <1>4. /\ executed \in [Node -> Nat]
        /\ g_last_stable_chkpt \in [Node -> Nat]
        /\ g_pbft_chkpt_msgs \in [Node -> SUBSET CheckpointMessage]
        /\ chkptsTaken \in [Node -> [Node -> Nat]]
    BY DEF CheckpointInv, CheckpointTypeOK
  <1>5. list2 \in SUBSET msgs /\ list2 \in SUBSET CheckpointMessage /\ stable2 \in Nat
    BY <1>2, <1>3 DEF Kept
  <1>6. CheckpointTypeOK'
    <2>1. chkptsTaken' \in [Node -> [Node -> Nat]]
      BY <1>1, <1>4
    <2>2. /\ g_last_stable_chkpt' \in [Node -> Nat]
          /\ g_pbft_chkpt_msgs' \in [Node -> SUBSET CheckpointMessage]
      BY <1>1, <1>4, <1>5
    <2> QED BY <1>1, <1>4, <2>1, <2>2 DEF CheckpointTypeOK
  <1>7. /\ g_pbft_chkpt_msgs'[n] = list2 /\ g_last_stable_chkpt'[n] = stable2
        /\ \A m \in Node \ {n} : /\ g_pbft_chkpt_msgs'[m] = g_pbft_chkpt_msgs[m]
                                 /\ g_last_stable_chkpt'[m] = g_last_stable_chkpt[m]
                                 /\ chkptsTaken'[m] = chkptsTaken[m]
        /\ chkptsTaken'[n][s] = chkptsTaken[n][s] + 1
        /\ \A r \in Node \ {s} : chkptsTaken'[n][r] = chkptsTaken[n][r]
    BY <1>1, <1>4
  <1>8. new.index = c /\ new.return_node = s
    OBVIOUS
  <1>9. \A k \in Node \ {n} :
          /\ \A m \in g_pbft_chkpt_msgs'[k] :
                /\ m.return_node # k
                /\ m.index > 0
                /\ m.index =< Interval * chkptsTaken'[k][m.return_node]
                /\ m.index =< executed'[m.return_node]
                /\ m.index < g_last_stable_chkpt'[k] =>
                      m.return_node \notin Senders(g_pbft_chkpt_msgs'[k], g_last_stable_chkpt'[k])
          /\ g_last_stable_chkpt'[k] > 0 =>
                Cardinality(Senders(g_pbft_chkpt_msgs'[k], g_last_stable_chkpt'[k])) >= 2 * F
    BY <1>1, <1>7 DEF CheckpointInv, ListedIsTaken, StableIsListed, OlderFromOthers
  <1>10. ASSUME NEW m \in list2
         PROVE  /\ m.return_node # n
                /\ m.index > 0
                /\ m.index =< Interval * chkptsTaken'[n][m.return_node]
                /\ m.index =< executed'[m.return_node]
    <2>1. CASE m = new
      BY <1>1, <1>2, <1>4, <1>7, <1>8, <2>1
    <2>2. CASE m \in old
      <3> DEFINE r == m.return_node
                 t == chkptsTaken[n][r]
                 i == m.index
      <3>1. /\ r # n /\ i > 0 /\ i =< Interval * t /\ i =< executed[r]
        BY <2>2 DEF CheckpointInv, ListedIsTaken
      <3>2. r \in Node /\ i \in Nat /\ t \in Nat
        BY <2>2, <1>2, <1>4 DEF CheckpointMessage
      <3>3. chkptsTaken'[n][r] = t \/ chkptsTaken'[n][r] = t + 1
        BY <1>7, <3>2
      <3>4. Interval * t \in Nat /\ Interval * (t + 1) = Interval * t + Interval /\ Interval \in Nat
        <4> HIDE DEF t
        <4> QED BY <3>2, CheckpointAssumption
      <3> HIDE DEF r, i
      <3>5. i =< Interval * chkptsTaken'[n][r]
        BY <3>1, <3>2, <3>3, <3>4
      <3> QED BY <1>1, <3>1, <3>5 DEF r, i
    <2> QED BY <1>5, <2>1, <2>2
  <1> HIDE DEF c, new
  <1>11. ASSUME Quorum, Older PROVE CheckpointInv'
    <2> HIDE DEF list2, stable2
    <2>1. ListedIsTaken'
      <3> SUFFICES ASSUME NEW k \in Node, NEW m \in g_pbft_chkpt_msgs'[k]
                   PROVE  /\ m.return_node # k
                          /\ m.index > 0
                          /\ m.index =< Interval * chkptsTaken'[k][m.return_node]
                          /\ m.index =< executed'[m.return_node]
        BY DEF ListedIsTaken
      <3>1. CASE k = n
        BY <1>7, <1>10, <3>1
      <3>2. CASE k # n
        BY <1>9, <3>2
      <3> QED BY <3>1, <3>2
    <2>2. StableIsListed'
      BY <1>7, <1>9, <1>11 DEF StableIsListed
    <2>3. OlderFromOthers'
      BY <1>7, <1>9, <1>11 DEF OlderFromOthers
    <2> QED BY <1>6, <2>1, <2>2, <2>3 DEF CheckpointInv
  <1>12. ASSUME enough PROVE Quorum /\ Older
    <2>1. list2 = Kept(msgs, c) /\ stable2 = c
      BY <1>12
    <2>2. /\ Senders(list2, c) = Senders(msgs, c)
          /\ \A m \in list2 : ~(m.index < c)
      BY <1>2, <1>3, <2>1, KeptSenders
    <2>3. Cardinality(Senders(list2, stable2)) >= 2 * F
      BY <1>2, <1>3, <1>12, <2>1, <2>2, OneEach
    <2> QED BY <2>1, <2>2, <2>3
  <1>13. ASSUME ~enough PROVE Quorum /\ Older
    <2>1. list2 = msgs /\ stable2 = stable
      BY <1>13
    <2>2. stable > 0 => c # stable
      <3> SUFFICES ASSUME stable > 0, c = stable PROVE FALSE
        OBVIOUS
      <3>1. Senders(old, c) \subseteq Senders(msgs, c)
        BY <1>3
      <3>2. IsFiniteSet(Senders(msgs, c))
        BY NumbersType DEF Senders
      <3>3. Cardinality(Senders(old, c)) =< Cardinality(Senders(msgs, c))
        BY <3>1, <3>2, FS_Subset
      <3>4. Cardinality(Senders(old, c)) >= 2 * F
        BY DEF CheckpointInv, StableIsListed
      <3>5. Cardinality(Senders(old, c)) \in Nat
        BY <1>2, OneEach
      <3>6. /\ Cardinality(Senders(msgs, c)) \in Nat
            /\ Cardinality(About(msgs, c)) = Cardinality(Senders(msgs, c))
        BY <1>2, <1>3, OneEach
      <3> QED BY <1>13, <3>3, <3>4, <3>5, <3>6, NumbersType
    <2>3. stable > 0 => Senders(msgs, stable) = Senders(old, stable)
      BY <1>2, <1>3, <2>2
    <2>4. stable > 0 => Cardinality(Senders(list2, stable2)) >= 2 * F
      BY <2>1, <2>3 DEF CheckpointInv, StableIsListed
    <2>5. ASSUME NEW m \in list2, m.index < stable2
          PROVE  m.return_node \notin Senders(list2, stable2)
      <3>1. stable > 0
        <4>1. m.index \in Nat
          BY <1>5 DEF CheckpointMessage
        <4> QED BY <4>1, <1>2, <2>1, <2>5
      <3>2. CASE m = new
        BY <1>2, <1>3, <1>8, <2>1, <2>3, <2>5, <3>1, <3>2
      <3>3. CASE m \in old
        BY <2>1, <2>3, <2>5, <3>1, <3>3 DEF CheckpointInv, OlderFromOthers
      <3> QED BY <2>1, <3>2, <3>3
    <2> QED BY <2>1, <2>4, <2>5
  <1> HIDE DEF Quorum, Older
  <1> QED BY <1>11, <1>12, <1>13

\* A node that executes has executed what it had.
LEMMA ExecuteInv ==
  ASSUME CheckpointInv, NEW n \in Node, Execute(n)
  PROVE  CheckpointInv'
  <1>1. /\ executed \in [Node -> Nat] /\ executed' = [executed EXCEPT ![n] = @ + 1]
        /\ UNCHANGED checkpointVars
    BY DEF Execute, CheckpointInv, CheckpointTypeOK
  <1>2. executed' \in [Node -> Nat] /\ \A s \in Node : executed'[s] >= executed[s]
    BY <1>1
  <1>3. CheckpointTypeOK'
    BY <1>1, <1>2 DEF CheckpointInv, CheckpointTypeOK, checkpointVars
  <1>4. ListedIsTaken'
    <2> SUFFICES ASSUME NEW k \in Node, NEW m \in g_pbft_chkpt_msgs[k]
                 PROVE  /\ m.return_node # k
                        /\ m.index > 0
                        /\ m.index =< Interval * chkptsTaken[k][m.return_node]
                        /\ m.index =< executed'[m.return_node]
      BY <1>1 DEF ListedIsTaken, checkpointVars
    <2>1. m.return_node \in Node /\ m.index \in Nat
      BY DEF CheckpointInv, CheckpointTypeOK, CheckpointMessage
    <2>2. /\ m.return_node # k
          /\ m.index > 0
          /\ m.index =< Interval * chkptsTaken[k][m.return_node]
          /\ m.index =< executed[m.return_node]
      BY DEF CheckpointInv, ListedIsTaken
    <2>3. m.index =< executed'[m.return_node]
      <3>1. executed'[m.return_node] \in Nat /\ executed[m.return_node] \in Nat
            /\ executed'[m.return_node] >= executed[m.return_node]
        BY <1>1, <1>2, <2>1
      <3> QED BY <2>1, <2>2, <3>1
    <2> QED BY <2>2, <2>3
  <1>5. StableIsListed' /\ OlderFromOthers'
    BY <1>1 DEF CheckpointInv, StableIsListed, OlderFromOthers, checkpointVars
  <1> QED BY <1>3, <1>4, <1>5 DEF CheckpointInv

\* Nothing is listed at the start.
LEMMA InitCheckpointInv == CheckpointInit => CheckpointInv
  BY DEF CheckpointInit, CheckpointInv, CheckpointTypeOK, ListedIsTaken,
         StableIsListed, OlderFromOthers

\* Every step keeps the invariant.
LEMMA NextCheckpointInv ==
  CheckpointInv /\ [CheckpointNext]_<<executed, checkpointVars>> => CheckpointInv'
  <1> SUFFICES ASSUME CheckpointInv, [CheckpointNext]_<<executed, checkpointVars>>
               PROVE  CheckpointInv'
    OBVIOUS
  <1>1. CASE CheckpointNext
    BY <1>1, ExecuteInv, HandleCheckpointInv DEF CheckpointNext
  <1>2. CASE UNCHANGED <<executed, checkpointVars>>
    BY <1>2 DEF checkpointVars, CheckpointInv, CheckpointTypeOK, ListedIsTaken,
                StableIsListed, OlderFromOthers
  <1> QED BY <1>1, <1>2

\* No step takes a stable checkpoint back.
LEMMA NextStableMonotone ==
  CheckpointInv /\ [CheckpointNext]_<<executed, checkpointVars>> =>
      [\A n \in Node : g_last_stable_chkpt'[n] >= g_last_stable_chkpt[n]]_checkpointVars
  <1> SUFFICES ASSUME CheckpointInv, CheckpointNext, NEW k \in Node
               PROVE  g_last_stable_chkpt'[k] >= g_last_stable_chkpt[k]
               \/ UNCHANGED checkpointVars
    BY DEF checkpointVars
  <1>0. g_last_stable_chkpt \in [Node -> Nat]
    BY DEF CheckpointInv, CheckpointTypeOK
  <1>1. ASSUME NEW n \in Node, Execute(n) PROVE UNCHANGED checkpointVars
    BY <1>1 DEF Execute
  <1>2. ASSUME NEW n \in Node, NEW s \in Node, HandleCheckpoint(n, s)
        PROVE  g_last_stable_chkpt'[k] >= g_last_stable_chkpt[k]
    <2>1. k = n => g_last_stable_chkpt'[k] \in {NextCheckpoint(n, s), g_last_stable_chkpt[k]}
      BY <1>0, <1>2 DEF HandleCheckpoint
    <2>2. k # n => g_last_stable_chkpt'[k] = g_last_stable_chkpt[k]
      BY <1>0, <1>2 DEF HandleCheckpoint
    <2>3. g_last_stable_chkpt'[k] = g_last_stable_chkpt[k]
             \/ g_last_stable_chkpt'[k] >= g_last_stable_chkpt[k]
      <3>1. CASE g_last_stable_chkpt'[k] # g_last_stable_chkpt[k]
        <4>1. /\ k = n /\ s # n /\ executed[s] >= NextCheckpoint(n, s)
              /\ Cardinality(About(g_pbft_chkpt_msgs[n] \cup
                    {[index |-> NextCheckpoint(n, s), return_node |-> s]},
                    NextCheckpoint(n, s))) >= 2 * F
          BY <1>0, <1>2, <2>2, <3>1 DEF HandleCheckpoint, About
        <4> QED BY <2>1, <3>1, <4>1, StableAdvances
      <3> QED BY <3>1
    <2> QED BY <2>3, <1>0
  <1> QED BY <1>1, <1>2 DEF CheckpointNext

\* What is listed has been executed.
LEMMA InvStableIsExecuted == CheckpointInv => StableIsExecuted
  <1> SUFFICES ASSUME CheckpointInv, NEW n \in Node, g_last_stable_chkpt[n] > 0
               PROVE  Cardinality({s \in Node \ {n} : executed[s] >= g_last_stable_chkpt[n]})
                         >= 2 * F
    BY DEF StableIsExecuted
  <1> DEFINE A == Senders(g_pbft_chkpt_msgs[n], g_last_stable_chkpt[n])
             B == {s \in Node \ {n} : executed[s] >= g_last_stable_chkpt[n]}
  <1>1. A \subseteq B
    <2> SUFFICES ASSUME NEW s \in A PROVE s \in B
      OBVIOUS
    <2> DEFINE m == [index |-> g_last_stable_chkpt[n], return_node |-> s]
    <2>1. /\ s \in Node /\ m \in g_pbft_chkpt_msgs[n]
          /\ m.index = g_last_stable_chkpt[n] /\ m.return_node = s
      BY DEF Senders
    <2>2. s # n /\ g_last_stable_chkpt[n] =< executed[s]
      BY <2>1 DEF CheckpointInv, ListedIsTaken
    <2>3. g_last_stable_chkpt[n] \in Nat /\ executed[s] \in Nat
      BY <2>1 DEF CheckpointInv, CheckpointTypeOK
    <2> QED BY <2>1, <2>2, <2>3
  <1>2. IsFiniteSet(B) /\ Cardinality(A) \in Nat /\ Cardinality(B) \in Nat
    BY NumbersType DEF Senders
  <1>3. Cardinality(A) =< Cardinality(B)
    BY <1>1, <1>2, FS_Subset
  <1>4. Cardinality(A) >= 2 * F
    BY DEF CheckpointInv, StableIsListed
  <1> QED BY <1>2, <1>3, <1>4, NumbersType

\* The messages of nodes that lag behind cannot take a stable checkpoint back
\* (process_pbft_chkpt_msg), although the test in addAndValidate that should
\* refuse them never does.
THEOREM StableCheckpointsAdvance == CheckpointSpec => StableMonotone
  <1>1. CheckpointSpec => []CheckpointInv
    BY InitCheckpointInv, NextCheckpointInv, PTL DEF CheckpointSpec
  <1> QED BY <1>1, NextStableMonotone, PTL DEF CheckpointSpec, StableMonotone

\* What a node takes for stable has been executed by 2F others.
THEOREM StableCheckpointsExecuted == CheckpointSpec => []StableIsExecuted
  <1>1. CheckpointSpec => []CheckpointInv
    BY InitCheckpointInv, NextCheckpointInv, PTL DEF CheckpointSpec
  <1> QED BY <1>1, InvStableIsExecuted, PTL


-----------------------------------------------------------------------------
(* Checkpoints, under everything else that goes on *)

\* The checkpoint with which the state starts is one that a run can have made.
LEMMA VCInitCheckpointInv == VCInit => CheckpointInv
  <1> SUFFICES ASSUME VCInit PROVE CheckpointInv
    OBVIOUS
  <1>1. Interval \in Nat /\ Interval > 0
    BY CheckpointAssumption
  <1>2. \A n \in Node : FirstCheckpoints(n) \subseteq Node /\ n \notin FirstCheckpoints(n)
    BY DEF FirstCheckpoints
  <1>3. CheckpointTypeOK
    BY <1>1, <1>2 DEF VCInit, CheckpointTypeOK, CheckpointMessage
  <1>4. \A n \in Node : \A m \in g_pbft_chkpt_msgs[n] :
          m.index = Interval /\ m.return_node \in FirstCheckpoints(n)
    BY DEF VCInit
  <1>5. ListedIsTaken
    BY <1>1, <1>2, <1>4 DEF VCInit, ListedIsTaken
  <1>6. ASSUME NEW n \in Node
        PROVE  Cardinality(Senders(g_pbft_chkpt_msgs[n], g_last_stable_chkpt[n])) >= 2 * F
    <2>1. Senders(g_pbft_chkpt_msgs[n], g_last_stable_chkpt[n]) = FirstCheckpoints(n)
      <3>1. g_last_stable_chkpt[n] = Interval
        BY DEF VCInit
      <3>2. \A s \in FirstCheckpoints(n) :
               [index |-> Interval, return_node |-> s] \in g_pbft_chkpt_msgs[n]
        BY DEF VCInit
      <3>3. \A s \in Node : [index |-> Interval, return_node |-> s] \in g_pbft_chkpt_msgs[n]
                               => s \in FirstCheckpoints(n)
        BY DEF VCInit
      <3> QED BY <3>1, <3>2, <3>3, <1>2 DEF Senders
    <2>2. Cardinality(FirstCheckpoints(n)) >= Cardinality(Node) - 2
      <3>1. /\ IsFiniteSet(Node \ {n}) /\ Cardinality(Node \ {n}) = Cardinality(Node) - 1
        BY NodeAssumption, FS_RemoveElement
      <3>2. Cardinality((Node \ {n}) \ {Primary}) >= Cardinality(Node) - 2
        BY <3>1, NumbersType, FS_RemoveElement
      <3>3. Node \ {n, Primary} = (Node \ {n}) \ {Primary}
        OBVIOUS
      <3> QED BY <3>1, <3>2, <3>3, NumbersType DEF FirstCheckpoints
    <2>3. Cardinality(Node) - 2 >= 2 * F
      BY NumbersType, NodeAssumption DEF F
    <2>4. Cardinality(FirstCheckpoints(n)) \in Nat
      BY <1>2, NumbersType
    <2> QED BY <2>1, <2>2, <2>3, <2>4, NumbersType
  <1>7. StableIsListed
    BY <1>6 DEF StableIsListed
  <1>8. OlderFromOthers
    <2>1. \A n \in Node : g_last_stable_chkpt[n] = Interval
      BY DEF VCInit
    <2> QED BY <1>1, <1>4, <2>1 DEF OlderFromOthers
  <1> QED BY <1>3, <1>5, <1>7, <1>8 DEF CheckpointInv

\* A step of the change of view is, for the checkpoints, one of theirs or none.
LEMMA VCStepsAreCheckpointSteps ==
  [VCNext]_vars => [CheckpointNext]_<<executed, checkpointVars>>
  <1> SUFFICES ASSUME [VCNext]_vars PROVE [CheckpointNext]_<<executed, checkpointVars>>
    OBVIOUS
  <1>1. CASE UNCHANGED vars
    BY <1>1 DEF vars, checkpointVars
  <1>2. ASSUME NEW n \in Node,
               \/ StoreBatch(n) \/ Prepare(n) \/ Commit(n) \/ TimerRunsOut(n)
               \/ AcceptNewView(n) \/ HandleReport(n)
               \/ PrepareInNewView(n) \/ CommitInNewView(n)
               \/ \E s \in Node : CompareReports(n, s)
        PROVE  UNCHANGED <<executed, checkpointVars>>
    BY <1>2 DEF StoreBatch, Prepare, Commit, TimerRunsOut, AcceptNewView, HandleReport,
                PrepareInNewView, CommitInNewView, CompareReports
  <1>3. ASSUME NEW n \in Node, ExecuteNext(n)
        PROVE  CheckpointNext \/ UNCHANGED <<executed, checkpointVars>>
    BY <1>3 DEF ExecuteNext, CheckpointNext
  <1>4. ASSUME NEW n \in Node, NEW s \in Node, TakeCheckpoint(n, s) PROVE CheckpointNext
    BY <1>4 DEF TakeCheckpoint, CheckpointNext
  <1> QED BY <1>1, <1>2, <1>3, <1>4 DEF VCNext

\* No change of view takes a stable checkpoint back.
THEOREM StableThroughViewChange == VCSpec => StableMonotone
  <1>1. VCSpec => []CheckpointInv
    BY VCInitCheckpointInv, VCStepsAreCheckpointSteps, NextCheckpointInv, PTL DEF VCSpec
  <1> QED BY <1>1, VCStepsAreCheckpointSteps, NextStableMonotone, PTL
          DEF VCSpec, StableMonotone

-----------------------------------------------------------------------------
(* Numbers, for the invariant of the change of view *)

\* A set of numbers has a least one.
LEMMA LeastNumber ==
  ASSUME NEW T \in SUBSET Nat, T # {}
  PROVE  \E a \in T : \A b \in T : a =< b
  <1> DEFINE less == OpToRel(<, Nat)
  <1>1. \A a, b \in Nat : a < b => <<a, b>> \in less
    BY DEF OpToRel
  <1>2. IsWellFoundedOn(less, Nat)
    BY NatLessThanWellFounded, Zenon
  <1>3. PICK a \in T : \A b \in T : <<b, a>> \notin less
    <2> HIDE DEF less
    <2>1. \E a \in T : \A b \in T : ~(<<b, a>> \in less)
      BY <1>2, WFMin
    <2> QED BY <2>1
  <1> HIDE DEF less
  <1>4. ASSUME NEW b \in T PROVE a =< b
    <2>1. ~(b < a)
      BY <1>1, <1>3
    <2> QED BY <2>1
  <1> QED BY <1>4

\* A set of numbers has a greatest one if none is greater than k.
LEMMA GreatestNumber ==
  ASSUME NEW k \in Nat, NEW T \in SUBSET (0 .. k), T # {}
  PROVE  \E a \in T : \A b \in T : b =< a
  <1> DEFINE L == {k - b : b \in T}
  <1>0. \A b \in T : b \in Nat /\ b =< k
    OBVIOUS
  <1>1. L \in SUBSET Nat /\ L # {}
    <2>1. \A b \in T : k - b \in Nat
      BY <1>0
    <2> QED BY <2>1
  <1>2. PICK l \in L : \A m \in L : l =< m
    BY <1>1, LeastNumber
  <1>3. PICK a \in T : l = k - a
    BY <1>2
  <1>4. ASSUME NEW b \in T PROVE b =< a
    <2>1. l =< k - b
      BY <1>2
    <2> QED BY <2>1, <1>0, <1>3
  <1> QED BY <1>4

\* What the constants are.
LEMMA SizesType ==
  /\ Interval \in Nat /\ Interval > 0
  /\ MaxBatch \in Nat /\ MaxBatch >= Interval
  /\ Window \in Nat /\ Window > 0
  /\ Slots \in Nat /\ Slots > Window
  /\ F \in Nat /\ F > 0
  /\ Primary \in Node /\ NextPrimary \in Replica
  BY CheckpointAssumption, ViewChangeAssumption, NumbersType DEF Slots, Replica

\* What is at the head of a queue, and what is left of it.
LEMMA QueueTail ==
  ASSUME NEW S, NEW q \in Seq(S), q # <<>>
  PROVE  /\ Head(q) = q[1] /\ 1 \in DOMAIN q /\ Head(q) \in S
         /\ Tail(q) \in Seq(S) /\ Len(q) \in Nat /\ Len(q) > 0
         /\ Len(Tail(q)) = Len(q) - 1
         /\ \A i \in DOMAIN Tail(q) : i \in Nat /\ i + 1 \in DOMAIN q /\ Tail(q)[i] = q[i + 1]
  <1>1. Len(q) \in Nat /\ Len(q) > 0 /\ DOMAIN q = 1 .. Len(q)
    OBVIOUS
  <1>2. Head(q) = q[1] /\ 1 \in DOMAIN q /\ q[1] \in S
    BY <1>1
  <1>3. Tail(q) \in Seq(S) /\ Len(Tail(q)) = Len(q) - 1
    OBVIOUS
  <1>4. DOMAIN Tail(q) = 1 .. Len(q) - 1
    BY <1>3
  <1>5. \A i \in 1 .. Len(q) - 1 : Tail(q)[i] = q[i + 1]
    BY <1>1
  <1> QED BY <1>1, <1>2, <1>3, <1>4, <1>5

\* A larger set of nodes counts more.
LEMMA MoreNodes ==
  ASSUME NEW S \in SUBSET Node, NEW T \in SUBSET S
  PROVE  /\ Cardinality(S) \in Nat /\ Cardinality(T) \in Nat
         /\ Cardinality(T) =< Cardinality(S)
  BY NumbersType, FS_Subset

-----------------------------------------------------------------------------
(* What the clients have sent *)

\* Answered is the last batch that 2F+1 nodes have executed.
LEMMA AnsweredIs ==
  ASSUME executed \in [Node -> Nat], \A n \in Node : executed[n] =< MaxBatch
  PROVE  /\ Answered \in 0 .. MaxBatch
         /\ \A b \in 0 .. MaxBatch :
               b =< Answered <=> Cardinality({n \in Node : executed[n] >= b}) >= 2 * F + 1
  <1> DEFINE at(b) == {n \in Node : executed[n] >= b}
             after(b) == {n \in Node : executed[n] > b}
             q == 2 * F + 1
             IsLast(b) == /\ Cardinality(at(b)) >= q
                        /\ Cardinality(after(b)) < q
             T == {b \in 0 .. MaxBatch : Cardinality(at(b)) >= q}
  <1>0. q \in Nat /\ q > 0 /\ Cardinality(Node) >= q
    BY NumbersType, NodeAssumption DEF F
  <1> HIDE DEF q
  <1>1. \A b \in Nat : /\ after(b) = at(b + 1) /\ after(b) \subseteq at(b)
                       /\ Cardinality(at(b)) \in Nat /\ Cardinality(after(b)) \in Nat
    BY NumbersType
  <1>2. 0 \in T
    <2>1. at(0) = Node
      OBVIOUS
    <2> QED BY <2>1, <1>0, SizesType
  <1>3. PICK a \in T : \A b \in T : b =< a
    BY <1>2, SizesType, GreatestNumber
  <1>4. IsLast(a)
    <2>1. CASE a = MaxBatch
      <3>1. after(a) = {}
        BY <2>1, SizesType
      <3>2. Cardinality({}) = 0
        BY FS_EmptySet
      <3> QED BY <3>1, <3>2, <1>0, <1>3
    <2>2. CASE a # MaxBatch
      <3>1. a + 1 \in 0 .. MaxBatch /\ a + 1 \notin T
        BY <1>3, <2>2, SizesType
      <3>2. Cardinality(after(a)) \in Nat /\ after(a) = at(a + 1)
        BY <1>1, <1>3
      <3>3. Cardinality(at(a + 1)) < q
        BY <3>1, <3>2, <1>0
      <3>4. Cardinality(at(a)) >= q
        BY <1>3
      <3> HIDE DEF after, at
      <3> QED BY <3>2, <3>3, <3>4
    <2> QED BY <2>1, <2>2
  <1>5. \A b \in 0 .. MaxBatch : IsLast(b) => b = a
    <2> SUFFICES ASSUME NEW b \in 0 .. MaxBatch, IsLast(b), b # a PROVE FALSE
      OBVIOUS
    <2>1. b < a
      BY <1>3
    <2>2. at(a) \subseteq after(b)
      BY <2>1
    <2>3. Cardinality(at(a)) =< Cardinality(after(b))
      BY <2>2, MoreNodes
    <2>4. Cardinality(at(a)) >= q /\ Cardinality(after(b)) < q
      BY <1>3
    <2>5. Cardinality(at(a)) \in Nat /\ Cardinality(after(b)) \in Nat
      BY NumbersType
    <2> HIDE DEF at, after
    <2> QED BY <1>0, <2>3, <2>4, <2>5
  <1>6. Answered = a
    <2>1. Answered = CHOOSE b \in 0 .. MaxBatch : IsLast(b)
      BY DEF Answered, q
    <2> HIDE DEF IsLast
    <2> QED BY <1>4, <1>5, <2>1
  <1>7. ASSUME NEW b \in 0 .. MaxBatch
        PROVE  b =< a <=> Cardinality(at(b)) >= q
    <2>1. Cardinality(at(b)) >= q => b =< a
      BY <1>3
    <2>2. b =< a => Cardinality(at(b)) >= q
      <3> SUFFICES ASSUME b =< a PROVE Cardinality(at(b)) >= q
        OBVIOUS
      <3>1. at(a) \subseteq at(b)
        OBVIOUS
      <3>2. Cardinality(at(a)) =< Cardinality(at(b))
        BY <3>1, MoreNodes
      <3>3. Cardinality(at(a)) \in Nat /\ Cardinality(at(b)) \in Nat
        BY NumbersType
      <3>4. Cardinality(at(a)) >= q
        BY <1>3
      <3> HIDE DEF at
      <3> QED BY <1>0, <3>2, <3>3, <3>4
    <2> QED BY <2>1, <2>2
  <1> QED BY <1>6, <1>7 DEF q

\* Ordered is the smaller of two numbers.
LEMMA OrderedIs ==
  ASSUME executed \in [Node -> Nat], \A n \in Node : executed[n] =< MaxBatch
  PROVE  /\ Ordered = IF MaxBatch =< Answered + Window THEN MaxBatch ELSE Answered + Window
         /\ Ordered \in 0 .. MaxBatch
  <1> DEFINE k == Answered + Window
             S == {MaxBatch, k}
             m == IF MaxBatch =< k THEN MaxBatch ELSE k
  <1>1. k \in Nat /\ MaxBatch \in Nat
    BY AnsweredIs, SizesType
  <1> HIDE DEF k
  <1>2. m \in S /\ \A y \in S : m =< y
    BY <1>1
  <1>3. \A x \in S : (\A y \in S : x =< y) => x = m
    BY <1>1
  <1>4. Ordered = CHOOSE x \in S : \A y \in S : x =< y
    BY DEF Ordered, Min, k
  <1>5. Ordered = m
    <2> HIDE DEF m, S
    <2> QED BY <1>2, <1>3, <1>4
  <1> QED BY <1>1, <1>5 DEF k

\* The nodes have executed batches that were sent.
ExecutedOK == executed \in [Node -> Nat] /\ \A n \in Node : executed[n] =< MaxBatch

\* Both, for use in the next state as well.
SentOK ==
    /\ Answered \in 0 .. MaxBatch
    /\ \A b \in 0 .. MaxBatch :
          b =< Answered <=> Cardinality({n \in Node : executed[n] >= b}) >= 2 * F + 1
    /\ Ordered = IF MaxBatch =< Answered + Window THEN MaxBatch ELSE Answered + Window
    /\ Ordered \in 0 .. MaxBatch

\* A state in which these types hold is one in which the above does.
LEMMA SentNow == ExecutedOK => SentOK
  BY AnsweredIs, OrderedIs DEF ExecutedOK, SentOK

\* And so is the next one.
LEMMA SentNext == ExecutedOK' => SentOK'
  BY SentNow, PTL

\* Nothing that was sent is taken back.
LEMMA OrderedGrows ==
  ASSUME ExecutedOK, ExecutedOK', \A n \in Node : executed[n] =< executed'[n]
  PROVE  Ordered \in Nat /\ Ordered' \in Nat /\ Ordered =< Ordered' /\ Ordered' =< MaxBatch
  <1>1. SentOK /\ SentOK'
    BY SentNow, SentNext
  <1>2. PICK a \in 0 .. MaxBatch : a = Answered
    BY <1>1 DEF SentOK
  <1> DEFINE S == {n \in Node : executed'[n] >= a}
             T == {n \in Node : executed[n] >= a}
  <1>3. Cardinality(T) =< Cardinality(S) /\ Cardinality(T) \in Nat /\ Cardinality(S) \in Nat
    <2>1. T \subseteq S
      BY SizesType DEF ExecutedOK
    <2> QED BY <2>1, MoreNodes
  <1>4. Cardinality(T) >= 2 * F + 1
    BY <1>1, <1>2 DEF SentOK
  <1>5. Cardinality(S) >= 2 * F + 1
    BY <1>3, <1>4, SizesType
  <1>6. PICK c \in 0 .. MaxBatch : c = Answered' /\ a =< c
    BY <1>1, <1>5 DEF SentOK
  <1>7. Ordered = IF MaxBatch =< a + Window THEN MaxBatch ELSE a + Window
    BY <1>1, <1>2 DEF SentOK
  <1>8. Ordered' = IF MaxBatch =< c + Window THEN MaxBatch ELSE c + Window
    BY <1>1, <1>6 DEF SentOK
  <1>9. a \in Nat /\ c \in Nat /\ a =< c /\ Window \in Nat /\ MaxBatch \in Nat
    BY <1>2, <1>6, SizesType
  <1>10. Ordered \in Nat
    BY <1>7, <1>9
  <1>11. Ordered' \in Nat /\ Ordered' =< MaxBatch
    BY <1>8, <1>9
  <1>12. CASE MaxBatch =< c + Window
    BY <1>7, <1>8, <1>9, <1>10, <1>11, <1>12
  <1>13. CASE ~(MaxBatch =< c + Window)
    BY <1>7, <1>8, <1>9, <1>10, <1>11, <1>13
  <1> QED BY <1>10, <1>11, <1>12, <1>13

\* With four nodes, of which the old primary executes little, a batch is not sent
\* before every replica has executed the batch a window before it.
LEMMA SentInFour ==
  ASSUME Cardinality(Node) = 4, ExecutedOK, executed[Primary] =< Interval + 1
  PROVE  \/ Ordered =< Interval + 1 + Window
         \/ \A n \in Replica : Ordered =< executed[n] + Window
  <1>1. SentOK
    BY SentNow
  <1> SUFFICES ASSUME Answered > Interval + 1
               PROVE  \A n \in Replica : Ordered =< executed[n] + Window
    BY <1>1, SizesType DEF SentOK
  <1> DEFINE a == Answered
             T == {n \in Node : executed[n] >= a}
  <1>2. a \in 0 .. MaxBatch /\ Cardinality(T) >= 3
    <2>1. F = 1
      BY DEF F
    <2> QED BY <1>1, <2>1 DEF SentOK
  <1>3. T \subseteq Replica
    BY <1>2, SizesType DEF Replica, ExecutedOK
  <1>4. IsFiniteSet(Replica) /\ Cardinality(Replica) = 3
    BY NodeAssumption, ViewChangeAssumption, FS_RemoveElement DEF Replica
  <1>5. Cardinality(T) \in Nat
    BY NumbersType
  <1>6. T = Replica
    <2> HIDE DEF T
    <2> QED BY <1>2, <1>3, <1>4, <1>5, FS_Subset
  <1>7. \A n \in Replica : executed[n] >= a /\ executed[n] \in Nat
    BY <1>6 DEF ExecutedOK, Replica
  <1> QED BY <1>1, <1>7, SizesType DEF SentOK

-----------------------------------------------------------------------------
(* The order of the batches in the reports *)

\* A set of numbers after k, and with each of its members those in between, has
\* the numbers up to as many as it has members.
LEMMA PrefixSet ==
  ASSUME NEW k \in Nat, NEW m \in Nat, NEW S,
         \A b \in S : b \in Nat /\ b > k /\ b =< m /\ k + 1 .. b \subseteq S
  PROVE  /\ Cardinality(S) \in Nat
         /\ S = k + 1 .. k + Cardinality(S)
  <1>0. \A b \in S : b \in Nat /\ b > k /\ b =< m
    OBVIOUS
  <1>1. CASE S = {}
    <2>1. Cardinality(S) = 0
      BY <1>1, FS_EmptySet
    <2> QED BY <1>1, <2>1
  <1>2. CASE S # {}
    <2>1. S \in SUBSET (0 .. m)
      OBVIOUS
    <2>2. PICK a \in S : \A b \in S : b =< a
      BY <1>2, <2>1, GreatestNumber
    <2>3. S = k + 1 .. a /\ a \in Nat /\ a > k
      <3>1. k + 1 .. a \subseteq S
        BY <2>2
      <3>2. \A b \in S : b \in k + 1 .. a
        BY <1>0, <2>2
      <3> QED BY <1>0, <3>1, <3>2
    <2>4. Cardinality(k + 1 .. a) = a - k
      BY <2>3, FS_Interval
    <2> QED BY <2>3, <2>4
  <1> QED BY <1>1, <1>2

\* The same interval, counted from k.
LEMMA IntervalFrom ==
  ASSUME NEW k \in Nat, NEW n \in Nat
  PROVE  k + 1 .. k + n = {k + i : i \in 1 .. n}
  <1>1. ASSUME NEW b \in k + 1 .. k + n PROVE b \in {k + i : i \in 1 .. n}
    <2>1. b - k \in 1 .. n /\ b = k + (b - k)
      OBVIOUS
    <2> QED BY <2>1
  <1>2. \A i \in 1 .. n : k + i \in k + 1 .. k + n
    OBVIOUS
  <1> QED BY <1>1, <1>2

\* What the stores hold after the checkpoint has its order there.
LEMMA RingKeepsOrder ==
  ASSUME NEW k \in Nat, NEW b \in k + 1 .. k + Slots, NEW c \in k + 1 .. k + Slots
  PROVE  RingPlace(b, k) < RingPlace(c, k) <=> b < c
  <1> DEFINE w == Slots
  <1>1. w \in Nat /\ w > 0
    BY SizesType
  <1> HIDE DEF w
  <1>2. \A i \in 0 .. w - 1 : i % w = i
    BY <1>1
  <1>3. b - 1 - k \in 0 .. w - 1 /\ c - 1 - k \in 0 .. w - 1
    BY <1>1 DEF w
  <1>4. (b - 1 - k) % w = b - 1 - k /\ (c - 1 - k) % w = c - 1 - k
    BY <1>2, <1>3
  <1> QED BY <1>4 DEF RingPlace, w

\* The reports that a new view is made of: about one checkpoint, with batches
\* that the stores hold, and none left out before another.
WholeReports(msgs, k) ==
    /\ msgs \in Seq(Replica)
    /\ \A s \in ToSet(msgs) :
          /\ report[s].index = k
          /\ report[s].batches \subseteq k + 1 .. k + Slots
          /\ \A b \in report[s].batches : k + 1 .. b \subseteq report[s].batches

\* Of two batches in such reports the earlier one is come across first.
LEMMA EarlierFirst ==
  ASSUME NEW msgs, NEW k \in Nat, WholeReports(msgs, k),
         NEW b \in Reports(msgs), NEW c \in Reports(msgs)
  PROVE  Precedes(c, b, msgs) <=> c < b
  <1> DEFINE B(j) == report[msgs[j]].batches
  <1>1. DOMAIN msgs \subseteq Nat
    BY DEF WholeReports
  <1>2. \A j \in DOMAIN msgs :
          /\ msgs[j] \in ToSet(msgs) /\ report[msgs[j]].index = k
          /\ B(j) \subseteq k + 1 .. k + Slots
          /\ \A x \in B(j) : k + 1 .. x \subseteq B(j)
    BY DEF WholeReports, ToSet
  <1>3. \A x \in Reports(msgs) : x \in k + 1 .. k + Slots /\ \E j \in DOMAIN msgs : x \in B(j)
    BY <1>2 DEF Reports, ToSet
  <1>4. Precedes(c, b, msgs) <=>
          \E j \in DOMAIN msgs :
              /\ c \in B(j)
              /\ \A i \in 1 .. j - 1 : B(i) \cap {c, b} = {}
              /\ b \in B(j) => RingPlace(c, k) < RingPlace(b, k)
    BY <1>2 DEF Precedes
  <1>5. b \in k + 1 .. k + Slots /\ c \in k + 1 .. k + Slots
    BY <1>3
  <1>6. RingPlace(c, k) < RingPlace(b, k) <=> c < b
    BY <1>5, RingKeepsOrder
  <1>7. ASSUME c < b PROVE Precedes(c, b, msgs)
    <2> DEFINE T == {j \in DOMAIN msgs : c \in B(j)}
    <2>1. T \in SUBSET Nat /\ T # {}
      BY <1>1, <1>3
    <2>2. PICK j \in T : \A i \in T : j =< i
      BY <2>1, LeastNumber
    <2>3. ASSUME NEW i \in 1 .. j - 1 PROVE c \notin B(i) /\ b \notin B(i)
      <3>1. i \in DOMAIN msgs /\ j \in Nat /\ i < j
        BY <1>1, <2>1 DEF WholeReports
      <3>2. c \notin B(i)
        BY <2>2, <3>1
      <3>3. b \in B(i) => c \in B(i)
        BY <1>2, <1>5, <1>7, <3>1, SizesType
      <3> QED BY <3>2, <3>3
    <2>4. j \in DOMAIN msgs /\ c \in B(j) /\ (b \in B(j) => RingPlace(c, k) < RingPlace(b, k))
      BY <1>6, <1>7
    <2> HIDE DEF T
    <2>5. \A i \in 1 .. j - 1 : B(i) \cap {c, b} = {}
      BY <2>3
    <2> QED BY <1>4, <2>4, <2>5
  <1>8. ASSUME Precedes(c, b, msgs) PROVE c < b
    <2>1. PICK j \in DOMAIN msgs : c \in B(j) /\ (b \in B(j) => RingPlace(c, k) < RingPlace(b, k))
      BY <1>4, <1>8
    <2>2. b =< c => b \in B(j)
      BY <1>2, <1>5, <2>1, SizesType
    <2>3. b \in Nat /\ c \in Nat
      BY <1>5, SizesType
    <2> QED BY <1>6, <2>1, <2>2, <2>3
  <1> QED BY <1>7, <1>8

\* So the k-th one it comes across is the one of the k-th place.
LEMMA WholeReportsInPlace ==
  ASSUME NEW msgs, NEW k \in Nat, WholeReports(msgs, k)
  PROVE  LET n == Cardinality(Reports(msgs))
         IN /\ n \in Nat
            /\ Reports(msgs) = {k + i : i \in 1 .. n}
            /\ \A pos \in 1 .. n : k + Turn(k + pos, msgs) = k + pos
  <1> DEFINE R == Reports(msgs)
             n == Cardinality(R)
  <1>1. R \in SUBSET (k + 1 .. k + Slots) /\ \A b \in R : k + 1 .. b \subseteq R
    BY DEF WholeReports, Reports
  <1>2. k + Slots \in Nat
    BY SizesType
  <1>3. n \in Nat /\ R = k + 1 .. k + n /\ R = {k + i : i \in 1 .. n}
    <2>1. PICK m \in Nat : m = k + Slots
      BY <1>2
    <2>2. \A b \in R : b \in Nat /\ b > k /\ b =< m /\ k + 1 .. b \subseteq R
      BY <1>1, <2>1
    <2> HIDE DEF R
    <2>3. n \in Nat /\ R = k + 1 .. k + n
      BY <2>2, PrefixSet
    <2> HIDE DEF n
    <2> QED BY <2>3, IntervalFrom
  <1>4. ASSUME NEW pos \in 1 .. n PROVE Turn(k + pos, msgs) = pos
    <2> DEFINE b == k + pos
               S == {c \in R : Precedes(c, b, msgs)}
    <2>1. b \in R
      BY <1>3
    <2>2. S = {c \in R : c < b}
      BY <2>1, EarlierFirst
    <2>3. {c \in R : c < b} = k + 1 .. k + pos - 1
      BY <1>3
    <2>4. Cardinality(k + 1 .. k + pos - 1) = pos - 1
      BY <1>3, FS_Interval
    <2>5. Cardinality(S) = pos - 1
      BY <2>2, <2>3, <2>4
    <2> QED BY <1>3, <2>5 DEF Turn
  <1> QED BY <1>3, <1>4

-----------------------------------------------------------------------------
(* What the invariant says of every state *)

\* The types, one by one.
LEMMA InvTypes ==
  ASSUME VCInv
  PROVE  /\ executed \in [Node -> Nat] /\ g_last_stable_chkpt \in [Node -> Nat]
         /\ got \in [Replica -> 0 .. MaxBatch] /\ prepared \in [Replica -> 0 .. MaxBatch]
         /\ accepted \in [Node -> BOOLEAN]
         /\ g_pbft_view_change_msgs \in Seq(Replica)
         /\ lost \in [Node -> SUBSET Node]
         /\ voted \in [Node -> SUBSET (1 .. MaxBatch)]
         /\ recommitted \in [Node -> SUBSET (1 .. MaxBatch)]
         /\ executeMsgs \in [Node -> Seq(1 .. MaxBatch)]
         /\ \A n \in Node : Len(executeMsgs[n]) \in Nat
         /\ aborted \in [Node -> Assertions \cup {None}]
         /\ report \in [Node -> Report \cup {None}]
         /\ \A n \in Node : report[n] # None =>
               /\ report[n] \in Report
               /\ report[n].index \in Nat /\ report[n].batches \in SUBSET Nat
               /\ report[n].done \in Nat
         /\ newView # None =>
               newView \in NewView /\ newView.index \in Nat /\ newView.content \in Seq(Nat)
         /\ ExecutedOK
         /\ Ordered \in Nat /\ Ordered =< MaxBatch
  <1>1. VCTypeOK /\ InOrder
    BY DEF VCInv
  <1>2. ExecutedOK
    BY <1>1 DEF VCTypeOK, CheckpointTypeOK, InOrder, ExecutedOK
  <1>3. Ordered \in Nat /\ Ordered =< MaxBatch
    BY <1>2, SentNow, SizesType DEF SentOK
  <1> QED BY <1>1, <1>2, <1>3 DEF VCTypeOK, CheckpointTypeOK, Report, NewView

\* A stable checkpoint is one of the batches.
LEMMA StableIsSent ==
  ASSUME CheckpointInv, ExecutedOK, NEW n \in Node
  PROVE  g_last_stable_chkpt[n] \in 0 .. MaxBatch
  <1>1. g_last_stable_chkpt[n] \in Nat
    BY DEF CheckpointInv, CheckpointTypeOK
  <1> SUFFICES ASSUME g_last_stable_chkpt[n] > 0 PROVE g_last_stable_chkpt[n] =< MaxBatch
    BY <1>1, SizesType
  <1> DEFINE S == {s \in Node \ {n} : executed[s] >= g_last_stable_chkpt[n]}
  <1>2. Cardinality(S) >= 2 * F
    BY InvStableIsExecuted DEF StableIsExecuted
  <1>3. S # {}
    BY <1>2, SizesType, FS_EmptySet
  <1> QED BY <1>1, <1>3, SizesType DEF ExecutedOK

\* The list of a node has the messages that made its checkpoint stable.
LEMMA ChkptsEnough ==
  ASSUME CheckpointInv, ListsFinite, NEW n \in Node, g_last_stable_chkpt[n] > 0
  PROVE  ~(Cardinality(g_pbft_chkpt_msgs[n]) < 2 * F)
  <1> DEFINE L == g_pbft_chkpt_msgs[n]
             c == g_last_stable_chkpt[n]
             A == About(L, c)
  <1>1. L \in SUBSET CheckpointMessage /\ c \in Nat /\ IsFiniteSet(L)
    BY DEF CheckpointInv, CheckpointTypeOK, ListsFinite
  <1>2. Cardinality(Senders(L, c)) >= 2 * F
    BY DEF CheckpointInv, StableIsListed
  <1>3. Cardinality(A) = Cardinality(Senders(L, c))
    <2> HIDE DEF L, c
    <2> QED BY <1>1, OneEach
  <1>4. A \subseteq L
    BY DEF About
  <1>5. /\ Cardinality(A) =< Cardinality(L)
        /\ Cardinality(L) \in Nat /\ Cardinality(A) \in Nat
    <2> HIDE DEF A, L
    <2> QED BY <1>1, <1>4, FS_Subset, FS_CardinalityType
  <1> QED BY <1>2, <1>3, <1>5, SizesType

\* The last batch that any node has executed.
LEMMA MaxExecuted ==
  ASSUME ExecutedOK
  PROVE  /\ Max({executed[m] : m \in Node}) \in 0 .. MaxBatch
         /\ \E m \in Node : Max({executed[k] : k \in Node}) = executed[m]
  <1> DEFINE S == {executed[m] : m \in Node}
  <1>1. S \in SUBSET (0 .. MaxBatch) /\ S # {}
    BY SizesType DEF ExecutedOK
  <1>2. PICK a \in S : \A b \in S : b =< a
    <2> HIDE DEF S
    <2> QED BY <1>1, SizesType, GreatestNumber
  <1>3. \E x \in S : \A y \in S : x >= y
    BY <1>1, <1>2, SizesType
  <1>4. Max(S) \in S
    <2> HIDE DEF S
    <2> QED BY <1>3 DEF Max
  <1> QED BY <1>1, <1>4

\* An assertion that fails for another reason than those explained.
LEMMA NothingRefused ==
  ASSUME VCTypeOK, Runs, NEW n \in Node, NEW why \in {"late", "ready", None},
         Abort(n, why) \/ UNCHANGED aborted
  PROVE  /\ aborted' \in [Node -> Assertions \cup {None}]
         /\ RefusalExplained'
  <1> DEFINE explained == {"checkpoint", "gap", "new_view", "store", "index", "execute"}
  <1>1. aborted \in [Node -> Assertions \cup {None}] /\ \A m \in Node : aborted[m] = None
    BY DEF VCTypeOK, Runs
  <1>2. why \in Assertions \cup {None} /\ why \notin explained /\ None \notin explained
    BY NoneAssumption DEF Assertions
  <1>3. aborted' \in [Node -> Assertions \cup {None}]
    BY <1>1, <1>2 DEF Abort
  <1>4. \A m \in Node : aborted'[m] \in {why, None}
    BY <1>1 DEF Abort
  <1>5. \A m \in Node : aborted'[m] \notin explained
    BY <1>2, <1>4
  <1> QED BY <1>3, <1>5 DEF RefusalExplained

\* Of two stable checkpoints that differ one is not the first.
LEMMA OneIsPastFirst ==
  ASSUME VCInv, NEW r \in Node, NEW t \in Node,
         g_last_stable_chkpt[r] # g_last_stable_chkpt[t]
  PROVE  \E m \in Node : g_last_stable_chkpt[m] > Interval
  <1>1. /\ g_last_stable_chkpt[r] \in Nat /\ g_last_stable_chkpt[t] \in Nat
        /\ Interval \in Nat
    BY InvTypes, SizesType
  <1>2. Interval =< g_last_stable_chkpt[r] /\ Interval =< g_last_stable_chkpt[t]
    BY DEF VCInv, InOrder
  <1>3. g_last_stable_chkpt[r] > Interval \/ g_last_stable_chkpt[t] > Interval
    BY <1>1, <1>2
  <1> QED BY <1>3

\* An assertion on checkpoints fails if those of two nodes differ.
LEMMA IndexExplained ==
  ASSUME VCInv, Runs, NEW n \in Node, Abort(n, "index"), UNCHANGED g_last_stable_chkpt,
         NEW r \in Node, NEW t \in Node, g_last_stable_chkpt[r] # g_last_stable_chkpt[t]
  PROVE  /\ aborted' \in [Node -> Assertions \cup {None}]
         /\ RefusalExplained'
  <1>1. aborted \in [Node -> Assertions \cup {None}] /\ \A m \in Node : aborted[m] = None
    BY InvTypes DEF Runs
  <1>2. /\ aborted' \in [Node -> Assertions \cup {None}]
        /\ \A m \in Node : aborted'[m] \in {"index", None}
    BY <1>1 DEF Abort, Assertions
  <1>3. None \notin Assertions
    BY NoneAssumption
  <1>4. \E m \in Node : g_last_stable_chkpt'[m] > Interval
    <2>1. \E m \in Node : g_last_stable_chkpt[m] > Interval
      BY OneIsPastFirst
    <2> QED BY <2>1
  <1>5. \A m \in Node : aborted'[m] \notin {"checkpoint", "gap", "new_view", "store", "execute"}
    BY <1>2, <1>3 DEF Assertions
  <1> QED BY <1>2, <1>4, <1>5 DEF RefusalExplained

\* What was sent depends on what was executed.
LEMMA OrderedSame == UNCHANGED executed => Ordered' = Ordered
  BY DEF Ordered, Answered

-----------------------------------------------------------------------------
(* The steps of the old view *)

\* Reports and new view, of steps that leave both alone.
LEMMA ReportsLeftAlone ==
  ASSUME VCInv, UNCHANGED <<executed, checkpointVars, changeVars>>
  PROVE  (ListsFinite /\ ReportsInOrder /\ MessagesAreReports /\ NewViewIsOfReports)'
  <1>1. /\ UNCHANGED <<report, g_pbft_view_change_msgs, newView, accepted,
                       g_last_stable_chkpt, g_pbft_chkpt_msgs>>
        /\ Ordered' = Ordered
    BY OrderedSame DEF changeVars, checkpointVars
  <1>2. Proposed' = Proposed /\ InPlace' = InPlace
        /\ Reports(g_pbft_view_change_msgs)' = Reports(g_pbft_view_change_msgs)
    BY <1>1 DEF Proposed, InPlace, Reports, ToSet
  <1>3. NewViewIsOfReports'
    BY <1>1, <1>2 DEF VCInv, NewViewIsOfReports, ToSet
  <1>4. ListsFinite' /\ ReportsInOrder' /\ MessagesAreReports'
    BY <1>1 DEF VCInv, ListsFinite, ReportsInOrder, MessagesAreReports, ToSet
  <1> QED BY <1>3, <1>4

\* Votes and EXECUTE_MSGs, of steps that leave both alone.
LEMMA CommitsLeftAlone ==
  ASSUME VCInv, UNCHANGED <<executed, voted, recommitted, executeMsgs>>,
         \A n \in Node : accepted[n] => accepted'[n],
         newView = None \/ UNCHANGED newView
  PROVE  (VotesAreForTheLast /\ QueuesInOrder)'
  <1>1. VotesAreForTheLast /\ QueuesInOrder
    BY DEF VCInv
  <1>2. QueuesInOrder'
    BY <1>1 DEF QueuesInOrder
  <1>3. CASE newView = None
    <2>1. \A n \in Node : voted[n] = {} /\ recommitted[n] = {}
      BY <1>1, <1>3 DEF VCInv, NewViewIsOfReports, VotesAreForTheLast
    <2>2. \A n \in Node : voted'[n] = {} /\ recommitted'[n] = {}
      BY <2>1
    <2> QED BY <1>2, <2>2 DEF VotesAreForTheLast
  <1>4. CASE UNCHANGED newView
    <2>1. Proposed' = Proposed /\ LastProposed' = LastProposed
      BY <1>4 DEF Proposed, LastProposed
    <2> QED BY <1>1, <1>2, <2>1 DEF VotesAreForTheLast
  <1> QED BY <1>3, <1>4

\* A replica stores the next batch that the primary has sent.
LEMMA StoreBatchInv ==
  ASSUME VCInv, CheckpointInv', NEW n \in Node, StoreBatch(n)
  PROVE  VCInv'
  <1>1. /\ Runs /\ n \in Replica /\ got[n] < Ordered
        /\ UNCHANGED <<executed, checkpointVars, prepared, changeVars, commitVars>>
        /\ \/ Abort(n, "late") /\ UNCHANGED got
           \/ got' = [got EXCEPT ![n] = @ + 1] /\ UNCHANGED aborted
    BY DEF StoreBatch
  <1>2. /\ got \in [Replica -> 0 .. MaxBatch] /\ prepared \in [Replica -> 0 .. MaxBatch]
        /\ Ordered \in Nat /\ Ordered =< MaxBatch
    BY InvTypes
  <1>3. /\ got' \in [Replica -> 0 .. MaxBatch]
        /\ \A m \in Replica : got[m] =< got'[m] /\ (got'[m] = got[m] \/ got'[m] =< Ordered)
    BY <1>1, <1>2, SizesType
  <1>4. aborted' \in [Node -> Assertions \cup {None}] /\ RefusalExplained'
    <2>1. \E why \in {"late", "ready", None} : Abort(n, why) \/ UNCHANGED aborted
      BY <1>1
    <2> QED BY <1>1, <2>1, NothingRefused DEF VCInv
  <1>5. VCTypeOK'
    BY <1>1, <1>3, <1>4 DEF VCInv, VCTypeOK, CheckpointInv, changeVars, commitVars
  <1>6. InOrder'
    BY <1>1, <1>2, <1>3, OrderedSame DEF VCInv, InOrder, changeVars, checkpointVars, commitVars
  <1>7. (VotesAreForTheLast /\ QueuesInOrder)'
    BY <1>1, CommitsLeftAlone DEF changeVars, commitVars
  <1> QED BY <1>1, <1>4, <1>5, <1>6, <1>7, ReportsLeftAlone DEF VCInv

\* It has the PREPs for what it has stored.
LEMMA PrepareInv ==
  ASSUME VCInv, CheckpointInv', NEW n \in Node, Prepare(n)
  PROVE  VCInv'
  <1>1. /\ Runs /\ n \in Replica /\ prepared[n] + 1 =< got[n]
        /\ prepared' = [prepared EXCEPT ![n] = prepared[n] + 1]
        /\ UNCHANGED <<executed, checkpointVars, got, changeVars, commitVars, aborted>>
    BY DEF Prepare
  <1>2. /\ got \in [Replica -> 0 .. MaxBatch] /\ prepared \in [Replica -> 0 .. MaxBatch]
        /\ executed \in [Node -> Nat]
    BY InvTypes
  <1>3. /\ prepared' \in [Replica -> 0 .. MaxBatch]
        /\ \A m \in Replica : prepared[m] =< prepared'[m]
                              /\ (prepared[m] =< got[m] => prepared'[m] =< got[m])
    BY <1>1, <1>2, SizesType
  <1>4. aborted' \in [Node -> Assertions \cup {None}] /\ RefusalExplained'
    <2>1. \E why \in {"late", "ready", None} : Abort(n, why) \/ UNCHANGED aborted
      BY <1>1
    <2> QED BY <1>1, <2>1, NothingRefused DEF VCInv
  <1>5. VCTypeOK'
    BY <1>1, <1>3, <1>4 DEF VCInv, VCTypeOK, CheckpointInv, changeVars, commitVars
  <1>6. InOrder'
    <2>1. UNCHANGED <<executed, got, accepted, g_last_stable_chkpt, executeMsgs>> /\ Ordered' = Ordered
      BY <1>1, OrderedSame DEF changeVars, checkpointVars, commitVars
    <2>2. ASSUME NEW m \in Replica
          PROVE  /\ Interval =< prepared'[m] /\ prepared'[m] =< got[m] /\ got[m] =< Ordered
                 /\ ~accepted[m] => executed[m] + Len(executeMsgs[m]) =< prepared'[m]
      <3>1. /\ Interval =< prepared[m] /\ prepared[m] =< got[m] /\ got[m] =< Ordered
            /\ ~accepted[m] => executed[m] + Len(executeMsgs[m]) =< prepared[m]
        BY DEF VCInv, InOrder
      <3>2. executed[m] \in Nat /\ Len(executeMsgs[m]) \in Nat
        BY InvTypes DEF Replica
      <3>3. prepared[m] \in Nat /\ prepared'[m] \in Nat
        BY <1>2, <1>3, SizesType
      <3> QED BY <1>3, <3>1, <3>2, <3>3, SizesType
    <2> QED BY <2>1, <2>2 DEF VCInv, InOrder
  <1>7. (VotesAreForTheLast /\ QueuesInOrder)'
    BY <1>1, CommitsLeftAlone DEF changeVars, commitVars
  <1> QED BY <1>1, <1>4, <1>5, <1>6, <1>7, ReportsLeftAlone DEF VCInv

\* The assertion about the checkpoints of two reports ends a node at most.
LEMMA CompareReportsInv ==
  ASSUME VCInv, CheckpointInv', NEW n \in Node, NEW s \in Node, CompareReports(n, s)
  PROVE  VCInv'
  <1>1. /\ Runs /\ Abort(n, "index")
        /\ report[n] # None /\ report[s] # None /\ report[n].index # report[s].index
        /\ UNCHANGED <<executed, checkpointVars, agreementVars, changeVars, commitVars>>
    BY DEF CompareReports
  <1>2. g_last_stable_chkpt[n] # g_last_stable_chkpt[s]
    BY <1>1 DEF VCInv, ReportsInOrder
  <1>3. aborted' \in [Node -> Assertions \cup {None}] /\ RefusalExplained'
    BY <1>1, <1>2, IndexExplained DEF checkpointVars
  <1>4. VCTypeOK'
    BY <1>1, <1>3 DEF VCInv, VCTypeOK, CheckpointInv, agreementVars, changeVars, commitVars
  <1>5. InOrder'
    BY <1>1, OrderedSame
    DEF VCInv, InOrder, agreementVars, changeVars, checkpointVars, commitVars
  <1>6. (VotesAreForTheLast /\ QueuesInOrder)'
    BY <1>1, CommitsLeftAlone DEF changeVars, commitVars
  <1> QED BY <1>1, <1>3, <1>4, <1>5, <1>6, ReportsLeftAlone DEF VCInv

\* A batch with a COMMIT of every node it needs has been sent; a replica has
\* prepared it.
LEMMA CommittedIsSent ==
  ASSUME VCInv, NEW n \in Node, NEW b \in Nat, SentCommit(n, b)
  PROVE  b =< MaxBatch /\ (n \in Replica => b =< prepared[n])
  <1>1. got \in [Replica -> 0 .. MaxBatch] /\ prepared \in [Replica -> 0 .. MaxBatch]
    BY InvTypes
  <1>2. CASE n = Primary
    <2> DEFINE S == {r \in Replica : got[r] >= b}
    <2>1. Cardinality(S) >= 2 * F
      BY <1>2 DEF SentCommit
    <2>2. S # {}
      BY <2>1, SizesType, FS_EmptySet
    <2> QED BY <1>1, <1>2, <2>2, SizesType DEF Replica
  <1>3. CASE n # Primary
    <2>1. n \in Replica /\ prepared[n] >= b
      BY <1>3 DEF SentCommit, Replica
    <2> QED BY <1>1, <2>1, SizesType
  <1> QED BY <1>2, <1>3

\* A batch is left for the execution thread.
LEMMA CommitInv ==
  ASSUME VCInv, CheckpointInv', NEW n \in Node, Commit(n)
  PROVE  VCInv'
  <1> DEFINE b == executed[n] + Len(executeMsgs[n]) + 1
  <1>1. /\ Runs /\ SentCommit(n, b)
        /\ executeMsgs' = [executeMsgs EXCEPT ![n] = Append(@, b)]
        /\ UNCHANGED <<executed, checkpointVars, agreementVars, changeVars,
                       voted, recommitted, aborted>>
    BY DEF Commit
  <1>2. /\ executed \in [Node -> Nat] /\ executeMsgs \in [Node -> Seq(1 .. MaxBatch)]
        /\ \A m \in Node : Len(executeMsgs[m]) \in Nat
        /\ prepared \in [Replica -> 0 .. MaxBatch]
    BY InvTypes
  <1>3. /\ b \in Nat /\ b > 0 /\ b =< MaxBatch /\ (n \in Replica => b =< prepared[n])
    <2>1. b \in Nat /\ b > 0
      BY <1>2
    <2> HIDE DEF b
    <2> QED BY <1>1, <2>1, CommittedIsSent
  <1>4. /\ \A m \in Node \ {n} : executeMsgs'[m] = executeMsgs[m]
        /\ executeMsgs'[n] = Append(executeMsgs[n], b)
        /\ Len(executeMsgs'[n]) = Len(executeMsgs[n]) + 1
        /\ executeMsgs' \in [Node -> Seq(1 .. MaxBatch)]
    <2>1. b \in 1 .. MaxBatch
      BY <1>3, SizesType
    <2> HIDE DEF b
    <2>2. Append(executeMsgs[n], b) \in Seq(1 .. MaxBatch)
      BY <1>2, <2>1
    <2> QED BY <1>1, <1>2, <2>2
  <1>5. RefusalExplained' /\ aborted' \in [Node -> Assertions \cup {None}]
    <2>1. \E why \in {"late", "ready", None} : Abort(n, why) \/ UNCHANGED aborted
      BY <1>1
    <2> QED BY <1>1, <2>1, NothingRefused DEF VCInv
  <1>6. VCTypeOK'
    BY <1>1, <1>4, <1>5 DEF VCInv, VCTypeOK, CheckpointInv, agreementVars, changeVars
  <1>7. InOrder'
    <2>1. UNCHANGED <<executed, got, prepared, accepted, g_last_stable_chkpt>>
          /\ Ordered' = Ordered
      BY <1>1, OrderedSame DEF agreementVars, changeVars, checkpointVars
    <2>2. ASSUME NEW m \in Replica, ~accepted[m]
          PROVE  executed[m] + Len(executeMsgs'[m]) =< prepared[m]
      <3>1. executed[m] + Len(executeMsgs[m]) =< prepared[m] /\ m \in Node
        BY <2>2 DEF VCInv, InOrder, Replica
      <3>2. CASE m = n
        BY <1>2, <1>3, <1>4, <2>2, <3>2
      <3>3. CASE m # n
        BY <1>4, <3>1, <3>3
      <3> QED BY <3>2, <3>3
    <2> QED BY <2>1, <2>2 DEF VCInv, InOrder
  <1>8. VotesAreForTheLast'
    BY <1>1 DEF VCInv, VotesAreForTheLast, changeVars, Proposed, LastProposed
  <1>9. QueuesInOrder'
    <2> SUFFICES ASSUME NEW m \in Node, NEW i \in DOMAIN executeMsgs'[m]
                 PROVE  executeMsgs'[m][i] = executed[m] + i
                        \/ executeMsgs'[m][i] \in recommitted[m]
      BY <1>1 DEF QueuesInOrder
    <2>1. CASE m # n
      BY <1>4, <2>1 DEF VCInv, QueuesInOrder
    <2>2. CASE m = n
      <3> DEFINE q == executeMsgs[n]
      <3>1. q \in Seq(1 .. MaxBatch) /\ executeMsgs'[m] = Append(q, b) /\ Len(q) \in Nat
        BY <1>2, <1>4, <2>2
      <3>2. b = executed[n] + (Len(q) + 1)
        BY <1>2
      <3> HIDE DEF q, b
      <3>3. CASE i = Len(q) + 1
        BY <2>2, <3>1, <3>2, <3>3
      <3>4. CASE i # Len(q) + 1
        <4>1. i \in DOMAIN q /\ executeMsgs'[m][i] = q[i]
          BY <3>1, <3>4
        <4> QED BY <2>2, <4>1 DEF VCInv, QueuesInOrder, q
      <3> QED BY <3>3, <3>4
    <2> QED BY <2>1, <2>2
  <1> QED BY <1>1, <1>5, <1>6, <1>7, <1>8, <1>9, ReportsLeftAlone DEF VCInv

\* The execution thread finds a batch out of turn.
LEMMA OutOfTurnInv ==
  ASSUME VCInv, CheckpointInv', NEW n \in Node, Runs, Abort(n, "execute"),
         executeMsgs[n] # <<>>, Head(executeMsgs[n]) # executed[n] + 1,
         UNCHANGED <<executed, checkpointVars, agreementVars, changeVars, commitVars>>
  PROVE  VCInv'
  <1> DEFINE b == Head(executeMsgs[n])
  <1>1. b \in recommitted[n]
    <2>1. executeMsgs[n] \in Seq(1 .. MaxBatch)
      BY InvTypes
    <2>2. 1 \in DOMAIN executeMsgs[n] /\ b = executeMsgs[n][1]
      BY <2>1
    <2> QED BY <2>2 DEF VCInv, QueuesInOrder
  <1>2. b = LastProposed
    BY <1>1 DEF VCInv, VotesAreForTheLast
  <1>3. aborted \in [Node -> Assertions \cup {None}] /\ \A m \in Node : aborted[m] = None
    BY InvTypes DEF Runs
  <1>4. /\ aborted' \in [Node -> Assertions \cup {None}]
        /\ \A m \in Node : aborted'[m] = IF m = n THEN "execute" ELSE None
    BY <1>3 DEF Abort, Assertions
  <1>5. UNCHANGED <<executeMsgs, recommitted, newView>> /\ LastProposed' = LastProposed
    BY DEF commitVars, changeVars, LastProposed
  <1>6. RefusalExplained'
    <2>1. None \notin {"checkpoint", "gap", "new_view", "store", "index", "execute"}
      BY NoneAssumption DEF Assertions
    <2>2. \A m \in Node : aborted'[m] \notin {"checkpoint", "gap", "new_view", "store", "index"}
      BY <1>4, <2>1
    <2>3. \A m \in Node : aborted'[m] = "execute" =>
             Head(executeMsgs'[m]) = LastProposed' /\ LastProposed' \in recommitted'[m]
      BY <1>1, <1>2, <1>4, <1>5, <2>1
    <2> QED BY <2>2, <2>3 DEF RefusalExplained
  <1>7. VCTypeOK'
    BY <1>4 DEF VCInv, VCTypeOK, CheckpointInv, agreementVars, changeVars, commitVars
  <1>8. InOrder'
    BY OrderedSame DEF VCInv, InOrder, agreementVars, changeVars, checkpointVars, commitVars
  <1>9. (VotesAreForTheLast /\ QueuesInOrder)'
    BY CommitsLeftAlone DEF changeVars, commitVars
  <1> QED BY <1>6, <1>7, <1>8, <1>9, ReportsLeftAlone DEF VCInv

\* A node executes a batch of the old view or of the new one.
LEMMA ExecuteNextInv ==
  ASSUME VCInv, CheckpointInv', NEW n \in Node, ExecuteNext(n)
  PROVE  VCInv'
  <1> DEFINE q == executeMsgs[n]
             b == Head(q)
  <1>1. /\ Runs /\ q # <<>>
        /\ UNCHANGED <<checkpointVars, agreementVars, changeVars, voted, recommitted>>
        /\ \/ /\ b # executed[n] + 1
              /\ Abort(n, "execute") /\ UNCHANGED <<executed, executeMsgs>>
           \/ /\ b = executed[n] + 1
              /\ executed' = [executed EXCEPT ![n] = executed[n] + 1]
              /\ executeMsgs' = [executeMsgs EXCEPT ![n] = Tail(q)]
              /\ UNCHANGED aborted
    BY DEF ExecuteNext, Execute
  <1> SUFFICES ASSUME b = executed[n] + 1,
                      executed' = [executed EXCEPT ![n] = executed[n] + 1],
                      executeMsgs' = [executeMsgs EXCEPT ![n] = Tail(q)],
                      UNCHANGED aborted
               PROVE  VCInv'
    BY <1>1, OutOfTurnInv DEF commitVars
  <1>2. /\ executed \in [Node -> Nat] /\ ExecutedOK
        /\ executeMsgs \in [Node -> Seq(1 .. MaxBatch)]
    BY InvTypes
  <1>3. /\ q \in Seq(1 .. MaxBatch) /\ b \in 1 .. MaxBatch
        /\ Tail(q) \in Seq(1 .. MaxBatch)
        /\ Len(q) \in Nat /\ Len(q) > 0 /\ Len(Tail(q)) = Len(q) - 1
        /\ \A i \in DOMAIN Tail(q) : i \in Nat /\ i + 1 \in DOMAIN q /\ Tail(q)[i] = q[i + 1]
    <2>1. q \in Seq(1 .. MaxBatch) /\ q # <<>>
      BY <1>1, <1>2
    <2> HIDE DEF q
    <2> QED BY <2>1, QueueTail
  <1>4. /\ executed' \in [Node -> Nat]
        /\ \A m \in Node : executed[m] =< executed'[m]
        /\ \A m \in Node \ {n} : /\ executed'[m] = executed[m]
                                 /\ executeMsgs'[m] = executeMsgs[m]
        /\ executed'[n] = executed[n] + 1 /\ executeMsgs'[n] = Tail(q)
        /\ executeMsgs' \in [Node -> Seq(1 .. MaxBatch)]
    <2> HIDE DEF q, b
    <2> QED BY <1>2, <1>3
  <1>5. ExecutedOK'
    BY <1>2, <1>3, <1>4, SizesType DEF ExecutedOK
  <1>6. /\ Ordered \in Nat /\ Ordered' \in Nat
        /\ Ordered =< Ordered' /\ Ordered' =< MaxBatch
    BY <1>2, <1>4, <1>5, OrderedGrows
  <1>7. aborted' \in [Node -> Assertions \cup {None}] /\ RefusalExplained'
    <2>1. \E why \in {"late", "ready", None} : Abort(n, why) \/ UNCHANGED aborted
      OBVIOUS
    <2> QED BY <1>1, <2>1, NothingRefused DEF VCInv
  <1>8. VCTypeOK'
    <2>1. \A m \in Node : executed'[m] \in 0 .. MaxBatch
      BY <1>5, SizesType DEF ExecutedOK
    <2> QED BY <1>1, <1>4, <1>7, <2>1 DEF VCInv, VCTypeOK, CheckpointInv, agreementVars, changeVars
  <1>9. UNCHANGED <<g_last_stable_chkpt, g_pbft_chkpt_msgs, got, prepared, accepted, report,
                    g_pbft_view_change_msgs, newView, voted, recommitted>>
    BY <1>1 DEF checkpointVars, agreementVars, changeVars
  <1> HIDE DEF q, b
  <1>10. InOrder'
    <2>1. ASSUME NEW m \in Replica
          PROVE  /\ Interval =< prepared[m] /\ prepared[m] =< got[m] /\ got[m] =< Ordered'
                 /\ ~accepted[m] => executed'[m] + Len(executeMsgs'[m]) =< prepared[m]
      <3>1. /\ Interval =< prepared[m] /\ prepared[m] =< got[m] /\ got[m] =< Ordered
            /\ ~accepted[m] => executed[m] + Len(executeMsgs[m]) =< prepared[m]
        BY DEF VCInv, InOrder
      <3>2. got[m] \in Nat /\ m \in Node
        BY InvTypes, SizesType DEF Replica
      <3>3. got[m] =< Ordered'
        BY <1>6, <3>1, <3>2
      <3>4. executed'[m] + Len(executeMsgs'[m]) = executed[m] + Len(executeMsgs[m])
        <4>1. CASE m = n
          <5>1. executed[n] \in Nat /\ Len(executeMsgs[n]) = Len(q)
            BY <1>2 DEF q
          <5> QED BY <1>3, <1>4, <4>1, <5>1
        <4>2. CASE m # n
          BY <1>4, <3>2, <4>2
        <4> QED BY <4>1, <4>2
      <3> QED BY <3>1, <3>3, <3>4
    <2> QED BY <1>5, <1>9, <2>1 DEF VCInv, InOrder, ExecutedOK
  <1>11. ListsFinite' /\ MessagesAreReports'
    BY <1>9 DEF VCInv, ListsFinite, MessagesAreReports, ToSet
  <1>12. ReportsInOrder'
    <2>1. ASSUME NEW m \in Node, report[m] # None
          PROVE  /\ m \notin {Primary, NextPrimary}
                 /\ report[m].index >= Interval
                 /\ report[m].index = g_last_stable_chkpt[m]
                 /\ \A c \in report[m].batches : report[m].index < c /\ c =< Ordered'
                 /\ Ordered' =< report[m].index + Slots =>
                       \A c \in report[m].batches :
                           report[m].index + 1 .. c \subseteq report[m].batches
      <3>1. report[m].index \in Nat /\ report[m].batches \in SUBSET Nat
        BY <2>1, InvTypes
      <3>2. /\ m \notin {Primary, NextPrimary}
            /\ report[m].index >= Interval
            /\ report[m].index = g_last_stable_chkpt[m]
            /\ \A c \in report[m].batches : report[m].index < c /\ c =< Ordered
            /\ Ordered =< report[m].index + Slots =>
                  \A c \in report[m].batches :
                      report[m].index + 1 .. c \subseteq report[m].batches
        BY <2>1 DEF VCInv, ReportsInOrder
      <3>3. \A c \in report[m].batches : c =< Ordered'
        BY <1>6, <3>1, <3>2
      <3>4. Ordered' =< report[m].index + Slots => Ordered =< report[m].index + Slots
        BY <1>6, <3>1, SizesType
      <3> QED BY <3>2, <3>3, <3>4
    <2> QED BY <1>9, <2>1 DEF ReportsInOrder
  <1>13. NewViewIsOfReports'
    <2>1. Proposed' = Proposed /\ InPlace' = InPlace
          /\ Reports(g_pbft_view_change_msgs)' = Reports(g_pbft_view_change_msgs)
      BY <1>9 DEF Proposed, InPlace, Reports, ToSet
    <2>2. ASSUME newView # None
          PROVE  Ordered' =< newView.index + Slots => Ordered =< newView.index + Slots
      <3>1. newView.index \in Nat
        BY <2>2, InvTypes
      <3> QED BY <1>6, <3>1, SizesType
    <2> QED BY <1>9, <2>1, <2>2 DEF VCInv, NewViewIsOfReports, ToSet
  <1>14. VotesAreForTheLast'
    BY <1>9 DEF VCInv, VotesAreForTheLast, Proposed, LastProposed
  <1>15. QueuesInOrder'
    <2> SUFFICES ASSUME NEW m \in Node, NEW i \in DOMAIN executeMsgs'[m]
                 PROVE  executeMsgs'[m][i] = executed'[m] + i
                        \/ executeMsgs'[m][i] \in recommitted[m]
      BY <1>9 DEF QueuesInOrder
    <2>1. CASE m # n
      BY <1>4, <2>1 DEF VCInv, QueuesInOrder
    <2>2. CASE m = n
      <3>1. /\ i \in Nat /\ i + 1 \in DOMAIN executeMsgs[n]
            /\ executeMsgs'[m][i] = executeMsgs[n][i + 1]
        BY <1>3, <1>4, <2>2 DEF q
      <3>2. \/ executeMsgs[n][i + 1] = executed[n] + (i + 1)
            \/ executeMsgs[n][i + 1] \in recommitted[n]
        BY <3>1 DEF VCInv, QueuesInOrder
      <3>3. executed[n] + (i + 1) = executed'[m] + i
        BY <1>2, <1>4, <2>2, <3>1
      <3> QED BY <2>2, <3>1, <3>2, <3>3
    <2> QED BY <2>1, <2>2
  <1> QED BY <1>7, <1>8, <1>10, <1>11, <1>12, <1>13, <1>14, <1>15 DEF VCInv

\* A CHECKPOINT reaches n, which has neither reported nor accepted.
LEMMA TakeCheckpointInv ==
  ASSUME VCInv, CheckpointInv, CheckpointInv', NEW n \in Node, NEW s \in Node,
         TakeCheckpoint(n, s)
  PROVE  VCInv'
  <1>1. /\ Runs /\ report[n] = None /\ ~accepted[n] /\ HandleCheckpoint(n, s)
        /\ UNCHANGED <<executed, agreementVars, changeVars, commitVars, aborted>>
    BY DEF TakeCheckpoint, HandleCheckpoint
  <1>2. UNCHANGED <<executed, got, prepared, accepted, report,
                    g_pbft_view_change_msgs, newView, executeMsgs>>
    BY <1>1 DEF agreementVars, changeVars, commitVars
  <1>3. /\ g_last_stable_chkpt \in [Node -> Nat]
        /\ \A m \in Node \ {n} : /\ g_last_stable_chkpt'[m] = g_last_stable_chkpt[m]
                                 /\ g_pbft_chkpt_msgs'[m] = g_pbft_chkpt_msgs[m]
        /\ g_pbft_chkpt_msgs'[n] \subseteq
              g_pbft_chkpt_msgs[n] \cup {[index |-> NextCheckpoint(n, s), return_node |-> s]}
    BY <1>1 DEF HandleCheckpoint, Kept, CheckpointInv, CheckpointTypeOK
  <1>4. \A m \in Node : g_last_stable_chkpt'[m] >= g_last_stable_chkpt[m]
    <2>1. [CheckpointNext]_<<executed, checkpointVars>>
      BY <1>1 DEF CheckpointNext
    <2>2. \/ \A m \in Node : g_last_stable_chkpt'[m] >= g_last_stable_chkpt[m]
          \/ UNCHANGED checkpointVars
      BY <2>1, NextStableMonotone
    <2> QED BY <1>3, <2>2 DEF checkpointVars
  <1>5. aborted' \in [Node -> Assertions \cup {None}] /\ RefusalExplained'
    <2>1. \E why \in {"late", "ready", None} : Abort(n, why) \/ UNCHANGED aborted
      BY <1>1
    <2> QED BY <1>1, <2>1, NothingRefused DEF VCInv
  <1>6. VCTypeOK'
    BY <1>1, <1>5 DEF VCInv, VCTypeOK, CheckpointInv, agreementVars, changeVars, commitVars
  <1>7. Ordered' = Ordered
    BY <1>1, OrderedSame
  <1>8. InOrder'
    <2>1. ASSUME NEW m \in Node PROVE Interval =< g_last_stable_chkpt'[m]
      <3>1. Interval =< g_last_stable_chkpt[m]
        BY DEF VCInv, InOrder
      <3>2. g_last_stable_chkpt[m] \in Nat /\ g_last_stable_chkpt'[m] \in Nat
        BY <1>3 DEF CheckpointInv, CheckpointTypeOK
      <3> QED BY <1>4, <3>1, <3>2, SizesType
    <2> QED BY <1>2, <1>7, <2>1 DEF VCInv, InOrder
  <1>9. ListsFinite'
    <2>1. ASSUME NEW m \in Node PROVE IsFiniteSet(g_pbft_chkpt_msgs'[m])
      <3>1. IsFiniteSet(g_pbft_chkpt_msgs[m])
        BY DEF VCInv, ListsFinite
      <3>2. CASE m = n
        <4> DEFINE new == [index |-> NextCheckpoint(n, s), return_node |-> s]
                   L == g_pbft_chkpt_msgs[n] \cup {new}
        <4> HIDE DEF new
        <4>1. IsFiniteSet(L)
          BY <3>1, <3>2, FS_AddElement
        <4>2. g_pbft_chkpt_msgs'[n] \in SUBSET L
          BY <1>3 DEF new
        <4> HIDE DEF L
        <4> QED BY <3>2, <4>1, <4>2, FS_Subset
      <3>3. CASE m # n
        BY <1>3, <3>1, <3>3
      <3> QED BY <3>2, <3>3
    <2> QED BY <2>1 DEF ListsFinite
  <1>10. ReportsInOrder' /\ MessagesAreReports'
    <2>1. \A m \in Node : report[m] # None => g_last_stable_chkpt'[m] = g_last_stable_chkpt[m]
      BY <1>1, <1>3
    <2> QED BY <1>2, <1>7, <2>1 DEF VCInv, ReportsInOrder, MessagesAreReports, ToSet
  <1>11. NewViewIsOfReports'
    <2>1. Proposed' = Proposed /\ InPlace' = InPlace
          /\ Reports(g_pbft_view_change_msgs)' = Reports(g_pbft_view_change_msgs)
      BY <1>2 DEF Proposed, InPlace, Reports, ToSet
    <2>2. newView # None => g_last_stable_chkpt'[NextPrimary] = g_last_stable_chkpt[NextPrimary]
      <3>1. newView # None => accepted[NextPrimary]
        BY DEF VCInv, NewViewIsOfReports
      <3> QED BY <1>1, <1>3, <3>1, ViewChangeAssumption
    <2> QED BY <1>2, <1>7, <2>1, <2>2 DEF VCInv, NewViewIsOfReports, ToSet
  <1>12. (VotesAreForTheLast /\ QueuesInOrder)'
    BY <1>1, CommitsLeftAlone DEF changeVars, commitVars
  <1> QED BY <1>5, <1>6, <1>8, <1>9, <1>10, <1>11, <1>12 DEF VCInv

\* A node accepts the new view, or an assertion ends it.
LEMMA AcceptNewViewInv ==
  ASSUME VCInv, CheckpointInv, CheckpointInv', NEW n \in Node, AcceptNewView(n)
  PROVE  VCInv'
  <1>1. /\ Runs /\ n \notin {Primary, NextPrimary} /\ newView # None /\ ~accepted[n]
        /\ UNCHANGED <<executed, checkpointVars, agreementVars, report,
                       g_pbft_view_change_msgs, newView, commitVars>>
        /\ \/ ~InPlace /\ Abort(n, "new_view") /\ UNCHANGED <<accepted, lost>>
           \/ Abort(n, "ready") /\ UNCHANGED <<accepted, lost>>
           \/ /\ InPlace /\ UNCHANGED aborted
              /\ accepted' = [accepted EXCEPT ![n] = TRUE]
              /\ \E early \in SUBSET Node : lost' = [lost EXCEPT ![n] = early]
    <2>1. \A early \in SUBSET {s \in Others(n) \ {NextPrimary} : accepted[s]} :
             early \in SUBSET Node
      BY DEF Others, Replica
    <2> QED BY <2>1 DEF AcceptNewView, InPlace
  <1>2. UNCHANGED <<executed, got, prepared, g_last_stable_chkpt, g_pbft_chkpt_msgs, report,
                    g_pbft_view_change_msgs, newView, voted, recommitted, executeMsgs>>
    BY <1>1 DEF agreementVars, checkpointVars, commitVars
  <1>3. /\ newView.index \in Nat /\ newView.content \in Seq(Nat)
        /\ newView.index = g_last_stable_chkpt[NextPrimary]
        /\ Ordered =< newView.index + Slots => InPlace
        /\ accepted[NextPrimary]
        /\ Ordered \in Nat
    BY <1>1, InvTypes DEF VCInv, NewViewIsOfReports
  <1>4. Ordered' = Ordered
    BY <1>1, OrderedSame
  <1>5. accepted \in [Node -> BOOLEAN] /\ lost \in [Node -> SUBSET Node]
    BY InvTypes
  <1>6. ListsFinite' /\ ReportsInOrder' /\ MessagesAreReports'
    BY <1>2, <1>4 DEF VCInv, ListsFinite, ReportsInOrder, MessagesAreReports, ToSet
  <1>7. Proposed' = Proposed /\ InPlace' = InPlace
        /\ Reports(g_pbft_view_change_msgs)' = Reports(g_pbft_view_change_msgs)
    BY <1>2 DEF Proposed, InPlace, Reports, ToSet
  <1>8. (VotesAreForTheLast /\ QueuesInOrder)'
    <2>1. \A m \in Node : accepted[m] => accepted'[m]
      BY <1>1, <1>5
    <2> QED BY <1>2, <2>1, CommitsLeftAlone
  <1>9. ASSUME UNCHANGED <<accepted, lost>>,
               aborted' \in [Node -> Assertions \cup {None}], RefusalExplained'
        PROVE  VCInv'
    <2>1. VCTypeOK'
      BY <1>2, <1>9 DEF VCInv, VCTypeOK, CheckpointInv
    <2>2. InOrder'
      BY <1>2, <1>4, <1>9 DEF VCInv, InOrder
    <2>3. NewViewIsOfReports'
      BY <1>2, <1>4, <1>7, <1>9 DEF VCInv, NewViewIsOfReports, ToSet
    <2> QED BY <1>6, <1>8, <1>9, <2>1, <2>2, <2>3 DEF VCInv
  <1>10. CASE ~InPlace /\ Abort(n, "new_view") /\ UNCHANGED <<accepted, lost>>
    <2>1. aborted \in [Node -> Assertions \cup {None}] /\ \A m \in Node : aborted[m] = None
      BY <1>1, InvTypes DEF Runs
    <2>2. /\ aborted' \in [Node -> Assertions \cup {None}]
          /\ \A m \in Node : aborted'[m] = IF m = n THEN "new_view" ELSE None
      BY <1>10, <2>1 DEF Abort, Assertions
    <2>3. Ordered > g_last_stable_chkpt[NextPrimary] + Slots
      BY <1>3, <1>10, SizesType
    <2>4. RefusalExplained'
      <3>1. \A m \in Node : aborted'[m] \notin {"checkpoint", "index", "execute"}
        BY <2>2, NoneAssumption DEF Assertions
      <3>2. Ordered' > g_last_stable_chkpt'[NextPrimary] + Slots
        BY <1>2, <1>4, <2>3
      <3> QED BY <3>1, <3>2 DEF RefusalExplained
    <2> QED BY <1>9, <1>10, <2>2, <2>4
  <1>11. CASE Abort(n, "ready") /\ UNCHANGED <<accepted, lost>>
    BY <1>1, <1>9, <1>11, NothingRefused DEF VCInv
  <1>12. CASE /\ InPlace /\ UNCHANGED aborted
              /\ accepted' = [accepted EXCEPT ![n] = TRUE]
              /\ \E early \in SUBSET Node : lost' = [lost EXCEPT ![n] = early]
    <2>1. lost' \in [Node -> SUBSET Node] /\ accepted' \in [Node -> BOOLEAN]
      BY <1>5, <1>12
    <2>2. /\ \A m \in Node \ {n} : accepted'[m] = accepted[m]
          /\ accepted'[n] = TRUE
      BY <1>5, <1>12
    <2>3. aborted' \in [Node -> Assertions \cup {None}] /\ RefusalExplained'
      <3>1. \E why \in {"late", "ready", None} : Abort(n, why) \/ UNCHANGED aborted
        BY <1>12
      <3> QED BY <1>1, <3>1, NothingRefused DEF VCInv
    <2>4. VCTypeOK'
      BY <1>2, <2>1, <2>3 DEF VCInv, VCTypeOK, CheckpointInv
    <2>5. InOrder'
      <3>1. \A m \in Node : ~accepted'[m] => ~accepted[m]
        BY <2>2
      <3>2. ~accepted'[Primary]
        BY <1>1, <2>2, ViewChangeAssumption DEF VCInv, InOrder
      <3> QED BY <1>2, <1>4, <3>1, <3>2 DEF VCInv, InOrder, Replica
    <2>6. NewViewIsOfReports'
      <3>1. accepted'[NextPrimary] = accepted[NextPrimary]
        BY <1>1, <2>2, ViewChangeAssumption
      <3> QED BY <1>1, <1>2, <1>3, <1>4, <1>7, <1>12, <3>1 DEF VCInv, NewViewIsOfReports, ToSet
    <2> QED BY <1>6, <1>8, <2>3, <2>4, <2>5, <2>6 DEF VCInv
  <1> QED BY <1>1, <1>10, <1>11, <1>12

-----------------------------------------------------------------------------
(* The new view *)

\* What is proposed is one of the batches.
LEMMA ProposedIsSent ==
  ASSUME VCInv, NEW n \in Node, accepted[n]
  PROVE  /\ newView # None
         /\ newView.index \in Nat /\ Len(newView.content) \in Nat
         /\ LastProposed \in Nat
         /\ Proposed \subseteq 1 .. MaxBatch
  <1>1. newView # None
    BY DEF VCInv, NewViewIsOfReports
  <1>2. /\ newView.index \in Nat /\ Len(newView.content) \in Nat
        /\ newView.index + Len(newView.content) =< MaxBatch
    BY <1>1, InvTypes DEF VCInv, NewViewIsOfReports
  <1> QED BY <1>1, <1>2, SizesType DEF Proposed, LastProposed

\* A node sends its COMMIT in the new view.
LEMMA PrepareInNewViewInv ==
  ASSUME VCInv, CheckpointInv', NEW n \in Node, PrepareInNewView(n)
  PROVE  VCInv'
  <1>1. PICK b \in Proposed : /\ ~HeldBack(n, b)
                              /\ voted' = [voted EXCEPT ![n] = @ \cup {b}]
    BY DEF PrepareInNewView, VotesInNewView, HasNewPreps
  <1>2. /\ Runs /\ accepted[n]
        /\ UNCHANGED <<executed, checkpointVars, agreementVars, changeVars,
                       recommitted, executeMsgs, aborted>>
    BY DEF PrepareInNewView
  <1>3. b \in 1 .. MaxBatch /\ (n # NextPrimary => b = LastProposed)
    BY <1>1, <1>2, ProposedIsSent DEF HeldBack
  <1>4. voted \in [Node -> SUBSET (1 .. MaxBatch)]
    BY InvTypes
  <1>5. /\ voted' \in [Node -> SUBSET (1 .. MaxBatch)]
        /\ voted'[n] = voted[n] \cup {b}
        /\ \A m \in Node \ {n} : voted'[m] = voted[m]
    BY <1>1, <1>3, <1>4
  <1>6. aborted' \in [Node -> Assertions \cup {None}] /\ RefusalExplained'
    <2>1. \E why \in {"late", "ready", None} : Abort(n, why) \/ UNCHANGED aborted
      BY <1>2
    <2> QED BY <1>2, <2>1, NothingRefused DEF VCInv
  <1>7. VCTypeOK'
    BY <1>2, <1>5, <1>6 DEF VCInv, VCTypeOK, CheckpointInv, agreementVars, changeVars
  <1>8. InOrder'
    BY <1>2, OrderedSame DEF VCInv, InOrder, agreementVars, changeVars, checkpointVars
  <1>9. VotesAreForTheLast'
    <2>1. Proposed' = Proposed /\ LastProposed' = LastProposed /\ UNCHANGED accepted
      BY <1>2 DEF Proposed, LastProposed, changeVars
    <2> SUFFICES ASSUME NEW m \in Node
                 PROVE  /\ voted'[m] # {} => accepted[m]
                        /\ \A c \in voted'[m] :
                              c \in Proposed /\ (m # NextPrimary => c = LastProposed)
                        /\ recommitted[m] \subseteq voted'[m]
                        /\ \A c \in recommitted[m] : c = LastProposed
      BY <1>2, <2>1 DEF VotesAreForTheLast
    <2>2. /\ voted[m] # {} => accepted[m]
          /\ \A c \in voted[m] : c \in Proposed /\ (m # NextPrimary => c = LastProposed)
          /\ recommitted[m] \subseteq voted[m]
          /\ \A c \in recommitted[m] : c = LastProposed
      BY DEF VCInv, VotesAreForTheLast
    <2>3. CASE m = n
      BY <1>1, <1>2, <1>3, <1>5, <2>2, <2>3
    <2>4. CASE m # n
      BY <1>5, <2>2, <2>4
    <2> QED BY <2>3, <2>4
  <1>10. QueuesInOrder'
    BY <1>2 DEF VCInv, QueuesInOrder
  <1> QED BY <1>2, <1>6, <1>7, <1>8, <1>9, <1>10, ReportsLeftAlone DEF VCInv

\* A batch is committed in the new view: it is the last one, since a node other
\* than the next primary has voted for it.
LEMMA CommitInNewViewInv ==
  ASSUME VCInv, CheckpointInv', NEW n \in Node, CommitInNewView(n)
  PROVE  VCInv'
  <1>1. PICK b \in voted[n] \ recommitted[n] :
           /\ CommitsInNewView(n, b)
           /\ recommitted' = [recommitted EXCEPT ![n] = @ \cup {b}]
           /\ executeMsgs' = [executeMsgs EXCEPT ![n] = Append(@, b)]
    BY DEF CommitInNewView
  <1>2. /\ Runs
        /\ UNCHANGED <<executed, checkpointVars, agreementVars, changeVars, voted, aborted>>
    BY DEF CommitInNewView
  <1>3. /\ voted \in [Node -> SUBSET (1 .. MaxBatch)]
        /\ recommitted \in [Node -> SUBSET (1 .. MaxBatch)]
        /\ executeMsgs \in [Node -> Seq(1 .. MaxBatch)]
    BY InvTypes
  <1>4. accepted[n] /\ b \in 1 .. MaxBatch
    BY <1>1, <1>3 DEF VCInv, VotesAreForTheLast
  <1>5. b = LastProposed
    <2>1. CASE n # NextPrimary
      BY <1>1, <2>1 DEF VCInv, VotesAreForTheLast
    <2>2. CASE n = NextPrimary
      <3> DEFINE S == {s \in Node \ {n} : b \in voted[s]}
      <3>1. Cardinality(S) >= 2 * F
        BY <1>1 DEF CommitsInNewView
      <3>2. S # {}
        BY <3>1, SizesType, FS_EmptySet
      <3> QED BY <2>2, <3>2 DEF VCInv, VotesAreForTheLast
    <2> QED BY <2>1, <2>2
  <1>6. /\ recommitted' \in [Node -> SUBSET (1 .. MaxBatch)]
        /\ recommitted'[n] = recommitted[n] \cup {b}
        /\ \A m \in Node \ {n} : recommitted'[m] = recommitted[m]
    BY <1>1, <1>3, <1>4
  <1>7. /\ executeMsgs' \in [Node -> Seq(1 .. MaxBatch)]
        /\ executeMsgs'[n] = Append(executeMsgs[n], b)
        /\ \A m \in Node \ {n} : executeMsgs'[m] = executeMsgs[m]
    <2>1. Append(executeMsgs[n], b) \in Seq(1 .. MaxBatch)
      BY <1>3, <1>4
    <2> QED BY <1>1, <1>3, <2>1
  <1>8. aborted' \in [Node -> Assertions \cup {None}] /\ RefusalExplained'
    <2>1. \E why \in {"late", "ready", None} : Abort(n, why) \/ UNCHANGED aborted
      BY <1>2
    <2> QED BY <1>2, <2>1, NothingRefused DEF VCInv
  <1>9. VCTypeOK'
    BY <1>2, <1>6, <1>7, <1>8 DEF VCInv, VCTypeOK, CheckpointInv, agreementVars, changeVars
  <1>10. InOrder'
    <2>1. UNCHANGED <<executed, got, prepared, accepted, g_last_stable_chkpt>>
          /\ Ordered' = Ordered
      BY <1>2, OrderedSame DEF agreementVars, changeVars, checkpointVars
    <2>2. \A m \in Replica : ~accepted[m] => executeMsgs'[m] = executeMsgs[m]
      BY <1>4, <1>7 DEF Replica
    <2> QED BY <2>1, <2>2 DEF VCInv, InOrder
  <1>11. VotesAreForTheLast'
    <2>1. Proposed' = Proposed /\ LastProposed' = LastProposed /\ UNCHANGED accepted
      BY <1>2 DEF Proposed, LastProposed, changeVars
    <2> SUFFICES ASSUME NEW m \in Node
                 PROVE  /\ voted[m] # {} => accepted[m]
                        /\ \A c \in voted[m] :
                              c \in Proposed /\ (m # NextPrimary => c = LastProposed)
                        /\ recommitted'[m] \subseteq voted[m]
                        /\ \A c \in recommitted'[m] : c = LastProposed
      BY <1>2, <2>1 DEF VotesAreForTheLast
    <2>2. /\ voted[m] # {} => accepted[m]
          /\ \A c \in voted[m] : c \in Proposed /\ (m # NextPrimary => c = LastProposed)
          /\ recommitted[m] \subseteq voted[m]
          /\ \A c \in recommitted[m] : c = LastProposed
      BY DEF VCInv, VotesAreForTheLast
    <2>3. CASE m = n
      BY <1>1, <1>5, <1>6, <2>2, <2>3
    <2>4. CASE m # n
      BY <1>6, <2>2, <2>4
    <2> QED BY <2>3, <2>4
  <1>12. QueuesInOrder'
    <2> SUFFICES ASSUME NEW m \in Node, NEW i \in DOMAIN executeMsgs'[m]
                 PROVE  executeMsgs'[m][i] = executed[m] + i
                        \/ executeMsgs'[m][i] \in recommitted'[m]
      BY <1>2 DEF QueuesInOrder
    <2>1. CASE m # n
      BY <1>6, <1>7, <2>1 DEF VCInv, QueuesInOrder
    <2>2. CASE m = n
      <3> DEFINE q == executeMsgs[n]
      <3>1. q \in Seq(1 .. MaxBatch) /\ executeMsgs'[m] = Append(q, b) /\ Len(q) \in Nat
        BY <1>3, <1>7, <2>2
      <3> HIDE DEF q
      <3>2. CASE i = Len(q) + 1
        BY <1>6, <2>2, <3>1, <3>2
      <3>3. CASE i # Len(q) + 1
        <4>1. i \in DOMAIN q /\ executeMsgs'[m][i] = q[i]
          BY <3>1, <3>3
        <4> QED BY <1>6, <2>2, <4>1 DEF VCInv, QueuesInOrder, q
      <3> QED BY <3>2, <3>3
    <2> QED BY <2>1, <2>2
  <1> QED BY <1>2, <1>8, <1>9, <1>10, <1>11, <1>12, ReportsLeftAlone DEF VCInv

-----------------------------------------------------------------------------
(* The change of view *)

\* A list of replicas, and one more.
LEMMA ListMembers ==
  ASSUME NEW q \in Seq(Replica)
  PROVE  /\ ToSet(q) \subseteq Replica
         /\ \A s \in Replica : /\ Append(q, s) \in Seq(Replica)
                              /\ ToSet(Append(q, s)) = ToSet(q) \cup {s}
                              /\ Len(Append(q, s)) = Len(q) + 1
                              /\ DOMAIN Append(q, s) = 1 .. Len(q) + 1
                              /\ Append(q, s)[Len(q) + 1] = s
                              /\ \A i \in 1 .. Len(q) : Append(q, s)[i] = q[i]
  <1>1. /\ Len(q) \in Nat /\ DOMAIN q = 1 .. Len(q)
        /\ \A i \in 1 .. Len(q) : q[i] \in Replica
    OBVIOUS
  <1>2. ASSUME NEW s \in Replica
        PROVE  /\ Append(q, s) \in Seq(Replica)
               /\ Len(Append(q, s)) = Len(q) + 1
               /\ DOMAIN Append(q, s) = 1 .. Len(q) + 1
               /\ Append(q, s)[Len(q) + 1] = s
               /\ \A i \in 1 .. Len(q) : Append(q, s)[i] = q[i]
    OBVIOUS
  <1>3. ASSUME NEW s \in Replica PROVE ToSet(Append(q, s)) = ToSet(q) \cup {s}
    <2> DEFINE p == Append(q, s)
    <2>1. /\ DOMAIN p = 1 .. Len(q) + 1 /\ p[Len(q) + 1] = s
          /\ \A i \in 1 .. Len(q) : p[i] = q[i]
      BY <1>2
    <2> HIDE DEF p
    <2>2. ASSUME NEW x \in ToSet(p) PROVE x \in ToSet(q) \cup {s}
      <3>1. PICK i \in 1 .. Len(q) + 1 : x = p[i]
        BY <2>1 DEF ToSet
      <3>2. i = Len(q) + 1 \/ i \in 1 .. Len(q)
        BY <1>1
      <3> QED BY <1>1, <2>1, <3>1, <3>2 DEF ToSet
    <2>3. ASSUME NEW x \in ToSet(q) PROVE x \in ToSet(p)
      <3>1. PICK i \in 1 .. Len(q) : x = q[i]
        BY <1>1 DEF ToSet
      <3>2. i \in 1 .. Len(q) + 1
        BY <1>1
      <3> QED BY <2>1, <3>1, <3>2 DEF ToSet
    <2>4. s \in ToSet(p)
      <3>1. Len(q) + 1 \in 1 .. Len(q) + 1
        BY <1>1
      <3> QED BY <2>1, <3>1 DEF ToSet
    <2> QED BY <2>2, <2>3, <2>4 DEF p
  <1>4. ToSet(q) \subseteq Replica
    BY <1>1 DEF ToSet
  <1> QED BY <1>2, <1>3, <1>4

\* What a report lists of the batches after the checkpoint.
LEMMA ReportedInOrder ==
  ASSUME VCInv, CheckpointInv, NEW n \in Replica, NEW h \in Handled(n)
  PROVE  LET k == g_last_stable_chkpt[n]
         IN /\ Reported(n, h) \in SUBSET Nat
            /\ \A b \in Reported(n, h) : k < b /\ b =< Ordered
            /\ Ordered =< k + Slots =>
                  \A b \in Reported(n, h) : k + 1 .. b \subseteq Reported(n, h)
  <1> DEFINE k == g_last_stable_chkpt[n]
             Has(b) == {s \in Others(n) : Holds(h[s], b)}
  <1>1. /\ k \in Nat /\ n \in Node /\ Ordered \in Nat /\ Ordered =< MaxBatch
        /\ got \in [Replica -> 0 .. MaxBatch]
    BY InvTypes DEF Replica
  <1>2. \A m \in Replica : got[m] \in Nat /\ got[m] =< Ordered
    BY <1>1, SizesType DEF VCInv, InOrder
  <1>3. \A s \in Others(n) : h[s] \in Nat /\ h[s] =< Ordered
    <2>1. \A s \in Others(n) : h[s] \in Interval .. MaxBatch /\ h[s] =< got[s] /\ s \in Replica
      BY DEF Handled, Others
    <2> QED BY <1>1, <1>2, <2>1, SizesType
  <1>4. \A b : b \in Reported(n, h) <=>
          /\ b \in k + 1 .. MaxBatch /\ Holds(got[n], b)
          /\ EnoughToReport(1 + Cardinality(Has(b)))
    BY DEF Reported
  <1>5. ASSUME NEW b \in Reported(n, h) PROVE b \in Nat /\ k < b /\ b =< Ordered
    <2>1. b \in k + 1 .. MaxBatch /\ b =< got[n]
      BY <1>4 DEF Holds
    <2>2. got[n] \in Nat /\ got[n] =< Ordered
      BY <1>2
    <2> QED BY <1>1, <2>1, <2>2, SizesType
  <1>6. ASSUME Ordered =< k + Slots, NEW b \in Reported(n, h), NEW c \in k + 1 .. b
        PROVE  c \in Reported(n, h)
    <2>1. b \in Nat /\ c \in Nat /\ c =< b /\ k < c /\ c =< MaxBatch
      BY <1>1, <1>5, SizesType
    <2>2. Holds(got[n], c)
      <3>1. b =< got[n]
        BY <1>4 DEF Holds
      <3> QED BY <1>1, <1>2, <1>6, <2>1, <3>1, SizesType DEF Holds
    <2>3. Has(b) \subseteq Has(c)
      <3> SUFFICES ASSUME NEW s \in Others(n), Holds(h[s], b) PROVE Holds(h[s], c)
        OBVIOUS
      <3>1. b =< h[s] /\ h[s] \in Nat /\ h[s] =< Ordered
        BY <1>3 DEF Holds
      <3> QED BY <1>1, <1>6, <2>1, <3>1, SizesType DEF Holds
    <2>4. /\ Cardinality(Has(b)) \in Nat /\ Cardinality(Has(c)) \in Nat
          /\ Cardinality(Has(b)) =< Cardinality(Has(c))
      <3>1. Has(c) \in SUBSET Node
        BY DEF Others, Replica
      <3> HIDE DEF Has
      <3> QED BY <2>3, <3>1, MoreNodes
    <2>5. EnoughToReport(1 + Cardinality(Has(c)))
      <3>1. EnoughToReport(1 + Cardinality(Has(b)))
        BY <1>4
      <3> HIDE DEF Has
      <3> QED BY <2>4, <3>1, SizesType DEF EnoughToReport
    <2> QED BY <1>4, <2>1, <2>2, <2>5, <1>1, SizesType
  <1> QED BY <1>5, <1>6

\* A new report.
LEMMA TimerRunsOutIs ==
  ASSUME VCInv, CheckpointInv, NEW n \in Node, TimerRunsOut(n)
  PROVE  /\ Runs /\ n \in Replica /\ n # NextPrimary /\ ~accepted[n] /\ report[n] = None
         /\ \E h \in Handled(n), d \in 0 .. MaxBatch :
               /\ \/ \E m \in Node : report[m] # None
                  \/ \E m \in Node : d = executed[m]
               /\ report' = [report EXCEPT ![n] =
                     [index |-> g_last_stable_chkpt[n], batches |-> Reported(n, h), done |-> d]]
         /\ UNCHANGED <<executed, checkpointVars, agreementVars, accepted,
                        g_pbft_view_change_msgs, newView, lost, commitVars, aborted>>
  <1>1. ~(Cardinality(g_pbft_chkpt_msgs[n]) < 2 * F)
    <2>1. g_last_stable_chkpt[n] > 0
      <3>1. Interval =< g_last_stable_chkpt[n] /\ g_last_stable_chkpt[n] \in Nat
        BY InvTypes DEF VCInv, InOrder
      <3> QED BY <3>1, SizesType
    <2> QED BY <2>1, ChkptsEnough DEF VCInv
  <1>2. PICK h \in Handled(n) : report' = [report EXCEPT ![n] =
                   [index |-> g_last_stable_chkpt[n],
                    batches |-> Reported(n, h),
                    done |-> IF \E m \in Node : report[m] # None THEN MaxBatch
                            ELSE Max({executed[m] : m \in Node})]]
    BY <1>1 DEF TimerRunsOut
  <1> DEFINE d == IF \E m \in Node : report[m] # None THEN MaxBatch
                  ELSE Max({executed[m] : m \in Node})
  <1>3. d \in 0 .. MaxBatch
    BY InvTypes, MaxExecuted, SizesType
  <1>4. (\E m \in Node : report[m] # None) \/ \E m \in Node : d = executed[m]
    BY InvTypes, MaxExecuted
  <1>5. report' = [report EXCEPT ![n] =
           [index |-> g_last_stable_chkpt[n], batches |-> Reported(n, h), done |-> d]]
    BY <1>2
  <1> HIDE DEF d
  <1> QED BY <1>1, <1>3, <1>4, <1>5 DEF TimerRunsOut, Replica

\* The timer of a replica runs out, and it reports.
LEMMA TimerRunsOutInv ==
  ASSUME VCInv, CheckpointInv, CheckpointInv', NEW n \in Node, TimerRunsOut(n)
  PROVE  VCInv'
  <1>1. /\ Runs /\ n \in Replica /\ n # NextPrimary /\ report[n] = None
        /\ UNCHANGED <<executed, checkpointVars, agreementVars, accepted,
                       g_pbft_view_change_msgs, newView, lost, commitVars, aborted>>
    BY TimerRunsOutIs
  <1>2. PICK h \in Handled(n), d \in 0 .. MaxBatch :
           report' = [report EXCEPT ![n] =
               [index |-> g_last_stable_chkpt[n], batches |-> Reported(n, h), done |-> d]]
    BY TimerRunsOutIs
  <1> DEFINE k == g_last_stable_chkpt[n]
             B == Reported(n, h)
             r == [index |-> k, batches |-> B, done |-> d]
  <1>3. k \in Nat /\ Interval =< k
    BY InvTypes DEF VCInv, InOrder
  <1>4. /\ B \in SUBSET Nat
        /\ \A b \in B : k < b /\ b =< Ordered
        /\ Ordered =< k + Slots => \A b \in B : k + 1 .. b \subseteq B
    BY <1>1, ReportedInOrder
  <1>5. r \in Report /\ r.index = k /\ r.batches = B /\ r.done = d
    <2> HIDE DEF k, B
    <2> QED BY <1>3, <1>4, SizesType DEF Report
  <1>6. Ordered' = Ordered
    BY <1>1, OrderedSame
  <1>7. /\ UNCHANGED <<g_last_stable_chkpt, g_pbft_chkpt_msgs, got, prepared>>
        /\ aborted' \in [Node -> Assertions \cup {None}] /\ RefusalExplained'
    <2>1. \E why \in {"late", "ready", None} : Abort(n, why) \/ UNCHANGED aborted
      BY <1>1
    <2> QED BY <1>1, <2>1, NothingRefused DEF VCInv, checkpointVars, agreementVars
  <1> HIDE DEF r, k, B
  <1>8. \A m \in Node : report'[m] # None =>
          \/ m = n /\ report'[m] = r
          \/ report[m] # None /\ report'[m] = report[m]
    BY <1>2 DEF r, k, B
  <1>9. \A m \in Node : report[m] # None => report'[m] = report[m]
    BY <1>1, <1>2
  <1>10. VCTypeOK'
    <2>1. report' \in [Node -> Report \cup {None}]
      BY <1>2, <1>5, InvTypes DEF r, k, B
    <2> QED BY <1>1, <1>7, <2>1 DEF VCInv, VCTypeOK, CheckpointInv, agreementVars, commitVars
  <1>11. InOrder' /\ ListsFinite'
    BY <1>1, <1>6, <1>7 DEF VCInv, InOrder, ListsFinite, commitVars
  <1>12. ReportsInOrder'
    <2>1. n \notin {Primary, NextPrimary}
      BY <1>1 DEF Replica
    <2>2. r.index >= Interval
      BY <1>3, <1>5, SizesType
    <2>3. r.index = g_last_stable_chkpt'[n]
      BY <1>5, <1>7 DEF k
    <2> QED BY <1>4, <1>5, <1>6, <1>7, <1>8, <2>1, <2>2, <2>3 DEF VCInv, ReportsInOrder
  <1>13. \A s \in ToSet(g_pbft_view_change_msgs) : report'[s] = report[s] /\ report[s] # None
    <2>1. \A s \in ToSet(g_pbft_view_change_msgs) : s \in Node /\ report[s] # None
      BY InvTypes, ListMembers DEF VCInv, MessagesAreReports, Replica
    <2> QED BY <1>9, <2>1
  <1>14. MessagesAreReports'
    BY <1>1, <1>13 DEF VCInv, MessagesAreReports, ToSet
  <1>15. NewViewIsOfReports'
    <2>1. Proposed' = Proposed /\ InPlace' = InPlace
      BY <1>1 DEF Proposed, InPlace
    <2>2. Reports(g_pbft_view_change_msgs)' = Reports(g_pbft_view_change_msgs)
      BY <1>1, <1>13 DEF Reports, ToSet
    <2>3. \A s \in ToSet(g_pbft_view_change_msgs) : report'[s].index = report[s].index
      BY <1>13
    <2> QED BY <1>1, <1>6, <1>7, <2>1, <2>2, <2>3 DEF VCInv, NewViewIsOfReports, ToSet
  <1>16. (VotesAreForTheLast /\ QueuesInOrder)'
    BY <1>1, CommitsLeftAlone DEF commitVars
  <1> QED BY <1>7, <1>10, <1>11, <1>12, <1>14, <1>15, <1>16 DEF VCInv

\* The outcomes of a report that reaches the next primary.
LEMMA HandleReportIs ==
  ASSUME NEW s \in Node, HandleReport(s)
  PROVE  LET msgs == Append(g_pbft_view_change_msgs, s)
             k == g_last_stable_chkpt[NextPrimary]
             found == Reports(msgs)
             places == {k + i : i \in 1 .. Cardinality(found)}
             OneCheckpoint == \A r \in ToSet(msgs) : report[r].index = k
         IN \E failure \in {None, "index", "gap", "store"} :
               /\ Abort(NextPrimary, failure)
               /\ failure = "index" => ~OneCheckpoint \/ report[s].index # k
               /\ failure = "gap" => OneCheckpoint /\ found # places
               /\ failure = "store" =>
                     /\ OneCheckpoint /\ found = places
                     /\ \E b \in places : ~Holds(got[NextPrimary], b)
               /\ \/ failure # None /\ UNCHANGED <<accepted, newView>>
                  \/ Len(msgs) < 2 * F /\ UNCHANGED <<accepted, newView>>
                  \/ /\ ~(Len(msgs) < 2 * F) /\ failure = None
                     /\ OneCheckpoint /\ found = places
                     /\ newView' = [index |-> k, content |-> Contents(k, msgs)]
                     /\ accepted' = [accepted EXCEPT ![NextPrimary] = TRUE]
  <1> DEFINE msgs == Append(g_pbft_view_change_msgs, s)
             k == g_last_stable_chkpt[NextPrimary]
             found == Reports(msgs)
             places == {k + i : i \in 1 .. Cardinality(found)}
             Differ == \E r \in ToSet(msgs) : report[r].index # report[s].index
             Lacks == \E b \in places : ~Holds(got[NextPrimary], b)
             few == Len(msgs) < 2 * F
             OneCheckpoint == \A r \in ToSet(msgs) : report[r].index = k
             nv == [index |-> k, content |-> Contents(k, msgs)]
             failure == IF Differ THEN "index"
                        ELSE IF few THEN None
                        ELSE IF report[s].index # k THEN "index"
                        ELSE IF found # places THEN "gap"
                        ELSE IF Lacks THEN "store"
                        ELSE None
  <1>1. /\ Abort(NextPrimary, failure)
        /\ IF failure # None \/ few
           THEN UNCHANGED <<accepted, newView>>
           ELSE /\ newView' = nv
                /\ accepted' = [accepted EXCEPT ![NextPrimary] = TRUE]
    BY DEF HandleReport
  <1>2. /\ ~Differ /\ report[s].index = k => OneCheckpoint
        /\ Differ => ~OneCheckpoint \/ report[s].index # k
    OBVIOUS
  <1>3. None # "index" /\ None # "gap" /\ None # "store"
    BY NoneAssumption DEF Assertions
  <1> HIDE DEF msgs, k, found, places, Differ, Lacks, few, OneCheckpoint, nv
  <1>4. /\ failure \in {None, "index", "gap", "store"}
        /\ failure = "index" => ~OneCheckpoint \/ report[s].index # k
        /\ failure = "gap" => OneCheckpoint /\ found # places
        /\ failure = "store" => OneCheckpoint /\ found = places /\ Lacks
        /\ ~(failure # None \/ few) => OneCheckpoint /\ found = places
    BY <1>2, <1>3
  <1> HIDE DEF failure
  <1>5. \E f \in {None, "index", "gap", "store"} :
           /\ Abort(NextPrimary, f)
           /\ f = "index" => ~OneCheckpoint \/ report[s].index # k
           /\ f = "gap" => OneCheckpoint /\ found # places
           /\ f = "store" => OneCheckpoint /\ found = places /\ Lacks
           /\ \/ f # None /\ UNCHANGED <<accepted, newView>>
              \/ few /\ UNCHANGED <<accepted, newView>>
              \/ /\ ~few /\ f = None
                 /\ OneCheckpoint /\ found = places
                 /\ newView' = nv
                 /\ accepted' = [accepted EXCEPT ![NextPrimary] = TRUE]
    BY <1>1, <1>4
  <1> QED BY <1>5, Zenon DEF msgs, k, found, places, Lacks, few, OneCheckpoint, nv

\* A report reaches the next primary, which may send the new view.
LEMMA HandleReportInv ==
  ASSUME VCInv, CheckpointInv, CheckpointInv', NEW s \in Node, HandleReport(s)
  PROVE  VCInv'
  <1> DEFINE old == g_pbft_view_change_msgs
             msgs == Append(old, s)
             k == g_last_stable_chkpt[NextPrimary]
             found == Reports(msgs)
             places == {k + i : i \in 1 .. Cardinality(found)}
             OneCheckpoint == \A r \in ToSet(msgs) : report[r].index = k
  <1>1. /\ Runs /\ ~accepted[NextPrimary] /\ report[s] # None
        /\ s \notin ToSet(old) /\ g_pbft_view_change_msgs' = msgs
        /\ UNCHANGED <<executed, checkpointVars, agreementVars, report, lost, commitVars>>
    BY DEF HandleReport
  <1>2. UNCHANGED <<executed, got, prepared, g_last_stable_chkpt, g_pbft_chkpt_msgs, report,
                    voted, recommitted, executeMsgs>>
    BY <1>1 DEF agreementVars, checkpointVars, commitVars
  <1>3. Ordered' = Ordered
    BY <1>1, OrderedSame
  <1>4. s \in Replica /\ NextPrimary \in Node
    BY <1>1, SizesType DEF VCInv, ReportsInOrder, Replica
  <1>5. /\ old \in Seq(Replica) /\ msgs \in Seq(Replica)
        /\ ToSet(msgs) = ToSet(old) \cup {s} /\ ToSet(msgs) \subseteq Replica
        /\ Len(msgs) \in Nat
        /\ DOMAIN msgs = 1 .. Len(old) + 1 /\ msgs[Len(old) + 1] = s
        /\ \A i \in 1 .. Len(old) : msgs[i] = old[i]
        /\ Len(old) \in Nat /\ DOMAIN old = 1 .. Len(old)
    <2>1. old \in Seq(Replica)
      BY InvTypes
    <2>2. Len(old) \in Nat /\ DOMAIN old = 1 .. Len(old)
      BY <2>1
    <2> HIDE DEF old
    <2> QED BY <1>4, <2>1, <2>2, ListMembers
  <1> HIDE DEF msgs
  <1>6. MessagesAreReports'
    <2>1. \A r \in ToSet(msgs) : report[r] # None
      BY <1>1, <1>5 DEF VCInv, MessagesAreReports
    <2>2. ASSUME NEW i \in DOMAIN msgs, NEW j \in DOMAIN msgs, msgs[i] = msgs[j]
          PROVE  i = j
      <3>1. \A x \in DOMAIN msgs : x = Len(old) + 1 \/ x \in 1 .. Len(old)
        BY <1>5
      <3>2. \A x \in 1 .. Len(old) : msgs[x] # s
        BY <1>1, <1>5 DEF ToSet
      <3>3. i \in 1 .. Len(old) /\ j \in 1 .. Len(old) => i = j
        BY <1>5, <2>2 DEF VCInv, MessagesAreReports
      <3> QED BY <1>5, <2>2, <3>1, <3>2, <3>3
    <2> QED BY <1>1, <1>2, <2>1, <2>2 DEF MessagesAreReports
  <1>7. newView = None /\ \A m \in Node : ~accepted[m]
    BY <1>1 DEF VCInv, NewViewIsOfReports
  <1>8. /\ k \in Nat /\ k =< MaxBatch /\ Ordered \in Nat /\ Ordered =< MaxBatch
        /\ executed[NextPrimary] \in 0 .. MaxBatch
    <2>1. executed[NextPrimary] \in 0 .. MaxBatch
      BY <1>4 DEF VCInv, VCTypeOK
    <2> QED BY <1>4, <2>1, InvTypes, StableIsSent, SizesType
  <1>9. \A r \in ToSet(msgs) :
          /\ report[r].batches \in SUBSET Nat
          /\ \A b \in report[r].batches : report[r].index < b /\ b =< Ordered
          /\ Ordered =< report[r].index + Slots =>
                \A b \in report[r].batches :
                    report[r].index + 1 .. b \subseteq report[r].batches
    <2>1. \A r \in ToSet(msgs) : r \in Node /\ report[r] # None
      BY <1>1, <1>5 DEF VCInv, MessagesAreReports, Replica
    <2> QED BY <2>1, InvTypes DEF VCInv, ReportsInOrder
  <1>10. ASSUME OneCheckpoint
         PROVE  found \subseteq k + 1 .. Ordered
    BY <1>8, <1>9, <1>10 DEF Reports
  <1>11. ASSUME OneCheckpoint, Ordered =< k + Slots
         PROVE  WholeReports(msgs, k)
    <2>1. ASSUME NEW r \in ToSet(msgs)
          PROVE  /\ report[r].index = k
                 /\ report[r].batches \subseteq k + 1 .. k + Slots
                 /\ \A b \in report[r].batches : k + 1 .. b \subseteq report[r].batches
      <3>1. report[r].index = k
        BY <1>11
      <3>2. \A b \in report[r].batches : b \in Nat /\ k < b /\ b =< Ordered
        BY <1>9, <3>1
      <3>3. report[r].batches \subseteq k + 1 .. k + Slots
        BY <1>8, <1>11, <3>2, SizesType
      <3> QED BY <1>9, <1>11, <3>1, <3>3
    <2> QED BY <1>5, <2>1 DEF WholeReports
  <1>12. PICK failure \in {None, "index", "gap", "store"} :
           /\ Abort(NextPrimary, failure)
           /\ failure = "index" => ~OneCheckpoint \/ report[s].index # k
           /\ failure = "gap" => OneCheckpoint /\ found # places
           /\ failure = "store" =>
                 /\ OneCheckpoint /\ found = places
                 /\ \E b \in places : ~Holds(got[NextPrimary], b)
           /\ \/ failure # None /\ UNCHANGED <<accepted, newView>>
              \/ Len(msgs) < 2 * F /\ UNCHANGED <<accepted, newView>>
              \/ /\ ~(Len(msgs) < 2 * F) /\ failure = None
                 /\ OneCheckpoint /\ found = places
                 /\ newView' = [index |-> k, content |-> Contents(k, msgs)]
                 /\ accepted' = [accepted EXCEPT ![NextPrimary] = TRUE]
    BY HandleReportIs, Zenon DEF msgs
  <1>13. aborted' \in [Node -> Assertions \cup {None}]
         /\ \A m \in Node : aborted'[m] = IF m = NextPrimary THEN failure ELSE None
    <2>1. aborted \in [Node -> Assertions \cup {None}] /\ \A m \in Node : aborted[m] = None
      BY <1>1, InvTypes DEF Runs
    <2>2. failure \in Assertions \cup {None}
      BY DEF Assertions
    <2> QED BY <1>12, <2>1, <2>2 DEF Abort
  <1>14. RefusalExplained'
    <2>1. None \notin {"checkpoint", "gap", "new_view", "store"}
      BY NoneAssumption DEF Assertions
    <2>2. \A m \in Node : aborted'[m] # "checkpoint"
      BY <1>13, <2>1
    <2>3. ASSUME NEW m \in Node, aborted'[m] \in {"gap", "new_view", "store"},
                 ~(Ordered > k + Slots)
          PROVE  /\ aborted'[m] = "store"
                 /\ \E r \in ToSet(msgs) : \E b \in report[r].batches : b > got[NextPrimary]
      <3>1. failure \in {"gap", "store"} /\ aborted'[m] = failure
        BY <1>12, <1>13, <2>1, <2>3
      <3>2. OneCheckpoint /\ Ordered =< k + Slots
        BY <1>8, <1>12, <2>3, <3>1, SizesType
      <3>3. WholeReports(msgs, k)
        BY <1>11, <3>2
      <3>4. found = places
        BY <1>8, <3>3, WholeReportsInPlace
      <3>5. failure = "store"
        BY <1>12, <3>1, <3>4
      <3>6. PICK b \in found : ~Holds(got[NextPrimary], b)
        BY <1>12, <3>5
      <3>7. b \in Nat /\ k < b
        BY <1>8, <1>10, <3>2
      <3>8. got[NextPrimary] \in Nat /\ got[NextPrimary] =< Ordered
        BY InvTypes, SizesType DEF VCInv, InOrder
      <3>9. b > got[NextPrimary]
        BY <1>8, <3>2, <3>6, <3>7, <3>8, SizesType DEF Holds
      <3>10. \E r \in ToSet(msgs) : b \in report[r].batches
        BY DEF Reports
      <3> QED BY <3>1, <3>5, <3>9, <3>10
    <2>4. ASSUME failure = "index" PROVE \E m \in Node : g_last_stable_chkpt[m] > Interval
      <3>1. \A r \in ToSet(msgs) : r \in Node /\ report[r] # None
        BY <1>1, <1>5 DEF VCInv, MessagesAreReports, Replica
      <3>2. \E r \in Node : report[r] # None /\ report[r].index # k
        BY <1>1, <1>12, <2>4, <3>1
      <3>3. \E r \in Node : g_last_stable_chkpt[r] # g_last_stable_chkpt[NextPrimary]
        BY <3>2 DEF VCInv, ReportsInOrder
      <3>4. NextPrimary \in Node
        BY ViewChangeAssumption
      <3> QED BY <3>3, <3>4, OneIsPastFirst
    <2>5. \A m \in Node : aborted'[m] # "execute" /\ (aborted'[m] = "index" => failure = "index")
      BY <1>13, NoneAssumption DEF Assertions
    <2> QED BY <1>1, <1>2, <1>3, <2>2, <2>3, <2>4, <2>5 DEF RefusalExplained
  <1>15. ListsFinite' /\ ReportsInOrder'
    BY <1>2, <1>3 DEF VCInv, ListsFinite, ReportsInOrder
  <1>16. CASE UNCHANGED <<accepted, newView>>
    <2>4. (VotesAreForTheLast /\ QueuesInOrder)'
      BY <1>2, <1>16, CommitsLeftAlone
    <2>1. VCTypeOK'
      BY <1>1, <1>2, <1>5, <1>13, <1>16 DEF VCInv, VCTypeOK, CheckpointInv
    <2>2. InOrder'
      BY <1>2, <1>3, <1>16 DEF VCInv, InOrder
    <2>3. NewViewIsOfReports'
      BY <1>7, <1>16 DEF VCInv, NewViewIsOfReports
    <2> QED BY <1>6, <1>14, <1>15, <2>1, <2>2, <2>3, <2>4 DEF VCInv
  <1>17. CASE /\ ~(Len(msgs) < 2 * F) /\ failure = None
              /\ OneCheckpoint /\ found = places
              /\ newView' = [index |-> k, content |-> Contents(k, msgs)]
              /\ accepted' = [accepted EXCEPT ![NextPrimary] = TRUE]
    <2> DEFINE c == Cardinality(found)
               content == Contents(k, msgs)
    <2>1. c \in Nat /\ k + c =< MaxBatch /\ IsFiniteSet(found)
      <3>1. IsFiniteSet(found) /\ c \in Nat
        <4>1. IsFiniteSet(k + 1 .. Ordered)
          <5>1. k + 1 \in Int /\ Ordered \in Int
            BY <1>8
          <5> HIDE DEF k
          <5> QED BY <5>1, FS_Interval
        <4> HIDE DEF found, k
        <4> QED BY <1>10, <1>17, <4>1, FS_Subset, FS_CardinalityType
      <3>2. CASE c = 0
        BY <1>8, <3>1, <3>2, SizesType
      <3>3. CASE c # 0
        <4>1. c \in 1 .. c
          BY <3>1, <3>3
        <4>2. k + c \in found
          BY <1>17, <4>1
        <4>3. k + c =< Ordered
          BY <1>8, <1>10, <1>17, <4>2
        <4> QED BY <1>8, <3>1, <4>3, SizesType
      <3> QED BY <3>1, <3>2, <3>3
    <2>2. content \in [1 .. c -> Nat] /\ \A pos \in 1 .. c : content[pos] = k + Turn(k + pos, msgs)
      <3>1. \A pos \in 1 .. c : k + Turn(k + pos, msgs) \in Nat
        <4> SUFFICES ASSUME NEW pos \in 1 .. c PROVE Turn(k + pos, msgs) \in Nat
          BY <1>8
        <4> DEFINE S == {x \in found : Precedes(x, k + pos, msgs)}
        <4>1. Cardinality(S) \in Nat
          <5>1. S \in SUBSET found
            OBVIOUS
          <5> HIDE DEF S, found
          <5> QED BY <2>1, <5>1, FS_Subset, FS_CardinalityType
        <4> QED BY <4>1 DEF Turn
      <3> QED BY <3>1 DEF Contents
    <2>3. /\ content \in Seq(Nat) /\ Len(content) = c /\ DOMAIN content = 1 .. c
      <3> HIDE DEF content, c
      <3> QED BY <2>1, <2>2
    <2> HIDE DEF content, c
    <2>4. /\ newView' = [index |-> k, content |-> content]
          /\ newView'.index = k /\ newView'.content = content
          /\ newView' \in NewView /\ newView' # None
      <3>1. newView' = [index |-> k, content |-> content]
        BY <1>17 DEF content
      <3> HIDE DEF k
      <3> QED BY <1>8, <2>3, <3>1, NoneAssumption DEF NewView
    <2>5. /\ accepted' \in [Node -> BOOLEAN]
          /\ accepted'[NextPrimary] /\ \A m \in Node \ {NextPrimary} : ~accepted'[m]
      BY <1>4, <1>7, <1>8, <1>17, InvTypes
    <2>6. VCTypeOK'
      BY <1>1, <1>2, <1>5, <1>13, <2>4, <2>5 DEF VCInv, VCTypeOK, CheckpointInv
    <2>7. InOrder'
      <3>1. \A m \in Node : ~accepted'[m] => ~accepted[m]
        BY <1>7
      <3>2. ~accepted'[Primary]
        BY <2>5, ViewChangeAssumption
      <3> QED BY <1>2, <1>3, <3>1, <3>2 DEF VCInv, InOrder, Replica
    <2>8. ASSUME Ordered =< k + Slots PROVE InPlace'
      <3>1. WholeReports(msgs, k)
        BY <1>11, <1>17, <2>8
      <3>2. \A pos \in 1 .. c : k + Turn(k + pos, msgs) = k + pos
        BY <1>8, <3>1, WholeReportsInPlace DEF c
      <3> QED BY <2>2, <2>3, <2>4, <3>2 DEF InPlace
    <2>9. Proposed' = Reports(g_pbft_view_change_msgs)'
      <3>1. Reports(g_pbft_view_change_msgs)' = found
        BY <1>1, <1>2 DEF Reports, ToSet
      <3>2. Proposed' = k + 1 .. k + c
        BY <2>3, <2>4 DEF Proposed
      <3>3. found = k + 1 .. k + c
        <4>1. found = {k + i : i \in 1 .. c}
          BY <1>17 DEF c
        <4>2. ASSUME NEW b \in k + 1 .. k + c PROVE b \in {k + i : i \in 1 .. c}
          <5>1. b - k \in 1 .. c /\ b = k + (b - k)
            BY <1>8, <2>1 DEF c
          <5> QED BY <5>1
        <4>3. \A i \in 1 .. c : k + i \in k + 1 .. k + c
          BY <1>8, <2>1 DEF c
        <4> HIDE DEF k, found
        <4> QED BY <4>1, <4>2, <4>3
      <3> QED BY <3>1, <3>2, <3>3
    <2>10. NewViewIsOfReports'
      <3>1. newView'.index + Len(newView'.content) =< MaxBatch
        BY <2>1, <2>3, <2>4 DEF c
      <3>2. Len(g_pbft_view_change_msgs)' >= 2 * F
        BY <1>1, <1>5, <1>17, SizesType
      <3>3. \A r \in ToSet(g_pbft_view_change_msgs)' : report'[r].index = newView'.index
        BY <1>1, <1>2, <1>17, <2>4 DEF ToSet
      <3>4. newView'.index = g_last_stable_chkpt'[NextPrimary]
        BY <1>2, <2>4
      <3>5. Ordered' =< newView'.index + Slots => InPlace'
        BY <1>3, <2>4, <2>8
      <3>6. ~\E m \in Replica \ {NextPrimary} : accepted'[m]
        BY <2>5 DEF Replica
      <3> QED BY <2>4, <2>5, <2>9, <3>1, <3>2, <3>3, <3>4, <3>5, <3>6 DEF NewViewIsOfReports, Slots
    <2>11. (VotesAreForTheLast /\ QueuesInOrder)'
      BY <1>2, <1>7, CommitsLeftAlone
    <2> QED BY <1>6, <1>14, <1>15, <2>6, <2>7, <2>10, <2>11 DEF VCInv
  <1> QED BY <1>12, <1>16, <1>17

-----------------------------------------------------------------------------
(* The theorems *)

\* The invariant holds when the clients have sent the first batches.
LEMMA VCInitInv == VCInit => VCInv
  <1> SUFFICES ASSUME VCInit PROVE VCInv
    OBVIOUS
  <1>1. CheckpointInv
    BY VCInitCheckpointInv
  <1>2. /\ executed = [n \in Node |-> Interval]
        /\ g_last_stable_chkpt = [n \in Node |-> Interval]
        /\ got = [n \in Replica |-> Interval]
        /\ prepared = [n \in Replica |-> Interval]
        /\ accepted = [n \in Node |-> FALSE]
        /\ report = [n \in Node |-> None]
        /\ g_pbft_view_change_msgs = <<>>
        /\ newView = None
        /\ lost = [n \in Node |-> {}]
        /\ voted = [n \in Node |-> {}]
        /\ recommitted = [n \in Node |-> {}]
        /\ executeMsgs = [n \in Node |-> <<>>]
        /\ aborted = [n \in Node |-> None]
    BY DEF VCInit
  <1>3. VCTypeOK
    BY <1>1, <1>2, SizesType DEF VCTypeOK, CheckpointInv
  <1>4. Interval =< Ordered
    <2>1. ExecutedOK
      BY <1>2, SizesType DEF ExecutedOK
    <2>2. SentOK
      BY <2>1, SentNow
    <2>3. Interval =< Answered
      <3>1. {n \in Node : executed[n] >= Interval} = Node
        BY <1>2, SizesType
      <3>2. Cardinality(Node) >= 2 * F + 1
        BY NumbersType, NodeAssumption DEF F
      <3>3. Interval \in 0 .. MaxBatch
        BY SizesType
      <3> QED BY <2>2, <3>1, <3>2, <3>3 DEF SentOK
    <2>4. PICK a \in Nat : a = Answered
      BY <2>2, SizesType DEF SentOK
    <2>5. Ordered = IF MaxBatch =< a + Window THEN MaxBatch ELSE a + Window
      BY <2>2, <2>4 DEF SentOK
    <2> QED BY <2>3, <2>4, <2>5, SizesType
  <1>5. InOrder
    BY <1>2, <1>4, SizesType DEF InOrder, Replica
  <1>6. ListsFinite
    <2> SUFFICES ASSUME NEW n \in Node PROVE IsFiniteSet(g_pbft_chkpt_msgs[n])
      BY DEF ListsFinite
    <2> DEFINE A == FirstCheckpoints(n)
               L == [index : {Interval}, return_node : A]
               f == [s \in A |-> [index |-> Interval, return_node |-> s]]
    <2>1. IsFiniteSet(A)
      BY NumbersType DEF FirstCheckpoints
    <2>2. f \in Surjection(A, L)
      BY DEF Surjection
    <2>3. IsFiniteSet(L)
      <3> HIDE DEF A, L, f
      <3> QED BY <2>1, <2>2, FS_Surjection
    <2> QED BY <2>3 DEF VCInit
  <1>7. ReportsInOrder /\ RefusalExplained
    BY <1>2, NoneAssumption DEF ReportsInOrder, RefusalExplained, Assertions
  <1>8. MessagesAreReports /\ NewViewIsOfReports
    BY <1>2, SizesType DEF MessagesAreReports, NewViewIsOfReports, ToSet, Replica
  <1>9. VotesAreForTheLast /\ QueuesInOrder
    BY <1>2 DEF VotesAreForTheLast, QueuesInOrder
  <1> QED BY <1>3, <1>5, <1>6, <1>7, <1>8, <1>9 DEF VCInv

\* Every step keeps it, with that of the checkpoints.
LEMMA VCNextInv == VCInv /\ CheckpointInv /\ CheckpointInv' /\ [VCNext]_vars => VCInv'
  <1> SUFFICES ASSUME VCInv, CheckpointInv, CheckpointInv', [VCNext]_vars PROVE VCInv'
    OBVIOUS
  <1>1. CASE UNCHANGED vars
    <2>1. /\ UNCHANGED <<executed, checkpointVars, agreementVars, changeVars, aborted>>
          /\ UNCHANGED <<accepted, report, g_pbft_view_change_msgs, newView, lost>>
          /\ UNCHANGED <<g_last_stable_chkpt, g_pbft_chkpt_msgs, chkptsTaken>>
          /\ UNCHANGED <<voted, recommitted, executeMsgs>>
          /\ Ordered' = Ordered /\ LastProposed' = LastProposed
      BY <1>1, OrderedSame DEF vars, changeVars, checkpointVars, commitVars, LastProposed
    <2>2. VCTypeOK' /\ InOrder' /\ RefusalExplained'
      BY <2>1 DEF VCInv, VCTypeOK, InOrder, RefusalExplained, CheckpointInv, ToSet,
                  agreementVars
    <2> QED BY <2>1, <2>2, ReportsLeftAlone, CommitsLeftAlone DEF VCInv
  <1>2. CASE VCNext
    <2>1. PICK n \in Node :
            \/ StoreBatch(n) \/ Prepare(n) \/ Commit(n) \/ ExecuteNext(n)
            \/ TimerRunsOut(n) \/ AcceptNewView(n) \/ HandleReport(n)
            \/ PrepareInNewView(n) \/ CommitInNewView(n)
            \/ \E s \in Node : CompareReports(n, s) \/ TakeCheckpoint(n, s)
      BY <1>2 DEF VCNext
    <2> QED BY <2>1, StoreBatchInv, PrepareInv, CommitInv, ExecuteNextInv, TimerRunsOutInv,
               AcceptNewViewInv, HandleReportInv, CompareReportsInv, TakeCheckpointInv,
               PrepareInNewViewInv, CommitInNewViewInv
  <1> QED BY <1>1, <1>2

\* So both hold in every state.
LEMMA VCAlways == VCSpec => [](VCInv /\ CheckpointInv)
  <1>1. VCSpec => []CheckpointInv
    BY VCInitCheckpointInv, VCStepsAreCheckpointSteps, NextCheckpointInv, PTL DEF VCSpec
  <1>2. VCSpec => []VCInv
    BY <1>1, VCInitInv, VCNextInv, PTL DEF VCSpec
  <1> QED BY <1>1, <1>2, PTL

\* No counter of the model leaves its bounds: nothing is stored, prepared or
\* executed that the clients have not sent.
THEOREM ViewChangeTypes == VCSpec => []VCTypeOK
  <1>1. VCInv => VCTypeOK
    BY DEF VCInv
  <1> QED BY <1>1, VCAlways, PTL

\* The reasons for which the assertions of the change of view fail.
THEOREM RefusalsExplained == VCSpec => []RefusalExplained
  <1>1. VCInv => RefusalExplained
    BY DEF VCInv
  <1> QED BY <1>1, VCAlways, PTL

-----------------------------------------------------------------------------
(* Replicas that were behind when they accepted the new view *)

\* With four nodes a replica needs, in the new view, the COMMITs of both others.
LEMMA EveryVoteIsNeeded ==
  ASSUME Cardinality(Node) = 4, VCInv, NEW n \in Replica, NEW m \in Replica, n # m,
         NEW b, CommitsInNewView(n, b)
  PROVE  b \in voted[m]
  <1> DEFINE V == {s \in Node \ {n} : b \in voted[s]}
             R == (Replica \ {n}) \ {m}
  <1> SUFFICES ASSUME b \notin voted[m] PROVE FALSE
    OBVIOUS
  <1>1. V \subseteq R
    BY DEF VCInv, VotesAreForTheLast, InOrder, Replica
  <1>2. IsFiniteSet(R) /\ Cardinality(R) = 1
    <2>1. IsFiniteSet(Replica) /\ Cardinality(Replica) = 3
      BY NodeAssumption, ViewChangeAssumption, FS_RemoveElement DEF Replica
    <2>2. IsFiniteSet(Replica \ {n}) /\ Cardinality(Replica \ {n}) = 2
      BY <2>1, FS_RemoveElement
    <2> QED BY <2>2, FS_RemoveElement
  <1>3. Cardinality(V) >= 2
    <2>1. F = 1
      BY DEF F
    <2> QED BY <2>1 DEF CommitsInNewView
  <1>4. Cardinality(V) =< Cardinality(R) /\ Cardinality(V) \in Nat
    <2> HIDE DEF V, R
    <2> QED BY <1>1, <1>2, FS_Subset, FS_CardinalityType
  <1> QED BY <1>2, <1>3, <1>4

\* What a step does to a replica that is behind and to one it is behind of.
LEMMA StepLeavesBehind ==
  ASSUME Cardinality(Node) = 4
  PROVE  VCInv /\ [VCNext]_vars =>
           [newView # None =>
               \A n, m \in Replica, b \in Proposed :
                   Behind(n, m, b) => Behind(n, m, b)']_vars
  <1> SUFFICES ASSUME VCInv, VCNext, newView # None,
                      NEW n \in Replica, NEW m \in Replica, NEW b \in Proposed,
                      Behind(n, m, b)
               PROVE  Behind(n, m, b)'
    OBVIOUS
  <1>1. /\ n \in Node /\ m \in Node /\ n # m
        /\ accepted[n] /\ executed[n] < b /\ b \notin ToSet(executeMsgs[n])
        /\ accepted[m] /\ executed[m] >= b /\ b \notin voted[m]
        /\ b \in Nat
    <2>1. /\ accepted[n] /\ executed[n] < b /\ b \notin ToSet(executeMsgs[n])
          /\ accepted[m] /\ executed[m] >= b /\ b \notin voted[m]
      BY DEF Behind
    <2>2. n \in Node /\ m \in Node
      BY DEF Replica
    <2>3. b \in Nat
      <3>1. Proposed \subseteq 1 .. MaxBatch
        BY <2>1, <2>2, ProposedIsSent
      <3> QED BY <3>1, SizesType
    <2>4. executed[n] \in Nat /\ executed[m] \in Nat
      BY <2>2, InvTypes
    <2>5. n # m
      BY <2>1, <2>3, <2>4
    <2> QED BY <2>1, <2>2, <2>3, <2>5
  <1>2. /\ executed \in [Node -> Nat] /\ accepted \in [Node -> BOOLEAN]
        /\ executeMsgs \in [Node -> Seq(1 .. MaxBatch)]
        /\ voted \in [Node -> SUBSET (1 .. MaxBatch)]
    BY InvTypes
  <1>3. PICK i \in Node :
          \/ StoreBatch(i) \/ Prepare(i) \/ Commit(i) \/ ExecuteNext(i)
          \/ TimerRunsOut(i) \/ AcceptNewView(i) \/ HandleReport(i)
          \/ PrepareInNewView(i) \/ CommitInNewView(i)
          \/ \E s \in Node : CompareReports(i, s) \/ TakeCheckpoint(i, s)
    BY DEF VCNext
  <1>4. accepted'[n] /\ accepted'[m]
    <2>1. CASE accepted' = accepted
      BY <1>1, <2>1
    <2>2. CASE AcceptNewView(i)
      <3>1. accepted' = accepted \/ accepted' = [accepted EXCEPT ![i] = TRUE]
        BY <2>2 DEF AcceptNewView
      <3> QED BY <1>1, <1>2, <3>1
    <2>3. CASE HandleReport(i)
      <3>1. accepted' = accepted \/ accepted' = [accepted EXCEPT ![NextPrimary] = TRUE]
        BY <2>3 DEF HandleReport
      <3> QED BY <1>1, <1>2, <3>1
    <2>4. CASE StoreBatch(i) \/ Prepare(i) \/ Commit(i) \/ ExecuteNext(i)
      BY <2>1, <2>4 DEF StoreBatch, Prepare, Commit, ExecuteNext, changeVars
    <2>5. CASE PrepareInNewView(i) \/ CommitInNewView(i) \/ TimerRunsOut(i)
      BY <2>1, <2>5 DEF PrepareInNewView, CommitInNewView, TimerRunsOut, changeVars
    <2>6. CASE \E s \in Node : CompareReports(i, s) \/ TakeCheckpoint(i, s)
      BY <2>1, <2>6 DEF CompareReports, TakeCheckpoint, changeVars
    <2> QED BY <1>3, <2>2, <2>3, <2>4, <2>5, <2>6
  <1>5. CASE ExecuteNext(i)
    <2>1. CASE UNCHANGED <<executed, executeMsgs, voted>>
      BY <1>1, <1>4, <2>1 DEF Behind
    <2>2. CASE ~UNCHANGED <<executed, executeMsgs, voted>>
      <3> DEFINE q == executeMsgs[i]
      <3>1. /\ q # <<>> /\ Head(q) = executed[i] + 1
            /\ executed' = [executed EXCEPT ![i] = executed[i] + 1]
            /\ executeMsgs' = [executeMsgs EXCEPT ![i] = Tail(q)]
            /\ voted' = voted
        BY <1>5, <2>2 DEF ExecuteNext, Execute
      <3>2. q \in Seq(1 .. MaxBatch)
        BY <1>2
      <3>3. Head(q) \in ToSet(q) /\ ToSet(Tail(q)) \subseteq ToSet(q)
        <4> HIDE DEF q
        <4>1. /\ 1 \in DOMAIN q /\ Head(q) = q[1]
              /\ \A k \in DOMAIN Tail(q) : k + 1 \in DOMAIN q /\ Tail(q)[k] = q[k + 1]
          BY <3>1, <3>2, QueueTail
        <4> QED BY <4>1 DEF ToSet
      <3>4. executed'[m] >= b
        BY <1>1, <1>2, <3>1
      <3>5. executed'[n] < b /\ b \notin ToSet(executeMsgs'[n])
        <4>1. CASE i = n
          BY <1>1, <1>2, <3>1, <3>3, <4>1
        <4>2. CASE i # n
          BY <1>1, <1>2, <3>1, <4>2
        <4> QED BY <4>1, <4>2
      <3> QED BY <1>1, <1>4, <3>1, <3>4, <3>5 DEF Behind
    <2> QED BY <2>1, <2>2
  <1>6. CASE Commit(i)
    <2>1. i # n /\ UNCHANGED <<executed, voted>> /\ executeMsgs'[n] = executeMsgs[n]
      BY <1>1, <1>2, <1>6 DEF Commit
    <2> QED BY <1>1, <1>4, <2>1 DEF Behind
  <1>7. CASE PrepareInNewView(i)
    <2>1. UNCHANGED <<executed, executeMsgs>>
      BY <1>7 DEF PrepareInNewView
    <2>2. PICK c \in Proposed : executed[i] < c /\ voted' = [voted EXCEPT ![i] = @ \cup {c}]
      BY <1>7 DEF PrepareInNewView, VotesInNewView
    <2>3. b \notin voted'[m]
      <3>1. i = m => c # b
        BY <1>1, <1>2, <2>2
      <3> QED BY <1>1, <1>2, <2>2, <3>1
    <2> QED BY <1>1, <1>4, <2>1, <2>3 DEF Behind
  <1>8. CASE CommitInNewView(i)
    <2>1. UNCHANGED <<executed, voted>>
      BY <1>8 DEF CommitInNewView
    <2>2. PICK c \in voted[i] : CommitsInNewView(i, c)
                              /\ executeMsgs' = [executeMsgs EXCEPT ![i] = Append(@, c)]
      BY <1>8 DEF CommitInNewView
    <2>3. b \notin ToSet(executeMsgs'[n])
      <3>1. CASE i = n
        <4>1. c # b
          BY <1>1, <2>2, <3>1, EveryVoteIsNeeded
        <4> DEFINE q == executeMsgs[n]
        <4>2. q \in Seq(1 .. MaxBatch) /\ c \in 1 .. MaxBatch /\ executeMsgs'[n] = Append(q, c)
          BY <1>1, <1>2, <2>2, <3>1
        <4>3. b \notin ToSet(Append(q, c))
          <5>1. b \notin ToSet(q)
            BY <1>1
          <5> HIDE DEF q
          <5>2. \A k \in DOMAIN Append(q, c) :
                   Append(q, c)[k] = c \/ (k \in DOMAIN q /\ Append(q, c)[k] = q[k])
            BY <4>2
          <5> QED BY <4>1, <5>1, <5>2 DEF ToSet
        <4> QED BY <4>2, <4>3
      <3>2. CASE i # n
        BY <1>1, <1>2, <2>2, <3>2
      <3> QED BY <3>1, <3>2
    <2> QED BY <1>1, <1>4, <2>1, <2>3 DEF Behind
  <1>9. CASE ~(ExecuteNext(i) \/ Commit(i) \/ PrepareInNewView(i) \/ CommitInNewView(i))
    <2>1. UNCHANGED <<executed, executeMsgs, voted>>
      BY <1>3, <1>9 DEF StoreBatch, Prepare, TimerRunsOut, AcceptNewView, HandleReport,
             CompareReports, TakeCheckpoint, HandleCheckpoint, commitVars
    <2> QED BY <1>1, <1>4, <2>1 DEF Behind
  <1> QED BY <1>5, <1>6, <1>7, <1>8, <1>9

\* Of four nodes, a replica that has accepted the new view does not execute, and
\* leaves nothing for its execution thread of, a batch that another one has
\* executed without a vote in it (process_pbft_prep_msg and process_pbft_commit_msg
\* do not count what was executed before), unless it was left there before.
THEOREM LateNodesAreStuck ==
  ASSUME Cardinality(Node) = 4
  PROVE  VCSpec => LateNodesStayBehind
  BY VCAlways, StepLeavesBehind, PTL DEF VCSpec, LateNodesStayBehind

-----------------------------------------------------------------------------
(* What was executed in the old view, with four nodes *)

\* The COMMITs that a node needs in the old view are those of 2F replicas and one
\* more node.
LEMMA CommitsArePrepared ==
  ASSUME VCInv, NEW n \in Node, NEW b \in Nat, SentCommit(n, b),
         Cardinality({s \in Node \ {n} : SentCommit(s, b)}) >= 2 * F
  PROVE  Cardinality({s \in Replica : prepared[s] >= b}) >= 2 * F
  <1> DEFINE S == {s \in Node \ {n} : SentCommit(s, b)}
             T == S \cup {n}
             P == {s \in Replica : prepared[s] >= b}
  <1>1. Cardinality(S) >= 2 * F /\ SentCommit(n, b)
    OBVIOUS
  <1>2. S \in SUBSET Node /\ n \notin S
    OBVIOUS
  <1>3. IsFiniteSet(S) /\ Cardinality(S) \in Nat
    BY <1>2, NumbersType
  <1>4. IsFiniteSet(T) /\ Cardinality(T) = Cardinality(S) + 1
    <2> HIDE DEF S
    <2> QED BY <1>2, <1>3, FS_AddElement
  <1>5. Cardinality(T \ {Primary}) >= Cardinality(T) - 1 /\ Cardinality(T \ {Primary}) \in Nat
    <2>1. T \in SUBSET Node
      BY <1>2
    <2> HIDE DEF T
    <2>2. Cardinality(T) \in Nat /\ T \ {Primary} \in SUBSET Node
      BY <2>1, NumbersType
    <2>3. Cardinality(T \ {Primary}) \in Nat
      BY <2>2, NumbersType
    <2>4. Cardinality(T \ {Primary}) = IF Primary \in T THEN Cardinality(T) - 1 ELSE Cardinality(T)
      BY <1>4, FS_RemoveElement
    <2> QED BY <2>2, <2>3, <2>4
  <1>6. T \ {Primary} \subseteq P /\ P \in SUBSET Node
    BY <1>1 DEF SentCommit, Replica
  <1>7. Cardinality(T \ {Primary}) =< Cardinality(P) /\ Cardinality(P) \in Nat
    <2> HIDE DEF T, P
    <2> QED BY <1>6, MoreNodes
  <1> QED BY <1>1, <1>3, <1>4, <1>5, <1>7, SizesType

\* 2F of the three replicas are two, and one of them will report.
LEMMA OneReports ==
  ASSUME Cardinality(Node) = 4, NEW P \in SUBSET Replica, Cardinality(P) >= 2 * F
  PROVE  \E n \in Replica \ {NextPrimary} : n \in P
  <1>1. F = 1
    BY DEF F
  <1> SUFFICES ASSUME P \subseteq {NextPrimary} PROVE FALSE
    OBVIOUS
  <1>2. IsFiniteSet({NextPrimary}) /\ Cardinality({NextPrimary}) = 1
    BY FS_Singleton
  <1>3. Cardinality(P) =< 1
    BY <1>2, FS_Subset
  <1>4. P \in SUBSET Node
    BY DEF Replica
  <1>5. Cardinality(P) \in Nat
    BY <1>4, NumbersType
  <1> QED BY <1>1, <1>3, <1>5

\* A report reaches to the batch that its node has prepared: the stores of all
\* replicas hold that batch, since none is a window ahead of the others.
LEMMA ReportReachesPrepared ==
  ASSUME Cardinality(Node) = 4, VCInv, CheckpointInv, OldPrimaryStops,
         NEW n \in Replica, ~accepted[n], NEW h \in Handled(n)
  PROVE  \/ prepared[n] =< g_last_stable_chkpt[n]
         \/ prepared[n] \in Reported(n, h)
  <1> DEFINE k == g_last_stable_chkpt[n]
             p == prepared[n]
             Has(b) == {s \in Others(n) : Holds(h[s], b)}
             A == {s \in Others(n) : h[s] >= p}
  <1>1. /\ k \in Nat /\ Interval =< k /\ n \in Node
        /\ p \in Nat /\ p =< MaxBatch
        /\ got[n] \in Nat /\ got[n] =< MaxBatch /\ p =< got[n]
        /\ executed[n] \in Nat /\ executed[n] =< p
        /\ executed[Primary] =< Interval + 1
    <2>1. /\ n \in Node /\ k \in Nat /\ Interval =< k
          /\ p \in Nat /\ p =< MaxBatch
          /\ got[n] \in Nat /\ got[n] =< MaxBatch /\ p =< got[n]
      BY InvTypes, SizesType DEF VCInv, InOrder, Replica
    <2>2. \A m \in Node : executed[m] \in Nat /\ Len(executeMsgs[m]) \in Nat
      BY InvTypes
    <2>3. executed[n] =< p
      BY <2>1, <2>2 DEF VCInv, InOrder
    <2>4. executed[Primary] =< Interval + 1
      BY <2>2, SizesType DEF OldPrimaryStops
    <2> QED BY <2>1, <2>2, <2>3, <2>4
  <1> SUFFICES ASSUME p > k PROVE p \in Reported(n, h)
    BY <1>1
  <1>2. Ordered =< p + Window /\ Ordered \in Nat
    <2>1. Ordered \in Nat /\ Window \in Nat /\ Interval \in Nat
      BY SizesType, InvTypes
    <2>4. p >= Interval + 1
      BY <1>1, SizesType
    <2>2. \/ Ordered =< Interval + 1 + Window
          \/ \A m \in Replica : Ordered =< executed[m] + Window
      BY <1>1, InvTypes, SentInFour
    <2>3. Ordered =< Interval + 1 + Window \/ Ordered =< executed[n] + Window
      BY <2>2
    <2> QED BY <1>1, <2>1, <2>3, <2>4
  <1>3. \A m \in Replica : got[m] \in Nat /\ got[m] < p + Slots
    <2> SUFFICES ASSUME NEW m \in Replica PROVE got[m] \in Nat /\ got[m] < p + Slots
      OBVIOUS
    <2>1. got[m] \in Nat /\ got[m] =< Ordered
      BY InvTypes, SizesType DEF VCInv, InOrder
    <2> QED BY <1>1, <1>2, <2>1, SizesType
  <1>4. Cardinality(A) >= 2 * F - 1
    <2>1. p \in Interval + 1 .. got[n]
      BY <1>1, SizesType
    <2>2. \A b \in Interval + 1 .. got[n] :
             b =< prepared[n] <=> Cardinality({s \in Others(n) : h[s] >= b}) >= 2 * F - 1
      BY DEF Handled
    <2>3. p =< prepared[n]
      BY <1>1
    <2> QED BY <2>1, <2>2, <2>3
  <1>5. A \subseteq Has(p)
    <2> SUFFICES ASSUME NEW s \in Others(n), h[s] >= p PROVE Holds(h[s], p)
      OBVIOUS
    <2>1. h[s] \in Nat /\ h[s] =< got[s] /\ s \in Replica
      BY SizesType DEF Handled, Others
    <2>2. h[s] < p + Slots
      BY <1>1, <1>3, <2>1, SizesType
    <2> QED BY <1>1, <2>1, <2>2, SizesType DEF Holds
  <1>6. /\ Cardinality(A) \in Nat /\ Cardinality(Has(p)) \in Nat
        /\ Cardinality(A) =< Cardinality(Has(p))
    <2>1. Has(p) \in SUBSET Node
      BY DEF Others, Replica
    <2> HIDE DEF A, Has
    <2> QED BY <1>5, <2>1, MoreNodes
  <1>7. EnoughToReport(1 + Cardinality(Has(p)))
    <2> HIDE DEF A, Has
    <2> QED BY <1>4, <1>6, SizesType DEF EnoughToReport
  <1>8. Holds(got[n], p)
    BY <1>1, <1>3, SizesType DEF Holds
  <1>9. p \in k + 1 .. MaxBatch
    BY <1>1, SizesType
  <1> QED BY <1>7, <1>8, <1>9 DEF Reported

\* Nothing that was prepared is taken back.
LEMMA PreparedGrows ==
  ASSUME VCInv, NEW i \in Node,
         \/ StoreBatch(i) \/ Prepare(i) \/ Commit(i) \/ ExecuteNext(i)
         \/ TimerRunsOut(i) \/ AcceptNewView(i) \/ HandleReport(i)
         \/ PrepareInNewView(i) \/ CommitInNewView(i)
         \/ \E s \in Node : CompareReports(i, s) \/ TakeCheckpoint(i, s)
  PROVE  \A s \in Replica : prepared[s] \in Nat /\ prepared'[s] \in Nat
                            /\ prepared'[s] >= prepared[s]
  <1>1. prepared \in [Replica -> 0 .. MaxBatch]
    BY InvTypes
  <1>2. CASE Prepare(i)
    BY <1>1, <1>2, SizesType DEF Prepare
  <1>3. CASE ~Prepare(i)
    <2>1. prepared' = prepared
      BY <1>3 DEF StoreBatch, Commit, ExecuteNext, TimerRunsOut, AcceptNewView, HandleReport,
                  PrepareInNewView, CommitInNewView, CompareReports, TakeCheckpoint,
                  agreementVars
    <2> QED BY <1>1, <2>1, SizesType
  <1> QED BY <1>2, <1>3

\* What was executed stays prepared, and while no node has accepted a new view
\* nothing is executed that is not.
LEMMA PreparedNext ==
  ASSUME SurvivalInv, VCInv', NEW i \in Node,
         \/ StoreBatch(i) \/ Prepare(i) \/ Commit(i) \/ ExecuteNext(i)
         \/ TimerRunsOut(i) \/ AcceptNewView(i) \/ HandleReport(i)
         \/ PrepareInNewView(i) \/ CommitInNewView(i)
         \/ \E s \in Node : CompareReports(i, s) \/ TakeCheckpoint(i, s)
  PROVE  ExecutedIsPrepared' /\ OldPrimaryStops'
  <1> DEFINE last(m) == executed[m] + Len(executeMsgs[m])
             P(m) == {s \in Replica : prepared[s] >= last(m)}
  <1>1. /\ VCInv /\ prepared \in [Replica -> 0 .. MaxBatch]
        /\ executed \in [Node -> Nat] /\ executeMsgs \in [Node -> Seq(1 .. MaxBatch)]
        /\ \A m \in Node : Len(executeMsgs[m]) \in Nat /\ last(m) \in Nat
    BY InvTypes DEF SurvivalInv
  <1>2. /\ \A m \in Node : newView = None => Cardinality(P(m)) >= 2 * F
        /\ last(Primary) =< Interval + 1
    BY DEF SurvivalInv, ExecutedIsPrepared, OldPrimaryStops
  <1>3. newView' = None => newView = None
    <2>1. CASE HandleReport(i)
      <3>1. newView = None
        BY <1>1, <2>1 DEF HandleReport, VCInv, NewViewIsOfReports
      <3> QED BY <3>1
    <2>2. CASE ~HandleReport(i)
      BY <2>2 DEF StoreBatch, Prepare, Commit, ExecuteNext, TimerRunsOut, AcceptNewView,
                  PrepareInNewView, CommitInNewView, CompareReports, TakeCheckpoint, changeVars
    <2> QED BY <2>1, <2>2
  <1>4. CASE Commit(i)
    <2>1. /\ executeMsgs' = [executeMsgs EXCEPT ![i] = Append(@, last(i) + 1)]
          /\ UNCHANGED <<executed, prepared, newView>>
          /\ SentCommit(i, last(i) + 1)
          /\ Cardinality({s \in Node \ {i} : SentCommit(s, last(i) + 1)}) >= 2 * F
          /\ i = Primary => last(i) + 1 =< Interval + 1
      BY <1>4 DEF Commit, agreementVars, changeVars
    <2>2. \A m \in Node : last(m)' = IF m = i THEN last(m) + 1 ELSE last(m)
      <3>1. Len(Append(executeMsgs[i], last(i) + 1)) = Len(executeMsgs[i]) + 1
        BY <1>1
      <3>2. \A m \in Node : Len(executeMsgs'[m]) = IF m = i THEN Len(executeMsgs[i]) + 1
                                                           ELSE Len(executeMsgs[m])
        BY <1>1, <2>1, <3>1
      <3> QED BY <1>1, <2>1, <3>2
    <2> HIDE DEF last
    <2>3. ASSUME newView = None, NEW m \in Node
          PROVE  Cardinality({s \in Replica : prepared[s] >= last(m)'}) >= 2 * F
      <3>1. CASE m = i
        <4>1. last(i) + 1 \in Nat /\ last(m)' = last(i) + 1
          BY <1>1, <2>2, <3>1
        <4> QED BY <1>1, <2>1, <4>1, CommitsArePrepared
      <3>2. CASE m # i
        BY <1>2, <2>2, <2>3, <3>2
      <3> QED BY <3>1, <3>2
    <2>4. last(Primary)' =< Interval + 1
      BY <1>1, <1>2, <2>1, <2>2, SizesType
    <2> QED BY <2>1, <2>3, <2>4 DEF ExecutedIsPrepared, OldPrimaryStops, last
  <1>5. CASE ~Commit(i)
    <2>1. \A m \in Node : newView = None \/ m = Primary => last(m)' = last(m)
      <3>1. CASE ExecuteNext(i)
        <4>1. CASE UNCHANGED <<executed, executeMsgs>>
          BY <4>1
        <4>2. CASE ~UNCHANGED <<executed, executeMsgs>>
          <5>1. /\ executeMsgs[i] # <<>>
                /\ executed' = [executed EXCEPT ![i] = executed[i] + 1]
                /\ executeMsgs' = [executeMsgs EXCEPT ![i] = Tail(executeMsgs[i])]
            BY <3>1, <4>2 DEF ExecuteNext, Execute
          <5>2. Len(Tail(executeMsgs[i])) = Len(executeMsgs[i]) - 1
            BY <1>1, <5>1
          <5>3. \A m \in Node :
                   /\ executed'[m] = IF m = i THEN executed[m] + 1 ELSE executed[m]
                   /\ Len(executeMsgs'[m]) = IF m = i THEN Len(executeMsgs[m]) - 1
                                                    ELSE Len(executeMsgs[m])
            BY <1>1, <5>1, <5>2
          <5>4. \A m \in Node : executed[m] \in Nat /\ Len(executeMsgs[m]) \in Nat
            BY <1>1
          <5>5. ASSUME NEW m \in Node
                PROVE  executed'[m] + Len(executeMsgs'[m]) = executed[m] + Len(executeMsgs[m])
            <6> DEFINE x == executed[m]
                       y == Len(executeMsgs[m])
            <6>1. x \in Nat /\ y \in Nat
              BY <5>4
            <6>2. /\ executed'[m] = IF m = i THEN x + 1 ELSE x
                  /\ Len(executeMsgs'[m]) = IF m = i THEN y - 1 ELSE y
              BY <5>3
            <6> HIDE DEF x, y
            <6>3. executed'[m] + Len(executeMsgs'[m]) = x + y
              BY <6>1, <6>2
            <6> QED BY <6>3 DEF x, y
          <5> QED BY <5>5
        <4> QED BY <4>1, <4>2
      <3>2. CASE CommitInNewView(i)
        <4>1. PICK b \in voted[i] : executeMsgs' = [executeMsgs EXCEPT ![i] = Append(@, b)]
          BY <3>2 DEF CommitInNewView
        <4>2. accepted[i] /\ i # Primary /\ newView # None
          BY <1>1, <4>1 DEF VCInv, VotesAreForTheLast, InOrder, NewViewIsOfReports
        <4>3. executed' = executed
          BY <3>2 DEF CommitInNewView
        <4> QED BY <1>1, <4>1, <4>2, <4>3
      <3>3. CASE ~ExecuteNext(i) /\ ~CommitInNewView(i)
        <4>1. UNCHANGED <<executed, executeMsgs>>
          BY <1>5, <3>3 DEF StoreBatch, Prepare, TimerRunsOut, AcceptNewView, HandleReport,
                PrepareInNewView, CompareReports, TakeCheckpoint, HandleCheckpoint, commitVars
        <4> QED BY <4>1
      <3> QED BY <3>1, <3>2, <3>3
    <2>2. \A s \in Replica : prepared'[s] \in Nat /\ prepared'[s] >= prepared[s]
      BY <1>1, PreparedGrows
    <2> HIDE DEF last
    <2>3. ASSUME newView = None, NEW m \in Node
          PROVE  Cardinality({s \in Replica : prepared'[s] >= last(m)'}) >= 2 * F
      <3> DEFINE Q == {s \in Replica : prepared'[s] >= last(m)'}
      <3>1. P(m) \subseteq Q
        <4> SUFFICES ASSUME NEW s \in Replica, prepared[s] >= last(m)
                     PROVE  prepared'[s] >= last(m)'
          OBVIOUS
        <4>1. prepared[s] \in Nat /\ prepared'[s] \in Nat /\ last(m) \in Nat
          <5>1. \A k \in Node : last(k) \in Nat
            BY <1>1
          <5>2. prepared'[s] \in Nat
            BY <2>2
          <5>3. prepared[s] \in 0 .. MaxBatch /\ MaxBatch \in Nat
            BY <1>1, SizesType
          <5> QED BY <5>1, <5>2, <5>3
        <4>2. last(m)' = last(m)
          BY <2>1, <2>3
        <4> QED BY <2>2, <4>1, <4>2
      <3>2. Q \in SUBSET Node
        BY DEF Replica
      <3>3. /\ Cardinality(P(m)) =< Cardinality(Q)
            /\ Cardinality(P(m)) \in Nat /\ Cardinality(Q) \in Nat
        <4> HIDE DEF P, Q
        <4> QED BY <3>1, <3>2, MoreNodes
      <3>4. Cardinality(P(m)) >= 2 * F
        BY <1>2, <2>3
      <3> HIDE DEF P, Q
      <3>5. Cardinality(Q) >= 2 * F
        BY <3>3, <3>4, SizesType
      <3> QED BY <3>5 DEF Q
    <2>4. last(Primary)' =< Interval + 1
      BY <1>2, <2>1, SizesType
    <2> QED BY <1>3, <2>3, <2>4 DEF ExecutedIsPrepared, OldPrimaryStops, last
  <1> QED BY <1>4, <1>5

\* What was executed when the first timer ran out stays in reach of a report.
LEMMA ReportedNext ==
  ASSUME Cardinality(Node) = 4, SurvivalInv, CheckpointInv, NEW i \in Node,
         \/ StoreBatch(i) \/ Prepare(i) \/ Commit(i) \/ ExecuteNext(i)
         \/ TimerRunsOut(i) \/ AcceptNewView(i) \/ HandleReport(i)
         \/ PrepareInNewView(i) \/ CommitInNewView(i)
         \/ \E s \in Node : CompareReports(i, s) \/ TakeCheckpoint(i, s)
  PROVE  ExecutedIsReported'
  <1>0. VCInv
    BY DEF SurvivalInv
  <1>1. \A s \in Replica : prepared[s] \in Nat /\ prepared'[s] \in Nat
                           /\ prepared'[s] >= prepared[s]
    BY <1>0, PreparedGrows
  <1>2. \A b \in 1 .. MaxBatch :
          Reporters # {} /\ (\A n \in Reporters : b =< report[n].done) =>
              \E n \in Replica \ {NextPrimary} : ReachedBy(n, b)
    BY DEF SurvivalInv, ExecutedIsReported
  <1>3. CASE ~TimerRunsOut(i)
    <2>1. report' = report
      BY <1>3 DEF StoreBatch, Prepare, Commit, ExecuteNext, AcceptNewView, HandleReport,
                  PrepareInNewView, CommitInNewView, CompareReports, TakeCheckpoint, changeVars
    <2>2. Reporters' = Reporters
      BY <2>1 DEF Reporters
    <2>3. \A b \in 1 .. MaxBatch : \A n \in Replica : ReachedBy(n, b) => ReachedBy(n, b)'
      <3> SUFFICES ASSUME NEW b \in 1 .. MaxBatch, NEW n \in Replica, ReachedBy(n, b)
                   PROVE  ReachedBy(n, b)'
        OBVIOUS
      <3>1. prepared[n] >= b => prepared'[n] >= b
        BY <1>1, SizesType
      <3> QED BY <2>1, <3>1 DEF ReachedBy
    <2> QED BY <1>2, <2>1, <2>2, <2>3 DEF ExecutedIsReported
  <1>4. CASE TimerRunsOut(i)
    <2>1. /\ i \in Replica /\ i # NextPrimary /\ ~accepted[i] /\ report[i] = None
          /\ UNCHANGED prepared
      BY <1>0, <1>4, TimerRunsOutIs DEF agreementVars
    <2>2. PICK h \in Handled(i), d \in 0 .. MaxBatch :
            /\ \/ \E m \in Node : report[m] # None
               \/ \E m \in Node : d = executed[m]
            /\ report' = [report EXCEPT ![i] =
                  [index |-> g_last_stable_chkpt[i], batches |-> Reported(i, h), done |-> d]]
      BY <1>0, <1>4, TimerRunsOutIs
    <2> DEFINE k == g_last_stable_chkpt[i]
               B == Reported(i, h)
               r == [index |-> k, batches |-> B, done |-> d]
    <2>3. /\ DOMAIN report = DOMAIN report' /\ \A m \in Node \ {i} : report'[m] = report[m]
          /\ report' = [report EXCEPT ![i] = r]
      BY <2>2
    <2>4. r.index = k /\ r.batches = B /\ r.done = d
      OBVIOUS
    <2>5. prepared[i] =< k \/ prepared[i] \in B
      BY <1>0, <2>1, ReportReachesPrepared DEF SurvivalInv
    <2>6. k \in Nat /\ B \in SUBSET Nat
      BY <1>0, <2>1, InvTypes, ReportedInOrder DEF Replica
    <2> HIDE DEF k, B, r
    <2>7. ASSUME NEW b \in 1 .. MaxBatch, NEW n \in Replica, ReachedBy(n, b)
          PROVE  ReachedBy(n, b)'
      <3>1. CASE n # i
        <4>1. n \in Node
          BY DEF Replica
        <4> QED BY <2>1, <2>3, <2>7, <3>1, <4>1 DEF ReachedBy
      <3>2. CASE n = i
        <4>1. prepared[i] >= b /\ prepared[i] \in Nat
          BY <1>1, <2>1, <2>7, <3>2 DEF ReachedBy
        <4>2. report'[i] = r \/ report'[i] = report[i]
          BY <2>3
        <4>3. \E p \in B \cup {k} : b =< p
          BY <2>5, <2>6, <4>1, SizesType
        <4> QED BY <2>1, <2>4, <3>2, <4>1, <4>2, <4>3 DEF ReachedBy
      <3> QED BY <3>1, <3>2
    <2>8. ASSUME NEW b \in 1 .. MaxBatch, \A n \in Reporters' : b =< report'[n].done
          PROVE  \E n \in Replica \ {NextPrimary} : ReachedBy(n, b)
      <3>1. CASE Reporters # {}
        <4>1. \A n \in Reporters : n # i /\ report'[n] = report[n] /\ n \in Reporters'
          BY <2>1, <2>3 DEF Reporters
        <4> QED BY <1>2, <2>8, <3>1, <4>1
      <3>2. CASE Reporters = {}
        <4>1. \A m \in Node : report[m] = None
          BY <3>2 DEF Reporters
        <4>2. newView = None
          <5> SUFFICES ASSUME newView # None PROVE FALSE
            OBVIOUS
          <5>1. Len(g_pbft_view_change_msgs) >= 2 * F
            BY <1>0 DEF VCInv, NewViewIsOfReports
          <5>2. /\ g_pbft_view_change_msgs \in Seq(Replica)
                /\ \A s \in ToSet(g_pbft_view_change_msgs) : report[s] # None
            BY <1>0, InvTypes DEF VCInv, MessagesAreReports
          <5>3. Len(g_pbft_view_change_msgs) > 0
            BY <5>1, <5>2, SizesType
          <5>4. g_pbft_view_change_msgs[1] \in ToSet(g_pbft_view_change_msgs)
            BY <5>2, <5>3 DEF ToSet
          <5>5. g_pbft_view_change_msgs[1] \in Node
            BY <5>2, <5>3 DEF Replica
          <5> QED BY <4>1, <5>2, <5>4, <5>5
        <4>3. PICK m \in Node : d = executed[m]
          BY <2>2, <4>1
        <4>4. i \in DOMAIN report
          BY <1>0, InvTypes
        <4>5. b =< executed[m]
          <5>1. report'[i] = r
            BY <2>3, <4>4
          <5>2. r # None
            <6>1. d \in Nat
              BY SizesType
            <6>2. r \in Report
              BY <2>6, <6>1 DEF Report, r
            <6> QED BY <6>2, NoneAssumption
          <5>3. i \in Reporters'
            BY <5>1, <5>2 DEF Reporters
          <5> QED BY <2>4, <2>8, <4>3, <5>1, <5>3
        <4> DEFINE P == {s \in Replica : prepared[s] >= executed[m] + Len(executeMsgs[m])}
        <4>6. P \in SUBSET Replica /\ Cardinality(P) >= 2 * F
          BY <4>2 DEF SurvivalInv, ExecutedIsPrepared
        <4>7. PICK n \in Replica \ {NextPrimary} : n \in P
          <5> HIDE DEF P
          <5> QED BY <4>6, OneReports
        <4>8. executed[m] \in Nat /\ Len(executeMsgs[m]) \in Nat
          BY <1>0, InvTypes
        <4>9. prepared[n] >= b
          BY <1>1, <4>5, <4>7, <4>8, SizesType
        <4>10. report[n] = None
          BY <4>1 DEF Replica
        <4> QED BY <4>7, <4>9, <4>10 DEF ReachedBy
      <3> QED BY <3>1, <3>2
    <2> QED BY <2>7, <2>8 DEF ExecutedIsReported
  <1> QED BY <1>3, <1>4

\* What the reports need holds at first, when nobody has reported.
LEMMA SurvivalInit == VCInit => SurvivalInv
  <1> SUFFICES ASSUME VCInit PROVE SurvivalInv
    OBVIOUS
  <1>1. /\ executed = [n \in Node |-> Interval]
        /\ prepared = [n \in Replica |-> Interval]
        /\ report = [n \in Node |-> None]
        /\ executeMsgs = [n \in Node |-> <<>>]
    BY DEF VCInit
  <1>2. ExecutedIsPrepared
    <2>1. \A m \in Node :
            {s \in Replica : prepared[s] >= executed[m] + Len(executeMsgs[m])} = Replica
      BY <1>1, SizesType
    <2>2. Cardinality(Replica) = Cardinality(Node) - 1
      BY NodeAssumption, ViewChangeAssumption, FS_RemoveElement DEF Replica
    <2>3. Cardinality(Node) - 1 >= 2 * F
      BY NumbersType, NodeAssumption DEF F
    <2> QED BY <2>1, <2>2, <2>3 DEF ExecutedIsPrepared
  <1>3. OldPrimaryStops
    BY <1>1, SizesType DEF OldPrimaryStops
  <1>4. ExecutedIsReported
    BY <1>1 DEF ExecutedIsReported, Reporters
  <1> QED BY <1>2, <1>3, <1>4, VCInitInv DEF SurvivalInv

\* Every step keeps it, with four nodes.
LEMMA SurvivalNext ==
  ASSUME Cardinality(Node) = 4
  PROVE  SurvivalInv /\ CheckpointInv /\ CheckpointInv' /\ [VCNext]_vars => SurvivalInv'
  <1> SUFFICES ASSUME SurvivalInv, CheckpointInv, CheckpointInv', [VCNext]_vars
               PROVE  SurvivalInv'
    OBVIOUS
  <1>1. VCInv'
    BY VCNextInv DEF SurvivalInv
  <1>2. CASE UNCHANGED vars
    BY <1>1, <1>2 DEF SurvivalInv, vars, agreementVars, changeVars, commitVars, ExecutedIsPrepared,
                      OldPrimaryStops, ExecutedIsReported, Reporters, ReachedBy
  <1>3. CASE VCNext
    <2>1. PICK n \in Node :
            \/ StoreBatch(n) \/ Prepare(n) \/ Commit(n) \/ ExecuteNext(n)
            \/ TimerRunsOut(n) \/ AcceptNewView(n) \/ HandleReport(n)
            \/ PrepareInNewView(n) \/ CommitInNewView(n)
            \/ \E s \in Node : CompareReports(n, s) \/ TakeCheckpoint(n, s)
      BY <1>3 DEF VCNext
    <2>2. ExecutedIsPrepared' /\ OldPrimaryStops'
      BY <1>1, <2>1, PreparedNext
    <2>3. ExecutedIsReported'
      BY <2>1, ReportedNext
    <2> QED BY <1>1, <2>2, <2>3 DEF SurvivalInv
  <1> QED BY <1>2, <1>3

\* The two reports of a new view are all that there can be.
LEMMA BothReport ==
  ASSUME Cardinality(Node) = 4, VCInv, newView # None
  PROVE  Reporters \subseteq ToSet(g_pbft_view_change_msgs)
         /\ Replica \ {NextPrimary} \subseteq ToSet(g_pbft_view_change_msgs)
  <1> DEFINE q == g_pbft_view_change_msgs
             T == ToSet(q)
             R == Replica \ {NextPrimary}
  <1>1. /\ q \in Seq(Replica) /\ Len(q) >= 2
        /\ \A s \in T : report[s] # None
        /\ \A i, j \in DOMAIN q : q[i] = q[j] => i = j
    <2>1. F = 1
      BY DEF F
    <2> QED BY <2>1, InvTypes DEF VCInv, MessagesAreReports, NewViewIsOfReports
  <1>2. Reporters \subseteq R
    BY DEF VCInv, ReportsInOrder, Reporters, Replica
  <1>3. T \subseteq Reporters
    BY <1>1, ListMembers DEF Reporters, Replica
  <1>4. IsFiniteSet(R) /\ Cardinality(R) = 2
    <2>1. IsFiniteSet(Replica) /\ Cardinality(Replica) = 3
      BY NodeAssumption, ViewChangeAssumption, FS_RemoveElement DEF Replica
    <2> QED BY <2>1, SizesType, FS_RemoveElement
  <1>5. Cardinality(T) >= 2 /\ Cardinality(T) \in Nat
    <2>1. q[1] \in T /\ q[2] \in T /\ q[1] # q[2]
      BY <1>1 DEF ToSet
    <2>2. IsFiniteSet(T) /\ Cardinality(T) \in Nat
      BY <1>2, <1>3, <1>4, FS_Subset, FS_CardinalityType
    <2>3. Cardinality({q[1], q[2]}) = 2
      <3>1. IsFiniteSet({q[1]}) /\ Cardinality({q[1]}) = 1
        BY FS_Singleton
      <3>2. {q[1], q[2]} = {q[1]} \cup {q[2]}
        OBVIOUS
      <3>3. q[2] \notin {q[1]}
        BY <2>1
      <3> QED BY <3>1, <3>2, <3>3, FS_AddElement
    <2>4. {q[1], q[2]} \in SUBSET T
      BY <2>1
    <2> HIDE DEF T
    <2> QED BY <2>2, <2>3, <2>4, FS_Subset
  <1>6. T = R
    <2> HIDE DEF T
    <2> QED BY <1>2, <1>3, <1>4, <1>5, FS_Subset
  <1> QED BY <1>2, <1>6

\* So what had been executed before the first of them is in the new view.
LEMMA SurvivalIsEnough ==
  ASSUME Cardinality(Node) = 4, SurvivalInv
  PROVE  ExecutedSurvives
  <1> SUFFICES ASSUME newView # None, NEW b \in 1 .. MaxBatch,
                      \A s \in ToSet(g_pbft_view_change_msgs) : b =< report[s].done
               PROVE  /\ b =< newView.index \/ b \in Proposed
                      /\ (\E n \in Replica \ {NextPrimary} : accepted[n]) /\ b \in Proposed
                            => newView.content[b - newView.index] = b
    BY DEF ExecutedSurvives
  <1>1. /\ VCInv
        /\ newView.index \in Nat /\ newView.content \in Seq(Nat)
        /\ Proposed = Reports(g_pbft_view_change_msgs)
        /\ \A s \in ToSet(g_pbft_view_change_msgs) : report[s].index = newView.index
        /\ (\E n \in Replica \ {NextPrimary} : accepted[n]) => InPlace
    BY InvTypes DEF SurvivalInv, VCInv, NewViewIsOfReports
  <1>2. /\ Reporters \subseteq ToSet(g_pbft_view_change_msgs)
        /\ Replica \ {NextPrimary} \subseteq ToSet(g_pbft_view_change_msgs)
    BY <1>1, BothReport
  <1>3. \A s \in ToSet(g_pbft_view_change_msgs) : s \in Node /\ report[s] # None
    BY <1>1, InvTypes, ListMembers DEF VCInv, MessagesAreReports, Replica
  <1>4. PICK n \in Replica \ {NextPrimary} : ReachedBy(n, b)
    <2>1. Reporters # {}
      <3>1. \E n \in Replica : n # NextPrimary
        <4>1. Late \in Node /\ Cardinality(Replica) = 3 /\ IsFiniteSet(Replica)
          BY NodeAssumption, ViewChangeAssumption, FS_RemoveElement DEF Replica
        <4>2. Replica # {NextPrimary}
          BY <4>1, FS_Singleton
        <4> QED BY <4>2, SizesType
      <3> QED BY <1>2, <1>3, <3>1 DEF Reporters
    <2>2. \A m \in Reporters : b =< report[m].done
      BY <1>2
    <2> QED BY <2>1, <2>2 DEF SurvivalInv, ExecutedIsReported
  <1>5. PICK p \in report[n].batches \cup {report[n].index} : b =< p
    BY <1>2, <1>3, <1>4 DEF ReachedBy
  <1>6. report[n].index = newView.index /\ report[n].batches \subseteq Proposed
    BY <1>1, <1>2 DEF Reports
  <1>7. b =< newView.index \/ b \in Proposed
    <2>1. p = newView.index \/ p \in Proposed
      BY <1>5, <1>6
    <2>2. Len(newView.content) \in Nat /\ b \in Nat
      BY <1>1, SizesType
    <2> QED BY <1>1, <1>5, <2>1, <2>2 DEF Proposed
  <1>8. ASSUME \E m \in Replica \ {NextPrimary} : accepted[m], b \in Proposed
        PROVE  newView.content[b - newView.index] = b
    <2> DEFINE pos == b - newView.index
    <2>1. pos \in DOMAIN newView.content /\ newView.index + pos = b
      BY <1>1, <1>8 DEF Proposed
    <2>2. InPlace
      BY <1>1, <1>8
    <2> QED BY <2>1, <2>2 DEF InPlace
  <1> QED BY <1>7, <1>8

\* With four nodes, what any node had executed when the first timer ran out is
\* in the new view, and at its place if a replica other than the next primary
\* has accepted it.
THEOREM ExecutedIsKept ==
  ASSUME Cardinality(Node) = 4
  PROVE  VCSpec => []ExecutedSurvives
  <1>1. VCSpec => []CheckpointInv
    BY VCInitCheckpointInv, VCStepsAreCheckpointSteps, NextCheckpointInv, PTL DEF VCSpec
  <1>2. VCSpec => []SurvivalInv
    BY <1>1, SurvivalInit, SurvivalNext, PTL DEF VCSpec
  <1> QED BY <1>2, SurvivalIsEnough, PTL

=============================================================================
