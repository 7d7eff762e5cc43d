---------------------------- MODULE SessionProofs ----------------------------
(* Theorems about Startup, for any number of nodes, clients and threads;     *)
(* about Responses, for any size of the client's window and of its store;    *)
(* and about Session: those of its parts, what they add up to, that the      *)
(* threads never claim a manager that another one holds, and that thread 0   *)
(* and the execution thread miss no batch.                                   *)
EXTENDS SessionInvariant, TLAPS, FiniteSetTheorems

-----------------------------------------------------------------------------
(* Start-up: the inductive invariant *)

\* totKey is the number of processes heard, and nobody is heard twice.
CountsProcesses ==
    \A n \in Node :
        /\ n \notin keyexFrom[n]
        /\ totKey[n] = Cardinality(keyexFrom[n])

\* The wallets of n are its own and those of the nodes it has heard.
WalletsOfHeard ==
    \A n \in Node :
        /\ \A m \in Node :
              wallet[n][m] = IF m = n \/ m \in keyexFrom[n] THEN 100 ELSE 0
        /\ sum_w[n] = 100 + 100 * Cardinality(keyexFrom[n] \cap Node)

\* A node that calls itself READY has heard everybody.
ReadyHasHeardAll == \A n \in readySent : keyexFrom[n] = Process \ {n}

\* Clients start after the nodes they wait for.
ClientsFollow ==
    /\ \A c \in Client : readyFrom[c] \subseteq readySent
    /\ keyAvail # {} => readySent = Node

StartupInv ==
    /\ StartupTypeOK
    /\ CountsProcesses
    /\ WalletsOfHeard
    /\ ReadyHasHeardAll
    /\ ClientsFollow

-----------------------------------------------------------------------------
\* The processes can be counted, and so can those somebody has heard.
LEMMA ProcessesFinite ==
  /\ IsFiniteSet(Process) /\ Cardinality(Process) \in Nat
  /\ Cardinality(Node) \in Nat
  /\ \A S \in SUBSET Process : IsFiniteSet(S) /\ Cardinality(S) \in Nat
  <1>1. IsFiniteSet(Process)
    BY NodeAssumption, StartupAssumption, FS_Union DEF Process
  <1>2. \A S \in SUBSET Process : IsFiniteSet(S)
    BY <1>1, FS_Subset
  <1> QED BY <1>1, <1>2, NodeAssumption, FS_CardinalityType

\* Who has counted to the end has heard everybody.
LEMMA AllHeard ==
  ASSUME NEW n \in Node, NEW S \in SUBSET Process, n \notin S,
         HeardFromAll(Cardinality(S))
  PROVE  S = Process \ {n}
  <1>1. /\ IsFiniteSet(Process \ {n})
        /\ Cardinality(Process \ {n}) = Cardinality(Process) - 1
    BY ProcessesFinite, FS_RemoveElement DEF Process
  <1>2. Cardinality(S) = Cardinality(Process \ {n})
    BY <1>1, ProcessesFinite DEF HeardFromAll
  <1>3. S \in SUBSET (Process \ {n})
    OBVIOUS
  <1> QED BY <1>1, <1>2, <1>3, FS_Subset

\* Who has heard everybody has the wallet of every node.
LEMMA HeardMeansKeys ==
  ASSUME StartupTypeOK, WalletsOfHeard, NEW n \in Node,
         keyexFrom[n] = Process \ {n}
  PROVE  KeysComplete(n)
  <1>1. wallet[n] = [m \in Node |-> 100]
    <2>1. wallet[n] \in [Node -> Nat]
      BY DEF StartupTypeOK
    <2>2. \A m \in Node : m = n \/ m \in keyexFrom[n]
      BY DEF Process
    <2>3. \A m \in Node :
             wallet[n][m] = IF m = n \/ m \in keyexFrom[n] THEN 100 ELSE 0
      BY DEF WalletsOfHeard
    <2>4. \A m \in Node : wallet[n][m] = 100
      BY <2>2, <2>3
    <2> QED BY <2>1, <2>4
  <1>2. keyexFrom[n] \cap Node = Node \ {n}
    BY DEF Process
  <1>3. Cardinality(Node \ {n}) = Cardinality(Node) - 1
    BY NodeAssumption, FS_RemoveElement
  <1>4. sum_w[n] = 100 + 100 * (Cardinality(Node) - 1)
    BY <1>2, <1>3 DEF WalletsOfHeard
  <1> QED BY <1>1, <1>4, ProcessesFinite DEF KeysComplete

\* Hence the invariant says what is wanted of it.
LEMMA InvReadyMeansKeys == StartupInv => ReadyMeansKeys
  BY HeardMeansKeys
  DEF StartupInv, ReadyHasHeardAll, ReadyMeansKeys, StartupTypeOK

\* Nobody has been heard at the start.
LEMMA InitStartupInv == StartupInit => StartupInv
  <1> SUFFICES ASSUME StartupInit PROVE StartupInv
    OBVIOUS
  <1>1. StartupTypeOK
    BY StartupAssumption DEF StartupInit, StartupTypeOK
  <1>2. CountsProcesses
    BY FS_EmptySet DEF StartupInit, CountsProcesses
  <1>3. WalletsOfHeard
    <2>1. Cardinality({} \cap Node) = 0
      <3>1. {} \cap Node = {}
        OBVIOUS
      <3> QED BY <3>1, FS_EmptySet
    <2> QED BY <2>1 DEF StartupInit, WalletsOfHeard
  <1>4. ReadyHasHeardAll /\ ClientsFollow
    BY DEF StartupInit, ReadyHasHeardAll, ClientsFollow
  <1> QED BY <1>1, <1>2, <1>3, <1>4 DEF StartupInv

\* An announcement is counted and entered once.
LEMMA ProcessKeyExchangeInv ==
  ASSUME StartupInv, NEW n \in Node, NEW from \in Process,
         ProcessKeyExchange(n, from)
  PROVE  StartupInv'
  <1> DEFINE heard == keyexFrom[n]
  <1>1. heard \in SUBSET Process /\ n \notin heard /\ from \notin heard /\ from # n
    BY DEF StartupInv, StartupTypeOK, CountsProcesses, ProcessKeyExchange
  <1>2. /\ keyexFrom'[n] = heard \cup {from}
        /\ \A m \in Node \ {n} : keyexFrom'[m] = keyexFrom[m]
        /\ keyexFrom' \in [Node -> SUBSET Process]
    BY DEF StartupInv, StartupTypeOK, ProcessKeyExchange
  <1>3. Cardinality(keyexFrom'[n]) = Cardinality(heard) + 1
    BY <1>1, <1>2, ProcessesFinite, FS_AddElement
  <1>4. /\ totKey'[n] = totKey[n] + 1
        /\ \A m \in Node \ {n} : totKey'[m] = totKey[m]
        /\ totKey[n] = Cardinality(heard)
    BY DEF StartupInv, StartupTypeOK, CountsProcesses, ProcessKeyExchange
  <1>5. CountsProcesses'
    BY <1>1, <1>2, <1>3, <1>4 DEF StartupInv, CountsProcesses
  <1>6. /\ WalletsOfHeard'
        /\ wallet' \in [Node -> [Node -> Nat]] /\ sum_w' \in [Node -> Nat]
    <2>0. /\ wallet \in [Node -> [Node -> Nat]] /\ sum_w \in [Node -> Nat]
          /\ WalletsOfHeard
      BY DEF StartupInv, StartupTypeOK
    <2>1. CASE from \in Node
      <3>1. /\ wallet' = [wallet EXCEPT ![n][from] = 100]
            /\ sum_w' = [sum_w EXCEPT ![n] = @ + 100]
        BY <2>1 DEF ProcessKeyExchange
      <3>2. keyexFrom'[n] \cap Node = (heard \cap Node) \cup {from}
        BY <1>2, <2>1
      <3>3. heard \cap Node \in SUBSET Process
        BY <1>1
      <3>4. Cardinality(keyexFrom'[n] \cap Node) = Cardinality(heard \cap Node) + 1
        BY <1>1, <3>2, <3>3, ProcessesFinite, FS_AddElement
      <3>5. Cardinality(heard \cap Node) \in Nat
        BY <3>3, ProcessesFinite
      <3>6. sum_w'[n] = 100 + 100 * Cardinality(keyexFrom'[n] \cap Node)
        BY <2>0, <3>1, <3>4, <3>5 DEF WalletsOfHeard
      <3>7. \A m \in Node :
               wallet'[n][m] = IF m = n \/ m \in keyexFrom'[n] THEN 100 ELSE 0
        <4>1. \A m \in Node \ {from} : wallet'[n][m] = wallet[n][m]
          BY <2>0, <2>1, <3>1
        <4>2. wallet'[n][from] = 100
          BY <2>0, <2>1, <3>1
        <4>3. from \in keyexFrom'[n]
              /\ \A m \in Node \ {from} : m \in keyexFrom'[n] <=> m \in keyexFrom[n]
          BY <1>2
        <4>4. \A m \in Node :
                 wallet[n][m] = IF m = n \/ m \in keyexFrom[n] THEN 100 ELSE 0
          BY <2>0 DEF WalletsOfHeard
        <4> HIDE DEF heard
        <4> QED BY <4>1, <4>2, <4>3, <4>4
      <3>8. \A m \in Node \ {n} : wallet'[m] = wallet[m] /\ sum_w'[m] = sum_w[m]
        BY <2>0, <3>1
      <3>9. wallet' \in [Node -> [Node -> Nat]] /\ sum_w' \in [Node -> Nat]
        BY <2>0, <2>1, <3>1
      <3>10. \A m \in Node \ {n} :
               /\ \A k \in Node :
                     wallet'[m][k] = IF k = m \/ k \in keyexFrom'[m] THEN 100 ELSE 0
               /\ sum_w'[m] = 100 + 100 * Cardinality(keyexFrom'[m] \cap Node)
        BY <2>0, <3>8, <1>2 DEF WalletsOfHeard
      <3>11. WalletsOfHeard'
        <4>1. ASSUME NEW m \in Node
              PROVE  /\ \A k \in Node :
                           wallet'[m][k] = IF k = m \/ k \in keyexFrom'[m] THEN 100 ELSE 0
                     /\ sum_w'[m] = 100 + 100 * Cardinality(keyexFrom'[m] \cap Node)
          <5>1. CASE m = n
            BY <3>6, <3>7, <5>1
          <5>2. CASE m # n
            BY <3>10, <5>2
          <5> QED BY <5>1, <5>2
        <4> QED BY <4>1 DEF WalletsOfHeard
      <3> QED BY <3>9, <3>11
    <2>2. CASE from \notin Node
      <3>1. wallet' = wallet /\ sum_w' = sum_w
        BY <2>2 DEF ProcessKeyExchange
      <3>2. keyexFrom'[n] \cap Node = heard \cap Node
        BY <1>2, <2>2
      <3>3. \A m \in Node : m \in keyexFrom'[n] <=> m \in keyexFrom[n]
        BY <1>2, <2>2
      <3> QED BY <2>0, <3>1, <3>2, <3>3, <1>2 DEF WalletsOfHeard
    <2> QED BY <2>1, <2>2
  <1>7. ReadyHasHeardAll'
    <2> SUFFICES ASSUME NEW m \in readySent'
                 PROVE  keyexFrom'[m] = Process \ {m}
      BY DEF ReadyHasHeardAll
    <2>1. m \in Node
      BY DEF StartupInv, StartupTypeOK, ProcessKeyExchange
    <2>2. CASE m \in readySent
      <3>1. keyexFrom[m] = Process \ {m}
        BY <2>2 DEF StartupInv, ReadyHasHeardAll
      <3> QED BY <1>1, <1>2, <2>1, <3>1
    <2>3. CASE m \notin readySent
      <3>1. m = n /\ HeardFromAll(totKey[n] + 1)
        BY <2>3 DEF ProcessKeyExchange
      <3>2. keyexFrom'[n] \in SUBSET Process /\ n \notin keyexFrom'[n]
        BY <1>1, <1>2
      <3> QED BY <1>3, <1>4, <3>1, <3>2, AllHeard
    <2> QED BY <2>2, <2>3
  <1>8. ClientsFollow'
    BY DEF StartupInv, StartupTypeOK, ClientsFollow, ProcessKeyExchange
  <1>9. StartupTypeOK'
    <2>1. totKey' \in [Node -> Nat]
      BY DEF StartupInv, StartupTypeOK, ProcessKeyExchange
    <2>2. readySent' \in SUBSET Node
      BY DEF StartupInv, StartupTypeOK, ProcessKeyExchange
    <2> QED BY <1>2, <1>6, <2>1, <2>2
            DEF StartupInv, StartupTypeOK, ProcessKeyExchange
  <1> QED BY <1>5, <1>6, <1>7, <1>8, <1>9 DEF StartupInv

\* A client that starts has the READY of every node.
LEMMA GetReadyInv ==
  ASSUME StartupInv, NEW c \in Client, NEW n \in Node, GetReady(c, n)
  PROVE  StartupInv'
  <1>1. /\ readyFrom' \in [Client -> SUBSET Node]
        /\ keyAvail' \in SUBSET Client
    BY DEF StartupInv, StartupTypeOK, GetReady
  <1>2. StartupTypeOK'
    BY <1>1 DEF StartupInv, StartupTypeOK, GetReady
  <1>3. \A d \in Client : readyFrom'[d] \subseteq readySent
    BY DEF StartupInv, StartupTypeOK, ClientsFollow, GetReady
  <1>4. keyAvail' # {} => readySent = Node
    <2>1. CASE StartsOn(readyFrom'[c])
      BY <1>3, <2>1 DEF StartsOn, StartupInv, StartupTypeOK
    <2>2. CASE ~StartsOn(readyFrom'[c])
      BY <2>2 DEF GetReady, StartupInv, ClientsFollow
    <2> QED BY <2>1, <2>2
  <1>5. ClientsFollow'
    BY <1>3, <1>4 DEF ClientsFollow, GetReady
  <1>6. UNCHANGED <<keyexFrom, totKey, wallet, sum_w, readySent>>
    BY DEF GetReady
  <1>7. CountsProcesses' /\ WalletsOfHeard' /\ ReadyHasHeardAll'
    BY <1>6 DEF StartupInv, CountsProcesses, WalletsOfHeard, ReadyHasHeardAll
  <1> QED BY <1>2, <1>5, <1>7 DEF StartupInv

\* The other steps leave the keys alone.
LEMMA ThreadsInv ==
  ASSUME StartupInv, NEW p \in Process, StartThread(p) \/ SendKey(p)
  PROVE  StartupInv'
  <1>1. StartupTypeOK'
    <2>1. CASE StartThread(p)
      <3>1. commonVar[p] + 1 \in 0 .. ThreadCount
        BY <2>1, StartupAssumption DEF StartThread, StartupInv, StartupTypeOK
      <3> QED BY <2>1, <3>1 DEF StartThread, StartupInv, StartupTypeOK
    <2>2. CASE SendKey(p)
      BY <2>2 DEF SendKey, StartupInv, StartupTypeOK
    <2> QED BY <2>1, <2>2
  <1>2. UNCHANGED <<keyexFrom, totKey, wallet, sum_w, readySent, readyFrom, keyAvail>>
    BY DEF StartThread, SendKey
  <1> QED BY <1>1, <1>2
          DEF StartupInv, CountsProcesses, WalletsOfHeard, ReadyHasHeardAll, ClientsFollow

\* Every step keeps the invariant.
LEMMA NextStartupInv == StartupInv /\ [StartupNext]_startupVars => StartupInv'
  <1> SUFFICES ASSUME StartupInv, [StartupNext]_startupVars PROVE StartupInv'
    OBVIOUS
  <1>1. CASE UNCHANGED startupVars
    BY <1>1 DEF startupVars, StartupInv, StartupTypeOK, CountsProcesses,
                WalletsOfHeard, ReadyHasHeardAll, ClientsFollow
  <1>2. CASE StartupNext
    BY <1>2, ThreadsInv, ProcessKeyExchangeInv, GetReadyInv DEF StartupNext
  <1> QED BY <1>1, <1>2

\* A node tells the clients that it is READY only when it holds the wallet of
\* every node (WorkerThread::process_key_exchange), for any number of nodes
\* and clients and whatever the order of the announcements.
THEOREM ReadyHasKeys == StartupSpec => []ReadyMeansKeys
  <1>1. StartupSpec => []StartupInv
    BY InitStartupInv, NextStartupInv, PTL DEF StartupSpec
  <1> QED BY <1>1, InvReadyMeansKeys, PTL

-----------------------------------------------------------------------------
(* The client's counting: the inductive invariant *)

\* Who is in row r for b, and who has answered b.
InRow(row, b) == {n \in Node : row[n] = b}
Answered(taken, b) == {n \in Node : taken[n] > b}

\* An answer in the store has been validated and is in the row of its batch.
StoredInPlace ==
    \A s \in Slot, n \in Node :
        clrspStore[s][n] # None =>
            /\ clrspStore[s][n] % Slots = s
            /\ answersTaken[n] > clrspStore[s][n]

\* Every answer serves once: those in the row and the 2F + 1 that each
\* completion has used up are no more than have been given.
AnswersServeOnce ==
    \A b \in Batch :
        Cardinality(InRow(clrspStore[b % Slots], b)) + (2 * F + 1) * completions[b]
            =< Cardinality(Answered(answersTaken, b))

ResponsesInv == ResponsesTypeOK /\ StoredInPlace /\ AnswersServeOnce

-----------------------------------------------------------------------------
\* The sizes that are compared are numbers.
LEMMA NumbersType ==
  /\ F \in Nat
  /\ \A S \in SUBSET Node : IsFiniteSet(S) /\ Cardinality(S) \in Nat
                            /\ Cardinality(S) =< Cardinality(Node)
  /\ Cardinality(Node) \in Nat
  <1>1. Cardinality(Node) \in Nat
    BY NodeAssumption, FS_CardinalityType
  <1>2. \A S \in SUBSET Node : IsFiniteSet(S) /\ Cardinality(S) =< Cardinality(Node)
    BY NodeAssumption, FS_Subset
  <1>3. \A S \in SUBSET Node : Cardinality(S) \in Nat
    BY <1>2, FS_CardinalityType
  <1> QED BY <1>1, <1>2, <1>3, NodeAssumption DEF F

\* Every batch has a row.
LEMMA RowType == \A b \in Batch : b \in Nat /\ b # None /\ b % Slots \in Slot
  BY BatchesAssumption, ResponsesAssumption DEF Batch, Slot

\* What the invariant says of completions is what is wanted of them.
LEMMA InvCompletions == ResponsesInv => CompletedOnce /\ CompletedIsAnswered
  <1> SUFFICES ASSUME ResponsesInv, NEW b \in Batch
               PROVE  /\ completions[b] =< 1
                      /\ completions[b] > 0 => Cardinality(Answered(answersTaken, b)) >= 2 * F + 1
    BY DEF CompletedOnce, CompletedIsAnswered, Completed, Answered
  <1> DEFINE c == completions[b]
             r == Cardinality(InRow(clrspStore[b % Slots], b))
             a == Cardinality(Answered(answersTaken, b))
             q == 2 * F + 1
  <1>1. c \in Nat /\ r \in Nat /\ a \in Nat /\ q \in Nat /\ q > 0
    BY NumbersType DEF ResponsesInv, ResponsesTypeOK, InRow, Answered
  <1>2. r + q * c =< a
    BY DEF ResponsesInv, AnswersServeOnce
  <1>3. a < 2 * q
    BY NumbersType, AnswersAssumption DEF Answered
  <1> HIDE DEF c, r, a, q
  <1>4. c > 0 => q * c >= q
    BY <1>1
  <1>5. c > 1 => q * c >= 2 * q
    BY <1>1
  <1>6. c =< 1 /\ (c > 0 => a >= q)
    BY <1>1, <1>2, <1>3, <1>4, <1>5
  <1> QED BY <1>6 DEF c, a, q

\* At the start nothing is stored.
LEMMA InitResponsesInv == ResponsesInit => ResponsesInv
  <1> SUFFICES ASSUME ResponsesInit PROVE ResponsesInv
    OBVIOUS
  <1>1. ResponsesTypeOK
    BY BatchesAssumption DEF ResponsesInit, ResponsesTypeOK, Batch
  <1>2. StoredInPlace
    BY DEF ResponsesInit, StoredInPlace
  <1>3. AnswersServeOnce
    <2> SUFFICES ASSUME NEW b \in Batch
                 PROVE  Cardinality(InRow(clrspStore[b % Slots], b))
                          + (2 * F + 1) * completions[b] =< Cardinality(Answered(answersTaken, b))
      BY DEF AnswersServeOnce
    <2>1. InRow(clrspStore[b % Slots], b) = {}
      BY RowType DEF ResponsesInit, InRow
    <2>2. completions[b] = 0 /\ Cardinality(Answered(answersTaken, b)) \in Nat
      BY NumbersType DEF ResponsesInit, Answered
    <2> QED BY <2>1, <2>2, NumbersType, FS_EmptySet
  <1> QED BY <1>1, <1>2, <1>3 DEF ResponsesInv

\* One more answer to b, and none to another batch.
LEMMA AnsweredGrows ==
  ASSUME ResponsesInv, NEW n \in Node, Validate(n), NEW b, b = answersTaken[n]
  PROVE  /\ Cardinality(Answered(answersTaken', b))
              = Cardinality(Answered(answersTaken, b)) + 1
         /\ \A c \in Batch \ {b} : Answered(answersTaken', c) = Answered(answersTaken, c)
  <1>1. /\ answersTaken \in [Node -> Nat] /\ b \in Nat
        /\ answersTaken' = [answersTaken EXCEPT ![n] = @ + 1]
    BY BatchesAssumption DEF ResponsesInv, ResponsesTypeOK, Validate
  <1>2. /\ Answered(answersTaken', b) = Answered(answersTaken, b) \cup {n}
        /\ n \notin Answered(answersTaken, b)
    BY <1>1 DEF Answered
  <1>3. Cardinality(Answered(answersTaken', b)) = Cardinality(Answered(answersTaken, b)) + 1
    BY <1>2, NumbersType, FS_AddElement DEF Answered
  <1>4. ASSUME NEW c \in Batch \ {b}
        PROVE  Answered(answersTaken', c) = Answered(answersTaken, c)
    <2>1. c \in Nat /\ c # b
      BY RowType
    <2>2. \A m \in Node : answersTaken'[m] > c <=> answersTaken[m] > c
      BY <1>1, <2>1
    <2> QED BY <2>2 DEF Answered
  <1> QED BY <1>3, <1>4

\* The answer enters a row that it was not in; the rest of the row stays.
LEMMA RowGrows ==
  ASSUME NEW row \in [Node -> Batch \cup {None}], NEW n \in Node, NEW b \in Batch,
         row[n] # b
  PROVE  LET stored == [row EXCEPT ![n] = b] IN
         /\ stored \in [Node -> Batch \cup {None}]
         /\ Cardinality(InRow(stored, b)) = Cardinality(InRow(row, b)) + 1
         /\ \A c \in Batch \ {b} : Cardinality(InRow(stored, c)) =< Cardinality(InRow(row, c))
  <1> DEFINE stored == [row EXCEPT ![n] = b]
  <1>1. stored \in [Node -> Batch \cup {None}]
    OBVIOUS
  <1>2. InRow(stored, b) = InRow(row, b) \cup {n} /\ n \notin InRow(row, b)
    BY DEF InRow
  <1>3. Cardinality(InRow(stored, b)) = Cardinality(InRow(row, b)) + 1
    BY <1>2, NumbersType, FS_AddElement DEF InRow
  <1>4. ASSUME NEW c \in Batch \ {b}
        PROVE  Cardinality(InRow(stored, c)) =< Cardinality(InRow(row, c))
    <2>1. InRow(stored, c) \in SUBSET InRow(row, c) /\ IsFiniteSet(InRow(row, c))
      BY NumbersType DEF InRow
    <2> QED BY <2>1, FS_Subset
  <1> QED BY <1>1, <1>3, <1>4

\* A row with which a batch has completed holds nothing.
LEMMA ClearedRow ==
  ASSUME NEW row \in [Node -> Batch \cup {None}], NEW b \in Batch
  PROVE  /\ AfterCompletion(row) \in [Node -> Batch \cup {None}]
         /\ InRow(AfterCompletion(row), b) = {}
  BY RowType DEF AfterCompletion, InRow

\* The handler of an answer.
LEMMA ValidateInv ==
  ASSUME ResponsesInv, NEW n \in Node, Validate(n)
  PROVE  ResponsesInv'
  <1> DEFINE b == answersTaken[n]
             slot == b % Slots
             row == clrspStore[slot]
             stored == [row EXCEPT ![n] = b]
             done == AnswersTo(row, n, b) >= 2 * F + 1
             newRow == IF done THEN AfterCompletion(stored) ELSE stored
             q == 2 * F + 1
  <1>1. b \in Batch /\ slot \in Slot /\ b # None /\ b \in Nat
    <2>1. b \in Batch
      BY BatchesAssumption DEF Validate, ResponsesInv, ResponsesTypeOK, Batch
    <2> QED BY <2>1, RowType
  <1>2. /\ clrspStore \in [Slot -> [Node -> Batch \cup {None}]]
        /\ row \in [Node -> Batch \cup {None}]
        /\ completions \in [Batch -> Nat]
        /\ answersTaken \in [Node -> 0 .. BatchCount]
    BY <1>1 DEF ResponsesInv, ResponsesTypeOK
  <1>3. /\ answersTaken' = [answersTaken EXCEPT ![n] = @ + 1]
        /\ clrspStore' = [clrspStore EXCEPT ![slot] = newRow]
        /\ completions' = IF done THEN [completions EXCEPT ![b] = @ + 1] ELSE completions
        /\ submitted' = submitted
    BY DEF Validate
  <1>4. row[n] # b
    BY <1>1, <1>2 DEF ResponsesInv, StoredInPlace
  <1> HIDE DEF slot, row
  <1>5. /\ stored \in [Node -> Batch \cup {None}]
        /\ Cardinality(InRow(stored, b)) = Cardinality(InRow(row, b)) + 1
        /\ \A c \in Batch \ {b} : Cardinality(InRow(stored, c)) =< Cardinality(InRow(row, c))
    BY <1>1, <1>2, <1>4, RowGrows
  <1> HIDE DEF stored
  <1>6. AfterCompletion(stored) \in [Node -> Batch \cup {None}]
    BY <1>1, <1>5, ClearedRow
  <1>7. newRow \in [Node -> Batch \cup {None}]
    BY <1>5, <1>6
  <1>8. ResponsesTypeOK'
    <2>1. clrspStore' \in [Slot -> [Node -> Batch \cup {None}]]
      BY <1>1, <1>2, <1>3, <1>7
    <2>2. completions' \in [Batch -> Nat]
      BY <1>1, <1>2, <1>3
    <2>3. answersTaken' \in [Node -> 0 .. BatchCount]
      BY <1>1, <1>2, <1>3, BatchesAssumption DEF Batch
    <2> QED BY <2>1, <2>2, <2>3, <1>3 DEF ResponsesInv, ResponsesTypeOK
  <1>9. StoredInPlace'
    <2> SUFFICES ASSUME NEW s \in Slot, NEW m \in Node, clrspStore'[s][m] # None
                 PROVE  /\ clrspStore'[s][m] % Slots = s
                        /\ answersTaken'[m] > clrspStore'[s][m]
      BY DEF StoredInPlace
    <2>1. answersTaken'[m] \in Nat /\ answersTaken[m] \in Nat /\ answersTaken'[m] >= answersTaken[m]
      BY <1>2, <1>3, BatchesAssumption
    <2>2. CASE clrspStore'[s][m] = clrspStore[s][m]
      <3>1. /\ clrspStore[s][m] % Slots = s
            /\ answersTaken[m] > clrspStore[s][m]
        BY <2>2 DEF ResponsesInv, StoredInPlace
      <3>2. clrspStore[s][m] \in Nat
        BY <2>2, <1>2, RowType
      <3> QED BY <2>1, <2>2, <3>1, <3>2
    <2>3. CASE clrspStore'[s][m] # clrspStore[s][m]
      <3>1. s = slot /\ ~done
        BY <2>3, <1>1, <1>2, <1>3 DEF AfterCompletion
      <3>2. m = n /\ clrspStore'[s][m] = b
        BY <2>3, <3>1, <1>1, <1>2, <1>3 DEF row, stored
      <3>3. answersTaken'[n] = b + 1
        BY <1>2, <1>3
      <3> QED BY <3>1, <3>2, <3>3, <1>1 DEF slot
    <2> QED BY <2>2, <2>3
  <1>10. AnswersServeOnce'
    <2> SUFFICES ASSUME NEW c \in Batch
                 PROVE  Cardinality(InRow(clrspStore'[c % Slots], c)) + q * completions'[c]
                          =< Cardinality(Answered(answersTaken', c))
      BY DEF AnswersServeOnce
    <2> DEFINE old == Cardinality(InRow(clrspStore[c % Slots], c))
               new == Cardinality(InRow(clrspStore'[c % Slots], c))
               a == Cardinality(Answered(answersTaken, c))
               a2 == Cardinality(Answered(answersTaken', c))
               k == completions[c]
    <2>1. /\ old \in Nat /\ new \in Nat /\ a \in Nat /\ a2 \in Nat /\ k \in Nat /\ q \in Nat
          /\ old + q * k =< a
      <3>1. c % Slots \in Slot
        BY RowType
      <3>2. old + q * k =< a
        BY DEF ResponsesInv, AnswersServeOnce
      <3> QED BY <1>2, <3>1, <3>2, NumbersType DEF InRow, Answered
    <2>2. CASE c = b
      <3>1. a2 = a + 1
        BY <2>2, AnsweredGrows
      <3>2. clrspStore'[c % Slots] = newRow /\ clrspStore[c % Slots] = row
        BY <2>2, <1>1, <1>2, <1>3 DEF slot, row
      <3>3. CASE done
        <4>1. InRow(newRow, c) = {}
          BY <3>3, <1>1, <1>5, <2>2, ClearedRow
        <4>2. new = 0
          BY <4>1, <3>2, FS_EmptySet
        <4>3. completions'[c] = k + 1
          BY <3>3, <2>2, <1>1, <1>2, <1>3
        <4>4. old + 1 >= q
          BY <3>2, <3>3, <2>2 DEF AnswersTo, InRow
        <4> HIDE DEF old, new, a, a2, k, q
        <4>5. q * (k + 1) = q * k + q
          BY <2>1
        <4>6. new + q * (k + 1) =< a2
          <5> DEFINE p == q * k
          <5>1. p \in Int
            BY <2>1
          <5> HIDE DEF p
          <5>2. old + p =< a /\ q * (k + 1) = p + q
            BY <2>1, <4>5 DEF p
          <5> QED BY <2>1, <3>1, <4>2, <4>4, <5>1, <5>2
        <4> QED BY <4>3, <4>6 DEF new, a2
      <3>4. CASE ~done
        <4>1. new = old + 1
          BY <3>2, <3>4, <2>2, <1>5
        <4>2. completions'[c] = k
          BY <3>4, <1>3
        <4> HIDE DEF old, new, a, a2, k, q
        <4> QED BY <2>1, <3>1, <4>1, <4>2 DEF new, a2
      <3> QED BY <3>3, <3>4
    <2>3. CASE c # b
      <3>1. a2 = a
        BY <2>3, AnsweredGrows
      <3>2. completions'[c] = k
        BY <2>3, <1>2, <1>3
      <3>3. new =< old
        <4>1. CASE c % Slots = slot
          <5>1. clrspStore'[c % Slots] = newRow /\ clrspStore[c % Slots] = row
            BY <4>1, <1>1, <1>2, <1>3 DEF row
          <5>2. CASE done
            <6>1. InRow(newRow, c) = {}
              BY <5>2, <1>5, ClearedRow
            <6>2. new = 0
              BY <5>1, <6>1, FS_EmptySet
            <6> QED BY <6>2, <2>1
          <5>3. CASE ~done
            <6>1. Cardinality(InRow(stored, c)) =< Cardinality(InRow(row, c))
              BY <1>5, <2>3
            <6>2. newRow = stored
              BY <5>3
            <6> QED BY <5>1, <6>1, <6>2
          <5> QED BY <5>2, <5>3
        <4>2. CASE c % Slots # slot
          BY <4>2, <1>2, <1>3, <2>1, RowType
        <4> QED BY <4>1, <4>2
      <3> HIDE DEF old, new, a, a2, k, q
      <3> QED BY <2>1, <3>1, <3>2, <3>3 DEF new, a2
    <2> QED BY <2>2, <2>3
  <1> QED BY <1>8, <1>9, <1>10 DEF ResponsesInv

\* Every step keeps the invariant.
LEMMA NextResponsesInv ==
  ResponsesInv /\ [ResponsesNext]_responsesVars => ResponsesInv'
  <1> SUFFICES ASSUME ResponsesInv, [ResponsesNext]_responsesVars PROVE ResponsesInv'
    OBVIOUS
  <1>1. CASE Submit
    <2>1. ResponsesTypeOK'
      BY <1>1, BatchesAssumption DEF Submit, ResponsesInv, ResponsesTypeOK
    <2> QED BY <1>1, <2>1
            DEF Submit, ResponsesInv, StoredInPlace, AnswersServeOnce
  <1>2. CASE \E n \in Node : Validate(n)
    BY <1>2, ValidateInv
  <1>3. CASE UNCHANGED responsesVars
    BY <1>3 DEF responsesVars, ResponsesInv, ResponsesTypeOK, StoredInPlace,
                AnswersServeOnce
  <1> QED BY <1>1, <1>2, <1>3 DEF ResponsesNext

\* A batch completes at the client at most once and with 2F + 1 answers to it
\* (ClientResponseMessage::validate), whatever else shares its row.
THEOREM CompletionsAreSound == ResponsesSpec => [](CompletedOnce /\ CompletedIsAnswered)
  <1>1. ResponsesSpec => []ResponsesInv
    BY InitResponsesInv, NextResponsesInv, PTL DEF ResponsesSpec
  <1> QED BY <1>1, InvCompletions, PTL

-----------------------------------------------------------------------------
(* The parts *)

\* A step of the session is one of the start-up or leaves it alone.
LEMMA SessionStepsOfStartup == [SessionNext]_sessionVars => [StartupNext]_startupVars
  <1> SUFFICES ASSUME [SessionNext]_sessionVars PROVE [StartupNext]_startupVars
    OBVIOUS
  <1>1. CASE StartupNext /\ UNCHANGED <<threadVars, responsesVars, linkVars>>
    BY <1>1
  <1>2. CASE ClientSends \/ PrimarySteps(ThreadsNext)
    BY <1>2 DEF ClientSends, PrimarySteps
  <1>3. CASE \E b \in Batch : PrepArrives(b) \/ CommitArrives(b)
    BY <1>3 DEF PrepArrives, CommitArrives, Queue
  <1>4. CASE \E n \in Node : AnswerArrives(n)
    BY <1>4 DEF AnswerArrives
  <1>5. CASE UNCHANGED sessionVars
    BY <1>5 DEF sessionVars
  <1> QED BY <1>1, <1>2, <1>3, <1>4, <1>5 DEF SessionNext

\* A step of the session is one of the client's counting or leaves it alone.
LEMMA SessionStepsOfResponses ==
  [SessionNext]_sessionVars => [ResponsesNext]_responsesVars
  <1> SUFFICES ASSUME [SessionNext]_sessionVars PROVE [ResponsesNext]_responsesVars
    OBVIOUS
  <1>1. CASE StartupNext /\ UNCHANGED <<threadVars, responsesVars, linkVars>>
    BY <1>1
  <1>2. CASE ClientSends
    BY <1>2 DEF ClientSends, ResponsesNext
  <1>3. CASE PrimarySteps(ThreadsNext)
    BY <1>3 DEF PrimarySteps
  <1>4. CASE \E b \in Batch : PrepArrives(b) \/ CommitArrives(b)
    BY <1>4 DEF PrepArrives, CommitArrives, Queue
  <1>5. CASE \E n \in Node : AnswerArrives(n)
    BY <1>5 DEF AnswerArrives, ResponsesNext
  <1>6. CASE UNCHANGED sessionVars
    BY <1>6 DEF sessionVars
  <1> QED BY <1>1, <1>2, <1>3, <1>4, <1>5, <1>6 DEF SessionNext

\* The invariants of the parts hold in a session.
LEMMA PartsInv == SessionSpec => [](StartupInv /\ ResponsesInv)
  <1>1. SessionSpec => []StartupInv
    BY InitStartupInv, NextStartupInv, SessionStepsOfStartup, PTL
    DEF SessionSpec, SessionInit
  <1>2. SessionSpec => []ResponsesInv
    BY InitResponsesInv, NextResponsesInv, SessionStepsOfResponses, PTL
    DEF SessionSpec, SessionInit
  <1> QED BY <1>1, <1>2, PTL

-----------------------------------------------------------------------------
(* Batches and keys *)

\* Before the first client may send, no batch is anywhere on its way to the
\* replicas.
NothingBeforeKeys ==
    keyAvail = {} =>
        /\ clientQueue = <<>> /\ orderQueue = <<>>
        /\ \A t \in BatchThread : batching[t] = None
        /\ ordering = None /\ ordered = {}

\* The steps of the threads start from what is queued or in hand.
LEMMA ThreadsWait ==
  ASSUME NothingBeforeKeys, PrimarySteps(ThreadsNext)
  PROVE  NothingBeforeKeys'
  <1>1. keyAvail' = keyAvail
    BY DEF PrimarySteps, startupVars
  <1> SUFFICES ASSUME keyAvail = {}
               PROVE  UNCHANGED <<clientQueue, orderQueue, batching, ordering, ordered>>
    BY <1>1 DEF NothingBeforeKeys
  <1>2. ~BatchingNext
    BY DEF NothingBeforeKeys, BatchingNext, TakeClientBatch, EndClientBatch
  <1>3. ~OrderingNext
    BY DEF NothingBeforeKeys, OrderingNext, TakeBatchReq, EndBatchReq
  <1>4. VotingNext => UNCHANGED <<clientQueue, orderQueue, batching, ordering, ordered>>
    BY DEF VotingNext, TakeVote, EndVote
  <1>5. ExecutingNext => UNCHANGED <<clientQueue, orderQueue, batching, ordering, ordered>>
    BY DEF ExecutingNext, TakeExecute, ClaimLast, EndExecute
  <1> QED BY <1>2, <1>3, <1>4, <1>5 DEF PrimarySteps, ThreadsNext

\* Every step keeps the primary idle until a client may send.
LEMMA NextNothingBeforeKeys ==
  NothingBeforeKeys /\ [SessionNext]_sessionVars => NothingBeforeKeys'
  <1> SUFFICES ASSUME NothingBeforeKeys, [SessionNext]_sessionVars
               PROVE  NothingBeforeKeys'
    OBVIOUS
  <1>1. CASE StartupNext /\ UNCHANGED <<threadVars, responsesVars, linkVars>>
    <2>1. keyAvail' = {} => keyAvail = {}
      BY <1>1 DEF StartupNext, StartThread, SendKey, ProcessKeyExchange, GetReady
    <2>2. UNCHANGED <<clientQueue, orderQueue, batching, ordering, ordered>>
      BY <1>1 DEF threadVars
    <2> QED BY <2>1, <2>2 DEF NothingBeforeKeys
  <1>2. CASE ClientSends
    <2>1. keyAvail # {} /\ keyAvail' = keyAvail
      BY <1>2 DEF ClientSends, startupVars
    <2> QED BY <2>1 DEF NothingBeforeKeys
  <1>3. CASE PrimarySteps(ThreadsNext)
    BY <1>3, ThreadsWait
  <1>4. CASE \E b \in Batch : PrepArrives(b) \/ CommitArrives(b)
    <2>1. /\ keyAvail' = keyAvail
          /\ UNCHANGED <<clientQueue, orderQueue, batching, ordering, ordered>>
      BY <1>4 DEF PrepArrives, CommitArrives, Queue, startupVars
    <2> QED BY <2>1 DEF NothingBeforeKeys
  <1>5. CASE \E n \in Node : AnswerArrives(n)
    <2>1. /\ keyAvail' = keyAvail
          /\ UNCHANGED <<clientQueue, orderQueue, batching, ordering, ordered>>
      BY <1>5 DEF AnswerArrives, startupVars, threadVars
    <2> QED BY <2>1 DEF NothingBeforeKeys
  <1>6. CASE UNCHANGED sessionVars
    <2>1. /\ keyAvail' = keyAvail
          /\ UNCHANGED <<clientQueue, orderQueue, batching, ordering, ordered>>
      BY <1>6 DEF sessionVars, startupVars, threadVars
    <2> QED BY <2>1 DEF NothingBeforeKeys
  <1> QED BY <1>1, <1>2, <1>3, <1>4, <1>5, <1>6 DEF SessionNext

\* When a batch is ordered every node is READY, and so has the keys.
LEMMA InvBatchMeetsKeys == StartupInv /\ NothingBeforeKeys => BatchMeetsKeys
  <1> SUFFICES ASSUME StartupInv, NothingBeforeKeys, ordered # {}, NEW n \in Node
               PROVE  KeysComplete(n)
    BY DEF BatchMeetsKeys
  <1>1. readySent = Node
    BY DEF NothingBeforeKeys, StartupInv, ClientsFollow
  <1> QED BY <1>1, InvReadyMeansKeys DEF ReadyMeansKeys

\* When the primary sends a batch to the replicas, every node has the wallet of
\* every node: the client's wait for READY (client_thread.cpp) is enough, for
\* any number of nodes, clients and threads.
THEOREM BatchesMeetKeys == SessionSpec => []BatchMeetsKeys
  <1>1. SessionInit => NothingBeforeKeys
    BY DEF SessionInit, ThreadsInit, NothingBeforeKeys
  <1>2. SessionSpec => []NothingBeforeKeys
    BY <1>1, NextNothingBeforeKeys, PTL DEF SessionSpec
  <1> QED BY <1>2, PartsInv, InvBatchMeetsKeys, PTL

\* In a session too a node is READY only with all keys, and a batch completes
\* at most once and with 2F + 1 answers.
THEOREM SessionKeepsItsParts ==
  SessionSpec => [](ReadyMeansKeys /\ CompletedOnce /\ CompletedIsAnswered)
  BY PartsInv, InvReadyMeansKeys, InvCompletions, PTL

-----------------------------------------------------------------------------
(* Claims: the ids of batches, the invariant, the steps *)

\* Batches are BatchSize apart.
LEMMA Products ==
  ASSUME NEW x \in Int, NEW y \in Int, x < y
  PROVE  BatchSize * x + BatchSize <= BatchSize * y
  <1> DEFINE d == y - x - 1
  <1>1. d \in Nat /\ y = x + 1 + d
    OBVIOUS
  <1>2. BatchSize * d \in Nat
    BY <1>1, ThreadsAssumption
  <1>3. BatchSize * y = BatchSize * x + BatchSize + BatchSize * d
    BY <1>1, ThreadsAssumption
  <1> HIDE DEF d
  <1> QED BY <1>2, <1>3, ThreadsAssumption

\* A batch is found from any place in it.
LEMMA Places ==
  ASSUME NEW b \in Int, NEW k \in 0 .. BatchSize - 1
  PROVE  (BatchSize * b + k) \div BatchSize = b
  <1> DEFINE id == BatchSize * b + k
             q == id \div BatchSize
  <1>1. /\ id \in Int /\ q \in Int
        /\ BatchSize * q <= id /\ id < BatchSize * q + BatchSize
    BY ThreadsAssumption
  <1>2. ~ q < b
    <2> SUFFICES ASSUME q < b PROVE FALSE
      OBVIOUS
    <2>1. BatchSize * q + BatchSize <= BatchSize * b
      BY <1>1, Products
    <2> QED BY <1>1, <2>1, ThreadsAssumption
  <1>3. ~ b < q
    <2> SUFFICES ASSUME b < q PROVE FALSE
      OBVIOUS
    <2>1. BatchSize * b + BatchSize <= BatchSize * q
      BY <1>1, Products
    <2> QED BY <1>1, <2>1, ThreadsAssumption
  <1> QED BY <1>1, <1>2, <1>3

\* The three ids a batch goes by are ids of its transactions.
LEMMA IdsOfBatch ==
  ASSUME NEW b \in Batch
  PROVE  /\ Last(b) \in TxnIds /\ BatchReqId(b) \in TxnIds /\ ExecuteId(b) \in TxnIds
         /\ BatchOf(Last(b)) = b /\ BatchOf(BatchReqId(b)) = b
         /\ BatchOf(ExecuteId(b)) = b
  <1>1. b \in Nat /\ b < BatchCount /\ BatchCount \in Nat
    BY BatchesAssumption DEF Batch
  <1>2. BatchSize * b + BatchSize <= BatchSize * BatchCount
    BY <1>1, Products
  <1>3. BatchSize * b \in Nat
    BY <1>1, ThreadsAssumption
  <1>4. /\ Last(b) \in TxnIds /\ BatchReqId(b) \in TxnIds /\ ExecuteId(b) \in TxnIds
    BY <1>1, <1>2, <1>3, ThreadsAssumption DEF Last, BatchReqId, ExecuteId, TxnIds
  <1>5. /\ (BatchSize * b + (BatchSize - 1)) \div BatchSize = b
        /\ (BatchSize * b + (BatchSize - 2)) \div BatchSize = b
        /\ (BatchSize * b + (BatchSize - 3)) \div BatchSize = b
    BY <1>1, Places, ThreadsAssumption
  <1>6. /\ Last(b) = BatchSize * b + (BatchSize - 1)
        /\ ExecuteId(b) = BatchSize * b + (BatchSize - 2)
        /\ BatchReqId(b) = BatchSize * b + (BatchSize - 3)
    BY <1>3, ThreadsAssumption DEF Last, BatchReqId, ExecuteId
  <1> QED BY <1>4, <1>5, <1>6 DEF BatchOf

\* Those of different batches differ, and so do those of different kinds.
LEMMA IdsApart ==
  ASSUME NEW b \in Batch, NEW c \in Batch
  PROVE  /\ Last(b) = Last(c) => b = c
         /\ Last(b) # BatchReqId(c) /\ Last(b) # ExecuteId(c)
         /\ BatchReqId(b) # ExecuteId(c)
  <1>1. Last(b) = Last(c) => b = c
    BY IdsOfBatch
  <1>2. b = c => /\ Last(b) # BatchReqId(c) /\ Last(b) # ExecuteId(c)
                 /\ BatchReqId(b) # ExecuteId(c)
    <2>1. Last(b) \in Int
      BY IdsOfBatch DEF TxnIds
    <2> QED BY <2>1 DEF BatchReqId, ExecuteId
  <1>3. b # c => /\ Last(b) # BatchReqId(c) /\ Last(b) # ExecuteId(c)
                 /\ BatchReqId(b) # ExecuteId(c)
    BY IdsOfBatch
  <1> QED BY <1>1, <1>2, <1>3

-----------------------------------------------------------------------------
\* A sequence over a set is one over a larger set.
LEMMA SeqOfMore ==
  ASSUME NEW S, NEW T, S \subseteq T, NEW s \in Seq(S)
  PROVE  s \in Seq(T)
  <1>1. Len(s) \in Nat /\ DOMAIN s = 1 .. Len(s)
    OBVIOUS
  <1>2. \A k \in 1 .. Len(s) : s[k] \in T
    OBVIOUS
  <1> QED BY <1>1, <1>2

\* What has been taken are batches, and None is none of them.
LEMMA BegunAreBatches ==
  ASSUME ClientQueueInv
  PROVE  /\ Begun \subseteq Batch /\ None \notin Begun /\ Batch \subseteq Int
         /\ None \notin {BatchReqId(b) : b \in Begun}
         /\ VoteOn(Begun) \subseteq Message /\ None \notin VoteOn(Begun)
  <1>1. Begun \subseteq Batch /\ Batch \subseteq Int
    BY BatchesAssumption DEF ClientQueueInv, Begun, Batch
  <1>2. \A b \in Begun : BatchReqId(b) \in Int
    BY <1>1, IdsOfBatch DEF TxnIds
  <1>3. VoteOn(Begun) \subseteq Message
    BY <1>1, IdsOfBatch DEF VoteOn, Message
  <1> QED BY <1>1, <1>2, <1>3, BatchesAssumption, NoMessageAssumption

\* What is about batches that were taken stays so when more are taken.
LEMMA BegunStay ==
  ASSUME BegunInv, Begun \subseteq Begun',
         UNCHANGED <<ordering, ordered, workQueue, voting, executeQueue,
                     executing, prepsIn, commitsIn>>,
         batching' \in [BatchThread -> Begun' \cup {None}],
         orderQueue' \in Seq({BatchReqId(b) : b \in Begun'})
  PROVE  BegunInv'
  <1>1. {BatchReqId(b) : b \in Begun} \subseteq {BatchReqId(b) : b \in Begun'}
    OBVIOUS
  <1>2. VoteOn(Begun) \subseteq VoteOn(Begun')
    BY DEF VoteOn
  <1>3. ordering' \in {BatchReqId(b) : b \in Begun'} \cup {None}
    BY <1>1 DEF BegunInv
  <1>4. /\ workQueue' \in Seq(VoteOn(Begun'))
        /\ voting' \in VoteOn(Begun') \cup {None}
    BY <1>2, SeqOfMore DEF BegunInv
  <1>5. /\ executeQueue' \in Seq(Begun')
        /\ ordered' \subseteq Begun'
        /\ executing' \in [batch : Begun' \cup {None}, claimed : BOOLEAN]
        /\ executing'.claimed => executing'.batch # None
    BY SeqOfMore DEF BegunInv
  <1>6. /\ prepsIn' \in [Batch -> Nat] /\ commitsIn' \in [Batch -> Nat]
        /\ \A b \in Batch : prepsIn'[b] > 0 => b \in Begun'
    BY DEF BegunInv
  <1> QED BY <1>3, <1>4, <1>5, <1>6 DEF BegunInv, VoteOn

\* The managers that are held stay held.
LEMMA HeldStay ==
  ASSUME HeldInv, UNCHANGED <<ready, batching, ordering, voting, executing>>
  PROVE  HeldInv'
  BY DEF HeldInv, Held

\* The client's queue grows by a batch that is new.
LEMMA SendKeepsClaims == ClaimInv /\ ClientSends => ClaimInv'
  <1> SUFFICES ASSUME ClaimInv, ClientSends PROVE ClaimInv'
    OBVIOUS
  <1> USE DEF ClaimInv
  <1>1. /\ submitted < BatchCount /\ submitted' = submitted + 1
        /\ clientQueue' = Append(clientQueue, submitted)
        /\ UNCHANGED <<ready, batching, ordering, voting, executing, orderQueue,
                       ordered, workQueue, executeQueue, prepsIn, commitsIn, failed>>
    BY DEF ClientSends, Submit, linkVars
  <1>2. submitted \in Nat /\ submitted' \in 0 .. BatchCount
    BY <1>1, BatchesAssumption DEF ClientQueueInv
  <1>3. clientQueue \in Seq(0 .. submitted' - 1)
    BY <1>1, <1>2, SeqOfMore DEF ClientQueueInv
  <1>4. /\ clientQueue' \in Seq(0 .. submitted' - 1)
        /\ Len(clientQueue') = Len(clientQueue) + 1
        /\ \A k \in DOMAIN clientQueue :
              clientQueue'[k] = clientQueue[k] /\ clientQueue[k] < submitted
        /\ clientQueue'[Len(clientQueue')] = submitted
    BY <1>1, <1>2, <1>3 DEF ClientQueueInv
  <1>5. ClientQueueInv'
    <2>1. DOMAIN clientQueue = 1 .. Len(clientQueue)
          /\ DOMAIN clientQueue' = 1 .. Len(clientQueue) + 1
          /\ Len(clientQueue) \in Nat
      BY <1>3, <1>4
    <2>2. ASSUME NEW j \in DOMAIN clientQueue', NEW k \in DOMAIN clientQueue', j < k
          PROVE  clientQueue'[j] # clientQueue'[k]
      <3>1. j \in DOMAIN clientQueue
        BY <2>1, <2>2
      <3>2. CASE k = Len(clientQueue) + 1
        BY <1>2, <1>4, <3>1, <3>2
      <3>3. CASE k \in DOMAIN clientQueue
        BY <1>4, <2>2, <3>1, <3>3 DEF ClientQueueInv
      <3> QED BY <2>1, <3>2, <3>3
    <2>3. \A j, k \in DOMAIN clientQueue' : j # k => clientQueue'[j] # clientQueue'[k]
      BY <2>1, <2>2
    <2> QED BY <1>2, <1>4, <2>3 DEF ClientQueueInv
  <1>6. Begun \subseteq Begun'
    <2> SUFFICES ASSUME NEW b \in Begun, NEW k \in DOMAIN clientQueue'
                 PROVE  clientQueue'[k] # b
      BY <1>1, <1>2 DEF Begun
    <2>1. k \in DOMAIN clientQueue \/ k = Len(clientQueue')
      BY <1>3, <1>4
    <2> QED BY <1>2, <1>4, <2>1 DEF Begun
  <1>7. BegunInv'
    <2>1. batching' \in [BatchThread -> Begun' \cup {None}]
      BY <1>1, <1>6 DEF BegunInv
    <2>2. {BatchReqId(b) : b \in Begun} \subseteq {BatchReqId(b) : b \in Begun'}
      BY <1>6
    <2>3. orderQueue' \in Seq({BatchReqId(b) : b \in Begun'})
      BY <1>1, <2>2, SeqOfMore DEF BegunInv
    <2> QED BY <1>1, <1>6, <2>1, <2>3, BegunStay
  <1> QED BY <1>1, <1>5, <1>7, HeldStay DEF ClaimsSucceed

\* The manager of the last transaction of a batch in the client's queue is free.
LEMMA FreeBeforeTaken ==
  ASSUME ClaimInv, clientQueue # <<>>
  PROVE  /\ Head(clientQueue) \in Batch \ Begun
         /\ Last(Head(clientQueue)) \in ready
  <1> USE DEF ClaimInv
  <1> DEFINE b == Head(clientQueue)
  <1>1. b \in 0 .. submitted - 1 /\ b = clientQueue[1] /\ 1 \in DOMAIN clientQueue
    BY DEF ClientQueueInv
  <1>2. b \in Batch \ Begun
    BY <1>1, BatchesAssumption DEF ClientQueueInv, Begun, Batch
  <1> HIDE DEF b
  <1>3. \A c \in Begun : /\ c \in Batch /\ Last(b) # Last(c) /\ Last(b) # BatchReqId(c)
                          /\ Last(b) # ExecuteId(c)
    BY <1>2, BegunAreBatches, IdsApart
  <1>4. ~Held(Last(b))
    BY <1>3, BegunAreBatches DEF BegunInv, VoteOn, Held
  <1>5. Last(b) \in TxnIds
    BY <1>2, IdsOfBatch
  <1> QED BY <1>2, <1>4, <1>5 DEF HeldInv, b

\* A batching thread's assertion holds.
LEMMA TakeClientBatchKeepsClaims ==
  ASSUME ClaimInv, NEW t \in BatchThread, PrimarySteps(TakeClientBatch(t))
  PROVE  ClaimInv'
  <1> USE DEF ClaimInv
  <1> DEFINE b == Head(clientQueue)
  <1>1. /\ clientQueue # <<>> /\ clientQueue' = Tail(clientQueue)
        /\ batching[t] = None
        /\ UNCHANGED <<submitted, workQueue, executeQueue, ordering, voting,
                       executing, ordered, prepsIn, commitsIn>>
    BY DEF TakeClientBatch, PrimarySteps, responsesVars, linkVars
  <1>2. b \in Batch \ Begun /\ Last(b) \in ready
    BY <1>1, FreeBeforeTaken
  <1>3. /\ ready' = ready \ {Last(b)}
        /\ batching' = [batching EXCEPT ![t] = b]
        /\ orderQueue' = Append(orderQueue, BatchReqId(b))
        /\ failed' = failed
    BY <1>2 DEF TakeClientBatch, PrimarySteps
  <1>4. /\ clientQueue' \in Seq(0 .. submitted - 1)
        /\ DOMAIN clientQueue' = 1 .. Len(clientQueue) - 1
        /\ DOMAIN clientQueue = 1 .. Len(clientQueue)
        /\ \A k \in DOMAIN clientQueue' :
              k + 1 \in DOMAIN clientQueue /\ clientQueue'[k] = clientQueue[k + 1]
        /\ b = clientQueue[1] /\ b \in 0 .. submitted - 1 /\ 1 \in DOMAIN clientQueue
    BY <1>1 DEF ClientQueueInv
  <1> HIDE DEF b
  <1>5. ClientQueueInv'
    <2>1. \A j, k \in DOMAIN clientQueue' : j # k => clientQueue'[j] # clientQueue'[k]
      BY <1>4 DEF ClientQueueInv
    <2>2. submitted' = submitted /\ submitted \in 0 .. BatchCount
      BY <1>1 DEF ClientQueueInv
    <2>3. clientQueue' \in Seq(0 .. submitted' - 1)
      BY <1>4, <2>2
    <2> QED BY <2>1, <2>2, <2>3 DEF ClientQueueInv
  <1>6. Begun \subseteq Begun' /\ b \in Begun'
    <2>1. submitted' = submitted
      BY <1>1
    <2>2. ASSUME NEW k \in DOMAIN clientQueue' PROVE clientQueue'[k] # b
      <3>1. k + 1 \in DOMAIN clientQueue /\ clientQueue'[k] = clientQueue[k + 1]
            /\ k + 1 # 1
        BY <1>4
      <3> QED BY <1>4, <3>1 DEF ClientQueueInv
    <2>3. b \in Begun'
      BY <1>4, <2>1, <2>2 DEF Begun
    <2>4. Begun \subseteq Begun'
      BY <1>4, <2>1 DEF Begun
    <2> QED BY <2>3, <2>4
  <1>7. BegunInv'
    <2>1. batching' \in [BatchThread -> Begun' \cup {None}]
      BY <1>3, <1>6 DEF BegunInv
    <2>2. {BatchReqId(c) : c \in Begun} \subseteq {BatchReqId(c) : c \in Begun'}
          /\ BatchReqId(b) \in {BatchReqId(c) : c \in Begun'}
      BY <1>6
    <2>3. orderQueue \in Seq({BatchReqId(c) : c \in Begun'})
      BY <2>2, SeqOfMore DEF BegunInv
    <2>4. orderQueue' \in Seq({BatchReqId(c) : c \in Begun'})
      BY <1>3, <2>2, <2>3
    <2> QED BY <1>1, <1>6, <2>1, <2>4, BegunStay
  <1>8. HeldInv'
    <2>1. b # None /\ batching'[t] = b
          /\ \A u \in BatchThread \ {t} : batching'[u] = batching[u]
      BY <1>2, <1>3, BegunAreBatches, BatchesAssumption DEF BegunInv
    <2>2. ASSUME NEW id PROVE Held(id)' <=> Held(id) \/ id = Last(b)
      BY <1>1, <2>1 DEF Held
    <2>3. ready' = {id \in TxnIds : ~Held(id)'}
      BY <1>3, <2>2 DEF HeldInv
    <2>4. ~Held(Last(b))
      BY <1>2 DEF HeldInv
    <2>5. ~Held(Last(b)) => /\ \A u \in BatchThread : batching[u] # b
                            /\ voting # None => voting.txn_id # Last(b)
                            /\ executing.claimed => executing.batch # b
      BY <2>1 DEF Held
    <2> QED BY <1>1, <2>1, <2>3, <2>4, <2>5 DEF HeldInv
  <1> QED BY <1>3, <1>5, <1>7, <1>8 DEF ClaimsSucceed

\* The other steps leave the client's queue alone.
LEMMA NothingTaken ==
  ASSUME ClientQueueInv, UNCHANGED <<submitted, clientQueue>>
  PROVE  ClientQueueInv' /\ Begun' = Begun
  BY DEF ClientQueueInv, Begun

\* A batching thread gives back what it holds.
LEMMA EndClientBatchKeepsClaims ==
  ASSUME ClaimInv, NEW t \in BatchThread, PrimarySteps(EndClientBatch(t))
  PROVE  ClaimInv'
  <1> USE DEF ClaimInv
  <1> DEFINE b == batching[t]
  <1>1. /\ b # None /\ GiveBack({Last(b)})
        /\ batching' = [batching EXCEPT ![t] = None]
        /\ UNCHANGED <<submitted, clientQueue, orderQueue, workQueue, executeQueue,
                       ordering, voting, executing, ordered, prepsIn, commitsIn>>
    BY DEF EndClientBatch, PrimarySteps, responsesVars, linkVars
  <1>2. ClientQueueInv' /\ Begun' = Begun
    BY <1>1, NothingTaken
  <1>3. BegunInv'
    <2>1. /\ batching' \in [BatchThread -> Begun' \cup {None}]
          /\ orderQueue' \in Seq({BatchReqId(c) : c \in Begun'})
      BY <1>1, <1>2 DEF BegunInv
    <2> QED BY <1>1, <1>2, <2>1, BegunStay
  <1>4. b \in Begun /\ Begun \subseteq Batch
    BY <1>1, BegunAreBatches DEF BegunInv
  <1>5. /\ batching'[t] = None
        /\ \A u \in BatchThread \ {t} : batching'[u] = batching[u]
    BY <1>1 DEF BegunInv
  <1>6. Last(b) \in TxnIds /\ Last(b) \notin ready
    BY <1>1, <1>4, IdsOfBatch DEF HeldInv, Held
  <1>7. /\ batching[t] = b /\ b # None
        /\ \A u \in BatchThread \ {t} : batching[u] # b
        /\ voting # None => voting.txn_id # Last(b)
        /\ executing.claimed => executing.batch # b
    BY <1>1 DEF HeldInv
  <1> HIDE DEF b
  <1>8. HeldInv'
    <2>1. \A c \in Begun : /\ Last(b) = Last(c) => b = c
                           /\ Last(b) # BatchReqId(c) /\ Last(b) # ExecuteId(c)
      BY <1>4, IdsApart
    <2>2. /\ \A u \in BatchThread \ {t} : batching[u] # None => Last(batching[u]) # Last(b)
          /\ ordering # None => ordering # Last(b)
          /\ voting # None => voting.txn_id # Last(b)
          /\ executing.batch # None => ExecuteId(executing.batch) # Last(b)
          /\ executing.claimed => Last(executing.batch) # Last(b)
      <3>1. \A u \in BatchThread \ {t} :
              batching[u] # None => batching[u] \in Begun /\ batching[u] # b
        BY <1>7 DEF BegunInv
      <3>2. \A u \in BatchThread \ {t} :
              batching[u] # None => Last(batching[u]) # Last(b)
        BY <2>1, <3>1
      <3>3. ordering # None => ordering # Last(b)
        <4> SUFFICES ASSUME ordering # None PROVE ordering # Last(b)
          OBVIOUS
        <4>1. PICK c \in Begun : ordering = BatchReqId(c)
          BY DEF BegunInv
        <4> QED BY <2>1, <4>1
      <3>4. /\ executing.batch # None => executing.batch \in Begun
            /\ executing.claimed => executing.batch # None
        BY DEF BegunInv
      <3> QED BY <1>7, <2>1, <3>2, <3>3, <3>4
    <2>3. ASSUME NEW id PROVE Held(id)' <=> Held(id) /\ id # Last(b)
      BY <1>1, <1>5, <1>7, <2>2 DEF Held
    <2>4. ready' = {id \in TxnIds : ~Held(id)'}
      BY <1>1, <1>6, <2>3 DEF HeldInv, GiveBack
    <2> QED BY <1>1, <1>5, <2>4 DEF HeldInv
  <1>9. ClaimsSucceed'
    BY <1>1, <1>6 DEF GiveBack, ClaimsSucceed
  <1> QED BY <1>2, <1>3, <1>8, <1>9

\* The ordering thread's assertion holds.
LEMMA TakeBatchReqKeepsClaims ==
  ASSUME ClaimInv, PrimarySteps(TakeBatchReq)
  PROVE  ClaimInv'
  <1> USE DEF ClaimInv
  <1> DEFINE id == Head(orderQueue)
             ids == {BatchReqId(b) : b \in Begun}
  <1>1. /\ ordering = None /\ orderQueue # <<>>
        /\ UNCHANGED <<submitted, clientQueue, workQueue, executeQueue, batching,
                       voting, executing, prepsIn, commitsIn>>
    BY DEF TakeBatchReq, PrimarySteps, responsesVars, linkVars
  <1>2. ClientQueueInv' /\ Begun' = Begun
    BY <1>1, NothingTaken
  <1>3. /\ id \in ids /\ Tail(orderQueue) \in Seq(ids)
        /\ Append(Tail(orderQueue), id) \in Seq(ids)
    BY <1>1 DEF BegunInv
  <1>4. PICK b \in Begun : id = BatchReqId(b)
    BY <1>3
  <1>5. b \in Batch /\ Begun \subseteq Batch
    BY BegunAreBatches
  <1>6. id \in TxnIds /\ BatchOf(id) = b /\ id # None
    BY <1>4, <1>5, IdsOfBatch, BatchesAssumption DEF TxnIds
  <1>7. \A c \in Begun : id # Last(c) /\ id # ExecuteId(c)
    BY <1>4, <1>5, IdsApart
  <1>8. ~Held(id)
    BY <1>1, <1>7, BegunAreBatches DEF BegunInv, VoteOn, Held
  <1>9. id \in ready
    BY <1>6, <1>8 DEF HeldInv
  <1> HIDE DEF id, ids
  <1>10. CASE UNCHANGED <<ready, ordering, ordered, failed>>
              /\ orderQueue' = Append(Tail(orderQueue), id)
    <2>1. BegunInv'
      <3>1. /\ batching' \in [BatchThread -> Begun' \cup {None}]
            /\ orderQueue' \in Seq({BatchReqId(c) : c \in Begun'})
        BY <1>1, <1>2, <1>3, <1>10 DEF BegunInv, ids
      <3> QED BY <1>1, <1>2, <1>10, <3>1, BegunStay
    <2> QED BY <1>1, <1>2, <1>10, <2>1, HeldStay DEF ClaimsSucceed
  <1>11. CASE /\ orderQueue' = Tail(orderQueue) /\ ready' = ready \ {id}
              /\ ordering' = id /\ ordered' = ordered \cup {b} /\ failed' = failed
    <2>1. BegunInv'
      <3>1. /\ orderQueue' \in Seq({BatchReqId(c) : c \in Begun'})
            /\ ordering' \in {BatchReqId(c) : c \in Begun'}
            /\ ordered' \subseteq Begun'
        BY <1>2, <1>3, <1>11 DEF BegunInv, ids
      <3> QED BY <1>1, <1>2, <3>1 DEF BegunInv, VoteOn
    <2>2. ASSUME NEW i PROVE Held(i)' <=> Held(i) \/ i = id
      BY <1>1, <1>6, <1>11 DEF Held
    <2>3. HeldInv'
      BY <1>1, <1>11, <2>2 DEF HeldInv
    <2> QED BY <1>2, <1>11, <2>1, <2>3 DEF ClaimsSucceed
  <1> QED BY <1>6, <1>9, <1>10, <1>11 DEF TakeBatchReq, PrimarySteps, id

\* The ordering thread gives back what it holds.
LEMMA EndBatchReqKeepsClaims ==
  ASSUME ClaimInv, PrimarySteps(EndBatchReq)
  PROVE  ClaimInv'
  <1> USE DEF ClaimInv
  <1>1. /\ ordering # None /\ GiveBack({ordering}) /\ ordering' = None
        /\ UNCHANGED <<submitted, clientQueue, orderQueue, workQueue, executeQueue,
                       batching, voting, executing, ordered, prepsIn, commitsIn>>
    BY DEF EndBatchReq, PrimarySteps, responsesVars, linkVars
  <1>2. ClientQueueInv' /\ Begun' = Begun
    BY <1>1, NothingTaken
  <1>3. BegunInv'
    BY <1>1, <1>2 DEF BegunInv, VoteOn
  <1>4. PICK b \in Begun : ordering = BatchReqId(b)
    BY <1>1 DEF BegunInv
  <1>5. b \in Batch /\ Begun \subseteq Batch
    BY BegunAreBatches
  <1>6. ordering \in TxnIds /\ ordering \notin ready
    BY <1>1, <1>4, <1>5, IdsOfBatch DEF HeldInv, Held
  <1>7. \A c \in Begun : ordering # Last(c) /\ ordering # ExecuteId(c)
    BY <1>4, <1>5, IdsApart
  <1>8. ASSUME NEW id PROVE Held(id)' <=> Held(id) /\ id # ordering
    <2>1. /\ \A u \in BatchThread : batching[u] # None => Last(batching[u]) # ordering
          /\ voting # None => voting.txn_id # ordering
          /\ executing.batch # None => ExecuteId(executing.batch) # ordering
          /\ executing.claimed => Last(executing.batch) # ordering
      BY <1>7, BegunAreBatches DEF BegunInv, VoteOn
    <2> QED BY <1>1, <2>1 DEF Held
  <1>9. HeldInv'
    BY <1>1, <1>6, <1>8 DEF HeldInv, GiveBack
  <1>10. ClaimsSucceed'
    BY <1>1, <1>6 DEF GiveBack, ClaimsSucceed
  <1> QED BY <1>2, <1>3, <1>9, <1>10

\* Thread 0 claims a manager only if it is free.
LEMMA TakeVoteKeepsClaims ==
  ASSUME ClaimInv, PrimarySteps(TakeVote)
  PROVE  ClaimInv'
  <1> USE DEF ClaimInv
  <1> DEFINE m == Head(workQueue)
  <1>1. /\ voting = None /\ workQueue # <<>>
        /\ UNCHANGED <<submitted, clientQueue, orderQueue, executeQueue, batching,
                       ordering, executing, ordered, prepsIn, commitsIn, failed>>
    BY DEF TakeVote, PrimarySteps, responsesVars, linkVars
  <1>2. ClientQueueInv' /\ Begun' = Begun
    BY <1>1, NothingTaken
  <1>3. /\ m \in VoteOn(Begun) /\ Tail(workQueue) \in Seq(VoteOn(Begun))
        /\ Append(Tail(workQueue), m) \in Seq(VoteOn(Begun))
    BY <1>1 DEF BegunInv
  <1> HIDE DEF m
  <1>4. CASE UNCHANGED <<ready, voting>> /\ workQueue' = Append(Tail(workQueue), m)
    <2>1. BegunInv'
      BY <1>1, <1>2, <1>3, <1>4 DEF BegunInv, VoteOn
    <2> QED BY <1>1, <1>2, <1>4, <2>1, HeldStay DEF ClaimsSucceed
  <1>5. CASE /\ m.txn_id \in ready /\ ready' = ready \ {m.txn_id}
             /\ voting' = m /\ workQueue' = Tail(workQueue)
    <2>1. BegunInv'
      BY <1>1, <1>2, <1>3, <1>5 DEF BegunInv, VoteOn
    <2>2. m # None
      BY <1>3, BegunAreBatches
    <2>3. ASSUME NEW id PROVE Held(id)' <=> Held(id) \/ id = m.txn_id
      BY <1>1, <1>5, <2>2 DEF Held
    <2>4. ready' = {id \in TxnIds : ~Held(id)'}
      BY <1>5, <2>3 DEF HeldInv
    <2>5. ~Held(m.txn_id)
      BY <1>5 DEF HeldInv
    <2>6. /\ \A u \in BatchThread : batching[u] # None => m.txn_id # Last(batching[u])
          /\ executing.claimed => m.txn_id # Last(executing.batch)
      BY <2>5 DEF Held
    <2>7. HeldInv'
      BY <1>1, <1>5, <2>4, <2>6 DEF HeldInv
    <2> QED BY <1>1, <1>2, <2>1, <2>7 DEF ClaimsSucceed
  <1> QED BY <1>4, <1>5 DEF TakeVote, PrimarySteps, m

\* Thread 0 gives back what it holds; what it sends to execution was voted on.
LEMMA EndVoteKeepsClaims ==
  ASSUME ClaimInv, PrimarySteps(EndVote)
  PROVE  ClaimInv'
  <1> USE DEF ClaimInv
  <1> DEFINE id == voting.txn_id
  <1>1. /\ voting # None /\ GiveBack({id}) /\ voting' = None
        /\ \/ executeQueue' = executeQueue
           \/ executeQueue' = Append(executeQueue, BatchOf(id))
        /\ UNCHANGED <<submitted, clientQueue, orderQueue, workQueue, batching,
                       ordering, executing, ordered, prepsIn, commitsIn>>
    BY DEF EndVote, PrimarySteps, responsesVars, linkVars
  <1>2. ClientQueueInv' /\ Begun' = Begun
    BY <1>1, NothingTaken
  <1>3. PICK b \in Begun : id = Last(b)
    BY <1>1 DEF BegunInv, VoteOn
  <1>4. b \in Batch /\ Begun \subseteq Batch
    BY BegunAreBatches
  <1>5. id \in TxnIds /\ BatchOf(id) = b /\ id \notin ready
    BY <1>1, <1>3, <1>4, IdsOfBatch DEF HeldInv, Held
  <1>6. /\ \A u \in BatchThread : batching[u] # None => id # Last(batching[u])
        /\ executing.claimed => id # Last(executing.batch)
    BY <1>1 DEF HeldInv
  <1> HIDE DEF id
  <1>7. BegunInv'
    <2>1. executeQueue' \in Seq(Begun')
      <3>1. executeQueue \in Seq(Begun)
        BY DEF BegunInv
      <3>2. Append(executeQueue, b) \in Seq(Begun)
        BY <3>1
      <3> QED BY <1>1, <1>2, <1>5, <3>1, <3>2
    <2> QED BY <1>1, <1>2, <2>1 DEF BegunInv, VoteOn
  <1>8. /\ ordering # None => id # ordering
        /\ executing.batch # None => id # ExecuteId(executing.batch)
    <2>1. \A c \in Begun : id # BatchReqId(c) /\ id # ExecuteId(c)
      BY <1>3, <1>4, IdsApart
    <2> QED BY <2>1 DEF BegunInv
  <1>9. ASSUME NEW i PROVE Held(i)' <=> Held(i) /\ i # id
    BY <1>1, <1>6, <1>8 DEF Held, id
  <1>10. ready' = {i \in TxnIds : ~Held(i)'}
    BY <1>1, <1>5, <1>9 DEF HeldInv, GiveBack
  <1>11. HeldInv'
    BY <1>1, <1>10 DEF HeldInv
  <1>12. ClaimsSucceed'
    BY <1>1, <1>5 DEF GiveBack, ClaimsSucceed
  <1> QED BY <1>2, <1>7, <1>11, <1>12

\* So does the execution thread.
LEMMA TakeExecuteKeepsClaims ==
  ASSUME ClaimInv, PrimarySteps(TakeExecute)
  PROVE  ClaimInv'
  <1> USE DEF ClaimInv
  <1> DEFINE b == Head(executeQueue)
  <1>1. /\ executing.batch = None /\ ~executing.claimed /\ executeQueue # <<>>
        /\ UNCHANGED <<submitted, clientQueue, orderQueue, workQueue, batching,
                       ordering, voting, ordered, prepsIn, commitsIn, failed>>
    BY DEF TakeExecute, PrimarySteps, responsesVars, linkVars, BegunInv
  <1>2. ClientQueueInv' /\ Begun' = Begun
    BY <1>1, NothingTaken
  <1>3. /\ b \in Begun /\ Tail(executeQueue) \in Seq(Begun)
        /\ Append(Tail(executeQueue), b) \in Seq(Begun)
    BY <1>1 DEF BegunInv
  <1> HIDE DEF b
  <1>4. CASE /\ UNCHANGED <<ready, executing>>
             /\ executeQueue' = Append(Tail(executeQueue), b)
    <2>1. BegunInv'
      BY <1>1, <1>2, <1>3, <1>4 DEF BegunInv, VoteOn
    <2> QED BY <1>1, <1>2, <1>4, <2>1, HeldStay DEF ClaimsSucceed
  <1>5. CASE /\ ready' = ready \ {ExecuteId(b)}
             /\ executing' = [batch |-> b, claimed |-> FALSE]
             /\ executeQueue' = Tail(executeQueue)
    <2>1. BegunInv'
      BY <1>1, <1>2, <1>3, <1>5 DEF BegunInv, VoteOn
    <2>2. b # None
      BY <1>3, BegunAreBatches
    <2>3. ASSUME NEW id PROVE Held(id)' <=> Held(id) \/ id = ExecuteId(b)
      BY <1>1, <1>5, <2>2 DEF Held
    <2>4. ready' = {id \in TxnIds : ~Held(id)'}
      BY <1>5, <2>3 DEF HeldInv
    <2>5. HeldInv'
      BY <1>1, <1>5, <2>4 DEF HeldInv
    <2> QED BY <1>1, <1>2, <2>1, <2>5 DEF ClaimsSucceed
  <1> QED BY <1>4, <1>5 DEF TakeExecute, PrimarySteps, b

\* The execution thread waits for its second manager.
LEMMA ClaimLastKeepsClaims ==
  ASSUME ClaimInv, PrimarySteps(ClaimLast)
  PROVE  ClaimInv'
  <1> USE DEF ClaimInv
  <1> DEFINE b == executing.batch
  <1>1. /\ b # None /\ ~executing.claimed
        /\ UNCHANGED <<submitted, clientQueue, orderQueue, workQueue, executeQueue,
                       batching, ordering, voting, ordered, prepsIn, commitsIn>>
    BY DEF ClaimLast, PrimarySteps, responsesVars, linkVars
  <1>2. ClientQueueInv' /\ Begun' = Begun
    BY <1>1, NothingTaken
  <1>3. b \in Begun /\ Begun \subseteq Batch
    BY <1>1, BegunAreBatches DEF BegunInv
  <1>4. CASE UNCHANGED <<ready, executing>> /\ failed' = "turn"
    <2>1. BegunInv'
      BY <1>1, <1>2, <1>4 DEF BegunInv, VoteOn
    <2> QED BY <1>1, <1>2, <1>4, <2>1, HeldStay DEF ClaimsSucceed
  <1>5. CASE /\ Last(b) \in ready /\ ready' = ready \ {Last(b)}
             /\ executing' = [executing EXCEPT !.claimed = TRUE]
             /\ failed' = failed
    <2>1. executing'.batch = b /\ executing'.claimed
      BY <1>5 DEF BegunInv
    <2>2. BegunInv'
      <3>1. executing' \in [batch : Begun' \cup {None}, claimed : BOOLEAN]
        BY <1>2, <1>5 DEF BegunInv
      <3> QED BY <1>1, <1>2, <2>1, <3>1 DEF BegunInv, VoteOn
    <2>3. ~Held(Last(b))
      BY <1>5 DEF HeldInv
    <2>4. /\ \A u \in BatchThread : batching[u] # None => Last(batching[u]) # Last(b)
          /\ voting # None => voting.txn_id # Last(b)
      BY <2>3 DEF Held
    <2>5. ASSUME NEW id PROVE Held(id)' <=> Held(id) \/ id = Last(b)
      BY <1>1, <2>1 DEF Held
    <2>6. ready' = {id \in TxnIds : ~Held(id)'}
      BY <1>5, <2>5 DEF HeldInv
    <2> HIDE DEF b
    <2>7. HeldInv'
      BY <1>1, <2>1, <2>4, <2>6 DEF HeldInv
    <2> QED BY <1>2, <1>5, <2>2, <2>7 DEF ClaimsSucceed
  <1> QED BY <1>4, <1>5 DEF ClaimLast, PrimarySteps, Fail

\* The execution thread gives back both.
LEMMA EndExecuteKeepsClaims ==
  ASSUME ClaimInv, PrimarySteps(EndExecute)
  PROVE  ClaimInv'
  <1> USE DEF ClaimInv
  <1> DEFINE b == executing.batch
             ids == {Last(b), ExecuteId(b)}
  <1>1. /\ executing.claimed /\ b # None /\ GiveBack(ids)
        /\ executing' = [batch |-> None, claimed |-> FALSE]
        /\ UNCHANGED <<submitted, clientQueue, orderQueue, workQueue, executeQueue,
                       batching, ordering, voting, ordered, prepsIn, commitsIn>>
    BY DEF EndExecute, PrimarySteps, responsesVars, linkVars, BegunInv
  <1>2. ClientQueueInv' /\ Begun' = Begun
    BY <1>1, NothingTaken
  <1>3. BegunInv'
    BY <1>1, <1>2 DEF BegunInv, VoteOn
  <1>4. b \in Begun /\ b \in Batch /\ Begun \subseteq Batch
    BY <1>1, BegunAreBatches DEF BegunInv
  <1>5. ids \subseteq TxnIds /\ ids \cap ready = {}
    BY <1>1, <1>4, IdsOfBatch DEF HeldInv, Held
  <1>6. /\ \A u \in BatchThread : batching[u] # None => b # batching[u]
        /\ voting # None => voting.txn_id # Last(b)
    BY <1>1 DEF HeldInv
  <1>7. \A id : Held(id) /\ id \notin ids =>
          \/ \E t \in BatchThread : batching[t] # None /\ id = Last(batching[t])
          \/ ordering # None /\ id = ordering
          \/ voting # None /\ id = voting.txn_id
    BY DEF Held
  <1> HIDE DEF b
  <1>8. /\ \A u \in BatchThread : batching[u] # None => Last(batching[u]) \notin ids
        /\ ordering # None => ordering \notin ids
        /\ voting # None => voting.txn_id \notin ids
    <2>1. \A c \in Begun : /\ Last(b) = Last(c) => b = c
                           /\ Last(c) # ExecuteId(b)
                           /\ BatchReqId(c) \notin ids
      BY <1>4, IdsApart
    <2>2. \A u \in BatchThread : batching[u] # None => batching[u] \in Begun
      BY DEF BegunInv
    <2>3. ordering # None => \E c \in Begun : ordering = BatchReqId(c)
      BY DEF BegunInv
    <2>4. voting # None => \E c \in Begun : voting.txn_id = Last(c)
      BY DEF BegunInv, VoteOn
    <2> QED BY <1>6, <2>1, <2>2, <2>3, <2>4
  <1> HIDE DEF ids
  <1>9. ASSUME NEW id PROVE Held(id)' <=> Held(id) /\ id \notin ids
    BY <1>1, <1>7, <1>8 DEF Held
  <1>10. ready' = {id \in TxnIds : ~Held(id)'}
    BY <1>1, <1>5, <1>9 DEF HeldInv, GiveBack
  <1>11. HeldInv'
    BY <1>1, <1>10 DEF HeldInv
  <1>12. ClaimsSucceed'
    BY <1>1, <1>5 DEF GiveBack, ClaimsSucceed
  <1> QED BY <1>2, <1>3, <1>11, <1>12

\* Only ordered batches get PREPs, and only those with PREPs get COMMITs.
LEMMA ArrivalKeepsClaims ==
  ASSUME ClaimInv, NEW b \in Batch, PrepArrives(b) \/ CommitArrives(b)
  PROVE  ClaimInv'
  <1> USE DEF ClaimInv
  <1>1. UNCHANGED <<submitted, clientQueue, orderQueue, executeQueue, ready,
                    batching, ordering, voting, executing, ordered, failed>>
    BY DEF PrepArrives, CommitArrives, Queue, responsesVars
  <1>2. ClientQueueInv' /\ Begun' = Begun
    BY <1>1, NothingTaken
  <1>3. b \in Begun
    BY DEF PrepArrives, CommitArrives, BegunInv
  <1>4. PICK type \in {"PREP", "COMMIT"} :
          workQueue' = Append(workQueue, [type |-> type, txn_id |-> Last(b)])
    BY DEF PrepArrives, CommitArrives, Queue
  <1>5. workQueue' \in Seq(VoteOn(Begun))
    <2>1. [type |-> type, txn_id |-> Last(b)] \in VoteOn(Begun)
      BY <1>3 DEF VoteOn
    <2> QED BY <1>4, <2>1 DEF BegunInv
  <1>6. /\ prepsIn' \in [Batch -> Nat] /\ commitsIn' \in [Batch -> Nat]
        /\ \A c \in Batch : prepsIn'[c] > 0 => c \in Begun
    <2>1. /\ prepsIn \in [Batch -> Nat] /\ commitsIn \in [Batch -> Nat]
          /\ \A c \in Batch : prepsIn[c] > 0 => c \in Begun
      BY DEF BegunInv
    <2>2. CASE PrepArrives(b)
      BY <1>3, <2>1, <2>2 DEF PrepArrives
    <2>3. CASE CommitArrives(b)
      BY <2>1, <2>3 DEF CommitArrives
    <2> QED BY <2>2, <2>3
  <1>7. BegunInv'
    BY <1>1, <1>2, <1>5, <1>6 DEF BegunInv, VoteOn
  <1> QED BY <1>1, <1>2, <1>7, HeldStay DEF ClaimsSucceed

\* The start-up and the client's answers do not touch what claims are about.
LEMMA OthersKeepClaims ==
  ASSUME ClaimInv, UNCHANGED <<threadVars, linkVars, submitted>>
  PROVE  ClaimInv'
  <1> USE DEF ClaimInv, threadVars, linkVars
  <1>1. ClientQueueInv' /\ Begun' = Begun
    BY NothingTaken
  <1>2. BegunInv'
    BY <1>1 DEF BegunInv, VoteOn
  <1> QED BY <1>1, <1>2, HeldStay DEF ClaimsSucceed

\* At the start nothing is held.
LEMMA InitClaimInv == SessionInit => ClaimInv
  <1> SUFFICES ASSUME SessionInit PROVE ClaimInv
    OBVIOUS
  <1> USE DEF SessionInit, ThreadsInit, ResponsesInit
  <1>1. ClientQueueInv
    BY BatchesAssumption DEF ClientQueueInv
  <1>2. BegunInv
    BY DEF BegunInv
  <1>3. HeldInv
    <2>1. \A id : ~Held(id)
      BY DEF Held
    <2> QED BY <2>1 DEF HeldInv
  <1> QED BY <1>1, <1>2, <1>3 DEF ClaimInv, ClaimsSucceed

\* Every step keeps the managers apart.
LEMMA NextClaimInv == ClaimInv /\ [SessionNext]_sessionVars => ClaimInv'
  <1> SUFFICES ASSUME ClaimInv, [SessionNext]_sessionVars PROVE ClaimInv'
    OBVIOUS
  <1>1. CASE StartupNext /\ UNCHANGED <<threadVars, responsesVars, linkVars>>
    BY <1>1, OthersKeepClaims DEF responsesVars
  <1>2. CASE ClientSends
    BY <1>2, SendKeepsClaims
  <1>3. CASE PrimarySteps(BatchingNext)
    BY <1>3, TakeClientBatchKeepsClaims, EndClientBatchKeepsClaims
    DEF BatchingNext, PrimarySteps
  <1>4. CASE PrimarySteps(OrderingNext)
    BY <1>4, TakeBatchReqKeepsClaims, EndBatchReqKeepsClaims
    DEF OrderingNext, PrimarySteps
  <1>5. CASE PrimarySteps(VotingNext)
    BY <1>5, TakeVoteKeepsClaims, EndVoteKeepsClaims DEF VotingNext, PrimarySteps
  <1>6. CASE PrimarySteps(ExecutingNext)
    BY <1>6, TakeExecuteKeepsClaims, ClaimLastKeepsClaims, EndExecuteKeepsClaims
    DEF ExecutingNext, PrimarySteps
  <1>7. CASE \E b \in Batch : PrepArrives(b) \/ CommitArrives(b)
    BY <1>7, ArrivalKeepsClaims
  <1>8. CASE \E n \in Node : AnswerArrives(n)
    BY <1>8, OthersKeepClaims DEF AnswerArrives, Validate
  <1>9. CASE UNCHANGED sessionVars
    BY <1>9, OthersKeepClaims DEF sessionVars, responsesVars
  <1> QED BY <1>1, <1>2, <1>3, <1>4, <1>5, <1>6, <1>7, <1>8, <1>9
          DEF SessionNext, ThreadsNext, PrimarySteps

\* No assertion on a transaction manager fails, for any number of batches,
\* batching threads and nodes: the three ids of a batch keep the threads that
\* work for it apart, and a batching thread takes each batch before anybody
\* else works for it.
THEOREM ClaimsAlwaysSucceed == SessionSpec => []ClaimsSucceed
  BY InitClaimInv, NextClaimInv, PTL DEF SessionSpec, ClaimInv

-----------------------------------------------------------------------------
(* Counting in a queue *)

\* They can be counted.
LEMMA PlacesNumber ==
  ASSUME NEW q, NEW m, NEW k \in Nat
  PROVE  IsFiniteSet(PlacesOf(q, m, k)) /\ Cardinality(PlacesOf(q, m, k)) \in Nat
  <1>1. IsFiniteSet(1 .. k)
    BY FS_Interval
  <1>2. PlacesOf(q, m, k) \subseteq 1 .. k
    BY DEF PlacesOf
  <1> QED BY <1>1, <1>2, FS_Subset, FS_CardinalityType

\* There are none up to place 0.
LEMMA PlacesNone == ASSUME NEW q, NEW m PROVE Cardinality(PlacesOf(q, m, 0)) = 0
  <1>1. PlacesOf(q, m, 0) = {}
    BY DEF PlacesOf
  <1> QED BY <1>1, FS_EmptySet

\* One more place.
LEMMA PlacesStep ==
  ASSUME NEW q, NEW m, NEW k \in Nat
  PROVE  Cardinality(PlacesOf(q, m, k + 1)) =
            Cardinality(PlacesOf(q, m, k)) + (IF q[k + 1] = m THEN 1 ELSE 0)
  <1>1. IsFiniteSet(PlacesOf(q, m, k)) /\ Cardinality(PlacesOf(q, m, k)) \in Nat
    BY PlacesNumber
  <1>2. k + 1 \notin PlacesOf(q, m, k)
    BY DEF PlacesOf
  <1>3. CASE q[k + 1] = m
    <2>1. PlacesOf(q, m, k + 1) = PlacesOf(q, m, k) \cup {k + 1}
      BY <1>3 DEF PlacesOf
    <2>2. Cardinality(PlacesOf(q, m, k) \cup {k + 1}) = Cardinality(PlacesOf(q, m, k)) + 1
      BY <1>1, <1>2, FS_AddElement
    <2> QED BY <1>3, <2>1, <2>2
  <1>4. CASE q[k + 1] # m
    <2>1. PlacesOf(q, m, k + 1) = PlacesOf(q, m, k)
      BY <1>4 DEF PlacesOf
    <2> QED BY <1>1, <1>4, <2>1
  <1> QED BY <1>3, <1>4

\* Without the first message every place moves up by one.
LEMMA PlacesOfTail ==
  ASSUME NEW S, NEW q \in Seq(S), q # <<>>, NEW m, NEW k \in 0 .. Len(q) - 1
  PROVE  Cardinality(PlacesOf(q, m, k + 1)) =
            Cardinality(PlacesOf(Tail(q), m, k)) + (IF Head(q) = m THEN 1 ELSE 0)
  <1> DEFINE A == PlacesOf(Tail(q), m, k)
             B == PlacesOf(q, m, k + 1) \ {1}
             f == [j \in A |-> j + 1]
  <1>1. Len(q) \in Nat /\ k \in Nat /\ \A j \in 1 .. k : Tail(q)[j] = q[j + 1]
    OBVIOUS
  <1>2. f \in Injection(A, B)
    <2>1. \A j \in A : j \in Nat /\ j + 1 \in B
      BY <1>1 DEF PlacesOf
    <2>2. f \in [A -> B]
      BY <2>1
    <2>3. \A i, j \in A : f[i] = f[j] => i = j
      BY <2>1
    <2> QED BY <2>2, <2>3 DEF Injection, IsInjective
  <1>3. f \in Surjection(A, B)
    <2>1. \A b \in B : b - 1 \in A /\ b - 1 + 1 = b
      BY <1>1 DEF PlacesOf
    <2>2. \A b \in B : \E a \in A : f[a] = b
      BY <2>1
    <2>3. f \in [A -> B]
      BY <1>2 DEF Injection
    <2> QED BY <2>2, <2>3 DEF Surjection
  <1> HIDE DEF f
  <1>4. Cardinality(B) = Cardinality(A)
    <2>1. IsFiniteSet(A)
      BY <1>1, PlacesNumber
    <2> HIDE DEF A, B
    <2> QED BY <1>2, <1>3, <2>1, FS_Surjection
  <1>5. /\ IsFiniteSet(PlacesOf(q, m, k + 1))
        /\ Cardinality(PlacesOf(q, m, k + 1)) \in Nat /\ Cardinality(A) \in Nat
    BY <1>1, PlacesNumber
  <1>6. 1 \in PlacesOf(q, m, k + 1) <=> Head(q) = m
    BY <1>1 DEF PlacesOf
  <1>7. Cardinality(B) = IF 1 \in PlacesOf(q, m, k + 1)
                            THEN Cardinality(PlacesOf(q, m, k + 1)) - 1
                            ELSE Cardinality(PlacesOf(q, m, k + 1))
    BY <1>5, FS_RemoveElement
  <1> HIDE DEF A, B
  <1>8. CASE Head(q) = m
    BY <1>4, <1>5, <1>6, <1>7, <1>8 DEF A
  <1>9. CASE Head(q) # m
    BY <1>4, <1>5, <1>6, <1>7, <1>9 DEF A
  <1> QED BY <1>8, <1>9

\* A message more at the end.
LEMMA PlacesOfAppend ==
  ASSUME NEW S, NEW q \in Seq(S), NEW x \in S, NEW m
  PROVE  /\ \A k \in 0 .. Len(q) : PlacesOf(Append(q, x), m, k) = PlacesOf(q, m, k)
         /\ Cardinality(PlacesOf(Append(q, x), m, Len(q) + 1)) =
               Cardinality(PlacesOf(q, m, Len(q))) + (IF x = m THEN 1 ELSE 0)
  <1> DEFINE a == Append(q, x)
             n == Len(q)
  <1>1. n \in Nat /\ a[n + 1] = x /\ \A k \in 1 .. n : a[k] = q[k]
    OBVIOUS
  <1> HIDE DEF a, n
  <1>2. \A k \in 0 .. n : PlacesOf(a, m, k) = PlacesOf(q, m, k)
    BY <1>1 DEF PlacesOf
  <1>3. PlacesOf(a, m, n) = PlacesOf(q, m, n)
    BY <1>1, <1>2
  <1>4. Cardinality(PlacesOf(a, m, n + 1)) =
           Cardinality(PlacesOf(a, m, n)) + (IF a[n + 1] = m THEN 1 ELSE 0)
    BY <1>1, PlacesStep
  <1>5. Cardinality(PlacesOf(a, m, n + 1)) =
           Cardinality(PlacesOf(q, m, n)) + (IF x = m THEN 1 ELSE 0)
    BY <1>1, <1>3, <1>4
  <1> QED BY <1>2, <1>5 DEF a, n

-----------------------------------------------------------------------------
(* What has come, in the order in which it came *)

\* The numbers that are compared are integers.
LEMMA ComeTypes ==
  ASSUME CountTypes, NEW b \in Batch, NEW type \in {"PREP", "COMMIT"}, NEW k \in Nat
  PROVE  Counted(type, b) \in Int /\ Come(type, b, k) \in Int
  <1>1. F \in Nat
    BY NumbersType
  <1>2. txn[b].prep_rsp_cnt \in Int /\ txn[b].commit_rsp_cnt \in Int
    BY DEF CountTypes
  <1>3. Counted(type, b) \in Int
    BY <1>1, <1>2 DEF Counted
  <1>4. Cardinality(PlacesOf(workQueue, VoteFor(type, b), k)) \in Nat
    BY PlacesNumber
  <1> QED BY <1>3, <1>4 DEF Come

\* Batches differ in what their messages say, and PREPs from COMMITs.
LEMMA VotesApart ==
  ASSUME NEW b \in Batch, NEW c \in Batch, NEW t, NEW u
  PROVE  VoteFor(t, b) = VoteFor(u, c) <=> t = u /\ b = c
  BY IdsApart DEF VoteFor

\* A message in hand, or in the queue, is a PREP or COMMIT of some batch.
LEMMA VoteOfBatch ==
  ASSUME ClaimInv, NEW m \in VoteOn(Begun)
  PROVE  \E t \in {"PREP", "COMMIT"}, b \in Batch :
            m = VoteFor(t, b) /\ m.txn_id = Last(b) /\ m.type = t /\ m # None
  <1>1. PICK b \in Begun : m.txn_id = Last(b)
    BY DEF VoteOn
  <1>2. b \in Batch /\ m # None
    BY BegunAreBatches DEF ClaimInv
  <1>3. m.type \in {"PREP", "COMMIT"} /\ m = VoteFor(m.type, b)
    BY <1>1 DEF VoteOn, VoteFor
  <1> QED BY <1>1, <1>2, <1>3

\* Nothing that thread 0 or the execution thread looks at changes.
LEMMA CountsLeftAlone ==
  ASSUME TurnInv,
         UNCHANGED <<txn, workQueue, voting, prepsIn, commitsIn, executeQueue, executing,
                     g_next_index, putBack>>,
         expectedBatchCount' \in Nat,
         failed' \in {failed, "no", "claim"}
  PROVE  TurnInv'
  <1>1. \A t, b : Counted(t, b)' = Counted(t, b)
    BY DEF Counted
  <1>2. \A t, b, k : Come(t, b, k)' = Come(t, b, k)
    BY <1>1 DEF Come
  <1>3. CountTypes' /\ NothingLost'
    BY <1>1, <1>2 DEF TurnInv, CountTypes, NothingLost
  <1>4. ASSUME putBack' = {}
        PROVE  /\ OrderKept' /\ NoneMissed' /\ failed' # "turn"
               /\ \E x \in 0 .. BatchCount : Turns(x)'
    <2>1. /\ OrderKept /\ NoneMissed /\ failed # "turn"
          /\ \E x \in 0 .. BatchCount : Turns(x)
      BY <1>4 DEF TurnInv
    <2>2. OrderKept' /\ NoneMissed' /\ failed' # "turn"
      BY <1>1, <1>2, <2>1 DEF OrderKept, NoneMissed
    <2>3. \A x : Turns(x)' <=> Turns(x)
      BY DEF Turns
    <2> QED BY <2>1, <2>2, <2>3
  <1> QED BY <1>3, <1>4 DEF TurnInv

\* A message that arrives is one more behind all others.
LEMMA ArrivalCounts ==
  ASSUME ClaimInv, CountTypes, NEW b \in Batch, NEW t \in {"PREP", "COMMIT"}, b \in Begun,
         NEW n, n = Len(workQueue), workQueue' = Append(workQueue, VoteFor(t, b)),
         UNCHANGED <<txn, voting>>
  PROVE  /\ Len(workQueue') = n + 1 /\ n \in Nat
         /\ \A u, c : Counted(u, c)' = Counted(u, c)
         /\ \A u, c : \A k \in 0 .. n : Come(u, c, k)' = Come(u, c, k)
         /\ \A u \in {"PREP", "COMMIT"}, c \in Batch :
               Come(u, c, n + 1)' =
                  Come(u, c, n) + (IF u = t /\ c = b THEN 1 ELSE 0)
  <1>1. VoteFor(t, b) \in VoteOn(Begun) /\ workQueue \in Seq(VoteOn(Begun))
    BY DEF VoteFor, VoteOn, ClaimInv, BegunInv
  <1>2. Len(workQueue') = n + 1 /\ n \in Nat
    BY <1>1
  <1>3. \A u, c : Counted(u, c)' = Counted(u, c)
    BY DEF Counted
  <1>4. ASSUME NEW u, NEW c
        PROVE  /\ \A k \in 0 .. n : PlacesOf(workQueue', VoteFor(u, c), k) =
                                      PlacesOf(workQueue, VoteFor(u, c), k)
               /\ Cardinality(PlacesOf(workQueue', VoteFor(u, c), n + 1)) =
                     Cardinality(PlacesOf(workQueue, VoteFor(u, c), n))
                        + (IF VoteFor(t, b) = VoteFor(u, c) THEN 1 ELSE 0)
    <2> DEFINE x == VoteFor(t, b)
               m == VoteFor(u, c)
               S == VoteOn(Begun)
    <2>1. /\ workQueue \in Seq(S) /\ x \in S
          /\ workQueue' = Append(workQueue, x)
      BY <1>1
    <2> HIDE DEF x, m, S
    <2>2. /\ \A k \in 0 .. Len(workQueue) :
                PlacesOf(Append(workQueue, x), m, k) = PlacesOf(workQueue, m, k)
          /\ Cardinality(PlacesOf(Append(workQueue, x), m, Len(workQueue) + 1)) =
                Cardinality(PlacesOf(workQueue, m, Len(workQueue))) + (IF x = m THEN 1 ELSE 0)
      BY <2>1, PlacesOfAppend
    <2>3. /\ \A k \in 0 .. n :
                PlacesOf(workQueue', m, k) = PlacesOf(workQueue, m, k)
          /\ Cardinality(PlacesOf(workQueue', m, n + 1)) =
                Cardinality(PlacesOf(workQueue, m, n)) + (IF x = m THEN 1 ELSE 0)
      BY <2>1, <2>2
    <2> QED BY <2>3 DEF x, m
  <1>5. \A u, c : \A k \in 0 .. n : Come(u, c, k)' = Come(u, c, k)
    BY <1>3, <1>4 DEF Come, VoteFor
  <1>6. ASSUME NEW u \in {"PREP", "COMMIT"}, NEW c \in Batch
        PROVE  Come(u, c, n + 1)' =
                  Come(u, c, n) + (IF u = t /\ c = b THEN 1 ELSE 0)
    <2> DEFINE now == Cardinality(PlacesOf(workQueue, VoteFor(u, c), n))
               then == Cardinality(PlacesOf(workQueue', VoteFor(u, c), n + 1))
               hand == IF voting = VoteFor(u, c) THEN 1 ELSE 0
               more == IF u = t /\ c = b THEN 1 ELSE 0
    <2>1. then = now + more
      BY <1>4, VotesApart
    <2>2. now \in Nat /\ hand \in Nat /\ more \in Nat /\ Counted(u, c) \in Int
      BY <1>2, PlacesNumber, ComeTypes
    <2>3. Come(u, c, n) = Counted(u, c) + hand + now
      BY DEF Come
    <2>4. Come(u, c, n + 1)' = Counted(u, c) + hand + then
      BY <1>3 DEF Come, VoteFor
    <2> HIDE DEF now, then, hand, more
    <2>5. Come(u, c, n + 1)' = Come(u, c, n) + more
      BY <2>1, <2>2, <2>3, <2>4
    <2> QED BY <2>5 DEF more
  <1> QED BY <1>2, <1>3, <1>5, <1>6

\* The links keep the order: a COMMIT comes behind the PREP of its sender, and behind
\* the COMMIT for the batch before.
LEMMA ArrivalKeepsTurns ==
  ASSUME ClaimInv, TurnInv, NEW b \in Batch, PrepArrives(b) \/ CommitArrives(b)
  PROVE  TurnInv'
  <1>0. PICK n : n = Len(workQueue)
    OBVIOUS
  <1>1. /\ prepsIn \in [Batch -> Nat] /\ commitsIn \in [Batch -> Nat] /\ b \in Begun
    BY DEF ClaimInv, BegunInv, PrepArrives, CommitArrives
  <1>2. UNCHANGED <<txn, voting, executeQueue, executing, g_next_index, putBack,
                    expectedBatchCount, failed>>
    BY DEF PrepArrives, CommitArrives, Queue
  <1>3. PICK t \in {"PREP", "COMMIT"} :
          /\ workQueue' = Append(workQueue, VoteFor(t, b))
          /\ t = "PREP" => PrepArrives(b)
          /\ t = "COMMIT" => CommitArrives(b)
    BY DEF PrepArrives, CommitArrives, Queue, VoteFor
  <1>4. /\ t = "PREP" => /\ prepsIn' = [prepsIn EXCEPT ![b] = @ + 1] /\ commitsIn' = commitsIn
                         /\ NextFrom(prepsIn, b)
        /\ t = "COMMIT" => /\ commitsIn' = [commitsIn EXCEPT ![b] = @ + 1]
                           /\ prepsIn' = prepsIn
                           /\ prepsIn[b] > commitsIn[b] /\ NextFrom(commitsIn, b)
    BY <1>3 DEF PrepArrives, CommitArrives
  <1>5. \A c \in Batch :
          /\ prepsIn'[c] = prepsIn[c] + (IF t = "PREP" /\ c = b THEN 1 ELSE 0)
          /\ commitsIn'[c] = commitsIn[c] + (IF t = "COMMIT" /\ c = b THEN 1 ELSE 0)
          /\ prepsIn[c] \in Nat /\ commitsIn[c] \in Nat
    BY <1>1, <1>4
  <1>6. CountTypes
    BY DEF TurnInv
  <1>7. /\ Len(workQueue') = n + 1 /\ n \in Nat
        /\ \A u, c : Counted(u, c)' = Counted(u, c)
        /\ \A u, c : \A k \in 0 .. n : Come(u, c, k)' = Come(u, c, k)
        /\ \A u \in {"PREP", "COMMIT"}, c \in Batch :
              Come(u, c, n + 1)' =
                 Come(u, c, n) + (IF u = t /\ c = b THEN 1 ELSE 0)
    BY <1>0, <1>1, <1>2, <1>3, <1>6, ArrivalCounts
  <1>8. \A c \in Batch : /\ prepsIn'[c] = Come("PREP", c, n + 1)'
                         /\ commitsIn'[c] = Come("COMMIT", c, n + 1)'
    BY <1>0, <1>5, <1>7 DEF TurnInv, NothingLost
  <1>9. \A c \in Batch : /\ prepsIn'[c] <= Cardinality(Replica)
                         /\ commitsIn'[c] <= Cardinality(Replica)
    <2>1. Cardinality(Replica) \in Nat
      BY NumbersType DEF Replica
    <2> QED BY <1>4, <1>5, <2>1 DEF TurnInv, NothingLost, NextFrom
  <1>10. CountTypes' /\ NothingLost'
    <2>1. CountTypes'
      BY <1>2, <1>6 DEF CountTypes
    <2>2. \A c \in Batch : txn'[c].prepared <=> Counted("PREP", c)' >= 2 * F
      BY <1>2, <1>7 DEF TurnInv, NothingLost
    <2>3. \A c \in Batch : /\ prepsIn'[c] = Come("PREP", c, Len(workQueue))'
                           /\ commitsIn'[c] = Come("COMMIT", c, Len(workQueue))'
      BY <1>7, <1>8
    <2> QED BY <1>9, <2>1, <2>2, <2>3 DEF NothingLost
  <1>11. ASSUME putBack' = {}
         PROVE  /\ OrderKept' /\ NoneMissed' /\ failed' # "turn"
                /\ \E x \in 0 .. BatchCount : Turns(x)'
    <2>1. /\ OrderKept /\ NoneMissed /\ failed # "turn"
          /\ \E x \in 0 .. BatchCount : Turns(x)
      BY <1>2, <1>11 DEF TurnInv
    <2>2. NoneMissed' /\ failed' # "turn"
      BY <1>2, <1>7, <2>1 DEF NoneMissed
    <2>3. \A x : Turns(x)' <=> Turns(x)
      BY <1>2 DEF Turns
    <2>4. ASSUME NEW c \in Batch, NEW k \in 0 .. n + 1
          PROVE  /\ Come("COMMIT", c, k)' <= Come("PREP", c, k)'
                 /\ c > 0 => Come("COMMIT", c, k)' <= Come("COMMIT", c - 1, k)'
      <3>1. CASE k <= n
        <4>1. k \in 0 .. n
          BY <1>7, <3>1
        <4>2. c > 0 => c - 1 \in Batch
          BY BatchesAssumption DEF Batch
        <4> QED BY <1>0, <1>7, <2>1, <4>1, <4>2 DEF OrderKept
      <3>2. CASE k = n + 1
        <4>1. n \in 0 .. n
          BY <1>7
        <4>2. c > 0 => c - 1 \in Batch
          BY BatchesAssumption DEF Batch
        <4>3. c \in Int
          BY BatchesAssumption DEF Batch
        <4>4. \A d \in Batch : /\ prepsIn[d] = Come("PREP", d, Len(workQueue))
                               /\ commitsIn[d] = Come("COMMIT", d, Len(workQueue))
          BY <1>0 DEF TurnInv, NothingLost
        <4>5. /\ commitsIn[c] <= prepsIn[c]
              /\ c > 0 => commitsIn[c] <= commitsIn[c - 1]
          BY <1>0, <2>1, <4>1, <4>2, <4>4 DEF OrderKept
        <4>6. /\ commitsIn'[c] <= prepsIn'[c]
              /\ c > 0 => commitsIn'[c] <= commitsIn'[c - 1]
          BY <1>4, <1>5, <4>2, <4>3, <4>5 DEF NextFrom
        <4> QED BY <1>8, <3>2, <4>2, <4>6
      <3> QED BY <1>7, <3>1, <3>2
    <2>5. OrderKept'
      BY <1>7, <2>4 DEF OrderKept
    <2> QED BY <2>1, <2>2, <2>3, <2>5
  <1> QED BY <1>10, <1>11 DEF TurnInv

\* A message that thread 0 takes moves from the first place into its hand.
LEMMA TakeVoteCounts ==
  ASSUME ClaimInv, CountTypes, voting = None, workQueue # <<>>, NEW n, n = Len(workQueue)
  PROVE  /\ n \in Nat \ {0} /\ Len(Tail(workQueue)) = n - 1
         /\ \A u \in {"PREP", "COMMIT"}, c \in Batch : \A k \in 0 .. n - 1 :
               Counted(u, c) + (IF Head(workQueue) = VoteFor(u, c) THEN 1 ELSE 0)
                  + Cardinality(PlacesOf(Tail(workQueue), VoteFor(u, c), k)) = Come(u, c, k + 1)
  <1>1. workQueue \in Seq(VoteOn(Begun))
    BY DEF ClaimInv, BegunInv
  <1>2. /\ n \in Nat \ {0} /\ Len(Tail(workQueue)) = n - 1
        /\ Tail(workQueue) \in Seq(VoteOn(Begun))
    BY <1>1
  <1>3. ASSUME NEW u \in {"PREP", "COMMIT"}, NEW c \in Batch, NEW k \in 0 .. n - 1
        PROVE  Counted(u, c) + (IF Head(workQueue) = VoteFor(u, c) THEN 1 ELSE 0)
                  + Cardinality(PlacesOf(Tail(workQueue), VoteFor(u, c), k)) = Come(u, c, k + 1)
    <2> DEFINE m == VoteFor(u, c)
               first == IF Head(workQueue) = m THEN 1 ELSE 0
               left == Cardinality(PlacesOf(Tail(workQueue), m, k))
               all == Cardinality(PlacesOf(workQueue, m, k + 1))
    <2>1. voting # m
      BY NoMessageAssumption, IdsOfBatch DEF VoteFor, Message
    <2>2. all = left + first
      <3> HIDE DEF m
      <3> QED BY <1>1, PlacesOfTail
    <2>3. all \in Nat /\ left \in Nat /\ first \in Nat /\ Counted(u, c) \in Int
      BY PlacesNumber, ComeTypes
    <2>4. Come(u, c, k + 1) = Counted(u, c) + 0 + all
      BY <2>1 DEF Come
    <2> HIDE DEF first, left, all
    <2>5. Counted(u, c) + first + left = Come(u, c, k + 1)
      BY <2>2, <2>3, <2>4
    <2> QED BY <2>5 DEF first, left, m
  <1> QED BY <1>2, <1>3

\* The first message is taken, and its place in the order with it.
LEMMA VoteTakenKeepsTurns ==
  ASSUME ClaimInv, TurnInv, voting = None, workQueue # <<>>,
         voting' = Head(workQueue), workQueue' = Tail(workQueue),
         UNCHANGED <<txn, prepsIn, commitsIn, executeQueue, executing, g_next_index,
                     putBack, expectedBatchCount, failed>>
  PROVE  TurnInv'
  <1>1. PICK n : n = Len(workQueue)
    OBVIOUS
  <1>2. CountTypes /\ CountTypes'
    BY DEF TurnInv, CountTypes
  <1>3. n \in Nat \ {0} /\ Len(workQueue') = n - 1
    BY <1>1, <1>2, TakeVoteCounts
  <1>4. \A u, c : Counted(u, c)' = Counted(u, c)
    BY DEF Counted
  <1>5. ASSUME NEW u \in {"PREP", "COMMIT"}, NEW c \in Batch, NEW k \in 0 .. n - 1
        PROVE  Come(u, c, k)' = Come(u, c, k + 1)
    <2>1. Come(u, c, k)' = Counted(u, c) + (IF Head(workQueue) = VoteFor(u, c) THEN 1 ELSE 0)
                             + Cardinality(PlacesOf(Tail(workQueue), VoteFor(u, c), k))
      BY <1>4 DEF Come, VoteFor, PlacesOf
    <2> QED BY <1>1, <1>2, <2>1, TakeVoteCounts
  <1>6. NothingLost'
    <2>1. ASSUME NEW c \in Batch
          PROVE  /\ prepsIn[c] = Come("PREP", c, Len(workQueue))'
                 /\ commitsIn[c] = Come("COMMIT", c, Len(workQueue))'
      <3>1. n - 1 \in 0 .. n - 1 /\ n - 1 + 1 = n
        BY <1>3
      <3>2. prepsIn[c] = Come("PREP", c, n) /\ commitsIn[c] = Come("COMMIT", c, n)
        BY <1>1 DEF TurnInv, NothingLost
      <3>3. \A k : k = n - 1 => /\ prepsIn[c] = Come("PREP", c, k)'
                                /\ commitsIn[c] = Come("COMMIT", c, k)'
        BY <1>5, <3>1, <3>2
      <3> QED BY <1>3, <3>3
    <2> QED BY <1>4, <2>1 DEF TurnInv, NothingLost
  <1>7. ASSUME putBack' = {}
        PROVE  /\ OrderKept' /\ NoneMissed' /\ failed' # "turn"
               /\ \E x \in 0 .. BatchCount : Turns(x)'
    <2>1. /\ OrderKept /\ NoneMissed /\ failed # "turn"
          /\ \E x \in 0 .. BatchCount : Turns(x)
      BY <1>7 DEF TurnInv
    <2>2. NoneMissed' /\ failed' # "turn"
      BY <1>4, <2>1 DEF NoneMissed
    <2>3. \A x : Turns(x)' <=> Turns(x)
      BY DEF Turns
    <2>4. \A c \in Batch : c > 0 => c - 1 \in Batch
      BY BatchesAssumption DEF Batch
    <2>5. ASSUME NEW c \in Batch, NEW k \in 0 .. n - 1
          PROVE  /\ Come("COMMIT", c, k)' <= Come("PREP", c, k)'
                 /\ c > 0 => Come("COMMIT", c, k)' <= Come("COMMIT", c - 1, k)'
      <3>1. k + 1 \in 0 .. n
        BY <1>3
      <3>2. /\ Come("COMMIT", c, k + 1) <= Come("PREP", c, k + 1)
            /\ c > 0 => Come("COMMIT", c, k + 1) <= Come("COMMIT", c - 1, k + 1)
        BY <1>1, <2>1, <3>1 DEF OrderKept
      <3> QED BY <1>5, <2>4, <3>2
    <2>6. OrderKept'
      BY <1>3, <2>5 DEF OrderKept
    <2> QED BY <2>1, <2>2, <2>3, <2>6
  <1> QED BY <1>2, <1>6, <1>7 DEF TurnInv

\* A message that is put back is not lost; all that is said of the order is given up.
LEMMA VotePutBackKeepsTurns ==
  ASSUME ClaimInv, TurnInv, voting = None, workQueue # <<>>, NEW b \in Batch,
         workQueue' = Append(Tail(workQueue), Head(workQueue)),
         putBack' = putBack \cup {b},
         UNCHANGED <<txn, voting, prepsIn, commitsIn, executeQueue, executing, g_next_index,
                     expectedBatchCount, failed>>
  PROVE  TurnInv'
  <1>1. PICK n : n = Len(workQueue)
    OBVIOUS
  <1>2. CountTypes /\ CountTypes'
    BY DEF TurnInv, CountTypes
  <1>3. n \in Nat \ {0} /\ Len(Tail(workQueue)) = n - 1
    BY <1>1, <1>2, TakeVoteCounts
  <1>4. /\ workQueue \in Seq(VoteOn(Begun)) /\ Tail(workQueue) \in Seq(VoteOn(Begun))
        /\ Head(workQueue) \in VoteOn(Begun)
    BY DEF ClaimInv, BegunInv
  <1>5. Len(workQueue') = n
    BY <1>3, <1>4
  <1>6. \A u, c : Counted(u, c)' = Counted(u, c)
    BY DEF Counted
  <1>7. ASSUME NEW u \in {"PREP", "COMMIT"}, NEW c \in Batch
        PROVE  Come(u, c, n)' = Come(u, c, n)
    <2> DEFINE m == VoteFor(u, c)
               first == IF Head(workQueue) = m THEN 1 ELSE 0
               left == Cardinality(PlacesOf(Tail(workQueue), m, n - 1))
               all == Cardinality(PlacesOf(workQueue', m, n))
    <2>1. all = left + first
      <3> DEFINE q == Tail(workQueue)
                 x == Head(workQueue)
      <3>1. q \in Seq(VoteOn(Begun)) /\ x \in VoteOn(Begun) /\ workQueue' = Append(q, x)
            /\ Len(q) = n - 1
        BY <1>3, <1>4
      <3> HIDE DEF q, x, m
      <3>2. Cardinality(PlacesOf(Append(q, x), m, Len(q) + 1)) =
               Cardinality(PlacesOf(q, m, Len(q))) + (IF x = m THEN 1 ELSE 0)
        BY <3>1, PlacesOfAppend
      <3>3. Len(q) + 1 = n
        BY <1>3, <3>1
      <3>4. Cardinality(PlacesOf(workQueue', m, n)) =
               Cardinality(PlacesOf(q, m, n - 1)) + (IF x = m THEN 1 ELSE 0)
        BY <3>1, <3>2, <3>3
      <3> QED BY <3>4 DEF q, x
    <2>2. n - 1 \in 0 .. n - 1 /\ n - 1 + 1 = n
      BY <1>3
    <2>3. Counted(u, c) + first + left = Come(u, c, n)
      BY <1>1, <1>2, <2>2, TakeVoteCounts
    <2>4. voting # m
      BY NoMessageAssumption, IdsOfBatch DEF VoteFor, Message
    <2>5. Come(u, c, n)' = Counted(u, c) + 0 + all
      BY <1>6, <2>4 DEF Come, VoteFor
    <2>6. all \in Nat /\ left \in Nat /\ first \in Nat /\ Counted(u, c) \in Int
      BY <1>2, <1>3, PlacesNumber, ComeTypes
    <2> HIDE DEF first, left, all
    <2> QED BY <2>1, <2>3, <2>5, <2>6
  <1>8. NothingLost'
    <2>1. \A c \in Batch : /\ prepsIn[c] = Come("PREP", c, n)
                           /\ commitsIn[c] = Come("COMMIT", c, n)
      BY <1>1 DEF TurnInv, NothingLost
    <2>2. \A c \in Batch : /\ prepsIn[c] = Come("PREP", c, n)'
                           /\ commitsIn[c] = Come("COMMIT", c, n)'
      BY <1>7, <2>1
    <2> QED BY <1>5, <1>6, <2>2 DEF TurnInv, NothingLost
  <1> QED BY <1>2, <1>8 DEF TurnInv

\* run() takes the first message or puts it back.
LEMMA TakeVoteKeepsTurns ==
  ASSUME ClaimInv, TurnInv, PrimarySteps(TakeVote)
  PROVE  TurnInv'
  <1> DEFINE m == Head(workQueue)
  <1>1. /\ voting = None /\ workQueue # <<>>
        /\ UNCHANGED <<txn, prepsIn, commitsIn, executeQueue, executing, g_next_index,
                       expectedBatchCount, failed>>
    BY DEF TakeVote, PrimarySteps, linkVars
  <1>2. m \in VoteOn(Begun)
    BY <1>1 DEF ClaimInv, BegunInv
  <1>3. BatchOf(m.txn_id) \in Batch
    BY <1>2, VoteOfBatch, IdsOfBatch
  <1>4. \/ voting' = m /\ workQueue' = Tail(workQueue) /\ putBack' = putBack
        \/ /\ workQueue' = Append(Tail(workQueue), m) /\ voting' = voting
           /\ putBack' = putBack \cup {BatchOf(m.txn_id)}
    BY DEF TakeVote, PrimarySteps
  <1> QED BY <1>1, <1>3, <1>4, VoteTakenKeepsTurns, VotePutBackKeepsTurns

\* What counting makes of the counters and flags of a batch.
CountRecord == [prep_rsp_cnt : Int, commit_rsp_cnt : Int,
                prepared : BOOLEAN, committed_local : BOOLEAN]
LEMMA CountRecords ==
  ASSUME NEW r \in CountRecord
  PROVE  /\ PrepCounted(r) \in CountRecord /\ CommitCounted(r) \in CountRecord
         /\ PrepCounted(r).prep_rsp_cnt = r.prep_rsp_cnt - 1
         /\ PrepCounted(r).commit_rsp_cnt = r.commit_rsp_cnt
         /\ PrepCounted(r).prepared = (r.prepared \/ r.prep_rsp_cnt = 1)
         /\ PrepCounted(r).committed_local = r.committed_local
         /\ CommitCounted(r).prep_rsp_cnt = r.prep_rsp_cnt
         /\ CommitCounted(r).commit_rsp_cnt = r.commit_rsp_cnt - 1
         /\ CommitCounted(r).prepared = r.prepared
         /\ CommitCounted(r).committed_local =
               (r.committed_local \/ (r.commit_rsp_cnt = 1 /\ r.prepared))
  <1> DEFINE p == r.prepared \/ r.prep_rsp_cnt = 1
             c == r.committed_local \/ (r.commit_rsp_cnt = 1 /\ r.prepared)
             i == r.prep_rsp_cnt - 1
             j == r.commit_rsp_cnt - 1
  <1>1. PrepCounted(r) = [r EXCEPT !.prep_rsp_cnt = i, !.prepared = p]
    BY DEF PrepCounted
  <1>2. CommitCounted(r) = [r EXCEPT !.commit_rsp_cnt = j, !.committed_local = c]
    BY DEF CommitCounted
  <1>3. p \in BOOLEAN /\ c \in BOOLEAN /\ i \in Int /\ j \in Int
    BY DEF CountRecord
  <1> HIDE DEF p, c, i, j
  <1>4. /\ PrepCounted(r) \in CountRecord
        /\ PrepCounted(r).prep_rsp_cnt = i /\ PrepCounted(r).commit_rsp_cnt = r.commit_rsp_cnt
        /\ PrepCounted(r).prepared = p /\ PrepCounted(r).committed_local = r.committed_local
    BY <1>1, <1>3 DEF CountRecord
  <1>5. /\ CommitCounted(r) \in CountRecord
        /\ CommitCounted(r).prep_rsp_cnt = r.prep_rsp_cnt /\ CommitCounted(r).commit_rsp_cnt = j
        /\ CommitCounted(r).prepared = r.prepared /\ CommitCounted(r).committed_local = c
    BY <1>2, <1>3 DEF CountRecord
  <1> QED BY <1>4, <1>5 DEF p, c, i, j

\* Thread 0 counts the message in its hand: what has come stays the same.
LEMMA EndVoteCounts ==
  ASSUME ClaimInv, CountTypes, NEW t \in {"PREP", "COMMIT"}, NEW b \in Batch,
         voting = VoteFor(t, b), voting' = None, workQueue' = workQueue,
         txn' = [txn EXCEPT ![b] = IF t = "PREP" THEN PrepCounted(@) ELSE CommitCounted(@)]
  PROVE  /\ txn' \in [Batch -> [prep_rsp_cnt : Int, commit_rsp_cnt : Int,
                                prepared : BOOLEAN, committed_local : BOOLEAN]]
         /\ \A u \in {"PREP", "COMMIT"}, c \in Batch :
               Counted(u, c)' = Counted(u, c) + (IF u = t /\ c = b THEN 1 ELSE 0)
         /\ \A u \in {"PREP", "COMMIT"}, c \in Batch : \A k \in Nat :
               Come(u, c, k)' = Come(u, c, k)
  <1>1. txn \in [Batch -> CountRecord]
    BY DEF CountTypes, CountRecord
  <1> DEFINE r == IF t = "PREP" THEN PrepCounted(txn[b]) ELSE CommitCounted(txn[b])
  <1>2. /\ txn' = [txn EXCEPT ![b] = r]
        /\ r \in CountRecord
        /\ t = "PREP" => /\ r.prep_rsp_cnt = txn[b].prep_rsp_cnt - 1
                         /\ r.commit_rsp_cnt = txn[b].commit_rsp_cnt
        /\ t = "COMMIT" => /\ r.prep_rsp_cnt = txn[b].prep_rsp_cnt
                           /\ r.commit_rsp_cnt = txn[b].commit_rsp_cnt - 1
    BY <1>1, CountRecords
  <1> HIDE DEF r
  <1>3. /\ txn' \in [Batch -> CountRecord]
        /\ \A c \in Batch \ {b} : txn'[c] = txn[c]
        /\ t = "PREP" => /\ txn'[b].prep_rsp_cnt = txn[b].prep_rsp_cnt - 1
                         /\ txn'[b].commit_rsp_cnt = txn[b].commit_rsp_cnt
        /\ t = "COMMIT" => /\ txn'[b].prep_rsp_cnt = txn[b].prep_rsp_cnt
                           /\ txn'[b].commit_rsp_cnt = txn[b].commit_rsp_cnt - 1
    BY <1>1, <1>2
  <1>4. F \in Nat
    BY NumbersType
  <1>5. ASSUME NEW u \in {"PREP", "COMMIT"}, NEW c \in Batch
        PROVE  Counted(u, c)' = Counted(u, c) + (IF u = t /\ c = b THEN 1 ELSE 0)
    <2>1. txn[c].prep_rsp_cnt \in Int /\ txn[c].commit_rsp_cnt \in Int
      BY <1>1 DEF CountRecord
    <2>2. CASE c # b
      BY <1>3, <1>4, <2>1, <2>2 DEF Counted
    <2>3. CASE c = b
      BY <1>3, <1>4, <2>1, <2>3 DEF Counted
    <2> QED BY <2>2, <2>3
  <1>6. ASSUME NEW u \in {"PREP", "COMMIT"}, NEW c \in Batch, NEW k \in Nat
        PROVE  Come(u, c, k)' = Come(u, c, k)
    <2> DEFINE w == Cardinality(PlacesOf(workQueue, VoteFor(u, c), k))
               one == IF u = t /\ c = b THEN 1 ELSE 0
    <2>1. voting = VoteFor(u, c) <=> u = t /\ c = b
      BY VotesApart
    <2>2. None # VoteFor(u, c)
      BY NoMessageAssumption, IdsOfBatch DEF VoteFor, Message
    <2>3. Come(u, c, k) = Counted(u, c) + one + w
      BY <2>1 DEF Come
    <2>4. Come(u, c, k)' = Counted(u, c)' + 0 + w
      BY <2>2 DEF Come, VoteFor
    <2>5. Counted(u, c) \in Int /\ w \in Nat /\ one \in Nat
      BY PlacesNumber, ComeTypes
    <2>6. Counted(u, c)' = Counted(u, c) + one
      BY <1>5
    <2> HIDE DEF w, one
    <2> QED BY <2>3, <2>4, <2>5, <2>6
  <1> QED BY <1>3, <1>5, <1>6 DEF CountRecord

\* A batch that thread 0 commits is the next after those committed.
LEMMA CommittedIsNext ==
  ASSUME CountTypes, OrderKept, NoneMissed, NEW x \in 0 .. BatchCount, Turns(x),
         executeQueue \in Seq(Batch), NEW b \in Batch, voting = VoteFor("COMMIT", b),
         ~txn[b].committed_local, Counted("COMMIT", b) + 1 >= 2 * F + 1,
         workQueue \in Seq(VoteOn(Begun))
  PROVE  b = x + Len(executeQueue)
  <1> DEFINE c == x + Len(executeQueue)
  <1>1. b \in Nat /\ c \in Nat /\ (b > 0 => b - 1 \in Batch)
    BY BatchesAssumption DEF Batch
  <1>2. \A a \in Batch : txn[a].committed_local <=> a < c
    BY DEF Turns
  <1>3. ~(b < c)
    BY <1>2
  <1>4. ASSUME b > 0 PROVE b - 1 < c
    <2>1. 0 \in 0 .. Len(workQueue)
      OBVIOUS
    <2>2. Come("COMMIT", b, 0) <= Come("COMMIT", b - 1, 0)
      BY <1>1, <1>4, <2>1 DEF OrderKept
    <2>3. Cardinality(PlacesOf(workQueue, VoteFor("COMMIT", b), 0)) = 0
          /\ Cardinality(PlacesOf(workQueue, VoteFor("COMMIT", b - 1), 0)) = 0
      BY PlacesNone
    <2>4. voting # VoteFor("COMMIT", b - 1)
      BY <1>1, <1>4, VotesApart
    <2>5. /\ Come("COMMIT", b, 0) = Counted("COMMIT", b) + 1 + 0
          /\ Come("COMMIT", b - 1, 0) = Counted("COMMIT", b - 1) + 0 + 0
      BY <2>3, <2>4 DEF Come
    <2>6. Counted("COMMIT", b) \in Int /\ Counted("COMMIT", b - 1) \in Int /\ F \in Nat
      BY <1>1, <1>4, ComeTypes, NumbersType
    <2>7. Counted("COMMIT", b - 1) >= 2 * F + 1
      BY <2>2, <2>5, <2>6
    <2> QED BY <1>1, <1>2, <1>4, <2>7 DEF NoneMissed
  <1> HIDE DEF c
  <1>5. b = c
    BY <1>1, <1>3, <1>4
  <1> QED BY <1>5 DEF c

\* The counter that comes to 0 finds the batch prepared, and the batch before committed.
LEMMA EndVoteKeepsTurns ==
  ASSUME ClaimInv, TurnInv, PrimarySteps(EndVote)
  PROVE  TurnInv'
  <1>1. /\ voting # None /\ voting' = None /\ GiveBack({voting.txn_id})
        /\ UNCHANGED <<workQueue, prepsIn, commitsIn, executing, g_next_index, putBack,
                       expectedBatchCount>>
    BY DEF EndVote, PrimarySteps, linkVars
  <1>2. PICK t \in {"PREP", "COMMIT"}, b \in Batch :
          voting = VoteFor(t, b) /\ voting.txn_id = Last(b) /\ voting.type = t
    BY <1>1, VoteOfBatch DEF ClaimInv, BegunInv
  <1>3. BatchOf(voting.txn_id) = b
    BY <1>2, IdsOfBatch
  <1>4. txn' = [txn EXCEPT ![b] = IF t = "PREP" THEN PrepCounted(@) ELSE CommitCounted(@)]
    BY <1>2, <1>3 DEF EndVote, PrimarySteps
  <1>5. executeQueue' = IF txn'[b].committed_local /\ ~txn[b].committed_local
                        THEN Append(executeQueue, b) ELSE executeQueue
    BY <1>3 DEF EndVote, PrimarySteps
  <1>6. CountTypes /\ F \in Nat
    BY NumbersType DEF TurnInv
  <1>7. /\ txn' \in [Batch -> [prep_rsp_cnt : Int, commit_rsp_cnt : Int,
                               prepared : BOOLEAN, committed_local : BOOLEAN]]
        /\ \A u \in {"PREP", "COMMIT"}, c \in Batch :
              Counted(u, c)' = Counted(u, c) + (IF u = t /\ c = b THEN 1 ELSE 0)
        /\ \A u \in {"PREP", "COMMIT"}, c \in Batch : \A k \in Nat :
              Come(u, c, k)' = Come(u, c, k)
    BY <1>1, <1>2, <1>4, <1>6, EndVoteCounts
  <1>8. CountTypes'
    BY <1>1, <1>6, <1>7 DEF CountTypes, GiveBack
  <1>9. /\ \A c \in Batch \ {b} : txn'[c] = txn[c]
        /\ t = "PREP" =>
              /\ txn'[b].prepared = (txn[b].prepared \/ txn[b].prep_rsp_cnt = 1)
              /\ txn'[b].committed_local = txn[b].committed_local
        /\ t = "COMMIT" =>
              /\ txn'[b].prepared = txn[b].prepared
              /\ txn'[b].committed_local =
                    (txn[b].committed_local \/ (txn[b].commit_rsp_cnt = 1 /\ txn[b].prepared))
    <2> DEFINE r == IF t = "PREP" THEN PrepCounted(txn[b]) ELSE CommitCounted(txn[b])
    <2>1. txn[b] \in CountRecord /\ txn \in [Batch -> CountRecord]
      BY <1>6 DEF CountTypes, CountRecord
    <2>2. txn' = [txn EXCEPT ![b] = r]
      BY <1>4
    <2>3. /\ t = "PREP" =>
                /\ r.prepared = (txn[b].prepared \/ txn[b].prep_rsp_cnt = 1)
                /\ r.committed_local = txn[b].committed_local
          /\ t = "COMMIT" =>
                /\ r.prepared = txn[b].prepared
                /\ r.committed_local =
                      (txn[b].committed_local \/ (txn[b].commit_rsp_cnt = 1 /\ txn[b].prepared))
      BY <2>1, CountRecords
    <2> HIDE DEF r
    <2> QED BY <2>1, <2>2, <2>3
  <1>10. \A c \in Batch : Counted("PREP", c) \in Int /\ Counted("COMMIT", c) \in Int
    BY <1>6, ComeTypes
  <1>11. /\ txn[b].prep_rsp_cnt = 1 <=> Counted("PREP", b) + 1 = 2 * F
         /\ txn[b].commit_rsp_cnt = 1 <=> Counted("COMMIT", b) = 2 * F
    BY <1>6 DEF Counted, CountTypes
  <1>12. NothingLost'
    <2>1. \A c \in Batch : txn'[c].prepared <=> Counted("PREP", c)' >= 2 * F
      <3>1. \A c \in Batch : txn[c].prepared <=> Counted("PREP", c) >= 2 * F
        BY DEF TurnInv, NothingLost
      <3>2. \A c \in Batch \ {b} : txn'[c].prepared <=> Counted("PREP", c)' >= 2 * F
        BY <1>7, <1>9, <1>10, <3>1
      <3>3. CASE t = "PREP"
        BY <1>6, <1>7, <1>9, <1>10, <1>11, <3>1, <3>2, <3>3
      <3>4. CASE t = "COMMIT"
        BY <1>6, <1>7, <1>9, <1>10, <3>1, <3>2, <3>4
      <3> QED BY <3>3, <3>4
    <2>2. Len(workQueue) \in Nat
      BY DEF ClaimInv, BegunInv
    <2>3. \A c \in Batch : /\ prepsIn[c] = Come("PREP", c, Len(workQueue))'
                           /\ commitsIn[c] = Come("COMMIT", c, Len(workQueue))'
      <3>1. PICK n \in Nat : n = Len(workQueue)
        BY <2>2
      <3>2. \A c \in Batch : /\ prepsIn[c] = Come("PREP", c, n)'
                             /\ commitsIn[c] = Come("COMMIT", c, n)'
        BY <1>7, <3>1 DEF TurnInv, NothingLost
      <3> QED BY <1>1, <3>1, <3>2
    <2> QED BY <1>1, <2>1, <2>3 DEF TurnInv, NothingLost
  <1>13. ASSUME putBack' = {}
         PROVE  /\ OrderKept' /\ NoneMissed' /\ failed' # "turn"
                /\ \E x \in 0 .. BatchCount : Turns(x)'
    <2>1. OrderKept /\ NoneMissed /\ failed # "turn"
      BY <1>1, <1>13 DEF TurnInv
    <2>2. PICK x \in 0 .. BatchCount : Turns(x)
      BY <1>1, <1>13 DEF TurnInv
    <2>3. failed' # "turn"
      BY <1>1, <2>1 DEF GiveBack
    <2>4. OrderKept'
      <3>1. \A c \in Batch : c > 0 => c - 1 \in Batch
        BY BatchesAssumption DEF Batch
      <3>2. \A k \in 0 .. Len(workQueue) : k \in Nat
        OBVIOUS
      <3> QED BY <1>1, <1>7, <2>1, <3>1, <3>2 DEF OrderKept
    <2>5. CASE t = "PREP"
      <3>1. \A c \in Batch : txn'[c].committed_local = txn[c].committed_local
                             /\ Counted("COMMIT", c)' = Counted("COMMIT", c)
        BY <1>7, <1>9, <1>10, <2>5
      <3>2. executeQueue' = executeQueue
        BY <1>5, <3>1
      <3>3. Turns(x)'
        BY <1>1, <2>2, <3>1, <3>2 DEF Turns
      <3>4. NoneMissed'
        BY <2>1, <3>1 DEF NoneMissed
      <3> QED BY <2>3, <2>4, <3>3, <3>4
    <2>6. CASE t = "COMMIT"
      <3>1. Counted("COMMIT", b) + 1 <= Counted("PREP", b)
        <4>1. 0 \in 0 .. Len(workQueue)
          BY DEF ClaimInv, BegunInv
        <4>2. Come("COMMIT", b, 0) <= Come("PREP", b, 0)
          BY <2>1, <4>1 DEF OrderKept
        <4>3. Cardinality(PlacesOf(workQueue, VoteFor("COMMIT", b), 0)) = 0
              /\ Cardinality(PlacesOf(workQueue, VoteFor("PREP", b), 0)) = 0
          BY PlacesNone
        <4>4. voting # VoteFor("PREP", b)
          BY <1>2, <2>6, VotesApart
        <4>5. /\ Come("COMMIT", b, 0) = Counted("COMMIT", b) + 1 + 0
              /\ Come("PREP", b, 0) = Counted("PREP", b) + 0 + 0
          BY <1>2, <2>6, <4>3, <4>4 DEF Come
        <4> QED BY <1>10, <4>2, <4>5
      <3>2. txn[b].commit_rsp_cnt = 1 => txn[b].prepared
        BY <1>6, <1>10, <1>11, <3>1 DEF TurnInv, NothingLost
      <3>3. txn'[b].committed_local <=> txn[b].committed_local \/ txn[b].commit_rsp_cnt = 1
        BY <1>9, <2>6, <3>2
      <3>4. \A c \in Batch : txn[c].committed_local <=> Counted("COMMIT", c) >= 2 * F + 1
        BY <2>1 DEF NoneMissed
      <3>5. txn'[b].committed_local <=> Counted("COMMIT", b) + 1 >= 2 * F + 1
        BY <1>6, <1>10, <1>11, <3>3, <3>4
      <3>6. NoneMissed'
        BY <1>7, <1>9, <1>10, <2>6, <3>4, <3>5 DEF NoneMissed
      <3>7. executeQueue \in Seq(Batch)
        BY BegunAreBatches, SeqOfMore DEF ClaimInv, BegunInv
      <3>8. Turns(x)'
        <4>1. CASE txn'[b].committed_local = txn[b].committed_local
          <5>1. executeQueue' = executeQueue
            BY <1>5, <4>1
          <5>2. \A c \in Batch : txn'[c].committed_local = txn[c].committed_local
            BY <1>9, <4>1
          <5> QED BY <1>1, <2>2, <5>1, <5>2 DEF Turns
        <4>2. CASE txn'[b].committed_local # txn[b].committed_local
          <5>1. ~txn[b].committed_local /\ txn'[b].committed_local
            BY <1>6, <1>7, <3>3, <4>2 DEF CountTypes
          <5>2. b = x + Len(executeQueue)
            <6>1. workQueue \in Seq(VoteOn(Begun))
              BY DEF ClaimInv, BegunInv
            <6> QED BY <1>2, <1>6, <2>1, <2>2, <2>6, <3>5, <3>7, <5>1, <6>1, CommittedIsNext
          <5>3. executeQueue' = Append(executeQueue, b)
            BY <1>5, <5>1
          <5>4. /\ Len(executeQueue') = Len(executeQueue) + 1
                /\ Len(executeQueue) \in Nat
                /\ DOMAIN executeQueue' = 1 .. Len(executeQueue) + 1
                /\ DOMAIN executeQueue = 1 .. Len(executeQueue)
                /\ \A k \in DOMAIN executeQueue : executeQueue'[k] = executeQueue[k]
                /\ executeQueue'[Len(executeQueue) + 1] = b
            BY <3>7, <5>3
          <5>5. \A k \in DOMAIN executeQueue' : executeQueue'[k] = x + k - 1
            BY <2>2, <5>2, <5>4 DEF Turns
          <5>6. \A c \in Batch : txn'[c].committed_local <=> c < x + Len(executeQueue')
            <6>1. \A c \in Batch : c \in Nat
              BY BatchesAssumption DEF Batch
            <6>2. \A c \in Batch : txn[c].committed_local <=> c < x + Len(executeQueue)
              BY <2>2 DEF Turns
            <6> QED BY <1>9, <5>1, <5>2, <5>4, <6>1, <6>2
          <5> QED BY <1>1, <2>2, <5>5, <5>6 DEF Turns
        <4> QED BY <4>1, <4>2
      <3> QED BY <2>3, <2>4, <3>6, <3>8
    <2> QED BY <2>5, <2>6
  <1> QED BY <1>8, <1>12, <1>13 DEF TurnInv

\* The execution thread counts nothing, so only its turns are in question.
LEMMA ExecutionLeavesCounts ==
  ASSUME TurnInv, UNCHANGED <<txn, workQueue, voting, prepsIn, commitsIn, putBack,
                              expectedBatchCount>>,
         g_next_index' \in Nat, failed' \in {"no", "claim", "turn"},
         putBack = {} => failed' # "turn" /\ \E x \in 0 .. BatchCount : Turns(x)'
  PROVE  TurnInv'
  <1>1. \A t, b : Counted(t, b)' = Counted(t, b)
    BY DEF Counted
  <1>2. \A t, b, k : Come(t, b, k)' = Come(t, b, k)
    BY <1>1 DEF Come
  <1>3. CountTypes' /\ NothingLost'
    BY <1>1, <1>2 DEF TurnInv, CountTypes, NothingLost
  <1>4. putBack = {} => OrderKept' /\ NoneMissed'
    BY <1>1, <1>2 DEF TurnInv, OrderKept, NoneMissed
  <1> QED BY <1>3, <1>4 DEF TurnInv

\* The manager under whose id a batch waits to be executed is free.
LEMMA ExecutionIsFree ==
  ASSUME ClaimInv, executing.batch = None, executeQueue # <<>>
  PROVE  ExecuteId(Head(executeQueue)) \in ready
  <1> DEFINE b == Head(executeQueue)
  <1>1. b \in Begun /\ b \in Batch /\ Begun \subseteq Batch
    BY BegunAreBatches DEF ClaimInv, BegunInv
  <1> HIDE DEF b
  <1>2. \A c \in Begun : Last(c) # ExecuteId(b) /\ BatchReqId(c) # ExecuteId(b)
    BY <1>1, IdsApart
  <1>3. ~Held(ExecuteId(b))
    BY <1>2 DEF Held, ClaimInv, BegunInv, VoteOn
  <1>4. ExecuteId(b) \in TxnIds
    BY <1>1, IdsOfBatch
  <1> QED BY <1>3, <1>4 DEF ClaimInv, HeldInv, b

\* The first of those that wait is the next.
LEMMA TakeExecuteKeepsTurns ==
  ASSUME ClaimInv, TurnInv, PrimarySteps(TakeExecute)
  PROVE  TurnInv'
  <1> DEFINE b == Head(executeQueue)
  <1>1. /\ executing.batch = None /\ executeQueue # <<>>
        /\ UNCHANGED <<txn, workQueue, voting, prepsIn, commitsIn, putBack, failed,
                       expectedBatchCount, g_next_index>>
    BY DEF TakeExecute, PrimarySteps, linkVars
  <1>2. /\ executing' = [batch |-> b, claimed |-> FALSE]
        /\ executeQueue' = Tail(executeQueue)
    BY <1>1, ExecutionIsFree DEF TakeExecute, PrimarySteps
  <1>3. executeQueue \in Seq(Batch)
    BY BegunAreBatches, SeqOfMore DEF ClaimInv, BegunInv
  <1>4. ASSUME putBack = {}
        PROVE  failed' # "turn" /\ \E x \in 0 .. BatchCount : Turns(x)'
    <2>1. PICK x \in 0 .. BatchCount : Turns(x)
      BY <1>4 DEF TurnInv
    <2>2. /\ b \in Batch /\ b = executeQueue[1] /\ 1 \in DOMAIN executeQueue
          /\ Len(executeQueue) \in Nat
          /\ DOMAIN executeQueue = 1 .. Len(executeQueue)
          /\ Len(executeQueue') = Len(executeQueue) - 1
          /\ DOMAIN executeQueue' = 1 .. Len(executeQueue) - 1
          /\ \A k \in DOMAIN executeQueue' : executeQueue'[k] = executeQueue[k + 1]
      BY <1>1, <1>2, <1>3
    <2> HIDE DEF b
    <2>3. b = x /\ x \in Nat /\ x + 1 \in 0 .. BatchCount /\ b # None
      <3>1. b = x + 1 - 1
        BY <2>1, <2>2 DEF Turns
      <3>2. b \in 0 .. BatchCount - 1 /\ BatchCount \in Nat
        BY <2>2, BatchesAssumption DEF Batch
      <3>3. b # None
        BY <3>2, BatchesAssumption
      <3> QED BY <2>1, <3>1, <3>2, <3>3
    <2>4. \A k \in DOMAIN executeQueue' : executeQueue'[k] = (x + 1) + k - 1
      <3>1. \A k \in DOMAIN executeQueue' : k \in Nat /\ k + 1 \in DOMAIN executeQueue
        BY <2>2
      <3>2. \A k \in DOMAIN executeQueue : executeQueue[k] = x + k - 1
        BY <2>1 DEF Turns
      <3> QED BY <2>2, <2>3, <3>1, <3>2
    <2>5. \A c \in Batch : txn'[c].committed_local <=> c < (x + 1) + Len(executeQueue')
      <3>1. (x + 1) + Len(executeQueue') = x + Len(executeQueue)
        BY <2>2, <2>3
      <3> QED BY <1>1, <2>1, <3>1 DEF Turns
    <2>6. /\ executing'.batch = b /\ ~executing'.claimed
          /\ g_next_index' = BatchSize * b
      BY <1>1, <1>2, <2>1, <2>3 DEF Turns
    <2>7. BatchSize * b \in Int
      BY <2>3, ThreadsAssumption
    <2>8. Turns(x + 1)'
      <3>1. g_next_index' = BatchSize * executing'.batch + 0
        BY <2>6, <2>7
      <3> QED BY <2>3, <2>4, <2>5, <2>6, <3>1 DEF Turns
    <2> QED BY <1>1, <1>4, <2>3, <2>8 DEF TurnInv
  <1>5. g_next_index' \in Nat /\ failed' \in {"no", "claim", "turn"}
    BY <1>1 DEF TurnInv, CountTypes
  <1> QED BY <1>1, <1>4, <1>5, ExecutionLeavesCounts

\* The assertion on g_next_index holds when it is the batch's turn.
LEMMA ClaimLastKeepsTurns ==
  ASSUME ClaimInv, TurnInv, PrimarySteps(ClaimLast)
  PROVE  TurnInv'
  <1>1. /\ executing.batch # None /\ ~executing.claimed
        /\ UNCHANGED <<txn, workQueue, voting, prepsIn, commitsIn, putBack,
                       expectedBatchCount, executeQueue>>
    BY DEF ClaimLast, PrimarySteps, linkVars
  <1>2. \/ UNCHANGED <<executing, g_next_index>> /\ failed' = "turn"
             /\ g_next_index # BatchSize * executing.batch
        \/ /\ executing' = [executing EXCEPT !.claimed = TRUE]
           /\ g_next_index' = g_next_index + BatchSize - 1
           /\ failed' = failed
    BY DEF ClaimLast, PrimarySteps, Fail
  <1>3. g_next_index \in Nat /\ failed \in {"no", "claim", "turn"}
    BY DEF TurnInv, CountTypes
  <1>4. g_next_index' \in Nat /\ failed' \in {"no", "claim", "turn"}
    BY <1>2, <1>3, ThreadsAssumption
  <1>5. executing.batch \in Int
    BY <1>1, BegunAreBatches DEF ClaimInv, BegunInv
  <1>6. ASSUME putBack = {}
        PROVE  failed' # "turn" /\ \E x \in 0 .. BatchCount : Turns(x)'
    <2>1. PICK x \in 0 .. BatchCount : Turns(x)
      BY <1>6 DEF TurnInv
    <2>2. BatchSize * executing.batch \in Int
      BY <1>5, ThreadsAssumption
    <2>3. g_next_index = BatchSize * executing.batch /\ x = executing.batch + 1
      <3>1. g_next_index = BatchSize * executing.batch + 0 /\ x = executing.batch + 1
        BY <1>1, <2>1 DEF Turns
      <3> QED BY <2>2, <3>1
    <2>4. /\ executing'.batch = executing.batch /\ executing'.claimed
          /\ g_next_index' = g_next_index + BatchSize - 1 /\ failed' = failed
      BY <1>2, <2>3 DEF ClaimInv, BegunInv
    <2>5. g_next_index' = BatchSize * executing'.batch + (BatchSize - 1)
      <3> DEFINE g == BatchSize * executing.batch
      <3>1. g \in Int /\ g_next_index' = g + BatchSize - 1
        BY <2>2, <2>3, <2>4
      <3>2. BatchSize \in Nat
        BY ThreadsAssumption
      <3> HIDE DEF g
      <3>3. g_next_index' = g + (BatchSize - 1)
        BY <3>1, <3>2
      <3> QED BY <2>4, <3>3 DEF g
    <2>6. Turns(x)'
      <3>1. /\ \A k \in DOMAIN executeQueue : executeQueue[k] = x + k - 1
            /\ \A b \in Batch : txn[b].committed_local <=> b < x + Len(executeQueue)
        BY <2>1 DEF Turns
      <3>2. executing'.batch # None /\ x = executing'.batch + 1
        BY <1>1, <2>3, <2>4
      <3> QED BY <1>1, <2>4, <2>5, <3>1, <3>2 DEF Turns
    <2> QED BY <1>6, <2>4, <2>6 DEF TurnInv
  <1> QED BY <1>1, <1>4, <1>6, ExecutionLeavesCounts

\* When a batch is executed it is the next one's turn.
LEMMA EndExecuteKeepsTurns ==
  ASSUME ClaimInv, TurnInv, PrimarySteps(EndExecute)
  PROVE  TurnInv'
  <1>1. /\ executing.claimed /\ executing.batch # None
        /\ executing' = [batch |-> None, claimed |-> FALSE]
        /\ g_next_index' = g_next_index + 1
        /\ failed' \in {"no", "claim"}
        /\ UNCHANGED <<txn, workQueue, voting, prepsIn, commitsIn, putBack,
                       expectedBatchCount, executeQueue>>
    BY DEF EndExecute, PrimarySteps, linkVars, GiveBack, ClaimInv, BegunInv
  <1>2. g_next_index \in Nat /\ g_next_index' \in Nat
    BY <1>1 DEF TurnInv, CountTypes
  <1>3. executing.batch \in Int
    BY <1>1, BegunAreBatches DEF ClaimInv, BegunInv
  <1>4. ASSUME putBack = {}
        PROVE  \E x \in 0 .. BatchCount : Turns(x)'
    <2>1. PICK x \in 0 .. BatchCount : Turns(x)
      BY <1>4 DEF TurnInv
    <2>2. /\ g_next_index = BatchSize * executing.batch + (BatchSize - 1)
          /\ x = executing.batch + 1
      BY <1>1, <2>1 DEF Turns
    <2>3. g_next_index' = BatchSize * x
      <3> DEFINE b == executing.batch
      <3>1. BatchSize * (b + 1) = BatchSize * b + BatchSize /\ BatchSize * b \in Int
        BY <1>3, ThreadsAssumption
      <3>2. BatchSize \in Nat
        BY ThreadsAssumption
      <3> DEFINE g == BatchSize * b
                 h == BatchSize * (b + 1)
      <3>3. /\ g \in Int /\ h = g + BatchSize
            /\ g_next_index = g + (BatchSize - 1) /\ BatchSize * x = h
        BY <2>2, <3>1
      <3> HIDE DEF g, h
      <3>4. g_next_index' = h
        BY <1>1, <3>2, <3>3
      <3> QED BY <3>3, <3>4
    <2>4. Turns(x)'
      <3>1. /\ \A k \in DOMAIN executeQueue : executeQueue[k] = x + k - 1
            /\ \A b \in Batch : txn[b].committed_local <=> b < x + Len(executeQueue)
        BY <2>1 DEF Turns
      <3> QED BY <1>1, <2>3, <3>1 DEF Turns
    <2> QED BY <2>4
  <1> QED BY <1>1, <1>2, <1>4, ExecutionLeavesCounts

\* At the start nothing has come.
LEMMA InitTurnInv == SessionInit => TurnInv
  <1> SUFFICES ASSUME SessionInit PROVE TurnInv
    OBVIOUS
  <1> USE DEF SessionInit, ThreadsInit
  <1>1. F \in Nat /\ F > 0 /\ Cardinality(Replica) \in Nat
    BY NumbersType, NodeAssumption DEF F, Replica
  <1>2. CountTypes
    <2>1. BatchReqId(0) \in Nat
      BY IdsOfBatch, BatchesAssumption DEF Batch, TxnIds
    <2> QED BY <1>1, <2>1 DEF CountTypes
  <1>3. \A b \in Batch : /\ Counted("PREP", b) = 0 /\ Counted("COMMIT", b) = 0
                         /\ ~txn[b].prepared /\ ~txn[b].committed_local
    BY <1>1 DEF Counted
  <1>4. ASSUME NEW t \in {"PREP", "COMMIT"}, NEW b \in Batch
        PROVE  Come(t, b, 0) = 0
    <2>1. None # VoteFor(t, b)
      BY NoMessageAssumption, IdsOfBatch DEF VoteFor, Message
    <2>2. Cardinality(PlacesOf(workQueue, VoteFor(t, b), 0)) = 0
      BY PlacesNone
    <2> QED BY <1>3, <2>1, <2>2 DEF Come
  <1>5. NothingLost
    BY <1>1, <1>3, <1>4 DEF NothingLost
  <1>6. OrderKept
    <2>1. \A c \in Batch : c > 0 => c - 1 \in Batch
      BY BatchesAssumption DEF Batch
    <2> QED BY <1>4, <2>1 DEF OrderKept
  <1>7. NoneMissed
    BY <1>1, <1>3 DEF NoneMissed
  <1>8. Turns(0)
    <2>1. \A b \in Batch : ~(b < 0 + Len(executeQueue))
      BY BatchesAssumption DEF Batch
    <2>2. g_next_index = BatchSize * 0
      BY ThreadsAssumption
    <2> QED BY <1>3, <2>1, <2>2 DEF Turns
  <1>9. 0 \in 0 .. BatchCount
    BY BatchesAssumption
  <1> QED BY <1>2, <1>5, <1>6, <1>7, <1>8, <1>9 DEF TurnInv

\* The batching and ordering threads count no votes.
LEMMA OrderingKeepsTurns ==
  ASSUME ClaimInv, TurnInv, PrimarySteps(BatchingNext \/ OrderingNext)
  PROVE  TurnInv'
  <1>1. UNCHANGED <<prepsIn, commitsIn>>
    BY DEF PrimarySteps, linkVars
  <1>2. ASSUME NEW t \in BatchThread, TakeClientBatch(t)
        PROVE  TurnInv'
    <2>1. expectedBatchCount' \in Nat /\ failed' \in {failed, "no", "claim"}
      BY <1>2 DEF TakeClientBatch, Fail, TurnInv, CountTypes
    <2> QED BY <1>1, <1>2, <2>1, CountsLeftAlone DEF TakeClientBatch
  <1>3. ASSUME NEW t \in BatchThread, EndClientBatch(t)
        PROVE  TurnInv'
    <2>1. expectedBatchCount' \in Nat /\ failed' \in {failed, "no", "claim"}
      BY <1>3 DEF EndClientBatch, GiveBack, TurnInv, CountTypes
    <2> QED BY <1>1, <1>3, <2>1, CountsLeftAlone DEF EndClientBatch
  <1>4. CASE TakeBatchReq
    <2>1. expectedBatchCount' \in Nat /\ failed' \in {failed, "no", "claim"}
      BY <1>4 DEF TakeBatchReq, Fail, TurnInv, CountTypes
    <2> QED BY <1>1, <1>4, <2>1, CountsLeftAlone DEF TakeBatchReq
  <1>5. CASE EndBatchReq
    <2>1. PICK b \in Begun : ordering = BatchReqId(b)
      BY <1>5 DEF EndBatchReq, ClaimInv, BegunInv
    <2>2. ordering \in TxnIds
      BY <2>1, BegunAreBatches, IdsOfBatch DEF ClaimInv
    <2>3. BatchSize \in Nat /\ ordering \in Nat
      BY <2>2, ThreadsAssumption DEF TxnIds
    <2>4. expectedBatchCount' \in Nat /\ failed' \in {failed, "no", "claim"}
      BY <1>5, <2>3 DEF EndBatchReq, GiveBack, NextExpected
    <2> QED BY <1>1, <1>5, <2>4, CountsLeftAlone DEF EndBatchReq
  <1> QED BY <1>2, <1>3, <1>4, <1>5 DEF BatchingNext, OrderingNext, PrimarySteps

\* Nor does what the start-up, the client and the answers do change a count.
LEMMA OthersKeepTurns ==
  ASSUME TurnInv,
         \/ UNCHANGED <<threadVars, linkVars>>
         \/ ClientSends
  PROVE  TurnInv'
  <1>1. UNCHANGED <<txn, workQueue, voting, prepsIn, commitsIn, executeQueue, executing,
                    g_next_index, putBack, expectedBatchCount, failed>>
    BY DEF threadVars, linkVars, ClientSends
  <1> QED BY <1>1, CountsLeftAlone DEF TurnInv, CountTypes

\* Every step keeps the counts and the turns.
LEMMA NextSessionInv == SessionInv /\ [SessionNext]_sessionVars => SessionInv'
  <1> SUFFICES ASSUME ClaimInv, TurnInv, [SessionNext]_sessionVars PROVE TurnInv'
    BY NextClaimInv DEF SessionInv
  <1>1. CASE \/ StartupNext /\ UNCHANGED <<threadVars, responsesVars, linkVars>>
             \/ ClientSends
    BY <1>1, OthersKeepTurns
  <1>2. CASE PrimarySteps(BatchingNext \/ OrderingNext)
    BY <1>2, OrderingKeepsTurns
  <1>3. CASE PrimarySteps(VotingNext)
    BY <1>3, TakeVoteKeepsTurns, EndVoteKeepsTurns DEF VotingNext, PrimarySteps
  <1>4. CASE PrimarySteps(ExecutingNext)
    BY <1>4, TakeExecuteKeepsTurns, ClaimLastKeepsTurns, EndExecuteKeepsTurns
    DEF ExecutingNext, PrimarySteps
  <1>5. CASE \E b \in Batch : PrepArrives(b) \/ CommitArrives(b)
    BY <1>5, ArrivalKeepsTurns
  <1>6. CASE \E n \in Node : AnswerArrives(n)
    BY <1>6, OthersKeepTurns DEF AnswerArrives
  <1>7. CASE UNCHANGED sessionVars
    BY <1>7, OthersKeepTurns DEF sessionVars
  <1> QED BY <1>1, <1>2, <1>3, <1>4, <1>5, <1>6, <1>7
          DEF SessionNext, ThreadsNext, PrimarySteps

\* A primary that has counted all COMMITs has counted enough.
LEMMA AllAreEnough == Cardinality(Replica) \in Nat /\ Cardinality(Replica) >= 2 * F + 1
  <1>1. /\ Cardinality(Replica) = Cardinality(Node) - 1 /\ Cardinality(Node) \in Nat
        /\ Cardinality(Node) > 3
    BY NodeAssumption, SessionAssumption, FS_RemoveElement, FS_CardinalityType DEF Replica
  <1>2. F \in Nat /\ F > 0 /\ 3 * F <= Cardinality(Node) - 1
    BY <1>1 DEF F
  <1> QED BY <1>1, <1>2

\* What every step preserves says why nothing is missed.
LEMMA InvMissed == SessionInv => MissedOnlyAfterPutBack
  <1> SUFFICES ASSUME SessionInv, putBack = {}
               PROVE  /\ failed # "turn"
                      /\ \A b \in Batch : AllCounted(b) => txn[b].committed_local
    BY DEF MissedOnlyAfterPutBack
  <1>1. failed # "turn" /\ NoneMissed
    BY DEF SessionInv, TurnInv
  <1>2. ASSUME NEW b \in Batch, AllCounted(b)
        PROVE  txn[b].committed_local
    <2>1. Counted("COMMIT", b) = Cardinality(Replica)
      BY <1>2, AllAreEnough, NumbersType DEF AllCounted, Counted
    <2> QED BY <1>1, <2>1, AllAreEnough DEF NoneMissed
  <1> QED BY <1>1, <1>2

\* The types of the threads' state, and the most that can come.
LEMMA InvTypes == StartupInv /\ ResponsesInv /\ SessionInv => SessionTypeOK
  <1> SUFFICES ASSUME StartupInv, ResponsesInv, SessionInv PROVE SessionTypeOK
    OBVIOUS
  <1> USE DEF SessionInv, ClaimInv
  <1>1. StartupTypeOK /\ ResponsesTypeOK
    BY DEF StartupInv, ResponsesInv
  <1>2. Begun \subseteq Batch /\ VoteOn(Begun) \subseteq Message
    BY BegunAreBatches
  <1>3. {BatchReqId(b) : b \in Begun} \subseteq TxnIds
    BY <1>2, IdsOfBatch
  <1>4. /\ workQueue \in Seq(Message) /\ executeQueue \in Seq(Batch)
        /\ orderQueue \in Seq(TxnIds)
    BY <1>2, <1>3, SeqOfMore DEF BegunInv
  <1>5. clientQueue \in Seq(Batch)
    <2>1. 0 .. submitted - 1 \subseteq Batch
      BY BatchesAssumption DEF ClientQueueInv, Batch
    <2> QED BY <2>1, SeqOfMore DEF ClientQueueInv
  <1>6. /\ ordering \in TxnIds \cup {None} /\ voting \in Message \cup {None}
        /\ ordered \in SUBSET Batch
    BY <1>2, <1>3 DEF BegunInv
  <1>7. /\ executing \in [batch : Batch \cup {None}, claimed : BOOLEAN]
        /\ batching \in [BatchThread -> Batch \cup {None}]
    <2>1. Begun \cup {None} \subseteq Batch \cup {None}
      BY <1>2
    <2> QED BY <2>1 DEF BegunInv
  <1>8. ready \in SUBSET TxnIds
    BY DEF HeldInv
  <1>9. ThreadsTypeOK
    BY <1>4, <1>5, <1>6, <1>7, <1>8 DEF ThreadsTypeOK, TurnInv, CountTypes
  <1>10. /\ prepsIn \in [Batch -> 0 .. Cardinality(Replica)]
         /\ commitsIn \in [Batch -> 0 .. Cardinality(Replica)]
    <2>1. prepsIn \in [Batch -> Nat] /\ commitsIn \in [Batch -> Nat]
      BY DEF BegunInv
    <2>2. \A b \in Batch : /\ prepsIn[b] <= Cardinality(Replica)
                           /\ commitsIn[b] <= Cardinality(Replica)
      BY DEF TurnInv, NothingLost
    <2> QED BY <2>1, <2>2, AllAreEnough
  <1> QED BY <1>1, <1>9, <1>10 DEF SessionTypeOK

\* What a thread of the primary looks at when it counts or executes is what the
\* links have brought, in their order, for any number of nodes, batches and
\* threads and any bound on the queue.
THEOREM SessionKeepsCounts == SessionSpec => []SessionInv
  <1>1. SessionInit => SessionInv
    BY InitClaimInv, InitTurnInv DEF SessionInv
  <1> QED BY <1>1, NextSessionInv, PTL DEF SessionSpec

\* The variables of a session keep their types; no replica's PREP or COMMIT
\* reaches the primary twice.
THEOREM SessionTypesKept == SessionSpec => []SessionTypeOK
  BY SessionKeepsCounts, PartsInv, InvTypes, PTL

\* While run() has put no message back, no batch is missed and none is executed
\* out of turn: the COMMIT that brings a counter to 0 finds the batch prepared,
\* batches commit in their order, and the assertion on g_next_index holds.
THEOREM NoneMissedInOrder == SessionSpec => []MissedOnlyAfterPutBack
  BY SessionKeepsCounts, InvMissed, PTL

\* A batch the client sees complete has been answered by 2F + 1 nodes.
THEOREM SessionCompletes == SessionSpec => []CompletedIsAnswered
  BY SessionKeepsItsParts, PTL

=============================================================================
