----------------------------- MODULE PbftProofs -----------------------------
(* Theorems about Pbft: its types; IInv of PbftInvariant, from which it      *)
(* follows that certificates are sound; and QInv, with which Pbft implements *)
(* Replication: what messages, counters and stores add up to.                *)
EXTENDS PbftInvariant, TLAPS, FiniteSetTheorems, SequenceTheorems

-----------------------------------------------------------------------------
(* Types *)

\* A slot number is one.
LEMMA SlotType == \A b \in Batch : Slot(b) \in 0 .. Slots - 1
  BY BatchAssumption DEF Slot, Slots, Batch

\* The faults tolerated, and the nodes, are numbers.
LEMMA FType == F \in Nat /\ Cardinality(Node) \in Nat
  <1>1. Cardinality(Node) \in Nat
    BY NodeAssumption, FS_CardinalityType
  <1> QED BY <1>1, NodeAssumption DEF F

\* The counters of a new transaction are numbers.
LEMMA InitialTxnType == InitialTxn \in TxnManager
  BY FType DEF InitialTxn, TxnManager

\* An update of a function of functions.
LEMMA Except2 ==
  ASSUME NEW A, NEW B, NEW C, NEW f \in [A -> [B -> C]],
         NEW a \in A, NEW b \in B, NEW c \in C
  PROVE  [f EXCEPT ![a][b] = c] \in [A -> [B -> C]]
  OBVIOUS

\* A broadcast appends messages to the log of its sender.
LEMMA BroadcastsType ==
  ASSUME TypeOK, NEW n \in Node, NEW msgs \in Seq(Message), Broadcasts(n, msgs)
  PROVE  log' \in [Node -> Seq(Message)]
  <1>1. log[n] \in Seq(Message)
    BY DEF TypeOK
  <1>2. log[n] \o msgs \in Seq(Message)
    BY <1>1, ConcatProperties
  <1> QED BY <1>2 DEF Broadcasts, TypeOK

\* What a handler broadcasts is a message.
LEMMA MsgType ==
  \A b \in Batch, t \in {"BATCH_REQ", "PREP", "COMMIT"} : Msg(t, b) \in Message
  BY DEF Msg, Message

\* What goes into the stores of a slot is a slot's worth of messages.
LEMMA StoredType ==
  ASSUME TypeOK, NEW n \in Node, NEW s \in Node, NEW b \in Batch
  PROVE  Preps(n, s, b) \in [Node -> Cell] /\ Comms(n, s, b) \in [Node -> Cell]
  <1>1. Slot(b) \in 0 .. Slots - 1 /\ b \in Cell
    BY SlotType DEF Cell
  <1>2. /\ prepPStore[n][Slot(b)] \in [Node -> Cell]
        /\ commStore[n][Slot(b)] \in [Node -> Cell]
    <2>1. /\ prepPStore \in [Node -> [0 .. Slots - 1 -> [Node -> Cell]]]
          /\ commStore \in [Node -> [0 .. Slots - 1 -> [Node -> Cell]]]
      BY DEF TypeOK
    <2> QED BY <1>1, <2>1
  <1> QED BY <1>1, <1>2 DEF Preps, Comms

\* Storing a COMMIT keeps the store a store.
LEMMA CommStoreType ==
  ASSUME TypeOK, NEW n \in Node, NEW s \in Node, NEW b \in Batch,
         commStore' = [commStore EXCEPT ![n][Slot(b)] = Comms(n, s, b)]
  PROVE  commStore' \in [Node -> [0 .. Slots - 1 -> [Node -> Cell]]]
  <1>1. commStore \in [Node -> [0 .. Slots - 1 -> [Node -> Cell]]]
    BY DEF TypeOK
  <1> QED BY <1>1, SlotType, StoredType, Except2

\* A batch put in the execution queue joins batches.
LEMMA QueueType ==
  ASSUME TypeOK, NEW n \in Node, NEW b \in Batch, QueueForExecution(n, b)
  PROVE  execQueue' \in [Node -> Seq(Batch)]
  <1>1. execQueue \in [Node -> Seq(Batch)]
    BY DEF TypeOK
  <1>2. Append(execQueue[n], b) \in Seq(Batch)
    BY <1>1
  <1> QED BY <1>1, <1>2 DEF QueueForExecution

\* One TxnManager in place of another keeps the table a table.
LEMMA TxnType ==
  ASSUME TypeOK, NEW n \in Node, NEW b \in Batch, NEW t \in TxnManager,
         txn' = [txn EXCEPT ![n][b] = t]
  PROVE  txn' \in [Node -> [Batch -> TxnManager]]
  <1>1. txn \in [Node -> [Batch -> TxnManager]]
    BY DEF TypeOK
  <1> QED BY <1>1, Except2

\* A handler's update of a TxnManager is a TxnManager.
LEMMA UpdatedTxnType ==
  ASSUME NEW t \in TxnManager, NEW p \in BOOLEAN, NEW c \in BOOLEAN
  PROVE  /\ Certified(t, p, c) \in TxnManager
         /\ PrepCounted(t, p) \in TxnManager
         /\ CommitCounted(t, c) \in TxnManager
  <1>1. Certified(t, p, c) \in TxnManager
    BY DEF TxnManager, Certified
  <1>2. PrepCounted(t, p) \in TxnManager
    <2> DEFINE k == t.prep_rsp_cnt - 1
               q == t.prepared \/ p
    <2>1. k \in Int /\ q \in BOOLEAN
      BY DEF TxnManager
    <2>2. PrepCounted(t, p) = [t EXCEPT !.prep_rsp_cnt = k, !.prepared = q]
      BY DEF PrepCounted
    <2> HIDE DEF k, q
    <2> QED BY <2>1, <2>2 DEF TxnManager
  <1>3. CommitCounted(t, c) \in TxnManager
    <2> DEFINE k == t.commit_rsp_cnt - 1
               q == t.committed_local \/ c
    <2>1. k \in Int /\ q \in BOOLEAN
      BY DEF TxnManager
    <2>2. CommitCounted(t, c) = [t EXCEPT !.commit_rsp_cnt = k, !.committed_local = q]
      BY DEF CommitCounted
    <2> HIDE DEF k, q
    <2> QED BY <2>1, <2>2 DEF TxnManager
  <1> QED BY <1>1, <1>2, <1>3

\* Taking a message moves one cursor.
LEMMA TakesType ==
  ASSUME TypeOK, NEW n \in Node, NEW s \in Node, NEW b, NEW t, Takes(n, s, t, b)
  PROVE  rcvd' \in [Node -> [Node -> Nat]]
  <1>1. rcvd' = [rcvd EXCEPT ![n][s] = rcvd[n][s] + 1]
    BY DEF Takes
  <1>2. rcvd \in [Node -> [Node -> Nat]] /\ rcvd[n][s] + 1 \in Nat
    BY DEF TypeOK
  <1> QED BY <1>1, <1>2, Except2

\* An abort leaves everything but the cursor and the set of aborted nodes.
LEMMA AbortType ==
  ASSUME TypeOK, NEW n \in Node, Abort(n), rcvd' \in [Node -> [Node -> Nat]]
  PROVE  TypeOK'
  BY DEF Abort, TypeOK, storeVars, execVars, primaryVars

\* Initially every variable has its type.
LEMMA InitTypeOK == Init => TypeOK
  BY InitialTxnType DEF Init, TypeOK, Cell, FirstExpected

\* The handlers one by one: each leaves every variable in its type.
LEMMA ClientBatchTypeOK ==
  ASSUME TypeOK, NEW b \in Batch, ClientBatch(b) PROVE TypeOK'
  BY SlotType, PrimaryAssumption
  DEF ClientBatch, TypeOK, Cell, netVars, execVars

\* The primary's process_batch.
LEMMA OrderBatchTypeOK ==
  ASSUME TypeOK, NEW b \in Batch, OrderBatch(b) PROVE TypeOK'
  <1>1. log' \in [Node -> Seq(Message)]
    <2>1. <<Msg("BATCH_REQ", b)>> \in Seq(Message)
      BY MsgType
    <2>2. Broadcasts(Primary, <<Msg("BATCH_REQ", b)>>)
      BY DEF OrderBatch
    <2> QED BY <2>1, <2>2, BroadcastsType, PrimaryAssumption
  <1>2. expectedBatchCount' \in Nat
    BY BatchAssumption DEF OrderBatch, Batch
  <1> QED
    BY <1>1, <1>2 DEF OrderBatch, TypeOK, storeVars, execVars

\* A replica's process_batch.
LEMMA ReplicaBatchTypeOK ==
  ASSUME TypeOK, NEW n \in Node, NEW b \in Batch, ReplicaBatch(n, b)
  PROVE  TypeOK'
  <1>1. rcvd' \in [Node -> [Node -> Nat]]
    BY TakesType, PrimaryAssumption DEF ReplicaBatch
  <1>2. CASE Abort(n)
    BY <1>1, <1>2, AbortType
  <1>3. CASE preStore[n][Slot(b)] # b
    <2>1. Slot(b) \in 0 .. Slots - 1 /\ b \in Cell
      BY SlotType DEF Cell
    <2>2. log' \in [Node -> Seq(Message)]
      <3>1. /\ <<Msg("PREP", b)>> \in Seq(Message)
            /\ <<Msg("PREP", b), Msg("COMMIT", b)>> \in Seq(Message)
        BY MsgType
      <3>2. \/ Broadcasts(n, <<Msg("PREP", b)>>)
            \/ Broadcasts(n, <<Msg("PREP", b), Msg("COMMIT", b)>>)
        BY <1>3 DEF ReplicaBatch
      <3> QED BY <3>1, <3>2, BroadcastsType
    <2>3. preStore' \in [Node -> [0 .. Slots - 1 -> Cell]]
      <3>1. preStore' = [preStore EXCEPT ![n][Slot(b)] = b]
        BY <1>3 DEF ReplicaBatch
      <3>2. preStore \in [Node -> [0 .. Slots - 1 -> Cell]]
        BY DEF TypeOK
      <3> QED BY <2>1, <3>1, <3>2
    <2>4. prepPStore' \in [Node -> [0 .. Slots - 1 -> [Node -> Cell]]]
      <3>1. prepPStore' = [prepPStore EXCEPT ![n][Slot(b)] = Preps(n, n, b)]
        BY <1>3 DEF ReplicaBatch
      <3>2. prepPStore \in [Node -> [0 .. Slots - 1 -> [Node -> Cell]]]
        BY DEF TypeOK
      <3> QED BY <2>1, <3>1, <3>2, StoredType, Except2
    <2>5. commStore' \in [Node -> [0 .. Slots - 1 -> [Node -> Cell]]]
      <3>1. CASE commStore' = [commStore EXCEPT ![n][Slot(b)] = Comms(n, n, b)]
        BY <3>1, CommStoreType
      <3>2. CASE UNCHANGED commStore
        BY <3>2 DEF TypeOK
      <3> QED BY <1>3, <3>1, <3>2 DEF ReplicaBatch
    <2>6. txn' \in [Node -> [Batch -> TxnManager]]
      <3>1. txn[n][b] \in TxnManager
        BY DEF TypeOK
      <3>2. PreparedByBatch(n, b) \in BOOLEAN /\ CommittedByBatch(n, b) \in BOOLEAN
        BY DEF PreparedByBatch, CommittedByBatch
      <3> QED BY <1>3, <3>1, <3>2, UpdatedTxnType, TxnType DEF ReplicaBatch
    <2>7. execQueue' \in [Node -> Seq(Batch)]
      BY <1>3, QueueType DEF ReplicaBatch, TypeOK
    <2> QED
      BY <1>1, <1>3, <2>2, <2>3, <2>4, <2>5, <2>6, <2>7
      DEF ReplicaBatch, TypeOK, primaryVars
  <1> QED BY <1>2, <1>3 DEF ReplicaBatch

\* process_pbft_prep_msg.
LEMMA PrepTypeOK ==
  ASSUME TypeOK, NEW n \in Node, NEW s \in Node, NEW b \in Batch, Prep(n, s, b)
  PROVE  TypeOK'
  <1>1. rcvd' \in [Node -> [Node -> Nat]]
    BY TakesType DEF Prep
  <1> DEFINE lost == n = Primary /\ LastPrep(n, b) /\ preStore[n][Slot(b)] # b
  <1>2. CASE lost
    BY <1>1, <1>2, AbortType DEF Prep
  <1>3. CASE ~lost
    <2>1. Slot(b) \in 0 .. Slots - 1
      BY SlotType
    <2>2. log' \in [Node -> Seq(Message)]
      <3>1. <<Msg("COMMIT", b)>> \in Seq(Message)
        BY MsgType
      <3>2. Broadcasts(n, <<Msg("COMMIT", b)>>) \/ UNCHANGED log
        BY <1>3 DEF Prep
      <3> QED BY <3>1, <3>2, BroadcastsType DEF TypeOK
    <2>3. prepPStore' \in [Node -> [0 .. Slots - 1 -> [Node -> Cell]]]
      <3>1. prepPStore' = [prepPStore EXCEPT ![n][Slot(b)] = Preps(n, s, b)]
        BY <1>3 DEF Prep
      <3>2. prepPStore \in [Node -> [0 .. Slots - 1 -> [Node -> Cell]]]
        BY DEF TypeOK
      <3> QED BY <2>1, <3>1, <3>2, StoredType, Except2
    <2>4. commStore' \in [Node -> [0 .. Slots - 1 -> [Node -> Cell]]]
      <3>1. CASE commStore' = [commStore EXCEPT ![n][Slot(b)] = Comms(n, n, b)]
        BY <2>1, <3>1, CommStoreType
      <3>2. CASE UNCHANGED commStore
        BY <3>2 DEF TypeOK
      <3> QED BY <1>3, <3>1, <3>2 DEF Prep
    <2>5. txn' \in [Node -> [Batch -> TxnManager]]
      <3>1. txn[n][b] \in TxnManager
        BY DEF TypeOK
      <3>2. PreparedByPrep(n, s, b) \in BOOLEAN
        BY DEF PreparedByPrep
      <3> QED BY <1>3, <3>1, <3>2, UpdatedTxnType, TxnType DEF Prep
    <2> QED
      BY <1>1, <1>3, <2>2, <2>3, <2>4, <2>5
      DEF Prep, TypeOK, execVars, primaryVars
  <1> QED BY <1>2, <1>3

\* process_pbft_commit_msg.
LEMMA CommitTypeOK ==
  ASSUME TypeOK, NEW n \in Node, NEW s \in Node, NEW b \in Batch, Commit(n, s, b)
  PROVE  TypeOK'
  <1>1. rcvd' \in [Node -> [Node -> Nat]]
    BY TakesType DEF Commit
  <1>2. PICK c \in ScanStops(prepPStore[n][Slot(b)], b) : Commit(n, s, b)!2!(c)
    BY DEF Commit
  <1> DEFINE lost == CommittedByCommit(n, s, b, c) /\ preStore[n][Slot(b)] # b
  <1>3. CASE lost
    BY <1>1, <1>2, <1>3, AbortType
  <1>4. CASE ~lost
    <2>1. commStore' \in [Node -> [0 .. Slots - 1 -> [Node -> Cell]]]
      BY <1>2, <1>4, CommStoreType
    <2>2. txn' \in [Node -> [Batch -> TxnManager]]
      <3>1. txn[n][b] \in TxnManager
        BY DEF TypeOK
      <3>2. CommittedByCommit(n, s, b, c) \in BOOLEAN
        BY DEF CommittedByCommit
      <3> QED BY <1>2, <1>4, <3>1, <3>2, UpdatedTxnType, TxnType
    <2>3. execQueue' \in [Node -> Seq(Batch)]
      BY <1>2, <1>4, QueueType DEF TypeOK
    <2> QED
      BY <1>1, <1>2, <1>4, <2>1, <2>2, <2>3 DEF TypeOK, primaryVars
  <1> QED BY <1>3, <1>4

\* process_execute_msg.
LEMMA ExecuteBatchTypeOK ==
  ASSUME TypeOK, NEW n \in Node, ExecuteBatch(n) PROVE TypeOK'
  <1>1. execQueue[n] \in Seq(Batch) /\ g_next_index[n] \in Nat
    BY DEF TypeOK
  <1>2. CASE Abort(n) /\ UNCHANGED rcvd
    BY <1>2, AbortType DEF TypeOK
  <1>3. CASE /\ execQueue' = [execQueue EXCEPT ![n] = Tail(@)]
             /\ g_next_index' = [g_next_index EXCEPT ![n] = @ + 1]
             /\ UNCHANGED <<netVars, storeVars, primaryVars, aborted>>
    <2>1. Tail(execQueue[n]) \in Seq(Batch)
      BY <1>1 DEF ExecuteBatch
    <2> QED
      BY <1>1, <1>3, <2>1 DEF TypeOK, netVars, storeVars, primaryVars
  <1> QED BY <1>2, <1>3 DEF ExecuteBatch

\* Every step of every thread keeps the variables in their types.
LEMMA NextTypeOK == TypeOK /\ [Next]_vars => TypeOK'
  <1> SUFFICES ASSUME TypeOK, [Next]_vars PROVE TypeOK'
    OBVIOUS
  <1>1. CASE UNCHANGED vars
    BY <1>1 DEF vars, netVars, storeVars, execVars, primaryVars, TypeOK
  <1> QED
    BY <1>1, ClientBatchTypeOK, OrderBatchTypeOK, ReplicaBatchTypeOK,
       PrepTypeOK, CommitTypeOK, ExecuteBatchTypeOK DEF Next, Finished

\* Every variable has its type in every state of every run.
THEOREM TypeCorrect == Spec => []TypeOK
  BY InitTypeOK, NextTypeOK, PTL DEF Spec


-----------------------------------------------------------------------------
(* Sending and handling *)

\* Nothing is taken back from a log.
LogsGrow ==
    \A s \in Node : /\ Len(log[s]) <= Len(log'[s])
                    /\ \A k \in 1 .. Len(log[s]) : log'[s][k] = log[s][k]

\* Every log is a sequence, its entries are messages.
LEMMA LogType ==
  ASSUME TypeOK, NEW s \in Node
  PROVE  /\ log[s] \in Seq(Message)
         /\ Len(log[s]) \in Nat
         /\ \A k \in 1 .. Len(log[s]) : log[s][k] \in Message
  <1>1. log[s] \in Seq(Message)
    BY DEF TypeOK
  <1> QED BY <1>1

\* A broadcast puts its messages behind those of its sender.
LEMMA Appended ==
  ASSUME TypeOK, NEW n \in Node, NEW msgs \in Seq(Message), Broadcasts(n, msgs),
         NEW s \in Node
  PROVE  /\ s # n => log'[s] = log[s]
         /\ s = n => /\ Len(log'[s]) = Len(log[s]) + Len(msgs)
                     /\ \A k \in 1 .. Len(log[s]) : log'[s][k] = log[s][k]
                     /\ \A k \in 1 .. Len(msgs) : log'[s][Len(log[s]) + k] = msgs[k]
  <1>1. log' = [log EXCEPT ![n] = log[n] \o msgs]
    BY DEF Broadcasts
  <1>2. log \in [Node -> Seq(Message)]
    BY DEF TypeOK
  <1>3. s # n => log'[s] = log[s]
    BY <1>1, <1>2
  <1>4. ASSUME s = n
        PROVE  /\ Len(log'[s]) = Len(log[s]) + Len(msgs)
               /\ \A k \in 1 .. Len(log[s]) : log'[s][k] = log[s][k]
               /\ \A k \in 1 .. Len(msgs) : log'[s][Len(log[s]) + k] = msgs[k]
    <2>1. log'[s] = log[s] \o msgs
      BY <1>1, <1>2, <1>4
    <2>2. log[s] \in Seq(Message) /\ Len(log[s]) \in Nat /\ Len(msgs) \in Nat
      BY <1>2
    <2>3. /\ Len(log[s] \o msgs) = Len(log[s]) + Len(msgs)
          /\ \A i \in 1 .. Len(log[s]) + Len(msgs) : (log[s] \o msgs)[i] =
                IF i <= Len(log[s]) THEN log[s][i] ELSE msgs[i - Len(log[s])]
      BY <2>2, ConcatProperties, Zenon
    <2>4. \A k \in 1 .. Len(log[s]) : (log[s] \o msgs)[k] = log[s][k]
      BY <2>2, <2>3
    <2>5. ASSUME NEW k \in 1 .. Len(msgs)
          PROVE  (log[s] \o msgs)[Len(log[s]) + k] = msgs[k]
      <3>1. /\ Len(log[s]) + k \in 1 .. Len(log[s]) + Len(msgs)
            /\ ~(Len(log[s]) + k <= Len(log[s]))
            /\ Len(log[s]) + k - Len(log[s]) = k
        BY <2>2
      <3> QED BY <2>3, <3>1
    <2> QED BY <2>1, <2>3, <2>4, <2>5
  <1> QED BY <1>3, <1>4

\* What a broadcast adds to what was sent.
LEMMA SentAfter ==
  ASSUME TypeOK, NEW n \in Node, NEW msgs \in Seq(Message), Broadcasts(n, msgs)
  PROVE  /\ LogsGrow
         /\ \A s \in Node : \A t, b :
               Sent(s, t, b)' <=>
                  \/ Sent(s, t, b)
                  \/ s = n /\ \E k \in 1 .. Len(msgs) : msgs[k] = Msg(t, b)
  <1>1. Len(msgs) \in Nat
    OBVIOUS
  <1>2. LogsGrow
    <2> SUFFICES ASSUME NEW s \in Node
                 PROVE  /\ Len(log[s]) <= Len(log'[s])
                        /\ \A k \in 1 .. Len(log[s]) : log'[s][k] = log[s][k]
      BY DEF LogsGrow
    <2> QED BY <1>1, Appended, LogType
  <1>3. ASSUME NEW s \in Node, NEW t, NEW b
        PROVE  Sent(s, t, b)' <=>
                  \/ Sent(s, t, b)
                  \/ s = n /\ \E k \in 1 .. Len(msgs) : msgs[k] = Msg(t, b)
    <2>1. CASE s # n
      BY <2>1, Appended DEF Sent, Msg
    <2>2. CASE s = n
      <3>1. Len(log[s]) \in Nat
        BY LogType
      <3>2. /\ Len(log'[s]) = Len(log[s]) + Len(msgs)
            /\ \A k \in 1 .. Len(log[s]) : log'[s][k] = log[s][k]
            /\ \A k \in 1 .. Len(msgs) : log'[s][Len(log[s]) + k] = msgs[k]
        BY <2>2, Appended
      <3>3. Msg(t, b)' = Msg(t, b)
        BY DEF Msg
      <3>4. ASSUME NEW k \in 1 .. Len(log'[s]), log'[s][k] = Msg(t, b)
            PROVE  \/ Sent(s, t, b)
                   \/ \E i \in 1 .. Len(msgs) : msgs[i] = Msg(t, b)
        <4>1. CASE k <= Len(log[s])
          BY <3>1, <3>2, <3>4, <4>1 DEF Sent
        <4>2. CASE k > Len(log[s])
          <5>1. k - Len(log[s]) \in 1 .. Len(msgs) /\ Len(log[s]) + (k - Len(log[s])) = k
            BY <1>1, <3>1, <3>2, <4>2
          <5> QED BY <3>2, <3>4, <5>1
        <4> QED BY <3>1, <3>2, <1>1, <4>1, <4>2
      <3>5. ASSUME NEW k \in 1 .. Len(log[s]), log[s][k] = Msg(t, b)
            PROVE  \E i \in 1 .. Len(log'[s]) : log'[s][i] = Msg(t, b)
        <4>1. k \in 1 .. Len(log'[s])
          BY <1>1, <3>1, <3>2
        <4>2. log'[s][k] = Msg(t, b)
          BY <3>2, <3>5
        <4> QED BY <4>1, <4>2
      <3>6. ASSUME NEW k \in 1 .. Len(msgs), msgs[k] = Msg(t, b)
            PROVE  \E i \in 1 .. Len(log'[s]) : log'[s][i] = Msg(t, b)
        <4>1. Len(log[s]) + k \in 1 .. Len(log'[s])
          BY <1>1, <3>1, <3>2
        <4> QED BY <3>2, <3>6, <4>1
      <3> QED BY <2>2, <3>3, <3>4, <3>5, <3>6 DEF Sent
    <2> QED BY <2>1, <2>2
  <1> QED BY <1>2, <1>3

\* The same for a handler that sends one message.
LEMMA SentOne ==
  ASSUME TypeOK, NEW n \in Node, NEW m \in Message, Broadcasts(n, <<m>>)
  PROVE  /\ LogsGrow
         /\ \A s \in Node : \A t, b :
               Sent(s, t, b)' <=> Sent(s, t, b) \/ (s = n /\ m = Msg(t, b))
  <1>1. <<m>> \in Seq(Message) /\ Len(<<m>>) = 1 /\ <<m>>[1] = m
    OBVIOUS
  <1>2. /\ LogsGrow
        /\ \A s \in Node : \A t, b :
              Sent(s, t, b)' <=>
                 \/ Sent(s, t, b)
                 \/ s = n /\ \E k \in 1 .. Len(<<m>>) : <<m>>[k] = Msg(t, b)
    BY <1>1, SentAfter
  <1>3. \A t, b : (\E k \in 1 .. Len(<<m>>) : <<m>>[k] = Msg(t, b)) <=> m = Msg(t, b)
    BY <1>1
  <1> QED BY <1>2, <1>3

\* And for one that sends two.
LEMMA SentTwo ==
  ASSUME TypeOK, NEW n \in Node, NEW m \in Message, NEW u \in Message,
         Broadcasts(n, <<m, u>>)
  PROVE  /\ LogsGrow
         /\ \A s \in Node : \A t, b :
               Sent(s, t, b)' <=>
                  Sent(s, t, b) \/ (s = n /\ (m = Msg(t, b) \/ u = Msg(t, b)))
  <1>1. /\ <<m, u>> \in Seq(Message) /\ Len(<<m, u>>) = 2
        /\ <<m, u>>[1] = m /\ <<m, u>>[2] = u
    OBVIOUS
  <1>2. /\ LogsGrow
        /\ \A s \in Node : \A t, b :
              Sent(s, t, b)' <=>
                 \/ Sent(s, t, b)
                 \/ s = n /\ \E k \in 1 .. Len(<<m, u>>) : <<m, u>>[k] = Msg(t, b)
    BY <1>1, SentAfter
  <1>3. \A t, b : (\E k \in 1 .. Len(<<m, u>>) : <<m, u>>[k] = Msg(t, b))
                      <=> m = Msg(t, b) \/ u = Msg(t, b)
    BY <1>1
  <1> QED BY <1>2, <1>3

\* What was sent stays sent, and what was handled stays handled.
LEMMA SentStays ==
  ASSUME TypeOK, LogsGrow, NEW s \in Node, NEW t, NEW b, Sent(s, t, b)
  PROVE  Sent(s, t, b)'
  <1>1. PICK k \in 1 .. Len(log[s]) : log[s][k] = Msg(t, b)
    BY DEF Sent
  <1>2. log'[s][k] = Msg(t, b) /\ Len(log[s]) <= Len(log'[s])
    BY <1>1 DEF LogsGrow
  <1>3. k \in 1 .. Len(log'[s])
    <2>1. Len(log[s]) \in Nat
      BY LogType
    <2> QED BY <1>1, <1>2, <2>1
  <1> QED BY <1>2, <1>3 DEF Sent, Msg

\* What is handled was sent.
LEMMA HandledWasSent ==
  ASSUME TypeOK, Cursors, NEW n \in Node, NEW s \in Node, NEW t, NEW b,
         Handled(n, s, t, b)
  PROVE  Sent(s, t, b)
  <1>1. rcvd[n][s] \in Nat /\ Len(log[s]) \in Nat /\ rcvd[n][s] <= Len(log[s])
    BY LogType DEF TypeOK, Cursors
  <1> QED BY <1>1 DEF Handled, Sent

\* A step that takes no message leaves what is handled.
LEMMA HandledKept ==
  ASSUME TypeOK, Cursors, LogsGrow, UNCHANGED rcvd
  PROVE  /\ Cursors'
         /\ \A n, s \in Node : \A t, b : Handled(n, s, t, b)' <=> Handled(n, s, t, b)
  <1>1. \A n, s \in Node : /\ rcvd[n][s] \in Nat /\ Len(log[s]) \in Nat
                           /\ rcvd[n][s] <= Len(log[s])
    BY LogType DEF TypeOK, Cursors
  <1> QED BY <1>1 DEF Cursors, LogsGrow, Handled, Msg

\* Taking a message adds it to what is handled, and nothing else.
LEMMA HandledAfter ==
  ASSUME TypeOK, Cursors, LogsGrow,
         NEW n \in Node, NEW s \in Node, NEW t, NEW b, Takes(n, s, t, b)
  PROVE  /\ Cursors'
         /\ \A m, r \in Node : \A u, c :
               Handled(m, r, u, c)' <=>
                  \/ Handled(m, r, u, c)
                  \/ m = n /\ r = s /\ Msg(u, c) = Msg(t, b)
  <1>1. \A m, r \in Node : /\ rcvd[m][r] \in Nat /\ Len(log[r]) \in Nat
                           /\ rcvd[m][r] <= Len(log[r])
    BY LogType DEF TypeOK, Cursors
  <1>2. /\ rcvd[n][s] < Len(log[s])
        /\ log[s][rcvd[n][s] + 1] = Msg(t, b)
        /\ rcvd' = [rcvd EXCEPT ![n][s] = rcvd[n][s] + 1]
    BY DEF Takes
  <1>3. \A m, r \in Node : rcvd'[m][r] = IF m = n /\ r = s THEN rcvd[n][s] + 1
                                                          ELSE rcvd[m][r]
    <2>1. rcvd \in [Node -> [Node -> Nat]]
      BY DEF TypeOK
    <2> QED BY <1>2, <2>1
  <1>4. \A m, r \in Node : rcvd'[m][r] <= Len(log[r])
    BY <1>1, <1>2, <1>3
  <1>5. \A r \in Node : /\ Len(log[r]) <= Len(log'[r])
                        /\ \A k \in 1 .. Len(log[r]) : log'[r][k] = log[r][k]
    BY DEF LogsGrow
  <1>6. Cursors'
    BY <1>1, <1>3, <1>4, <1>5 DEF Cursors
  <1>7. ASSUME NEW m \in Node, NEW r \in Node, NEW u, NEW c
        PROVE  Handled(m, r, u, c)' <=>
                  \/ Handled(m, r, u, c)
                  \/ m = n /\ r = s /\ Msg(u, c) = Msg(t, b)
    <2>1. Handled(m, r, u, c)' <=> \E k \in 1 .. rcvd'[m][r] : log[r][k] = Msg(u, c)
      <3>1. \A k \in 1 .. rcvd'[m][r] : log'[r][k] = log[r][k]
        <4> SUFFICES ASSUME NEW k \in 1 .. rcvd'[m][r] PROVE log'[r][k] = log[r][k]
          OBVIOUS
        <4>1. rcvd'[m][r] \in Nat /\ rcvd'[m][r] <= Len(log[r]) /\ Len(log[r]) \in Nat
          BY <1>1, <1>3, <1>4
        <4>2. k \in 1 .. Len(log[r])
          BY <4>1
        <4> QED BY <1>5, <4>2
      <3> QED BY <3>1 DEF Handled, Msg
    <2>2. CASE m = n /\ r = s
      <3>1. rcvd'[m][r] = rcvd[m][r] + 1 /\ log[r][rcvd[m][r] + 1] = Msg(t, b)
        BY <1>2, <1>3, <2>2
      <3>2. rcvd[m][r] \in Nat
        BY <1>1
      <3>3. 1 .. rcvd'[m][r] = (1 .. rcvd[m][r]) \cup {rcvd[m][r] + 1}
        BY <3>1, <3>2
      <3>4. (\E k \in 1 .. rcvd'[m][r] : log[r][k] = Msg(u, c)) <=>
               \/ \E k \in 1 .. rcvd[m][r] : log[r][k] = Msg(u, c)
               \/ log[r][rcvd[m][r] + 1] = Msg(u, c)
        BY <3>3, Zenon
      <3> QED BY <2>1, <2>2, <3>1, <3>4 DEF Handled
    <2>3. CASE ~(m = n /\ r = s)
      <3>1. rcvd'[m][r] = rcvd[m][r]
        BY <1>3, <2>3
      <3> QED BY <2>1, <2>3, <3>1 DEF Handled
    <2> QED BY <2>2, <2>3
  <1> QED BY <1>6, <1>7

\* Messages are the same if type and batch are.
LEMMA SameMsg ==
  ASSUME NEW t, NEW b, NEW u, NEW c
  PROVE  /\ Msg(t, b) = Msg(u, c) <=> t = u /\ b = c
         /\ Msg(t, b).type = t
  BY DEF Msg

-----------------------------------------------------------------------------
(* The conjuncts of IInv one by one *)

\* A broadcast of new messages repeats none.
LEMMA NoRepeatsAfter ==
  ASSUME TypeOK, NoRepeats, NEW n \in Node, NEW msgs \in Seq(Message),
         Broadcasts(n, msgs),
         \A k \in 1 .. Len(msgs) :
            \/ msgs[k].type = "PREP"
            \/ ~Sent(n, msgs[k].type, msgs[k].batch),
         \A j, k \in 1 .. Len(msgs) :
            msgs[j] = msgs[k] /\ msgs[j].type # "PREP" => j = k
  PROVE  NoRepeats'
  <1> SUFFICES ASSUME NEW s \in Node,
                      NEW j \in 1 .. Len(log'[s]), NEW k \in 1 .. Len(log'[s]),
                      log'[s][j] = log'[s][k], log'[s][j].type # "PREP"
               PROVE  j = k
    BY DEF NoRepeats
  <1> DEFINE old == Len(log[s])
  <1>1. old \in Nat /\ Len(msgs) \in Nat
    BY LogType
  <1>2. CASE s # n
    BY <1>2, Appended DEF NoRepeats
  <1>3. CASE s = n
    <2>1. /\ Len(log'[s]) = old + Len(msgs)
          /\ \A i \in 1 .. old : log'[s][i] = log[s][i]
          /\ \A i \in 1 .. Len(msgs) : log'[s][old + i] = msgs[i]
      BY <1>3, Appended
    <2>2. \A i \in 1 .. Len(log'[s]) :
             \/ i \in 1 .. old
             \/ /\ i - old \in 1 .. Len(msgs)
                /\ log'[s][i] = msgs[i - old]
      <3> SUFFICES ASSUME NEW i \in 1 .. Len(log'[s]), i \notin 1 .. old
                   PROVE  /\ i - old \in 1 .. Len(msgs)
                          /\ log'[s][i] = msgs[i - old]
        OBVIOUS
      <3>1. i - old \in 1 .. Len(msgs) /\ old + (i - old) = i
        BY <1>1, <2>1
      <3> QED BY <2>1, <3>1
    <2>3. ASSUME NEW i \in 1 .. old, NEW m \in 1 .. Len(msgs), log[s][i] = msgs[m]
          PROVE  msgs[m].type = "PREP"
      <3>1. msgs[m] = Msg(msgs[m].type, msgs[m].batch)
        <4>1. msgs[m] \in Message
          OBVIOUS
        <4> QED BY <4>1 DEF Message, Msg
      <3>2. Sent(n, msgs[m].type, msgs[m].batch)
        BY <1>3, <2>3, <3>1 DEF Sent
      <3> QED BY <3>2
    <2>4. CASE j \in 1 .. old /\ k \in 1 .. old
      <3>1. log'[s][j] = log[s][j] /\ log'[s][k] = log[s][k]
        BY <2>1, <2>4
      <3> QED BY <2>4, <3>1 DEF NoRepeats
    <2>5. CASE j \in 1 .. old /\ k \notin 1 .. old
      <3>1. log'[s][j] = log[s][j] /\ k - old \in 1 .. Len(msgs) /\ log'[s][k] = msgs[k - old]
        BY <2>1, <2>2, <2>5
      <3> QED BY <2>3, <2>5, <3>1
    <2>6. CASE j \notin 1 .. old /\ k \in 1 .. old
      <3>1. log'[s][k] = log[s][k] /\ j - old \in 1 .. Len(msgs) /\ log'[s][j] = msgs[j - old]
        BY <2>1, <2>2, <2>6
      <3> QED BY <2>3, <2>6, <3>1
    <2>7. CASE j \notin 1 .. old /\ k \notin 1 .. old
      <3>1. /\ j - old \in 1 .. Len(msgs) /\ log'[s][j] = msgs[j - old]
            /\ k - old \in 1 .. Len(msgs) /\ log'[s][k] = msgs[k - old]
        BY <2>2, <2>7
      <3>2. j - old = k - old
        BY <3>1
      <3> QED BY <1>1, <2>1, <3>2
    <2> QED BY <2>4, <2>5, <2>6, <2>7
  <1> QED BY <1>2, <1>3

\* Two sets of nodes compared.
LEMMA NodeSets ==
  ASSUME NEW S \in SUBSET Node, NEW T \in SUBSET S
  PROVE  /\ Cardinality(S) \in Nat
         /\ Cardinality(T) \in Nat
         /\ Cardinality(T) <= Cardinality(S)
  <1>1. IsFiniteSet(S)
    BY NodeAssumption, FS_Subset
  <1>2. IsFiniteSet(T) /\ Cardinality(T) <= Cardinality(S)
    BY <1>1, FS_Subset
  <1> QED BY <1>1, <1>2, FS_CardinalityType

\* 2F PREPs stay 2F PREPs.
LEMMA PrepSendersGrow ==
  ASSUME TypeOK, LogsGrow, NEW b \in Batch
  PROVE  /\ Cardinality(PrepSenders(b)) \in Nat
         /\ Cardinality(PrepSenders(b)') \in Nat
         /\ Cardinality(PrepSenders(b)) <= Cardinality(PrepSenders(b)')
  <1>1. PrepSenders(b) \subseteq PrepSenders(b)'
    BY SentStays DEF PrepSenders, Replica
  <1>2. PrepSenders(b)' \in SUBSET Node
    BY DEF PrepSenders, Replica
  <1> HIDE DEF PrepSenders
  <1> QED BY <1>1, <1>2, NodeSets

\* Where no counter moves, the accounts still balance.
LEMMA StillCounted ==
  ASSUME TypeOK, CommitsCounted,
         \A n \in Node, b \in Batch :
            /\ CommitsHandled(n, b) \subseteq CommitsHandled(n, b)'
            /\ txn'[n][b].commit_rsp_cnt = txn[n][b].commit_rsp_cnt
            /\ txn'[n][b].committed_local =>
                  txn[n][b].committed_local \/ txn[n][b].commit_rsp_cnt <= 0
  PROVE  CommitsCounted'
  <1> SUFFICES ASSUME NEW n \in Node, NEW b \in Batch
               PROVE  /\ txn'[n][b].commit_rsp_cnt
                            + Cardinality(CommitsHandled(n, b)') >= 2 * F + 1
                      /\ txn'[n][b].committed_local => txn'[n][b].commit_rsp_cnt <= 0
    BY DEF CommitsCounted, F
  <1>1. CommitsHandled(n, b)' \in SUBSET Node
    BY DEF CommitsHandled
  <1>2. /\ Cardinality(CommitsHandled(n, b)) \in Nat
        /\ Cardinality(CommitsHandled(n, b)') \in Nat
        /\ Cardinality(CommitsHandled(n, b)) <= Cardinality(CommitsHandled(n, b)')
    BY <1>1, NodeSets
  <1>3. /\ txn[n][b].commit_rsp_cnt + Cardinality(CommitsHandled(n, b)) >= 2 * F + 1
        /\ txn[n][b].committed_local => txn[n][b].commit_rsp_cnt <= 0
    BY DEF CommitsCounted
  <1>4. txn[n][b].commit_rsp_cnt \in Int
    BY DEF TypeOK, TxnManager
  <1> QED BY <1>2, <1>3, <1>4, FType

\* Where nobody stops being prepared and each new COMMIT has its PREPs, the
\* COMMITs are backed.
LEMMA StillBacked ==
  ASSUME TypeOK, CommitsBacked, LogsGrow,
         \A s \in Node, b \in Batch :
            txn[s][b].prepared => txn'[s][b].prepared,
         \A s \in Node, b \in Batch :
            Sent(s, "COMMIT", b)' =>
               \/ Sent(s, "COMMIT", b)
               \/ txn'[s][b].prepared /\ Cardinality(PrepSenders(b)') >= 2 * F
  PROVE  CommitsBacked'
  <1> SUFFICES ASSUME NEW s \in Node, NEW b \in Batch, Sent(s, "COMMIT", b)
               PROVE  txn'[s][b].prepared /\ Cardinality(PrepSenders(b)') >= 2 * F
    BY DEF CommitsBacked, F
  <1>1. txn[s][b].prepared /\ Cardinality(PrepSenders(b)) >= 2 * F
    BY DEF CommitsBacked
  <1> QED BY <1>1, PrepSendersGrow, FType

\* A PREP that was sent can be stored.
LEMMA StoredPrepsAfter ==
  ASSUME TypeOK, StoredPreps, LogsGrow,
         NEW n \in Node, NEW s \in Node, NEW b \in Batch, Sent(s, "PREP", b)',
         prepPStore' = [prepPStore EXCEPT ![n][Slot(b)] = Preps(n, s, b)]
  PROVE  StoredPreps'
  <1> SUFFICES ASSUME NEW m \in Node, NEW r \in Node, NEW i \in 0 .. Slots - 1,
                      NEW c \in Batch, prepPStore'[m][i][r] = c
               PROVE  Sent(r, "PREP", c)'
    BY DEF StoredPreps
  <1>1. Slot(b) \in 0 .. Slots - 1
    BY SlotType
  <1>2. prepPStore \in [Node -> [0 .. Slots - 1 -> [Node -> Cell]]]
    BY DEF TypeOK
  <1>3. \/ prepPStore[m][i][r] = c
        \/ r = s /\ c = b
    BY <1>1, <1>2 DEF Preps
  <1> QED BY <1>3, SentStays DEF StoredPreps

\* What EnoughPreps counts in a slot are PREPs that replicas sent.
LEMMA EnoughPrepsSent ==
  ASSUME TypeOK, StoredPreps, LogsGrow, PrepsBacked',
         NEW n \in Node, NEW s \in Node, NEW b \in Batch, Sent(s, "PREP", b)',
         EnoughPreps(Preps(n, s, b), b)
  PROVE  Cardinality(PrepSenders(b)') >= 2 * F
  <1> DEFINE counted == {r \in Node : Preps(n, s, b)[r] = b}
  <1>1. ASSUME NEW r \in counted PROVE r \in PrepSenders(b)'
    <2>1. r \in Node /\ Preps(n, s, b)[r] = b
      OBVIOUS
    <2>2. Slot(b) \in 0 .. Slots - 1 /\ prepPStore[n][Slot(b)] \in [Node -> Cell]
      <3>1. prepPStore \in [Node -> [0 .. Slots - 1 -> [Node -> Cell]]]
        BY DEF TypeOK
      <3> QED BY <3>1, SlotType
    <2>3. r = s \/ prepPStore[n][Slot(b)][r] = b
      BY <2>1, <2>2 DEF Preps
    <2>4. Sent(r, "PREP", b)'
      BY <2>1, <2>2, <2>3, SentStays DEF StoredPreps
    <2>5. r \in Replica
      BY <2>1, <2>4 DEF PrepsBacked, Replica
    <2> QED BY <2>4, <2>5 DEF PrepSenders, Replica
  <1>2. PrepSenders(b)' \in SUBSET Node /\ counted \in SUBSET PrepSenders(b)'
    BY <1>1 DEF PrepSenders, Replica
  <1>3. Cardinality(counted) >= 2 * F
    BY DEF EnoughPreps
  <1> HIDE DEF counted
  <1> QED BY <1>2, <1>3, NodeSets, FType

\* The fields after each kind of update.
LEMMA UpdatedTxn ==
  ASSUME NEW t \in TxnManager, NEW p \in BOOLEAN, NEW c \in BOOLEAN
  PROVE  /\ Certified(t, p, c).commit_rsp_cnt = t.commit_rsp_cnt
         /\ Certified(t, p, c).prepared <=> t.prepared \/ p
         /\ Certified(t, p, c).committed_local <=> t.committed_local \/ c
         /\ PrepCounted(t, p).commit_rsp_cnt = t.commit_rsp_cnt
         /\ PrepCounted(t, p).prepared <=> t.prepared \/ p
         /\ PrepCounted(t, p).committed_local <=> t.committed_local
         /\ CommitCounted(t, c).commit_rsp_cnt = t.commit_rsp_cnt - 1
         /\ CommitCounted(t, c).prepared <=> t.prepared
         /\ CommitCounted(t, c).committed_local <=> t.committed_local \/ c
  BY DEF TxnManager, Certified, PrepCounted, CommitCounted

\* What is taken was sent.
LEMMA TakenWasSent ==
  ASSUME TypeOK, NEW n \in Node, NEW s \in Node, NEW t, NEW b, Takes(n, s, t, b)
  PROVE  Sent(s, t, b)
  <1>1. rcvd[n][s] \in Nat /\ Len(log[s]) \in Nat
    BY LogType DEF TypeOK
  <1>2. rcvd[n][s] + 1 \in 1 .. Len(log[s]) /\ log[s][rcvd[n][s] + 1] = Msg(t, b)
    BY <1>1 DEF Takes
  <1> QED BY <1>2 DEF Sent

\* A message that is not repeated is not taken twice.
LEMMA TakenOnce ==
  ASSUME TypeOK, Cursors, NoRepeats,
         NEW n \in Node, NEW s \in Node, NEW t, NEW b, Takes(n, s, t, b), t # "PREP"
  PROVE  ~Handled(n, s, t, b)
  <1> SUFFICES ASSUME NEW k \in 1 .. rcvd[n][s], log[s][k] = Msg(t, b)
               PROVE  FALSE
    BY DEF Handled
  <1>1. /\ rcvd[n][s] \in Nat /\ Len(log[s]) \in Nat
        /\ rcvd[n][s] < Len(log[s])
        /\ log[s][rcvd[n][s] + 1] = Msg(t, b)
    BY LogType DEF TypeOK, Takes
  <1>2. k \in 1 .. Len(log[s]) /\ rcvd[n][s] + 1 \in 1 .. Len(log[s])
    BY <1>1
  <1>3. log[s][k] = log[s][rcvd[n][s] + 1] /\ log[s][k].type # "PREP"
    BY <1>1, SameMsg
  <1>4. k = rcvd[n][s] + 1
    BY <1>2, <1>3 DEF NoRepeats
  <1> QED BY <1>1, <1>4

\* A single new message repeats none.
LEMMA NoRepeatsOne ==
  ASSUME TypeOK, NoRepeats, NEW n \in Node, NEW m \in Message,
         Broadcasts(n, <<m>>), ~Sent(n, m.type, m.batch)
  PROVE  NoRepeats'
  <1>1. <<m>> \in Seq(Message) /\ Len(<<m>>) = 1 /\ <<m>>[1] = m
    OBVIOUS
  <1>2. /\ \A k \in 1 .. Len(<<m>>) : ~Sent(n, <<m>>[k].type, <<m>>[k].batch)
        /\ \A j, k \in 1 .. Len(<<m>>) : j = k
    BY <1>1
  <1> QED BY <1>1, <1>2, NoRepeatsAfter

-----------------------------------------------------------------------------
(* The steps *)

\* Nothing was sent or counted in the initial state.
LEMMA InitIInv == Init => IInv
  <1> SUFFICES ASSUME Init PROVE IInv
    OBVIOUS
  <1>1. \A s \in Node : \A t, b : ~Sent(s, t, b)
    BY DEF Init, Sent
  <1>2. Cursors /\ NoRepeats
    BY DEF Init, Cursors, NoRepeats
  <1>3. StoredPreps
    BY NoneAssumption DEF Init, StoredPreps
  <1>4. OrderedInTurn /\ PrepsBacked /\ CommitsBacked
    BY <1>1 DEF OrderedInTurn, PrepsBacked, CommitsBacked
  <1>5. ReplicaGotBatch
    BY NoneAssumption, SlotType DEF Init, InitialTxn, ReplicaGotBatch, Replica
  <1>6. CommitsCounted
    <2> SUFFICES ASSUME NEW n \in Node, NEW b \in Batch
                 PROVE  /\ txn[n][b].commit_rsp_cnt
                              + Cardinality(CommitsHandled(n, b)) >= 2 * F + 1
                        /\ ~txn[n][b].committed_local
      BY DEF CommitsCounted
    <2>1. Cardinality(CommitsHandled(n, b)) \in Nat
      <3>1. CommitsHandled(n, b) \in SUBSET Node
        BY DEF CommitsHandled
      <3> QED BY <3>1, NodeSets
    <2>2. txn[n][b].commit_rsp_cnt = 2 * F + 1 /\ ~txn[n][b].committed_local
      BY DEF Init, InitialTxn
    <2> QED BY <2>1, <2>2, FType
  <1> QED BY <1>2, <1>3, <1>4, <1>5, <1>6 DEF IInv

\* A step that only moves batches to and from the queues, or stops a node.
LEMMA QuietStep ==
  ASSUME TypeOK, IInv, Cursors',
         UNCHANGED <<log, prepPStore, txn, expectedBatchCount>>,
         \A n \in Replica : preStore'[n] = preStore[n],
         \A n, s \in Node : \A t, b : Handled(n, s, t, b) => Handled(n, s, t, b)'
  PROVE  IInv'
  <1>1. \A s \in Node : \A t, b : Sent(s, t, b)' <=> Sent(s, t, b)
    BY DEF Sent, Msg
  <1>2. NoRepeats'
    BY DEF IInv, NoRepeats
  <1>3. StoredPreps' /\ OrderedInTurn' /\ PrepsBacked'
    BY <1>1, PrimaryAssumption
    DEF IInv, StoredPreps, OrderedInTurn, PrepsBacked, Replica, Slots
  <1>4. CommitsBacked'
    <2>1. LogsGrow
      BY LogType DEF LogsGrow
    <2> QED BY <1>1, <2>1, StillBacked DEF IInv
  <1>5. ReplicaGotBatch'
    BY PrimaryAssumption DEF IInv, ReplicaGotBatch, Replica, Slot, Slots
  <1>6. CommitsCounted'
    <2>1. \A n \in Node, b \in Batch :
             CommitsHandled(n, b) \subseteq CommitsHandled(n, b)'
      BY DEF CommitsHandled
    <2> QED BY <2>1, StillCounted DEF IInv
  <1> QED BY <1>2, <1>3, <1>4, <1>5, <1>6 DEF IInv

\* A handler that stops on an assertion.
LEMMA AbortIInv ==
  ASSUME TypeOK, IInv, NEW n \in Node, NEW s \in Node, NEW t, NEW b,
         Takes(n, s, t, b), Abort(n)
  PROVE  IInv'
  <1>1. UNCHANGED <<log, prepPStore, txn, expectedBatchCount, preStore>>
    BY DEF Abort, storeVars, primaryVars
  <1>2. LogsGrow
    BY <1>1, LogType DEF LogsGrow
  <1>3. /\ Cursors'
        /\ \A m, r \in Node : \A u, c : Handled(m, r, u, c) => Handled(m, r, u, c)'
    BY <1>2, HandledAfter DEF IInv
  <1> QED BY <1>1, <1>3, QuietStep

\* process_client_batch writes the primary's slot only.
LEMMA ClientBatchIInv ==
  ASSUME TypeOK, IInv, NEW b \in Batch, ClientBatch(b) PROVE IInv'
  <1>1. UNCHANGED <<log, rcvd, prepPStore, txn, expectedBatchCount>>
    BY DEF ClientBatch, netVars
  <1>2. \A n \in Replica : preStore'[n] = preStore[n]
    BY DEF ClientBatch, TypeOK, Replica
  <1>3. Cursors' /\ \A n, s \in Node : \A t, c : Handled(n, s, t, c) => Handled(n, s, t, c)'
    BY <1>1 DEF IInv, Cursors, Handled, Msg
  <1> QED BY <1>1, <1>2, <1>3, QuietStep

\* process_execute_msg touches neither stores nor network.
LEMMA ExecuteBatchIInv ==
  ASSUME TypeOK, IInv, NEW n \in Node, ExecuteBatch(n) PROVE IInv'
  <1>1. UNCHANGED <<log, rcvd, prepPStore, txn, expectedBatchCount, preStore>>
    BY DEF ExecuteBatch, Abort, netVars, storeVars, primaryVars
  <1>2. Cursors' /\ \A m, s \in Node : \A t, c : Handled(m, s, t, c) => Handled(m, s, t, c)'
    BY <1>1 DEF IInv, Cursors, Handled, Msg
  <1> QED BY <1>1, <1>2, QuietStep

\* process_batch on the primary sends the next batch, which is new.
LEMMA OrderBatchIInv ==
  ASSUME TypeOK, IInv, NEW b \in Batch, OrderBatch(b) PROVE IInv'
  <1> DEFINE m == Msg("BATCH_REQ", b)
  <1>1. m \in Message
    BY MsgType
  <1>2. /\ Broadcasts(Primary, <<m>>)
        /\ b = expectedBatchCount /\ expectedBatchCount' = b + 1
        /\ UNCHANGED <<rcvd, preStore, prepPStore, txn>>
    BY DEF OrderBatch, storeVars
  <1> HIDE DEF m
  <1>3. /\ LogsGrow
        /\ \A s \in Node : \A t, c :
              Sent(s, t, c)' <=> Sent(s, t, c) \/ (s = Primary /\ m = Msg(t, c))
    BY <1>1, <1>2, SentOne, PrimaryAssumption
  <1>4. \A t, c : m = Msg(t, c) <=> t = "BATCH_REQ" /\ c = b
    BY SameMsg DEF m
  <1>5. Cursors' /\ \A n, s \in Node : \A t, c : Handled(n, s, t, c)' <=> Handled(n, s, t, c)
    BY <1>2, <1>3, HandledKept DEF IInv
  <1>6. NoRepeats'
    <2>1. ~Sent(Primary, "BATCH_REQ", b)
      BY <1>2, PrimaryAssumption, BatchAssumption DEF IInv, OrderedInTurn, Batch
    <2>2. m.type = "BATCH_REQ" /\ m.batch = b
      BY DEF m, Msg
    <2> QED BY <1>1, <1>2, <2>1, <2>2, NoRepeatsOne, PrimaryAssumption DEF IInv
  <1>7. StoredPreps'
    BY <1>2, <1>3 DEF IInv, StoredPreps, Slots
  <1>8. OrderedInTurn'
    <2> SUFFICES ASSUME NEW s \in Node, NEW c \in Batch, Sent(s, "BATCH_REQ", c)'
                 PROVE  c < expectedBatchCount'
      BY DEF OrderedInTurn
    <2>1. c < expectedBatchCount \/ c = b
      BY <1>3, <1>4 DEF IInv, OrderedInTurn
    <2> QED BY <1>2, <2>1, BatchAssumption DEF Batch
  <1>9. PrepsBacked'
    BY <1>3, <1>4, PrimaryAssumption DEF IInv, PrepsBacked, Replica
  <1>10. CommitsBacked'
    BY <1>2, <1>3, <1>4, StillBacked DEF IInv
  <1>11. ReplicaGotBatch'
    BY <1>2, <1>5, PrimaryAssumption DEF IInv, ReplicaGotBatch, Replica, Slot, Slots
  <1>12. CommitsCounted'
    <2>1. \A n \in Node, c \in Batch :
             CommitsHandled(n, c) \subseteq CommitsHandled(n, c)'
      BY <1>5 DEF CommitsHandled
    <2> QED BY <1>2, <2>1, StillCounted DEF IInv
  <1> QED BY <1>5, <1>6, <1>7, <1>8, <1>9, <1>10, <1>11, <1>12 DEF IInv

\* process_pbft_prep_msg: the COMMIT it may send is the node's first for the
\* batch, and has the PREPs stored in the slot behind it.
LEMMA PrepIInv ==
  ASSUME TypeOK, IInv, NEW n \in Node, NEW s \in Node, NEW b \in Batch, Prep(n, s, b)
  PROVE  IInv'
  <1>1. Takes(n, s, "PREP", b)
    BY DEF Prep
  <1>2. CASE Abort(n)
    BY <1>1, <1>2, AbortIInv
  <1>3. CASE ~Abort(n)
    <2> DEFINE p == PreparedByPrep(n, s, b)
               m == Msg("COMMIT", b)
    <2>1. /\ prepPStore' = [prepPStore EXCEPT ![n][Slot(b)] = Preps(n, s, b)]
          /\ txn' = [txn EXCEPT ![n][b] = PrepCounted(txn[n][b], p)]
          /\ p => Broadcasts(n, <<m>>)
          /\ ~p => UNCHANGED log
          /\ UNCHANGED <<preStore, expectedBatchCount>>
      BY <1>3 DEF Prep, primaryVars
    <2>2. /\ m \in Message /\ m.type = "COMMIT" /\ m.batch = b
          /\ \A t, c : m = Msg(t, c) <=> t = "COMMIT" /\ c = b
      <3>1. m \in Message
        BY MsgType
      <3> QED BY <3>1, SameMsg DEF Msg
    <2>3. p => ~txn[n][b].prepared /\ preStore[n][Slot(b)] = b
                  /\ EnoughPreps(Preps(n, s, b), b)
      BY DEF PreparedByPrep, LastPrep
    <2>4. p \in BOOLEAN
      BY DEF PreparedByPrep
    <2> HIDE DEF p, m
    <2>5. /\ LogsGrow
          /\ \A r \in Node : \A t, c :
                Sent(r, t, c)' <=>
                   Sent(r, t, c) \/ (p /\ r = n /\ t = "COMMIT" /\ c = b)
      <3>1. CASE p
        BY <2>1, <2>2, <3>1, SentOne
      <3>2. CASE ~p
        BY <2>1, <3>2, LogType DEF LogsGrow, Sent, Msg
      <3> QED BY <3>1, <3>2
    <2>6. /\ Cursors'
          /\ \A q, r \in Node : \A t, c :
                Handled(q, r, t, c)' <=>
                   Handled(q, r, t, c) \/ (q = n /\ r = s /\ t = "PREP" /\ c = b)
      BY <1>1, <2>5, HandledAfter, SameMsg DEF IInv
    <2>7. \A q \in Node, c \in Batch :
             /\ txn'[q][c].commit_rsp_cnt = txn[q][c].commit_rsp_cnt
             /\ txn'[q][c].committed_local <=> txn[q][c].committed_local
             /\ txn'[q][c].prepared <=> txn[q][c].prepared \/ (p /\ q = n /\ c = b)
      <3>1. \A q \in Node, c \in Batch :
               txn'[q][c] = IF q = n /\ c = b THEN PrepCounted(txn[n][b], p)
                                              ELSE txn[q][c]
        <4>1. txn \in [Node -> [Batch -> TxnManager]]
          BY DEF TypeOK
        <4> QED BY <2>1, <4>1
      <3>2. txn[n][b] \in TxnManager
        BY DEF TypeOK
      <3>3. /\ PrepCounted(txn[n][b], p).commit_rsp_cnt = txn[n][b].commit_rsp_cnt
            /\ PrepCounted(txn[n][b], p).prepared <=> txn[n][b].prepared \/ p
            /\ PrepCounted(txn[n][b], p).committed_local <=> txn[n][b].committed_local
        BY <2>4, <3>2, UpdatedTxn
      <3> QED BY <3>1, <3>3
    <2>8. Sent(s, "PREP", b)'
      BY <1>1, <2>5, TakenWasSent
    <2>9. NoRepeats'
      <3>1. CASE p
        <4>1. ~Sent(n, "COMMIT", b)
          BY <2>3, <3>1 DEF IInv, CommitsBacked
        <4> QED BY <2>1, <2>2, <3>1, <4>1, NoRepeatsOne DEF IInv
      <3>2. CASE ~p
        BY <2>1, <3>2 DEF IInv, NoRepeats
      <3> QED BY <3>1, <3>2
    <2>10. StoredPreps'
      BY <2>1, <2>5, <2>8, StoredPrepsAfter DEF IInv
    <2>11. OrderedInTurn' /\ PrepsBacked'
      BY <2>1, <2>5, PrimaryAssumption DEF IInv, OrderedInTurn, PrepsBacked, Replica
    <2>12. CommitsBacked'
      <3>1. p => Cardinality(PrepSenders(b)') >= 2 * F
        BY <2>3, <2>5, <2>8, <2>11, EnoughPrepsSent DEF IInv
      <3>2. \A r \in Node, c \in Batch : txn[r][c].prepared => txn'[r][c].prepared
        BY <2>7
      <3>3. \A r \in Node, c \in Batch :
               Sent(r, "COMMIT", c)' =>
                  \/ Sent(r, "COMMIT", c)
                  \/ txn'[r][c].prepared /\ Cardinality(PrepSenders(c)') >= 2 * F
        BY <2>5, <2>7, <3>1
      <3> QED BY <2>5, <3>2, <3>3, StillBacked DEF IInv
    <2>13. ReplicaGotBatch'
      <3> SUFFICES ASSUME NEW q \in Replica, NEW c \in Batch,
                          preStore'[q][Slot(c)] = c \/ txn'[q][c].prepared
                   PROVE  Handled(q, Primary, "BATCH_REQ", c)'
        BY DEF ReplicaGotBatch, Replica, Slot, Slots
      <3>1. q \in Node
        BY DEF Replica
      <3>2. preStore[q][Slot(c)] = c \/ txn[q][c].prepared
        BY <2>1, <2>3, <2>7, <3>1
      <3> QED BY <2>6, <3>1, <3>2, PrimaryAssumption DEF IInv, ReplicaGotBatch
    <2>14. CommitsCounted'
      <3>1. \A q \in Node, c \in Batch :
               CommitsHandled(q, c) \subseteq CommitsHandled(q, c)'
        BY <2>6 DEF CommitsHandled
      <3> QED BY <2>7, <3>1, StillCounted DEF IInv
    <2> QED BY <2>6, <2>9, <2>10, <2>11, <2>12, <2>13, <2>14 DEF IInv
  <1> QED BY <1>2, <1>3

\* process_pbft_commit_msg: the counter goes down with a COMMIT that was not
\* handled before.
LEMMA CommitIInv ==
  ASSUME TypeOK, IInv, NEW n \in Node, NEW s \in Node, NEW b \in Batch, Commit(n, s, b)
  PROVE  IInv'
  <1>1. Takes(n, s, "COMMIT", b)
    BY DEF Commit
  <1>2. PICK c \in ScanStops(prepPStore[n][Slot(b)], b) : Commit(n, s, b)!2!(c)
    BY DEF Commit
  <1>3. CASE Abort(n)
    BY <1>1, <1>3, AbortIInv
  <1>4. CASE ~Abort(n)
    <2> DEFINE d == CommittedByCommit(n, s, b, c)
    <2>1. /\ txn' = [txn EXCEPT ![n][b] = CommitCounted(txn[n][b], d)]
          /\ UNCHANGED <<log, preStore, prepPStore, expectedBatchCount>>
      BY <1>2, <1>4 DEF primaryVars
    <2>2. d \in BOOLEAN /\ (d => txn[n][b].commit_rsp_cnt = 1)
      BY DEF CommittedByCommit
    <2> HIDE DEF d
    <2>3. /\ LogsGrow
          /\ \A r \in Node : \A t, e : Sent(r, t, e)' <=> Sent(r, t, e)
      BY <2>1, LogType DEF LogsGrow, Sent, Msg
    <2>4. /\ Cursors'
          /\ \A q, r \in Node : \A t, e :
                Handled(q, r, t, e)' <=>
                   Handled(q, r, t, e) \/ (q = n /\ r = s /\ t = "COMMIT" /\ e = b)
      BY <1>1, <2>3, HandledAfter, SameMsg DEF IInv
    <2>5. \A q \in Node, e \in Batch :
             /\ txn'[q][e].prepared <=> txn[q][e].prepared
             /\ (q # n \/ e # b) => txn'[q][e] = txn[q][e]
             /\ (q = n /\ e = b) =>
                   /\ txn'[q][e].commit_rsp_cnt = txn[q][e].commit_rsp_cnt - 1
                   /\ txn'[q][e].committed_local <=> txn[q][e].committed_local \/ d
      <3>1. \A q \in Node, e \in Batch :
               txn'[q][e] = IF q = n /\ e = b THEN CommitCounted(txn[n][b], d)
                                              ELSE txn[q][e]
        <4>1. txn \in [Node -> [Batch -> TxnManager]]
          BY DEF TypeOK
        <4> QED BY <2>1, <4>1
      <3>2. txn[n][b] \in TxnManager
        BY DEF TypeOK
      <3>3. /\ CommitCounted(txn[n][b], d).commit_rsp_cnt = txn[n][b].commit_rsp_cnt - 1
            /\ CommitCounted(txn[n][b], d).prepared <=> txn[n][b].prepared
            /\ CommitCounted(txn[n][b], d).committed_local
                  <=> txn[n][b].committed_local \/ d
        BY <2>2, <3>2, UpdatedTxn
      <3> QED BY <3>1, <3>3
    <2>6. NoRepeats'
      BY <2>1 DEF IInv, NoRepeats
    <2>7. StoredPreps' /\ OrderedInTurn' /\ PrepsBacked'
      BY <2>1, <2>3, PrimaryAssumption
      DEF IInv, StoredPreps, OrderedInTurn, PrepsBacked, Replica, Slots
    <2>8. CommitsBacked'
      BY <2>3, <2>5, StillBacked DEF IInv
    <2>9. ReplicaGotBatch'
      BY <2>1, <2>4, <2>5, PrimaryAssumption
      DEF IInv, ReplicaGotBatch, Replica, Slot, Slots
    <2>10. CommitsCounted'
      <3> SUFFICES ASSUME NEW q \in Node, NEW e \in Batch
                   PROVE  /\ txn'[q][e].commit_rsp_cnt
                                + Cardinality(CommitsHandled(q, e)') >= 2 * F + 1
                          /\ txn'[q][e].committed_local => txn'[q][e].commit_rsp_cnt <= 0
        BY DEF CommitsCounted, F
      <3>1. /\ txn[q][e].commit_rsp_cnt + Cardinality(CommitsHandled(q, e)) >= 2 * F + 1
            /\ txn[q][e].committed_local => txn[q][e].commit_rsp_cnt <= 0
        BY DEF IInv, CommitsCounted
      <3>2. txn[q][e].commit_rsp_cnt \in Int
        BY DEF TypeOK, TxnManager
      <3>3. IsFiniteSet(CommitsHandled(q, e)) /\ Cardinality(CommitsHandled(q, e)) \in Nat
        <4>1. CommitsHandled(q, e) \in SUBSET Node
          BY DEF CommitsHandled
        <4> QED BY <4>1, NodeAssumption, NodeSets, FS_Subset
      <3>4. CASE q # n \/ e # b
        <4>1. CommitsHandled(q, e)' = CommitsHandled(q, e)
          BY <2>4, <3>4 DEF CommitsHandled
        <4> QED BY <2>5, <3>1, <3>4, <4>1
      <3>5. CASE q = n /\ e = b
        <4>1. CommitsHandled(q, e)' = CommitsHandled(q, e) \cup {s}
          BY <2>4, <3>5 DEF CommitsHandled
        <4>2. s \notin CommitsHandled(q, e)
          BY <1>1, <3>5, TakenOnce DEF IInv, CommitsHandled
        <4>3. Cardinality(CommitsHandled(q, e)') = Cardinality(CommitsHandled(q, e)) + 1
          BY <3>3, <4>1, <4>2, FS_AddElement
        <4> QED BY <2>2, <2>5, <3>1, <3>2, <3>3, <3>5, <4>3, FType
      <3> QED BY <3>4, <3>5
    <2> QED BY <2>4, <2>6, <2>7, <2>8, <2>9, <2>10 DEF IInv
  <1> QED BY <1>3, <1>4

\* process_batch on a replica: the batch is new to it, so it was not prepared
\* and the COMMIT it may send is its first.
LEMMA ReplicaBatchIInv ==
  ASSUME TypeOK, IInv, NEW n \in Node, NEW b \in Batch, ReplicaBatch(n, b)
  PROVE  IInv'
  <1>1. n # Primary /\ Takes(n, Primary, "BATCH_REQ", b)
    BY DEF ReplicaBatch
  <1>2. CASE Abort(n)
    BY <1>1, <1>2, AbortIInv, PrimaryAssumption
  <1>3. CASE preStore[n][Slot(b)] # b
    <2> DEFINE p == PreparedByBatch(n, b)
               d == CommittedByBatch(n, b)
               m == Msg("PREP", b)
               u == Msg("COMMIT", b)
    <2>1. /\ preStore' = [preStore EXCEPT ![n][Slot(b)] = b]
          /\ prepPStore' = [prepPStore EXCEPT ![n][Slot(b)] = Preps(n, n, b)]
          /\ txn' = [txn EXCEPT ![n][b] = Certified(txn[n][b], p, d)]
          /\ p => Broadcasts(n, <<m, u>>)
          /\ ~p => Broadcasts(n, <<m>>)
          /\ UNCHANGED expectedBatchCount
      BY <1>3 DEF ReplicaBatch, primaryVars
    <2>2. /\ m \in Message /\ m.type = "PREP"
          /\ u \in Message /\ u.type = "COMMIT" /\ u.batch = b
          /\ \A t, c : /\ m = Msg(t, c) <=> t = "PREP" /\ c = b
                       /\ u = Msg(t, c) <=> t = "COMMIT" /\ c = b
      <3>1. m \in Message /\ u \in Message
        BY MsgType
      <3> QED BY <3>1, SameMsg DEF Msg
    <2>3. /\ p => txn[n][b].prepared \/ EnoughPreps(Preps(n, n, b), b)
          /\ d => txn[n][b].commit_rsp_cnt <= 0
          /\ p \in BOOLEAN /\ d \in BOOLEAN
      BY DEF PreparedByBatch, CommittedByBatch
    <2> HIDE DEF p, d, m, u
    <2>4. ~txn[n][b].prepared
      <3>1. ~Handled(n, Primary, "BATCH_REQ", b)
        BY <1>1, TakenOnce, PrimaryAssumption DEF IInv
      <3> QED BY <1>1, <3>1 DEF IInv, ReplicaGotBatch, Replica
    <2>5. /\ LogsGrow
          /\ \A r \in Node : \A t, c :
                Sent(r, t, c)' <=>
                   \/ Sent(r, t, c)
                   \/ r = n /\ t = "PREP" /\ c = b
                   \/ p /\ r = n /\ t = "COMMIT" /\ c = b
      <3>1. CASE p
        BY <2>1, <2>2, <3>1, SentTwo
      <3>2. CASE ~p
        BY <2>1, <2>2, <3>2, SentOne
      <3> QED BY <3>1, <3>2
    <2>6. /\ Cursors'
          /\ \A q, r \in Node : \A t, c :
                Handled(q, r, t, c)' <=>
                   \/ Handled(q, r, t, c)
                   \/ q = n /\ r = Primary /\ t = "BATCH_REQ" /\ c = b
      BY <1>1, <2>5, HandledAfter, SameMsg, PrimaryAssumption DEF IInv
    <2>7. \A q \in Node, c \in Batch :
             /\ txn'[q][c].commit_rsp_cnt = txn[q][c].commit_rsp_cnt
             /\ txn'[q][c].committed_local <=>
                   txn[q][c].committed_local \/ (d /\ q = n /\ c = b)
             /\ txn'[q][c].prepared <=> txn[q][c].prepared \/ (p /\ q = n /\ c = b)
      <3>1. \A q \in Node, c \in Batch :
               txn'[q][c] = IF q = n /\ c = b THEN Certified(txn[n][b], p, d)
                                              ELSE txn[q][c]
        <4>1. txn \in [Node -> [Batch -> TxnManager]]
          BY DEF TypeOK
        <4> QED BY <2>1, <4>1
      <3>2. txn[n][b] \in TxnManager
        BY DEF TypeOK
      <3>3. /\ Certified(txn[n][b], p, d).commit_rsp_cnt = txn[n][b].commit_rsp_cnt
            /\ Certified(txn[n][b], p, d).prepared <=> txn[n][b].prepared \/ p
            /\ Certified(txn[n][b], p, d).committed_local
                  <=> txn[n][b].committed_local \/ d
        BY <2>3, <3>2, UpdatedTxn
      <3> QED BY <3>1, <3>3
    <2>8. NoRepeats'
      <3>1. ~Sent(n, "COMMIT", b)
        BY <2>4 DEF IInv, CommitsBacked
      <3>2. CASE p
        <4>1. /\ <<m, u>> \in Seq(Message) /\ Len(<<m, u>>) = 2
              /\ <<m, u>>[1] = m /\ <<m, u>>[2] = u
          BY <2>2
        <4>2. /\ \A k \in 1 .. Len(<<m, u>>) :
                    \/ <<m, u>>[k].type = "PREP"
                    \/ ~Sent(n, <<m, u>>[k].type, <<m, u>>[k].batch)
              /\ \A j, k \in 1 .. Len(<<m, u>>) :
                    <<m, u>>[j] = <<m, u>>[k] /\ <<m, u>>[j].type # "PREP" => j = k
          BY <2>2, <3>1, <4>1
        <4> QED BY <2>1, <3>2, <4>1, <4>2, NoRepeatsAfter DEF IInv
      <3>3. CASE ~p
        <4>1. <<m>> \in Seq(Message) /\ Len(<<m>>) = 1 /\ <<m>>[1] = m
          BY <2>2
        <4>2. /\ \A k \in 1 .. Len(<<m>>) : <<m>>[k].type = "PREP"
              /\ \A j, k \in 1 .. Len(<<m>>) : j = k
          BY <2>2, <4>1
        <4> QED BY <2>1, <3>3, <4>1, <4>2, NoRepeatsAfter DEF IInv
      <3> QED BY <3>2, <3>3
    <2>9. StoredPreps'
      BY <2>1, <2>5, StoredPrepsAfter DEF IInv
    <2>10. OrderedInTurn'
      BY <2>1, <2>5 DEF IInv, OrderedInTurn
    <2>11. PrepsBacked'
      <3>1. Sent(Primary, "BATCH_REQ", b)
        BY <1>1, TakenWasSent, PrimaryAssumption
      <3> QED BY <1>1, <2>5, <3>1, PrimaryAssumption DEF IInv, PrepsBacked, Replica
    <2>12. CommitsBacked'
      <3>1. p => Cardinality(PrepSenders(b)') >= 2 * F
        BY <2>3, <2>4, <2>5, <2>11, EnoughPrepsSent DEF IInv
      <3>2. \A r \in Node, c \in Batch : txn[r][c].prepared => txn'[r][c].prepared
        BY <2>7
      <3>3. \A r \in Node, c \in Batch :
               Sent(r, "COMMIT", c)' =>
                  \/ Sent(r, "COMMIT", c)
                  \/ txn'[r][c].prepared /\ Cardinality(PrepSenders(c)') >= 2 * F
        BY <2>5, <2>7, <3>1
      <3> QED BY <2>5, <3>2, <3>3, StillBacked DEF IInv
    <2>13. ReplicaGotBatch'
      <3> SUFFICES ASSUME NEW q \in Replica, NEW c \in Batch,
                          preStore'[q][Slot(c)] = c \/ txn'[q][c].prepared
                   PROVE  Handled(q, Primary, "BATCH_REQ", c)'
        BY DEF ReplicaGotBatch, Replica, Slot, Slots
      <3>1. q \in Node
        BY DEF Replica
      <3>2. \/ preStore[q][Slot(c)] = c
            \/ txn[q][c].prepared
            \/ q = n /\ c = b
        <4>1. /\ preStore \in [Node -> [0 .. Slots - 1 -> Cell]]
              /\ Slot(b) \in 0 .. Slots - 1 /\ Slot(c) \in 0 .. Slots - 1
          BY SlotType DEF TypeOK
        <4> QED BY <2>1, <2>7, <3>1, <4>1
      <3> QED BY <2>6, <3>1, <3>2, PrimaryAssumption DEF IInv, ReplicaGotBatch
    <2>14. CommitsCounted'
      <3>1. \A q \in Node, c \in Batch :
               CommitsHandled(q, c) \subseteq CommitsHandled(q, c)'
        BY <2>6 DEF CommitsHandled
      <3>2. \A q \in Node, c \in Batch :
               txn'[q][c].committed_local =>
                  txn[q][c].committed_local \/ txn[q][c].commit_rsp_cnt <= 0
        BY <2>3, <2>7
      <3> QED BY <2>7, <3>1, <3>2, StillCounted DEF IInv
    <2> QED
      BY <2>6, <2>8, <2>9, <2>10, <2>11, <2>12, <2>13, <2>14 DEF IInv
  <1> QED BY <1>2, <1>3 DEF ReplicaBatch

\* IInv is inductive.
LEMMA NextIInv == TypeOK /\ IInv /\ [Next]_vars => IInv'
  <1> SUFFICES ASSUME TypeOK, IInv, [Next]_vars PROVE IInv'
    OBVIOUS
  <1>1. CASE UNCHANGED vars
    <2>1. UNCHANGED <<log, rcvd, prepPStore, txn, expectedBatchCount, preStore>>
      BY <1>1 DEF vars, netVars, storeVars, primaryVars
    <2>2. Cursors' /\ \A m, s \in Node : \A t, c : Handled(m, s, t, c) => Handled(m, s, t, c)'
      BY <2>1 DEF IInv, Cursors, Handled, Msg
    <2> QED BY <2>1, <2>2, QuietStep
  <1> QED
    BY <1>1, ClientBatchIInv, OrderBatchIInv, ReplicaBatchIInv, PrepIInv,
       CommitIInv, ExecuteBatchIInv DEF Next, Finished

-----------------------------------------------------------------------------
(* The certificate *)

\* What IInv says of counters and COMMITs makes a certificate.
LEMMA IInvCertifies == TypeOK /\ IInv => CommittedIsCertified
  <1> SUFFICES ASSUME TypeOK, IInv, NEW b \in Batch
               PROVE  /\ (\E n \in Node : txn[n][b].committed_local)
                            => Cardinality(CommitSenders(b)) >= 2 * F + 1
                      /\ (\E s \in Node : Sent(s, "COMMIT", b))
                            => Cardinality(PrepSenders(b)) >= 2 * F
                      /\ (\E s \in Node : Sent(s, "PREP", b))
                            => Sent(Primary, "BATCH_REQ", b)
    BY DEF CommittedIsCertified, CommitSenders, PrepSenders
  <1>1. ASSUME NEW n \in Node, txn[n][b].committed_local
        PROVE  Cardinality(CommitSenders(b)) >= 2 * F + 1
    <2>1. CommitsHandled(n, b) \subseteq CommitSenders(b)
      BY HandledWasSent DEF IInv, CommitsHandled, CommitSenders
    <2>2. CommitSenders(b) \in SUBSET Node
      BY DEF CommitSenders
    <2>3. /\ Cardinality(CommitsHandled(n, b)) \in Nat
          /\ Cardinality(CommitSenders(b)) \in Nat
          /\ Cardinality(CommitsHandled(n, b)) <= Cardinality(CommitSenders(b))
      BY <2>1, <2>2, NodeSets
    <2>4. /\ txn[n][b].commit_rsp_cnt + Cardinality(CommitsHandled(n, b)) >= 2 * F + 1
          /\ txn[n][b].commit_rsp_cnt <= 0
      BY <1>1 DEF IInv, CommitsCounted
    <2>5. txn[n][b].commit_rsp_cnt \in Int
      BY DEF TypeOK, TxnManager
    <2> QED BY <2>3, <2>4, <2>5, FType
  <1> QED BY <1>1 DEF IInv, CommitsBacked, PrepsBacked

\* In every run the flags, counters and stores of every node go back to messages
\* that were sent, each BATCH_REQ and each COMMIT once.
THEOREM FlagsGoBackToMessages == Spec => []IInv
  <1>1. Init => TypeOK /\ IInv
    BY InitTypeOK, InitIInv
  <1>2. TypeOK /\ IInv /\ [Next]_vars => TypeOK' /\ IInv'
    BY NextTypeOK, NextIInv
  <1> QED BY <1>1, <1>2, PTL DEF Spec

\* In every run, for any number of nodes and batches: what is executed has
\* 2F+1 COMMITs behind it, each with 2F PREPs of replicas behind it, each with
\* the primary's BATCH_REQ.
THEOREM CertificatesHold == Spec => []CommittedIsCertified
  <1>1. Init => TypeOK /\ IInv
    BY InitTypeOK, InitIInv
  <1>2. TypeOK /\ IInv /\ [Next]_vars => TypeOK' /\ IInv'
    BY NextTypeOK, NextIInv
  <1>3. TypeOK /\ IInv => CommittedIsCertified
    BY IInvCertifies
  <1> QED BY <1>1, <1>2, <1>3, PTL DEF Spec

-----------------------------------------------------------------------------
(* The queues *)

\* An entry of an execution queue is a batch.
LEMMA QueueEntry ==
  ASSUME TypeOK, NEW n \in Node, NEW k \in 1 .. Len(execQueue[n])
  PROVE  execQueue[n][k] \in Batch
  <1>1. execQueue[n] \in Seq(Batch)
    BY DEF TypeOK
  <1> QED BY <1>1

\* A committed batch at the end of a queue, or none.
LEMMA QueuedCommittedAfter ==
  ASSUME TypeOK, QueuedCommitted, NEW n \in Node, NEW b \in Batch,
         \/ UNCHANGED execQueue
         \/ QueueForExecution(n, b) /\ txn'[n][b].committed_local,
         \A m \in Node, c \in Batch :
            txn[m][c].committed_local => txn'[m][c].committed_local
  PROVE  QueuedCommitted'
  <1> SUFFICES ASSUME NEW m \in Node, NEW k \in 1 .. Len(execQueue'[m])
               PROVE  txn'[m][execQueue'[m][k]].committed_local
    BY DEF QueuedCommitted
  <1>1. execQueue \in [Node -> Seq(Batch)]
    BY DEF TypeOK
  <1>2. CASE execQueue'[m] = execQueue[m]
    <2>1. k \in 1 .. Len(execQueue[m]) /\ execQueue'[m][k] = execQueue[m][k]
      BY <1>2
    <2>2. execQueue[m][k] \in Batch
      BY <2>1, QueueEntry
    <2> QED BY <2>1, <2>2 DEF QueuedCommitted
  <1>3. CASE execQueue'[m] # execQueue[m]
    <2>1. m = n /\ execQueue'[n] = Append(execQueue[n], b) /\ txn'[n][b].committed_local
      BY <1>1, <1>3 DEF QueueForExecution
    <2>2. execQueue[n] \in Seq(Batch) /\ Len(execQueue[n]) \in Nat
      BY <1>1
    <2>3. /\ Len(execQueue'[n]) = Len(execQueue[n]) + 1
          /\ \A i \in 1 .. Len(execQueue[n]) : execQueue'[n][i] = execQueue[n][i]
          /\ execQueue'[n][Len(execQueue[n]) + 1] = b
      BY <2>1, <2>2, AppendProperties
    <2>4. CASE k \in 1 .. Len(execQueue[n])
      <3>1. execQueue[n][k] \in Batch /\ txn[n][execQueue[n][k]].committed_local
        BY <2>4, QueueEntry DEF QueuedCommitted
      <3> QED BY <2>1, <2>3, <2>4, <3>1
    <2>5. CASE k \notin 1 .. Len(execQueue[n])
      <3>1. k = Len(execQueue[n]) + 1
        BY <2>1, <2>2, <2>3, <2>5
      <3> QED BY <2>1, <2>3, <3>1
    <2> QED BY <2>4, <2>5
  <1> QED BY <1>2, <1>3

\* The queues are empty and nothing is committed to begin with.
LEMMA InitQInv == Init => QInv
  BY DEF Init, InitialTxn, QInv, QueuedAccepted, CommittedPrepared, QueuedCommitted

\* A replica's process_batch queues what it finds prepared and committed.
LEMMA ReplicaBatchQInv ==
  ASSUME TypeOK, QInv, NEW n \in Node, NEW b \in Batch, ReplicaBatch(n, b)
  PROVE  QInv'
  <1>1. CASE Abort(n)
    BY <1>1 DEF Abort, QInv, QueuedAccepted, CommittedPrepared, QueuedCommitted,
                storeVars, execVars, primaryVars
  <1>2. CASE preStore[n][Slot(b)] # b
    <2> DEFINE p == PreparedByBatch(n, b)
               d == CommittedByBatch(n, b)
               t == Certified(txn[n][b], p, d)
    <2>1. /\ txn' = [txn EXCEPT ![n][b] = t]
          /\ d => QueueForExecution(n, b)
          /\ ~d => UNCHANGED execQueue
          /\ UNCHANGED <<batchQueue, accepted>>
      BY <1>2 DEF ReplicaBatch, primaryVars
    <2>2. p \in BOOLEAN /\ d \in BOOLEAN /\ (d => p) /\ txn[n][b] \in TxnManager
      BY DEF PreparedByBatch, CommittedByBatch, TypeOK
    <2>3. /\ t \in TxnManager
          /\ t.prepared <=> txn[n][b].prepared \/ p
          /\ t.committed_local <=> txn[n][b].committed_local \/ d
      BY <2>2, UpdatedTxn, UpdatedTxnType
    <2> HIDE DEF p, d, t
    <2>4. /\ \A m \in Node, c \in Batch :
                txn[m][c].committed_local => txn'[m][c].committed_local
          /\ txn'[n][b] = t
          /\ \A m \in Node, c \in Batch : (m # n \/ c # b) => txn'[m][c] = txn[m][c]
      <3>1. txn \in [Node -> [Batch -> TxnManager]]
        BY DEF TypeOK
      <3>2. \A m \in Node, c \in Batch :
               txn'[m][c] = IF m = n /\ c = b THEN t ELSE txn[m][c]
        BY <2>1, <3>1
      <3> QED BY <2>3, <3>2
    <2>5. QueuedAccepted'
      BY <2>1 DEF QInv, QueuedAccepted
    <2>6. CommittedPrepared'
      BY <2>2, <2>3, <2>4 DEF QInv, CommittedPrepared
    <2>7. QueuedCommitted'
      BY <2>1, <2>2, <2>3, <2>4, QueuedCommittedAfter DEF QInv
    <2> QED BY <2>5, <2>6, <2>7 DEF QInv
  <1> QED BY <1>1, <1>2 DEF ReplicaBatch

\* process_pbft_prep_msg commits nothing.
LEMMA PrepQInv ==
  ASSUME TypeOK, QInv, NEW n \in Node, NEW s \in Node, NEW b \in Batch, Prep(n, s, b)
  PROVE  QInv'
  <1>1. CASE Abort(n)
    BY <1>1 DEF Abort, QInv, QueuedAccepted, CommittedPrepared, QueuedCommitted,
                storeVars, execVars, primaryVars
  <1>2. CASE ~Abort(n)
    <2> DEFINE p == PreparedByPrep(n, s, b)
               t == PrepCounted(txn[n][b], p)
    <2>1. txn' = [txn EXCEPT ![n][b] = t] /\ UNCHANGED <<execQueue, batchQueue, accepted>>
      BY <1>2 DEF Prep, execVars, primaryVars
    <2>2. p \in BOOLEAN /\ txn[n][b] \in TxnManager
      BY DEF PreparedByPrep, TypeOK
    <2>3. /\ t \in TxnManager
          /\ t.prepared <=> txn[n][b].prepared \/ p
          /\ t.committed_local <=> txn[n][b].committed_local
      BY <2>2, UpdatedTxn, UpdatedTxnType
    <2> HIDE DEF p, t
    <2>4. /\ \A m \in Node, c \in Batch :
                txn[m][c].committed_local => txn'[m][c].committed_local
          /\ txn'[n][b] = t
          /\ \A m \in Node, c \in Batch : (m # n \/ c # b) => txn'[m][c] = txn[m][c]
      <3>1. txn \in [Node -> [Batch -> TxnManager]]
        BY DEF TypeOK
      <3>2. \A m \in Node, c \in Batch :
               txn'[m][c] = IF m = n /\ c = b THEN t ELSE txn[m][c]
        BY <2>1, <3>1
      <3> QED BY <2>3, <3>2
    <2>5. QueuedAccepted'
      BY <2>1 DEF QInv, QueuedAccepted
    <2>6. CommittedPrepared'
      BY <2>2, <2>3, <2>4 DEF QInv, CommittedPrepared
    <2>7. QueuedCommitted'
      BY <2>1, <2>4, QueuedCommittedAfter DEF QInv
    <2> QED BY <2>5, <2>6, <2>7 DEF QInv
  <1> QED BY <1>1, <1>2

\* process_pbft_commit_msg commits only what is prepared.
LEMMA CommitQInv ==
  ASSUME TypeOK, QInv, NEW n \in Node, NEW s \in Node, NEW b \in Batch, Commit(n, s, b)
  PROVE  QInv'
  <1>1. PICK c \in ScanStops(prepPStore[n][Slot(b)], b) : Commit(n, s, b)!2!(c)
    BY DEF Commit
  <1>2. CASE Abort(n)
    BY <1>2 DEF Abort, QInv, QueuedAccepted, CommittedPrepared, QueuedCommitted,
                storeVars, execVars, primaryVars
  <1>3. CASE ~Abort(n)
    <2> DEFINE d == CommittedByCommit(n, s, b, c)
               t == CommitCounted(txn[n][b], d)
    <2>1. /\ txn' = [txn EXCEPT ![n][b] = t]
          /\ d => QueueForExecution(n, b)
          /\ ~d => UNCHANGED execQueue
          /\ UNCHANGED <<batchQueue, accepted>>
      BY <1>1, <1>3 DEF primaryVars
    <2>2. d \in BOOLEAN /\ (d => txn[n][b].prepared) /\ txn[n][b] \in TxnManager
      BY DEF CommittedByCommit, TypeOK
    <2>3. /\ t \in TxnManager
          /\ t.prepared <=> txn[n][b].prepared
          /\ t.committed_local <=> txn[n][b].committed_local \/ d
      BY <2>2, UpdatedTxn, UpdatedTxnType
    <2> HIDE DEF d, t
    <2>4. /\ \A m \in Node, e \in Batch :
                txn[m][e].committed_local => txn'[m][e].committed_local
          /\ txn'[n][b] = t
          /\ \A m \in Node, e \in Batch : (m # n \/ e # b) => txn'[m][e] = txn[m][e]
      <3>1. txn \in [Node -> [Batch -> TxnManager]]
        BY DEF TypeOK
      <3>2. \A m \in Node, e \in Batch :
               txn'[m][e] = IF m = n /\ e = b THEN t ELSE txn[m][e]
        BY <2>1, <3>1
      <3> QED BY <2>3, <3>2
    <2>5. QueuedAccepted'
      BY <2>1 DEF QInv, QueuedAccepted
    <2>6. CommittedPrepared'
      BY <2>2, <2>3, <2>4 DEF QInv, CommittedPrepared
    <2>7. QueuedCommitted'
      BY <2>1, <2>2, <2>3, <2>4, QueuedCommittedAfter DEF QInv
    <2> QED BY <2>5, <2>6, <2>7 DEF QInv
  <1> QED BY <1>2, <1>3

\* process_execute_msg takes the head of a queue.
LEMMA ExecuteBatchQInv ==
  ASSUME TypeOK, QInv, NEW n \in Node, ExecuteBatch(n) PROVE QInv'
  <1>1. CASE Abort(n)
    BY <1>1 DEF Abort, QInv, QueuedAccepted, CommittedPrepared, QueuedCommitted,
                storeVars, execVars, primaryVars
  <1>2. CASE ~Abort(n)
    <2>1. /\ execQueue[n] # <<>>
          /\ execQueue' = [execQueue EXCEPT ![n] = Tail(execQueue[n])]
          /\ UNCHANGED <<txn, batchQueue, accepted>>
      BY <1>2 DEF ExecuteBatch, storeVars, primaryVars
    <2>2. execQueue \in [Node -> Seq(Batch)]
      BY DEF TypeOK
    <2>3. QueuedCommitted'
      <3> SUFFICES ASSUME NEW m \in Node, NEW k \in 1 .. Len(execQueue'[m])
                   PROVE  txn[m][execQueue'[m][k]].committed_local
        BY <2>1 DEF QueuedCommitted
      <3>1. CASE m # n
        BY <2>1, <2>2, <3>1 DEF QInv, QueuedCommitted
      <3>2. CASE m = n
        <4>1. execQueue[n] \in Seq(Batch) /\ execQueue'[n] = Tail(execQueue[n])
          BY <2>1, <2>2
        <4>2. k + 1 \in 1 .. Len(execQueue[n]) /\ execQueue'[n][k] = execQueue[n][k + 1]
          <5>1. Len(execQueue[n]) \in Nat /\ Len(execQueue[n]) > 0
            BY <2>1, <4>1
          <5>2. Len(Tail(execQueue[n])) = Len(execQueue[n]) - 1
            BY <2>1, <4>1
          <5>3. k \in 1 .. Len(execQueue[n]) - 1
            BY <3>2, <4>1, <5>2
          <5>4. Tail(execQueue[n])[k] = execQueue[n][k + 1]
            BY <2>1, <4>1, <5>1, <5>3
          <5> QED BY <4>1, <5>1, <5>3, <5>4
        <4> QED BY <2>1, <3>2, <4>2 DEF QInv, QueuedCommitted
      <3> QED BY <3>1, <3>2
    <2> QED BY <2>1, <2>3 DEF QInv, QueuedAccepted, CommittedPrepared
  <1> QED BY <1>1, <1>2

\* Every step keeps the queues in order.
LEMMA NextQInv == TypeOK /\ QInv /\ [Next]_vars => QInv'
  <1> SUFFICES ASSUME TypeOK, QInv, [Next]_vars PROVE QInv'
    OBVIOUS
  <1>1. CASE UNCHANGED vars
    BY <1>1 DEF vars, storeVars, execVars, primaryVars,
                QInv, QueuedAccepted, CommittedPrepared, QueuedCommitted
  <1>2. ASSUME NEW b \in Batch, ClientBatch(b) \/ OrderBatch(b) PROVE QInv'
    BY <1>2 DEF ClientBatch, OrderBatch, storeVars, execVars,
                QInv, QueuedAccepted, CommittedPrepared, QueuedCommitted
  <1> QED
    BY <1>1, <1>2, ReplicaBatchQInv, PrepQInv, CommitQInv, ExecuteBatchQInv
    DEF Next, Finished

-----------------------------------------------------------------------------
(* Steps of Pbft as steps of Replication *)

\* There is one way to count.
LEMMA SameCardinality == \A S : Abstract!Cardinality(S) = Cardinality(S)
  BY DEF Abstract!Cardinality, Cardinality

\* The two count nodes and batches alike.
LEMMA SameNumbers ==
  Abstract!Batch = Batch /\ Abstract!Quorum = 2 * F + 1 /\ Abstract!Answered = Answered
  <1>1. Abstract!Batch = Batch
    BY DEF Abstract!Batch, Batch
  <1>2. Abstract!Quorum = 2 * F + 1
    BY SameCardinality DEF Abstract!Quorum, F
  <1>3. Abstract!Answered = Answered
    BY <1>1, <1>2, SameCardinality DEF Abstract!Answered, Answered
  <1> QED BY <1>1, <1>2, <1>3

\* The same nodes count as prepared, for the same batches.
SamePrepared ==
    \A n \in Node, b \in Batch : txn'[n][b].prepared <=> txn[n][b].prepared

\* A step after which they are stutters, or does what the other variables say.
LEMMA SameEndorsed ==
  ASSUME SamePrepared
  PROVE  [n \in Node |-> {b \in Batch : txn'[n][b].prepared}]
            = [n \in Node |-> {b \in Batch : txn[n][b].prepared}]
  <1>1. \A n \in Node : {b \in Batch : txn'[n][b].prepared}
                           = {b \in Batch : txn[n][b].prepared}
    BY DEF SamePrepared
  <1> QED BY <1>1

\* A step that leaves the four alone stutters.
LEMMA Stutters ==
  ASSUME SamePrepared, UNCHANGED <<accepted, expectedBatchCount, g_next_index>>
  PROVE  UNCHANGED Abstract!vars
  BY SameEndorsed DEF Abstract!vars

\* A handler that prepares an ordered batch endorses it.
LEMMA Endorses ==
  ASSUME NEW n \in Node, NEW b \in Batch, NEW t \in TxnManager, TypeOK,
         txn' = [txn EXCEPT ![n][b] = t],
         txn[n][b].prepared => t.prepared,
         t.prepared => txn[n][b].prepared \/ b < expectedBatchCount,
         UNCHANGED <<accepted, expectedBatchCount, g_next_index>>
  PROVE  Abstract!Next \/ UNCHANGED Abstract!vars
  <1>1. txn \in [Node -> [Batch -> TxnManager]]
    BY DEF TypeOK
  <1>2. \A m \in Node, c \in Batch :
           txn'[m][c] = IF m = n /\ c = b THEN t ELSE txn[m][c]
    BY <1>1
  <1>3. txn[n][b].prepared \in BOOLEAN /\ t.prepared \in BOOLEAN
    BY <1>1 DEF TxnManager
  <1>4. CASE t.prepared => txn[n][b].prepared
    <2>1. SamePrepared
      BY <1>2, <1>4 DEF SamePrepared
    <2> QED BY <2>1, Stutters
  <1>5. CASE t.prepared /\ ~txn[n][b].prepared
    <2> DEFINE e == [m \in Node |-> {c \in Batch : txn[m][c].prepared}]
               f == [m \in Node |-> {c \in Batch : txn'[m][c].prepared}]
    <2>1. f = [e EXCEPT ![n] = e[n] \cup {b}]
      <3>1. \A m \in Node : f[m] = IF m = n THEN e[n] \cup {b} ELSE e[m]
        BY <1>2, <1>5
      <3> QED BY <3>1
    <2>2. b < expectedBatchCount /\ b \notin e[n]
      BY <1>5
    <2>3. Abstract!Endorse(n, b)
      BY <2>1, <2>2 DEF Abstract!Endorse
    <2> QED BY <2>3, SameNumbers DEF Abstract!Next
  <1> QED BY <1>3, <1>4, <1>5

\* What nodes vote to commit is ordered.
LEMMA SentIsOrdered ==
  ASSUME TypeOK, IInv, NEW s \in Node, NEW b \in Batch,
         Sent(s, "COMMIT", b) \/ Sent(s, "PREP", b)
  PROVE  b < expectedBatchCount
  <1>1. CASE Sent(s, "PREP", b)
    BY <1>1, PrimaryAssumption DEF IInv, PrepsBacked, OrderedInTurn
  <1>2. CASE Sent(s, "COMMIT", b)
    <2>1. Cardinality(PrepSenders(b)) >= 2 * F
      BY <1>2 DEF IInv, CommitsBacked
    <2>2. F >= 1
      <3>1. Cardinality(Node) \in Nat /\ Cardinality(Node) > 3
        BY FType, NodeAssumption
      <3> QED BY <3>1 DEF F
    <2>3. PrepSenders(b) # {}
      BY <2>1, <2>2, FType, FS_EmptySet
    <2>4. PICK r \in Replica : Sent(r, "PREP", b)
      BY <2>3 DEF PrepSenders
    <2> QED BY <2>4, PrimaryAssumption DEF Replica, IInv, PrepsBacked, OrderedInTurn
  <1> QED BY <1>1, <1>2

\* process_client_batch accepts, process_batch on the primary orders.
LEMMA PrimaryRefines ==
  ASSUME TypeOK, QInv, NEW b \in Batch, ClientBatch(b) \/ OrderBatch(b)
  PROVE  Abstract!Next
  <1>1. SamePrepared
    BY DEF ClientBatch, OrderBatch, storeVars, SamePrepared
  <1>2. CASE ClientBatch(b)
    <2>1. Abstract!Accept(b)
      <3>1. /\ b \notin accepted
            /\ b < Cardinality(Abstract!Answered) + Window
            /\ accepted' = accepted \cup {b}
            /\ UNCHANGED <<expectedBatchCount, g_next_index>>
        BY <1>2, SameNumbers DEF ClientBatch, Submitted, execVars
      <3> QED BY <1>1, <3>1, SameEndorsed, SameCardinality DEF Abstract!Accept
    <2> QED BY <2>1, SameNumbers DEF Abstract!Next
  <1>3. CASE OrderBatch(b)
    <2>1. Abstract!Order
      BY <1>1, <1>3, SameEndorsed
      DEF OrderBatch, QInv, QueuedAccepted, execVars, Abstract!Order
    <2> QED BY <2>1 DEF Abstract!Next
  <1> QED BY <1>2, <1>3

\* A replica's process_batch endorses the batch, or leaves that for later.
LEMMA ReplicaBatchRefines ==
  ASSUME TypeOK, IInv, NEW n \in Node, NEW b \in Batch, ReplicaBatch(n, b)
  PROVE  Abstract!Next \/ UNCHANGED Abstract!vars
  <1>1. CASE Abort(n)
    BY <1>1, Stutters DEF Abort, storeVars, execVars, primaryVars, SamePrepared
  <1>2. CASE preStore[n][Slot(b)] # b
    <2> DEFINE p == PreparedByBatch(n, b)
               d == CommittedByBatch(n, b)
               t == Certified(txn[n][b], p, d)
    <2>1. /\ txn' = [txn EXCEPT ![n][b] = t]
          /\ UNCHANGED <<accepted, expectedBatchCount, g_next_index>>
      BY <1>2 DEF ReplicaBatch, primaryVars
    <2>2. p \in BOOLEAN /\ d \in BOOLEAN /\ txn[n][b] \in TxnManager
      BY DEF PreparedByBatch, CommittedByBatch, TypeOK
    <2>3. t \in TxnManager /\ (t.prepared <=> txn[n][b].prepared \/ p)
      BY <2>2, UpdatedTxn, UpdatedTxnType
    <2>4. b < expectedBatchCount
      <3>1. Sent(Primary, "BATCH_REQ", b)
        BY TakenWasSent, PrimaryAssumption DEF ReplicaBatch
      <3> QED BY <3>1, PrimaryAssumption DEF IInv, OrderedInTurn
    <2> HIDE DEF p, d, t
    <2> QED BY <2>1, <2>3, <2>4, Endorses
  <1> QED BY <1>1, <1>2 DEF ReplicaBatch

\* So does process_pbft_prep_msg.
LEMMA PrepRefines ==
  ASSUME TypeOK, IInv, NEW n \in Node, NEW s \in Node, NEW b \in Batch, Prep(n, s, b)
  PROVE  Abstract!Next \/ UNCHANGED Abstract!vars
  <1>1. CASE Abort(n)
    BY <1>1, Stutters DEF Abort, storeVars, execVars, primaryVars, SamePrepared
  <1>2. CASE ~Abort(n)
    <2> DEFINE p == PreparedByPrep(n, s, b)
               t == PrepCounted(txn[n][b], p)
    <2>1. /\ txn' = [txn EXCEPT ![n][b] = t]
          /\ UNCHANGED <<accepted, expectedBatchCount, g_next_index>>
      BY <1>2 DEF Prep, execVars, primaryVars
    <2>2. p \in BOOLEAN /\ txn[n][b] \in TxnManager
      BY DEF PreparedByPrep, TypeOK
    <2>3. t \in TxnManager /\ (t.prepared <=> txn[n][b].prepared \/ p)
      BY <2>2, UpdatedTxn, UpdatedTxnType
    <2>4. b < expectedBatchCount
      BY TakenWasSent, SentIsOrdered DEF Prep
    <2> HIDE DEF p, t
    <2> QED BY <2>1, <2>3, <2>4, Endorses
  <1> QED BY <1>1, <1>2

\* process_pbft_commit_msg endorses nothing.
LEMMA CommitRefines ==
  ASSUME TypeOK, IInv, NEW n \in Node, NEW s \in Node, NEW b \in Batch, Commit(n, s, b)
  PROVE  Abstract!Next \/ UNCHANGED Abstract!vars
  <1>1. PICK c \in ScanStops(prepPStore[n][Slot(b)], b) : Commit(n, s, b)!2!(c)
    BY DEF Commit
  <1>2. CASE Abort(n)
    BY <1>2, Stutters DEF Abort, storeVars, execVars, primaryVars, SamePrepared
  <1>3. CASE ~Abort(n)
    <2> DEFINE d == CommittedByCommit(n, s, b, c)
               t == CommitCounted(txn[n][b], d)
    <2>1. /\ txn' = [txn EXCEPT ![n][b] = t]
          /\ UNCHANGED <<accepted, expectedBatchCount, g_next_index>>
      BY <1>1, <1>3 DEF primaryVars
    <2>2. d \in BOOLEAN /\ txn[n][b] \in TxnManager
      BY DEF CommittedByCommit, TypeOK
    <2>3. t \in TxnManager /\ (t.prepared <=> txn[n][b].prepared)
      BY <2>2, UpdatedTxn, UpdatedTxnType
    <2> HIDE DEF d, t
    <2> QED BY <2>1, <2>3, Endorses
  <1> QED BY <1>2, <1>3

\* process_execute_msg executes what 2F+1 nodes have endorsed.
LEMMA ExecuteBatchRefines ==
  ASSUME TypeOK, IInv, QInv, NEW n \in Node, ExecuteBatch(n)
  PROVE  Abstract!Next \/ UNCHANGED Abstract!vars
  <1>1. CASE Abort(n)
    BY <1>1, Stutters DEF Abort, storeVars, execVars, primaryVars, SamePrepared
  <1>2. CASE ~Abort(n)
    <2> DEFINE b == g_next_index[n]
    <2>1. /\ execQueue[n] # <<>> /\ Head(execQueue[n]) = b
          /\ g_next_index' = [g_next_index EXCEPT ![n] = b + 1]
          /\ UNCHANGED <<txn, accepted, expectedBatchCount>>
      BY <1>2 DEF ExecuteBatch, storeVars, primaryVars
    <2>2. b \in Batch /\ txn[n][b].committed_local
      <3>1. execQueue[n] \in Seq(Batch)
        BY DEF TypeOK
      <3>2. 1 \in 1 .. Len(execQueue[n]) /\ Head(execQueue[n]) = execQueue[n][1]
        BY <2>1, <3>1
      <3> QED BY <2>1, <3>2, QueueEntry DEF QInv, QueuedCommitted
    <2>3. txn[n][b].prepared
      BY <2>2 DEF QInv, CommittedPrepared
    <2> HIDE DEF b
    <2>4. Cardinality(Abstract!Endorsers(b)) >= Abstract!Quorum
      <3>1. Cardinality(CommitSenders(b)) >= 2 * F + 1
        BY <2>2, IInvCertifies DEF CommittedIsCertified, CommitSenders
      <3>2. CommitSenders(b) \subseteq Abstract!Endorsers(b)
        BY <2>2 DEF IInv, CommitsBacked, CommitSenders, Abstract!Endorsers
      <3>3. Abstract!Endorsers(b) \in SUBSET Node
        BY DEF Abstract!Endorsers
      <3>4. /\ Cardinality(CommitSenders(b)) \in Nat
            /\ Cardinality(Abstract!Endorsers(b)) \in Nat
            /\ Cardinality(CommitSenders(b)) <= Cardinality(Abstract!Endorsers(b))
        BY <3>2, <3>3, NodeSets
      <3> QED BY <3>1, <3>4, SameNumbers, FType
    <2>5. SamePrepared
      BY <2>1 DEF SamePrepared
    <2>6. Abstract!ExecuteNext(n)
      <3>1. g_next_index[n] \in [m \in Node |-> {c \in Batch : txn[m][c].prepared}][n]
        BY <2>2, <2>3 DEF b
      <3>2. Cardinality(Abstract!Endorsers(g_next_index[n])) >= Abstract!Quorum
        BY <2>4 DEF b
      <3>3. g_next_index' = [g_next_index EXCEPT ![n] = g_next_index[n] + 1]
        BY <2>1 DEF b
      <3> QED
        BY <2>1, <2>5, <3>1, <3>2, <3>3, SameEndorsed, SameCardinality
        DEF Abstract!ExecuteNext
    <2> QED BY <2>6 DEF Abstract!Next
  <1> QED BY <1>1, <1>2

\* In every run, for any number of nodes, window and batches: messages,
\* counters, stores and threads order, endorse and execute batches as
\* Replication says.
THEOREM ReplicationImplemented == Spec => ImplementsReplication
  <1>1. Init => TypeOK /\ IInv /\ QInv
    BY InitTypeOK, InitIInv, InitQInv
  <1>2. TypeOK /\ IInv /\ QInv /\ [Next]_vars => TypeOK' /\ IInv' /\ QInv'
    BY NextTypeOK, NextIInv, NextQInv
  <1>3. Init => Abstract!Init
    BY DEF Init, InitialTxn, FirstExpected, Abstract!Init
  <1>4. TypeOK /\ IInv /\ QInv /\ [Next]_vars => [Abstract!Next]_Abstract!vars
    <2> SUFFICES ASSUME TypeOK, IInv, QInv, [Next]_vars
                 PROVE  Abstract!Next \/ UNCHANGED Abstract!vars
      OBVIOUS
    <2>1. CASE UNCHANGED vars
      BY <2>1, Stutters DEF vars, storeVars, execVars, primaryVars, SamePrepared
    <2> QED
      BY <2>1, PrimaryRefines, ReplicaBatchRefines, PrepRefines, CommitRefines,
         ExecuteBatchRefines DEF Next, Finished
  <1> QED BY <1>1, <1>2, <1>3, <1>4, PTL DEF Spec, ImplementsReplication, Abstract!Spec

=============================================================================
