------------------------------ MODULE Startup ------------------------------
(***************************************************************************)
(* How a run begins.  Every process, node or client, starts its threads;   *)
(* the last thread to come lets thread 0 announce the process's key.  A    *)
(* node enters the key of each other node into the wallets of its vote     *)
(* layer, counts the announcements and, when it has heard from everybody,  *)
(* tells the clients that it is READY.  A client that has heard that from  *)
(* every node sends its first batch.                                       *)
(*                                                                         *)
(* A key is the node that owns it.  Links lose nothing; announcements of   *)
(* different processes come in any order.                                  *)
(***************************************************************************)
EXTENDS Nodes

CONSTANTS
    Client,         \* the client processes (g_client_node_cnt of them)
    ThreadCount     \* threads of a process, thread 0 included

\* process_key_exchange() knows the client as process 4 and getkey() the nodes
\* as 0 to 3: the numbers of the build, written in.
ASSUME StartupAssumption ==
    /\ IsFiniteSet(Client) /\ Client \cap Node = {}
    /\ ThreadCount \in Nat \ {0}

Process == Node \cup Client

VARIABLES
    commonVar,      \* [Process -> Nat]  threads that have started
    announced,      \* SUBSET Process    those that sent INIT_DONE and KEYEX
    keyexFrom,      \* [Node -> SUBSET Process]  whose KEYEX n has handled
    totKey,         \* [Node -> Nat]     how many it has counted
    wallet,         \* [Node -> [Node -> Nat]]   0 for a key n does not have
    sum_w,          \* [Node -> Nat]
    readySent,      \* SUBSET Node
    readyFrom,      \* [Client -> SUBSET Node]   whose READY c has handled
    keyAvail        \* SUBSET Client     those that may send batches

startupVars ==
    <<commonVar, announced, keyexFrom, totKey, wallet, sum_w, readySent,
      readyFrom, keyAvail>>

StartupTypeOK ==
    /\ commonVar \in [Process -> 0 .. ThreadCount]
    /\ announced \in SUBSET Process
    /\ keyexFrom \in [Node -> SUBSET Process]
    /\ totKey \in [Node -> Nat]
    /\ wallet \in [Node -> [Node -> Nat]]
    /\ sum_w \in [Node -> Nat]
    /\ readySent \in SUBSET Node
    /\ readyFrom \in [Client -> SUBSET Node]
    /\ keyAvail \in SUBSET Client

-----------------------------------------------------------------------------
\* Definitions named X_Y are what X would be with mistake Y.

\* main() has made the node's own key and run a first sortition, which puts
\* the node's own wallet into the map.
StartupInit ==
    /\ commonVar = [p \in Process |-> 0]
    /\ announced = {}
    /\ keyexFrom = [n \in Node |-> {}]
    /\ totKey = [n \in Node |-> 0]
    /\ wallet = [n \in Node |-> [m \in Node |-> IF m = n THEN 100 ELSE 0]]
    /\ sum_w = [n \in Node |-> 100]
    /\ readySent = {}
    /\ readyFrom = [c \in Client |-> {}]
    /\ keyAvail = {}

\* setup(): a thread counts itself under batchMTX.
StartThread(p) ==
    /\ commonVar[p] < ThreadCount
    /\ commonVar' = [commonVar EXCEPT ![p] = @ + 1]
    /\ UNCHANGED <<announced, keyexFrom, totKey, wallet, sum_w, readySent,
                   readyFrom, keyAvail>>

\* setup(): thread 0 leaves the loop on commonVar and calls send_key().
SendKey(p) ==
    /\ p \notin announced
    /\ commonVar[p] = ThreadCount
    /\ announced' = announced \cup {p}
    /\ UNCHANGED <<commonVar, keyexFrom, totKey, wallet, sum_w, readySent,
                   readyFrom, keyAvail>>

\* Every other process has announced itself (totKey counts the one handled).
HeardFromAll_ButClient(count) == count + 1 = Cardinality(Node)
HeardFromAll(count) == count + 1 = Cardinality(Process)

\* process_key_exchange and getkey: the client's message counts too but has
\* no key for the wallets.
ProcessKeyExchange(n, from) ==
    /\ n \in announced                  \* thread 0 is out of setup()
    /\ from \in announced \ (keyexFrom[n] \cup {n})
    /\ keyexFrom' = [keyexFrom EXCEPT ![n] = @ \cup {from}]
    /\ IF from \in Node
       THEN /\ wallet' = [wallet EXCEPT ![n][from] = 100]
            /\ sum_w' = [sum_w EXCEPT ![n] = @ + 100]
       ELSE UNCHANGED <<wallet, sum_w>>
    /\ totKey' = [totKey EXCEPT ![n] = @ + 1]
    /\ readySent' = IF HeardFromAll(totKey[n] + 1) THEN readySent \cup {n}
                                                   ELSE readySent
    /\ UNCHANGED <<commonVar, announced, readyFrom, keyAvail>>

\* A client's i/o thread takes a READY and lets the client start (keyAvail) when
\* it has those of all nodes.
StartsOn_AnyReady(nodes) == nodes # {}
StartsOn(nodes) == nodes = Node

GetReady(c, n) ==
    /\ n \in readySent \ readyFrom[c]
    /\ readyFrom' = [readyFrom EXCEPT ![c] = @ \cup {n}]
    /\ keyAvail' = IF StartsOn(readyFrom'[c]) THEN keyAvail \cup {c} ELSE keyAvail
    /\ UNCHANGED <<commonVar, announced, keyexFrom, totKey, wallet, sum_w,
                   readySent>>

StartupNext ==
    \/ \E p \in Process : StartThread(p) \/ SendKey(p)
    \/ \E n \in Node, from \in Process : ProcessKeyExchange(n, from)
    \/ \E c \in Client, n \in Node : GetReady(c, n)

StartupSpec == StartupInit /\ [][StartupNext]_startupVars

-----------------------------------------------------------------------------
\* The vote layer of node n as Algorand!InitialObject assumes it.
KeysComplete(n) ==
    /\ wallet[n] = [m \in Node |-> 100]
    /\ sum_w[n] = 100 * Cardinality(Node)

\* A node that calls itself READY has counted messages, not keys; the count
\* must mean that it holds the wallet of every node, so that it draws and
\* verifies votes from the same distribution as the others.
ReadyMeansKeys == \A n \in readySent : KeysComplete(n)

=============================================================================
