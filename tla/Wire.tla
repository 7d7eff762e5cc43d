-------------------------------- MODULE Wire --------------------------------
(***************************************************************************)
(* A link from one node to another: messages are queued for the peer,      *)
(* packed into a buffer one behind the other, and taken out again by       *)
(* create_messages(), which trusts get_size() to find the next one.  The   *)
(* queue and the packing are the transport's, which is not in this         *)
(* repository; the codec of the messages is Messages.                      *)
(***************************************************************************)
EXTENDS Messages

CONSTANTS
    g_node_cnt, g_client_node_cnt,
    g_repl_cnt,         \* ids are given to nodes, clients and replicas in turn
    Sender, Receiver,   \* two ids
    Unicast,            \* the messages that are queued as they are
    Broadcasts,         \* the messages of which each peer is sent a copy
    MaxSent             \* bound: messages sent over the link

ISSERVERN(id) == id < g_node_cnt
ISCLIENTN(id) == id >= g_node_cnt /\ id < g_node_cnt + g_client_node_cnt
ISREPLICAN(id) ==
    /\ id >= g_node_cnt + g_client_node_cnt
    /\ id < g_node_cnt + g_client_node_cnt + g_repl_cnt * g_node_cnt

ASSUME WireAssumption ==
    /\ {g_node_cnt, g_client_node_cnt, g_repl_cnt} \subseteq Nat
    /\ ISCLIENTN(Sender) \/ ISSERVERN(Sender) \/ ISREPLICAN(Sender)
    /\ MaxSent \in Nat /\ Sender \in Nat /\ Receiver \in Nat /\ Sender # Receiver
    /\ \A m \in Unicast \cup Broadcasts : WellFormed(m)

VARIABLES
    sent,       \* what has been sent over the link so far, in order
    outbox,     \* msg_queue: messages for the peer not packed yet
    buffer,     \* bytes under way, behind dest_id, return_id and txn_cnt
    left,       \* txn_cnt: messages of the buffer that are still to be read
    ptr,        \* where the next one begins
    end,        \* where copy_from_buf() stopped reading the last one
    inbox,      \* messages handed to the work queue of the peer
    aborted     \* an assertion failed on either side

vars == <<sent, outbox, buffer, left, ptr, end, inbox, aborted>>

Init ==
    /\ sent = <<>> /\ outbox = <<>> /\ inbox = <<>>
    /\ buffer = <<>> /\ left = 0 /\ ptr = 0 /\ end = 0
    /\ aborted = FALSE

\* Every class but four ends copy_to_buf() with assert(ptr == get_size()).
WriteFails(m) == Asserts(m.rtype) /\ Len(Written(m)) # SizeOf(m)

\* A message the peer alone gets is queued itself.
Enqueue(m) ==
    /\ ~aborted /\ Len(sent) < MaxSent
    /\ sent' = Append(sent, m)
    /\ outbox' = Append(outbox, m)
    /\ UNCHANGED <<buffer, left, ptr, end, inbox, aborted>>

\* A broadcast writes the message to a buffer of its own once and queues for
\* each peer what create_message() makes of the buffer.
Broadcast(m) ==
    LET copy == Read(Placed(Written(m), m), 1) IN
    /\ ~aborted /\ Len(sent) < MaxSent
    /\ sent' = Append(sent, m)
    /\ aborted' = (WriteFails(m) \/ copy.failed)
    /\ IF aborted' THEN UNCHANGED outbox ELSE outbox' = Append(outbox, copy.msg)
    /\ UNCHANGED <<buffer, left, ptr, end, inbox>>

BufferHeader == Bytes(Receiver, 4) \o Bytes(Sender, 4)

\* The transport fills a buffer with what is queued, each message in the
\* get_size() bytes behind the one before it.
Pack(n) ==
    LET msgs == SubSeq(outbox, 1, n) IN
    /\ ~aborted /\ left = 0
    /\ n \in 1 .. Len(outbox)
    /\ aborted' = (\E k \in 1 .. n : WriteFails(msgs[k]))
    /\ outbox' = SubSeq(outbox, n + 1, Len(outbox))
    /\ buffer' = BufferHeader \o Bytes(n, 4) \o
                    FlattenSeq([k \in 1 .. n |->
                        Placed(Written(msgs[k]), msgs[k])])
    /\ left' = n
    /\ ptr' = 13 /\ end' = 13
    /\ UNCHANGED <<sent, inbox>>

\* One turn of the loop of create_messages(), after its three assertions on
\* the ids in front.
Unpack ==
    LET dest_id == Value(Slice(buffer, 1, 4))
        return_id == Value(Slice(buffer, 5, 4))
        r == Read(buffer, ptr)
    IN
    /\ ~aborted /\ left > 0
    /\ aborted' = \/ r.failed
                   \/ dest_id # Receiver \/ return_id = Receiver
                   \/ ~(ISCLIENTN(return_id) \/ ISSERVERN(return_id) \/ ISREPLICAN(return_id))
    /\ IF aborted' THEN UNCHANGED <<ptr, end, inbox>>
       ELSE /\ ptr' = ptr + SizeOf(r.msg)
            /\ end' = r.at
            /\ inbox' = Append(inbox, [msg |-> r.msg, return_node_id |-> return_id])
    /\ left' = left - 1
    /\ UNCHANGED <<sent, outbox, buffer>>

Done ==
    /\ aborted \/ Len(inbox) = MaxSent
    /\ UNCHANGED vars

Next ==
    \/ \E m \in Unicast : Enqueue(m)
    \/ \E m \in Broadcasts : Broadcast(m)
    \/ \E n \in 1 .. MaxSent : Pack(n)
    \/ Unpack
    \/ Done

Spec == Init /\ [][Next]_vars

-----------------------------------------------------------------------------
(* Properties *)

\* What the peer's handlers get is what was sent, in the order it was sent,
\* field by field, also when the message was copied through a buffer before,
\* is nested in others or follows others in one buffer; and each is put down
\* to the node it came from.
ArrivesIntact ==
    \A k \in DOMAIN inbox :
        inbox[k] = [msg |-> sent[k], return_node_id |-> Sender]

\* get_size() of a message that was read is what copy_from_buf() has read, and
\* leads to the next message: the loop ends where the bytes end.  Four classes
\* do not assert it.
FramesMeet ==
    ~aborted =>
        /\ end = ptr
        /\ left = 0 /\ buffer # <<>> => ptr = Len(buffer) + 1

\* No assert(ptr == get_size()) fails, nor the assertions of create_messages().
AssertionsHold == ~aborted
=============================================================================
