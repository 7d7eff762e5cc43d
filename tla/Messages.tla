------------------------------ MODULE Messages ------------------------------
(***************************************************************************)
(* How messages become bytes and bytes messages.  Every class of message.h *)
(* has three hand-written functions that must agree: get_size() says how   *)
(* many bytes it takes, copy_to_buf() writes its fields one after the      *)
(* other and copy_from_buf() reads them.  Here XSize(m) is the first, and  *)
(* XWrites and XReads, sequences of steps, are the other two; each follows *)
(* its own function.  The classes are those the program can be built with, *)
(* all but the ones of RBFT, with the fields of the PBFT build.            *)
(*                                                                         *)
(* A message is a record (a function from field names).  A string is a     *)
(* sequence of numbers.  Fields, ids and characters are small numbers that *)
(* keep their width in bytes: value v of w bytes is <<v,1>> .. <<v,w>>, so *)
(* reading with another width or at another place yields Garbage.          *)
(***************************************************************************)
EXTENDS Integers, SequencesExt, TLC

CONSTANTS
    BatchSize,          \* g_batch_size
    F,                  \* g_min_invalid_nodes
    SeedSize, HashSize, ProofSize, ValueSize, PkSize,   \* ALGORAND_*_SIZE
    RequestWidth        \* sizeof(ycsb_request)

ASSUME SizeAssumption ==
    /\ BatchSize \in Nat \ {0} /\ F \in Nat /\ RequestWidth \in Nat \ {0}
    /\ {SeedSize, HashSize, ProofSize, ValueSize, PkSize} \subseteq Nat \ {0}

Garbage == -1
Bytes(v, w) == [k \in 1 .. w |-> <<v, k>>]
Value(bytes) ==
    IF bytes # <<>> /\ bytes = Bytes(bytes[1][1], Len(bytes))
    THEN bytes[1][1] ELSE Garbage

\* The w bytes of buf from position at; what is not in the buffer is garbage.
Slice(buf, at, w) ==
    [k \in 1 .. w |-> IF at + k - 1 <= Len(buf) THEN buf[at + k - 1]
                                                ELSE <<Garbage, 0>>]

-----------------------------------------------------------------------------
(* Steps.  A count is a constant or, where length names one, a field. *)

Step(op, field, count, length, steps) ==
    [op |-> op, field |-> field, count |-> count, length |-> length,
     steps |-> steps]

Val(field, width) == Step("value", field, width, "", <<>>)
U64(field) == Val(field, 8)
U32(field) == Val(field, 4)
Chars(field, length) == Step("chars", field, 0, length, <<>>)
Text(field) == Step("text", field, 0, "", <<>>)         \* all of a string
Fixed(field, count) == Step("fixed", field, count, "", <<>>)
Skip(count) == Step("skip", "", count, "", <<>>)
List(field, steps) == Step("list", field, 0, "", steps) \* its size, then it
Each(field, count, steps) == Step("each", field, count, "", steps)
Nested(field) == Step("message", field, 0, "", <<>>)
NestedN(field, count) == Step("messages", field, count, "", <<>>)
NestedBy(field, length) == Step("messages", field, 0, length, <<>>)

\* Steps that consist of the steps of elements or of nested messages.
Compound == {"list", "each", "message", "messages"}

\* The sums of the first numbers of a sequence, and of all.
Sums(s) ==
    LET sum[i \in 0 .. Len(s)] == IF i = 0 THEN 0 ELSE sum[i - 1] + s[i]
    IN  sum
Total(s) == Sums(s)[Len(s)]

-----------------------------------------------------------------------------
(* Definitions named X_Y are what X would be with mistake Y; nothing uses  *)
(* them.  They show which property notices the mistake.                    *)

\* What all classes share: mget_size, mcopy_to_buf, mcopy_from_buf.  The
\* seven latencies are statistics and are skipped.
HeaderSize(m) ==
    4 + 8 + 8 + Len(m.signature) + Len(m.pubKey) + 8 + 8
    + SeedSize + HashSize + ProofSize + ValueSize + 4 + 4 + PkSize + 4 + 7 * 8

HeaderWrites ==
    << U32("rtype"), U64("txn_id"), U64("mq_time"), Skip(56),
       U64("sigSize"), U64("keySize"),
       Chars("signature", "sigSize"), Chars("pubKey", "keySize"),
       Fixed("dp_seed", SeedSize), Fixed("dp_hash", HashSize),
       Fixed("dp_proof", ProofSize), Fixed("dp_value", ValueSize),
       U32("dp_j"), U32("dp_node_id"), Fixed("dp_pk", PkSize), U32("dp_type") >>

HeaderReads_HashFirst ==
    << U32("rtype"), U64("txn_id"), U64("mq_time"), Skip(56),
       U64("sigSize"), U64("keySize"),
       Chars("signature", "sigSize"), Chars("pubKey", "keySize"),
       Fixed("dp_hash", HashSize), Fixed("dp_seed", SeedSize),
       Fixed("dp_proof", ProofSize), Fixed("dp_value", ValueSize),
       U32("dp_j"), U32("dp_node_id"), Fixed("dp_pk", PkSize), U32("dp_type") >>

HeaderReads ==
    << U32("rtype"), U64("txn_id"), U64("mq_time"), Skip(56),
       U64("sigSize"), U64("keySize"),
       Chars("signature", "sigSize"), Chars("pubKey", "keySize"),
       Fixed("dp_seed", SeedSize), Fixed("dp_hash", HashSize),
       Fixed("dp_proof", ProofSize), Fixed("dp_value", ValueSize),
       U32("dp_j"), U32("dp_node_id"), Fixed("dp_pk", PkSize), U32("dp_type") >>

\* Start-up.
KeyExchangeSize_NoNode(m) == HeaderSize(m) + 8 + Len(m.pkey)
KeyExchangeSize(m) == HeaderSize(m) + 8 + Len(m.pkey) + 8
KeyExchangeWrites == <<U64("pkeySz"), Chars("pkey", "pkeySz"), U64("return_node")>>
KeyExchangeReads == <<U64("pkeySz"), Chars("pkey", "pkeySz"), U64("return_node")>>

\* The transaction protocol the code base started from; the node still reads it.
QueryRequests == List("requests", <<Val("request", RequestWidth)>>)
QuerySize(m) == HeaderSize(m) + 8 + RequestWidth * Len(m.requests)
QueryWrites == <<QueryRequests>>
QueryReads == <<QueryRequests>>

FinishSize(m) == HeaderSize(m) + 8 + 4 + 1
FinishWrites == <<U64("pid"), U32("rc"), Val("readonly", 1)>>
FinishReads == <<U64("pid"), U32("rc"), Val("readonly", 1)>>

QueryResponseSize(m) == HeaderSize(m) + 4
QueryResponseWrites == <<U32("rc")>>
QueryResponseReads == <<U32("rc")>>

AckSize(m) == HeaderSize(m) + 4
AckWrites == <<U32("rc")>>
AckReads == <<U32("rc")>>

ForwardSize(m) == HeaderSize(m) + 4
ForwardWrites == <<U32("rc")>>
ForwardReads == <<U32("rc")>>

\* The client's transactions and the answers to them.
ClientQuerySize(m) == HeaderSize(m) + 8 + 8 + 8 * Len(m.partitions)
ClientQueryWrites == <<U64("client_startts"), List("partitions", <<U64("part")>>)>>
ClientQueryReads == <<U64("client_startts"), List("partitions", <<U64("part")>>)>>

YCSBClientQuerySize(m) ==
    ClientQuerySize(m) + 8 + RequestWidth * Len(m.requests) + 8
YCSBClientQueryWrites ==
    ClientQueryWrites \o
    <<List("requests", <<Val("request", RequestWidth)>>), U64("return_node")>>
YCSBClientQueryReads ==
    ClientQueryReads \o
    <<List("requests", <<Val("request", RequestWidth)>>), U64("return_node")>>

ClientQueryBatchSize(m) ==
    HeaderSize(m) + 8 + 4
    + Total([k \in DOMAIN m.cqrySet |-> YCSBClientQuerySize(m.cqrySet[k])])
ClientQueryBatchWrites ==
    <<U64("return_node"), U32("batch_size"), NestedN("cqrySet", BatchSize)>>
ClientQueryBatchReads ==
    <<U64("return_node"), U32("batch_size"), NestedN("cqrySet", BatchSize)>>

ClientResponseSize(m) == HeaderSize(m) + 8 + 8 * Len(m.index) + 8 * Len(m.client_ts)
ClientResponseWrites ==
    << Each("index", BatchSize, <<U64("value")>>),
       Each("client_ts", BatchSize, <<U64("value")>>), U64("view") >>
ClientResponseReads ==
    << Each("index", BatchSize, <<U64("value")>>),
       Each("client_ts", BatchSize, <<U64("value")>>), U64("view") >>

\* Consensus.  Writing goes by the length of the hash, reading by hashSize.
BatchRequestsSize(m) ==
    HeaderSize(m) + 8
    + Total([k \in DOMAIN m.batch |->
                8 + 8 + Len(m.batch[k].hash)
                + YCSBClientQuerySize(m.batch[k].requestMsg)]) + 4
BatchRequestsWrites ==
    << U64("view"),
       Each("batch", BatchSize, <<U64("index"), U64("hashSize"), Text("hash"),
                                  Nested("requestMsg")>>),
       U32("batch_size") >>
BatchRequestsReads ==
    << U64("view"),
       Each("batch", BatchSize, <<U64("index"), U64("hashSize"),
                                  Chars("hash", "hashSize"), Nested("requestMsg")>>),
       U32("batch_size") >>

PBFTPreSize(m) ==
    HeaderSize(m) + 8 + 8 + 8 + Len(m.hash) + YCSBClientQuerySize(m.requestMsg)
PBFTPreWrites ==
    <<U64("view"), U64("index"), U64("hashSize"), Text("hash"), Nested("requestMsg")>>
PBFTPreReads ==
    << U64("view"), U64("index"), U64("hashSize"), Chars("hash", "hashSize"),
       Nested("requestMsg") >>

ExecuteSize(m) == HeaderSize(m) + 8 + 8 + Len(m.hash) + 8 + 8 + 8 + 8
ExecuteWrites ==
    << U64("view"), U64("index"), U64("hashSize"), Text("hash"),
       U64("return_node"), U64("end_index"), U64("batch_size") >>
ExecuteReads ==
    << U64("view"), U64("index"), U64("hashSize"), Chars("hash", "hashSize"),
       U64("return_node"), U64("end_index"), U64("batch_size") >>

CheckpointSize(m) == HeaderSize(m) + 8 + 8 + 8
CheckpointWrites == <<U64("index"), U64("return_node"), U64("beg_index")>>
CheckpointReads == <<U64("index"), U64("return_node"), U64("beg_index")>>

\* batch_size is a uint32_t in a PREP and a uint64_t in a COMMIT.
PBFTPrepSize(m) == HeaderSize(m) + 8 + 8 + Len(m.hash) + 8 + 8 + 8 + 4
PBFTPrepWrites ==
    << U64("view"), U64("index"), U64("hashSize"), Text("hash"),
       U64("return_node"), U64("end_index"), U32("batch_size") >>
PBFTPrepReads ==
    << U64("view"), U64("index"), U64("hashSize"), Chars("hash", "hashSize"),
       U64("return_node"), U64("end_index"), U32("batch_size") >>

PBFTCommitSize(m) == HeaderSize(m) + 8 + 8 + Len(m.hash) + 8 + 8 + 8 + 8
PBFTCommitWrites ==
    << U64("view"), U64("index"), U64("hashSize"), Text("hash"),
       U64("return_node"), U64("end_index"), U64("batch_size") >>
PBFTCommitReads_AsInPrep ==
    << U64("view"), U64("index"), U64("hashSize"), Chars("hash", "hashSize"),
       U64("return_node"), U64("end_index"), U32("batch_size") >>
PBFTCommitReads ==
    << U64("view"), U64("index"), U64("hashSize"), Chars("hash", "hashSize"),
       U64("return_node"), U64("end_index"), U64("batch_size") >>

\* View change (builds with VIEW_CHANGES).
PBFTViewChangeSize(m) ==
    HeaderSize(m) + 8 + 8 + 8 + 8
    + Total([k \in DOMAIN m.checkPointMessages |->
                CheckpointSize(m.checkPointMessages[k])])
    + Total([k \in DOMAIN m.prePrepareMessages |->
                BatchRequestsSize(m.prePrepareMessages[k])])
    + Total([k \in DOMAIN m.prepareMessages |-> PBFTPrepSize(m.prepareMessages[k])])
    + 8
PBFTViewChangeWrites ==
    << U64("view"), U64("index"), U64("numPreMsgs"), U64("numPrepMsgs"),
       NestedN("checkPointMessages", 2 * F),
       NestedBy("prePrepareMessages", "numPreMsgs"),
       NestedBy("prepareMessages", "numPrepMsgs"), U64("return_node") >>
PBFTViewChangeReads ==
    << U64("view"), U64("index"), U64("numPreMsgs"), U64("numPrepMsgs"),
       NestedN("checkPointMessages", 2 * F),
       NestedBy("prePrepareMessages", "numPreMsgs"),
       NestedBy("prepareMessages", "numPrepMsgs"), U64("return_node") >>

PBFTNewViewSize(m) ==
    HeaderSize(m) + 8 + 8 + 8
    + Total([k \in DOMAIN m.viewChangeMessages |->
                PBFTViewChangeSize(m.viewChangeMessages[k])])
    + Total([k \in DOMAIN m.prePrepareMessages |->
                BatchRequestsSize(m.prePrepareMessages[k])])
PBFTNewViewWrites ==
    << U64("view"), U64("numViewChangeMsgs"), U64("numPreMsgs"),
       NestedBy("viewChangeMessages", "numViewChangeMsgs"),
       NestedBy("prePrepareMessages", "numPreMsgs") >>
PBFTNewViewReads ==
    << U64("view"), U64("numViewChangeMsgs"), U64("numPreMsgs"),
       NestedBy("viewChangeMessages", "numViewChangeMsgs"),
       NestedBy("prePrepareMessages", "numPreMsgs") >>

\* Zyzzyva and DBFT.
ClientCertificateSize(m) == HeaderSize(m) + 8 + 8
ClientCommitCertificateWrites == <<U64("client_startts"), U64("view")>>
ClientCommitCertificateReads == <<U64("client_startts"), U64("view")>>
ClientCertificateAckWrites == <<U64("view"), U64("client_startts")>>
ClientCertificateAckReads == <<U64("view"), U64("client_startts")>>

DBFTPrepSize(m) ==
    HeaderSize(m) + 8 + 8 + Len(m.hash) + 8 + 8 + Len(m.tripleSign) + 8
DBFTPrepWrites ==
    << U64("view"), U64("index"), U64("hashSize"), Text("hash"), U64("return_node"),
       U64("tripleSignSize"), Text("tripleSign") >>
DBFTPrepReads ==
    << U64("view"), U64("index"), U64("hashSize"), Chars("hash", "hashSize"),
       U64("return_node"), U64("tripleSignSize"), Chars("tripleSign", "tripleSignSize") >>

-----------------------------------------------------------------------------
(* RemReqType, and the class create_message() makes of each. *)

RemReqType ==
    << "INIT_DONE", "KEYEX", "READY", "CL_QRY", "RQRY", "RQRY_CONT", "RFIN",
       "RQRY_RSP", "RACK_PREP", "RACK_FIN", "RTXN", "RTXN_CONT", "RPREPARE", "RFWD",
       "RDONE", "CL_RSP", "CL_BATCH", "CL_CC", "CL_CAck", "EXECUTE_MSG",
       "PBFT_PRE_MSG", "BATCH_REQ", "PBFT_VIEW_CHANGE", "PBFT_NEW_VIEW",
       "PBFT_PREP_MSG", "PBFT_COMMIT_MSG", "PBFT_CHKPT_MSG", "DBFT_PREP_MSG", "PP_MSG" >>

SizeOf(m) ==
    CASE m.rtype = "KEYEX" -> KeyExchangeSize(m)
      [] m.rtype \in {"RQRY", "RQRY_CONT"} -> QuerySize(m)
      [] m.rtype = "RFIN" -> FinishSize(m)
      [] m.rtype = "RQRY_RSP" -> QueryResponseSize(m)
      [] m.rtype \in {"RACK_PREP", "RACK_FIN"} -> AckSize(m)
      [] m.rtype \in {"CL_QRY", "RTXN", "RTXN_CONT"} -> YCSBClientQuerySize(m)
      [] m.rtype = "CL_BATCH" -> ClientQueryBatchSize(m)
      [] m.rtype = "RFWD" -> ForwardSize(m)
      [] m.rtype = "CL_RSP" -> ClientResponseSize(m)
      [] m.rtype \in {"CL_CC", "CL_CAck"} -> ClientCertificateSize(m)
      [] m.rtype = "EXECUTE_MSG" -> ExecuteSize(m)
      [] m.rtype = "PBFT_PRE_MSG" -> PBFTPreSize(m)
      [] m.rtype = "BATCH_REQ" -> BatchRequestsSize(m)
      [] m.rtype = "PBFT_VIEW_CHANGE" -> PBFTViewChangeSize(m)
      [] m.rtype = "PBFT_NEW_VIEW" -> PBFTNewViewSize(m)
      [] m.rtype = "PBFT_PREP_MSG" -> PBFTPrepSize(m)
      [] m.rtype = "PBFT_COMMIT_MSG" -> PBFTCommitSize(m)
      [] m.rtype = "PBFT_CHKPT_MSG" -> CheckpointSize(m)
      [] m.rtype = "DBFT_PREP_MSG" -> DBFTPrepSize(m)
      [] OTHER -> HeaderSize(m)     \* INIT_DONE, READY, RPREPARE, RDONE, PP_MSG

Layout(rtype) ==
    LET Of(writes, reads) == [writes |-> writes, reads |-> reads] IN
    CASE rtype = "KEYEX" -> Of(KeyExchangeWrites, KeyExchangeReads)
      [] rtype \in {"RQRY", "RQRY_CONT"} -> Of(QueryWrites, QueryReads)
      [] rtype = "RFIN" -> Of(FinishWrites, FinishReads)
      [] rtype = "RQRY_RSP" -> Of(QueryResponseWrites, QueryResponseReads)
      [] rtype \in {"RACK_PREP", "RACK_FIN"} -> Of(AckWrites, AckReads)
      [] rtype \in {"CL_QRY", "RTXN", "RTXN_CONT"} ->
            Of(YCSBClientQueryWrites, YCSBClientQueryReads)
      [] rtype = "CL_BATCH" -> Of(ClientQueryBatchWrites, ClientQueryBatchReads)
      [] rtype = "RFWD" -> Of(ForwardWrites, ForwardReads)
      [] rtype = "CL_RSP" -> Of(ClientResponseWrites, ClientResponseReads)
      [] rtype = "CL_CC" ->
            Of(ClientCommitCertificateWrites, ClientCommitCertificateReads)
      [] rtype = "CL_CAck" -> Of(ClientCertificateAckWrites, ClientCertificateAckReads)
      [] rtype = "EXECUTE_MSG" -> Of(ExecuteWrites, ExecuteReads)
      [] rtype = "PBFT_PRE_MSG" -> Of(PBFTPreWrites, PBFTPreReads)
      [] rtype = "BATCH_REQ" -> Of(BatchRequestsWrites, BatchRequestsReads)
      [] rtype = "PBFT_VIEW_CHANGE" -> Of(PBFTViewChangeWrites, PBFTViewChangeReads)
      [] rtype = "PBFT_NEW_VIEW" -> Of(PBFTNewViewWrites, PBFTNewViewReads)
      [] rtype = "PBFT_PREP_MSG" -> Of(PBFTPrepWrites, PBFTPrepReads)
      [] rtype = "PBFT_COMMIT_MSG" -> Of(PBFTCommitWrites, PBFTCommitReads)
      [] rtype = "PBFT_CHKPT_MSG" -> Of(CheckpointWrites, CheckpointReads)
      [] rtype = "DBFT_PREP_MSG" -> Of(DBFTPrepWrites, DBFTPrepReads)
      [] OTHER -> Of(<<>>, <<>>)

\* Whether the class asserts ptr == get_size() at the end of both functions.
Asserts(rtype) == rtype \notin {"INIT_DONE", "READY", "KEYEX", "PP_MSG"}

\* The type as it is sent, a number.
Code(rtype) == CHOOSE k \in DOMAIN RemReqType : RemReqType[k] = rtype
Coded(m) == [m EXCEPT !.rtype = Code(@)]

-----------------------------------------------------------------------------
(* Elements: what the compound steps go over, messages among them. *)

Count(step, x) == IF step.length = "" THEN step.count ELSE x[step.length]

\* How many elements of a field a step writes, and the k-th of them.
Repeats(step, x) ==
    CASE step.op = "message" -> 1
      [] step.op = "list" -> Len(x[step.field])
      [] step.op \in {"each", "messages"} -> Count(step, x)
      [] OTHER -> 0
Item(step, x, k) == IF step.op = "message" THEN x[step.field] ELSE x[step.field][k]

\* The messages that the steps write, themselves or for their elements.
Direct(steps, x) ==
    UNION {{Item(steps[i], x, k) : k \in 1 .. Repeats(steps[i], x)} :
           i \in {j \in DOMAIN steps : steps[j].steps = <<>>}}
OfElements(steps, x) ==
    UNION {UNION {Direct(steps[i].steps, Item(steps[i], x, k)) :
                  k \in 1 .. Repeats(steps[i], x)} : i \in DOMAIN steps}
Inside(m) ==
    Direct(Layout(m.rtype).writes, m) \cup OfElements(Layout(m.rtype).writes, m)

-----------------------------------------------------------------------------
(* What the constructors and init functions make of a message: the sizes   *)
(* it carries are those of its strings and lists, the strings of a package *)
(* fill their places (dataPackage() makes them so long), and a member that *)
(* is a message is of the class it is declared with.  The steps of reading *)
(* name the sizes.                                                         *)

NestedClass ==
    [ requestMsg |-> "CL_QRY", cqrySet |-> "CL_QRY",
      checkPointMessages |-> "PBFT_CHKPT_MSG", prePrepareMessages |-> "BATCH_REQ",
      prepareMessages |-> "PBFT_PREP_MSG", viewChangeMessages |-> "PBFT_VIEW_CHANGE" ]

Fields(steps) == {steps[i].field : i \in {j \in DOMAIN steps : steps[j].op # "skip"}}
IsRecord(x, fields) == x = [f \in fields |-> x[f]]
IsSequence(s) == Len(s) \in Nat /\ s = [k \in 1 .. Len(s) |-> s[k]]

FieldFits(step, x) ==
    CASE step.op = "value" -> x[step.field] \in Nat
      [] step.op \in {"chars", "fixed"} ->
            /\ x[step.field] \in Seq(Nat)
            /\ Len(x[step.field]) = Count(step, x)
      [] step.op \in {"list", "each", "messages"} ->
            /\ IsSequence(x[step.field])
            /\ step.op # "list" => Len(x[step.field]) = Count(step, x)
      [] OTHER -> TRUE

StepsFit(steps, x) ==
    \A i \in DOMAIN steps :
        /\ FieldFits(steps[i], x)
        /\ steps[i].steps = <<>> =>
              \A k \in 1 .. Repeats(steps[i], x) :
                  Item(steps[i], x, k).rtype = NestedClass[steps[i].field]

ElementsFit(steps, x) ==
    \A i \in DOMAIN steps :
        steps[i].steps # <<>> =>
            \A k \in 1 .. Repeats(steps[i], x) :
                LET e == Item(steps[i], x, k)
                IN  IsRecord(e, Fields(steps[i].steps)) /\ StepsFit(steps[i].steps, e)

Fits(m) ==
    LET body == Layout(m.rtype).reads
    IN  /\ m.rtype \in Range(RemReqType)
        /\ IsRecord(m, Fields(HeaderReads) \cup Fields(body))
        /\ StepsFit(HeaderReads, Coded(m))
        /\ StepsFit(body, m) /\ ElementsFit(body, m)

\* Messages are nested up to three deep: requests in batches, these in reports,
\* these in a new view.
WellFormed0(m) == Fits(m) /\ Inside(m) = {}
WellFormed1(m) == Fits(m) /\ \A e \in Inside(m) : WellFormed0(e)
WellFormed2(m) == Fits(m) /\ \A e \in Inside(m) : WellFormed1(e)
WellFormed(m) == Fits(m) /\ \A e \in Inside(m) : WellFormed2(e)

-----------------------------------------------------------------------------
(* Writing: the bytes of a message. *)

\* A string shorter than its place is padded with the last character.
Padded(s, n) == [k \in 1 .. n |-> IF k <= Len(s) THEN s[k] ELSE s[Len(s)]]
CharBytes(s) == [k \in DOMAIN s |-> <<s[k], 1>>]

PutSimple(step, x) ==
    CASE step.op = "value" -> Bytes(x[step.field], step.count)
      [] step.op = "skip" -> Bytes(0, step.count)
      [] step.op = "text" -> CharBytes(x[step.field])
      [] step.op \in {"chars", "fixed"} ->
            CharBytes(Padded(x[step.field], Count(step, x)))
      [] step.op = "list" -> Bytes(Len(x[step.field]), 8)
      [] OTHER -> <<>>

\* elements[i] are the bytes of the elements of step i, each for itself.
Put(steps, elements, x) ==
    FlattenSeq([i \in DOMAIN steps |->
                    PutSimple(steps[i], x) \o FlattenSeq(elements[i])])

\* placed[e] are the bytes of message e, in its place in another message.
Copies(step, placed, x) ==
    [k \in 1 .. Repeats(step, x) |-> placed[Item(step, x, k)]]
PutElement(steps, placed, e) ==
    Put(steps, [j \in DOMAIN steps |-> Copies(steps[j], placed, e)], e)
Elements(step, placed, x) ==
    IF step.steps = <<>> THEN Copies(step, placed, x)
    ELSE [k \in 1 .. Repeats(step, x) |->
             PutElement(step.steps, placed, Item(step, x, k))]

\* copy_to_buf: the header, and from mget_size() on what the class adds.
HeaderBytes(m) ==
    Put(HeaderWrites, [i \in DOMAIN HeaderWrites |-> <<>>], Coded(m))
BodyBytes(steps, placed, m) ==
    Put(steps, [i \in DOMAIN steps |-> Elements(steps[i], placed, m)], m)
WriteBy(placed, m) ==
    Slice(HeaderBytes(m), 1, HeaderSize(m))
    \o BodyBytes(Layout(m.rtype).writes, placed, m)

\* What follows a message is written get_size() bytes behind its beginning.
Placed(bytes, m) == Slice(bytes, 1, SizeOf(m))

\* Again for each depth.
Written0(m) == WriteBy(<<>>, m)
Written1(m) == WriteBy([e \in Inside(m) |-> Placed(Written0(e), e)], m)
Written2(m) == WriteBy([e \in Inside(m) |-> Placed(Written1(e), e)], m)
Written(m) == WriteBy([e \in Inside(m) |-> Placed(Written2(e), e)], m)

-----------------------------------------------------------------------------
(* Reading: what the functions make of the bytes at a place. *)

\* A cursor in a buffer, what has been read, and whether an assertion failed.
Cursor(at) == [at |-> at, msg |-> <<>>, failed |-> FALSE]
Unreadable(at) == [at |-> at, msg |-> <<>>, failed |-> TRUE]

With(msg, field, value) ==
    [f \in DOMAIN msg \cup {field} |-> IF f = field THEN value ELSE msg[f]]
Into(c, at, field, value, failed) ==
    [at |-> at, msg |-> With(c.msg, field, value), failed |-> failed]

ReadChars(buf, at, n) == [k \in 1 .. n |-> Value(Slice(buf, at + k - 1, 1))]

GetSimple(step, buf, c) ==
    CASE step.op = "value" ->
            Into(c, c.at + step.count, step.field,
                 Value(Slice(buf, c.at, step.count)), FALSE)
      [] step.op = "skip" -> [c EXCEPT !.at = @ + step.count]
      [] OTHER ->
            Into(c, c.at + Count(step, c.msg), step.field,
                 ReadChars(buf, c.at, Count(step, c.msg)), FALSE)

\* n elements from position at on; reader[p] reads the one at p.
GetElements(reader, n, at) ==
    LET got[k \in 0 .. n] ==
            IF k = 0 THEN [at |-> at, list |-> <<>>, failed |-> FALSE]
            ELSE LET d == got[k - 1]
                     e == reader[d.at]
                 IN  IF d.failed THEN d
                     ELSE [at |-> e.at, list |-> Append(d.list, e.msg),
                           failed |-> e.failed]
    IN  IF n \in Nat THEN got[n] ELSE [at |-> at, list |-> <<>>, failed |-> TRUE]

\* How many there are, and where they begin.
Expects(step, buf, c) ==
    CASE step.op = "list" -> Value(Slice(buf, c.at, 8))
      [] step.op = "message" -> 1
      [] OTHER -> Count(step, c.msg)
Begin(step, c) == IF step.op = "list" THEN c.at + 8 ELSE c.at

IntoAll(c, step, d) ==
    Into(c, d.at, step.field,
         IF step.op = "message" /\ ~d.failed THEN d.list[1] ELSE d.list, d.failed)

GetStep(step, reader, buf, c) ==
    IF step.op \in Compound
    THEN IntoAll(c, step, GetElements(reader, Expects(step, buf, c), Begin(step, c)))
    ELSE GetSimple(step, buf, c)

\* The steps one after the other; readers[i] reads the elements of step i.
Get(steps, readers, buf, c) ==
    LET after[i \in 0 .. Len(steps)] ==
            IF i = 0 THEN c
            ELSE LET d == after[i - 1]
                 IN  IF d.failed THEN d ELSE GetStep(steps[i], readers[i], buf, d)
    IN  after[Len(steps)]

\* A nested message is create_message()d and passed over by its get_size().
PassOver(r, at) == IF r.failed THEN r ELSE [r EXCEPT !.at = at + SizeOf(r.msg)]
Passing(messages) == [p \in Int |-> PassOver(messages[p], p)]

\* messages[p] is the message that create_message() makes of the bytes at p.
GetElement(steps, messages, buf, at) ==
    Get(steps, [j \in DOMAIN steps |-> Passing(messages)], buf, Cursor(at))
Reader(step, messages, buf) ==
    IF step.steps = <<>> THEN Passing(messages)
    ELSE [p \in Int |-> GetElement(step.steps, messages, buf, p)]

\* copy_from_buf() ends with the assertion, once the type is known.
Checked(r, at, rtype) ==
    LET msg == With(r.msg, "rtype", rtype)
    IN  IF r.failed THEN r
        ELSE [at |-> r.at, msg |-> msg,
              failed |-> Asserts(rtype) /\ r.at - at # SizeOf(msg)]

\* copy_from_buf: as copy_to_buf, the body from mget_size() on.
GetHeader(buf, at) ==
    Get(HeaderReads, [i \in DOMAIN HeaderReads |-> <<>>], buf, Cursor(at))
GetBody(steps, messages, buf, c) ==
    Get(steps, [i \in DOMAIN steps |-> Reader(steps[i], messages, buf)], buf, c)
ReadAs(rtype, messages, buf, at) ==
    LET head == GetHeader(buf, at)
        body == [head EXCEPT !.at = at + HeaderSize(head.msg)]
    IN  Checked(GetBody(Layout(rtype).reads, messages, buf, body), at, rtype)

\* create_message(buf): the class is chosen by the type the bytes begin with,
\* and its copy_from_buf() reads the rest.
ReadBy(messages, buf, at) ==
    LET code == Value(Slice(buf, at, 4))
    IN  IF code \in DOMAIN RemReqType THEN ReadAs(RemReqType[code], messages, buf, at)
        ELSE Unreadable(at)

Read0(buf, at) == ReadBy([p \in Int |-> Unreadable(p)], buf, at)
Read1(buf, at) == ReadBy([p \in Int |-> Read0(buf, p)], buf, at)
Read2(buf, at) == ReadBy([p \in Int |-> Read1(buf, p)], buf, at)
Read(buf, at) == ReadBy([p \in Int |-> Read2(buf, p)], buf, at)
=============================================================================
