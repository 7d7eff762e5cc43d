------------------------------- MODULE MCWire -------------------------------
(* Messages for TLC: one or more of every class, with strings of different *)
(* lengths, empty and full lists, and messages nested up to three deep.    *)
EXTENDS Wire

\* A record with the fields of both.
f \bullet g ==
    [x \in DOMAIN f \cup DOMAIN g |-> IF x \in DOMAIN f THEN f[x] ELSE g[x]]

\* Every field has a value of its own, so that fields cannot be confused.
Text2(c, n) == [k \in 1 .. n |-> c + k]
Header(rtype, txn_id, key) ==
    [ rtype |-> rtype, txn_id |-> txn_id, mq_time |-> 2,
      sigSize |-> 1, keySize |-> Len(key), signature |-> <<48>>, pubKey |-> key,
      dp_seed |-> Text2(100, SeedSize), dp_hash |-> Text2(110, HashSize),
      dp_proof |-> Text2(120, ProofSize), dp_value |-> Text2(130, ValueSize),
      dp_j |-> 3, dp_node_id |-> 4, dp_pk |-> Text2(140, PkSize), dp_type |-> 5 ]
Plain(rtype) == Header(rtype, 1, <<48>>)
Signed(rtype) == Header(rtype, 1, <<>>)     \* sign() with no key exchanged

Requests(n) == [k \in 1 .. n |-> [request |-> 20 + k]]
Query(id, parts, reqs) ==
    [client_startts |-> 11, partitions |-> [k \in 1 .. parts |-> [part |-> 12]],
     requests |-> Requests(reqs), return_node |-> 13] \bullet Header("CL_QRY", id, <<48>>)

Hashed(n) == [view |-> 30, index |-> 31, hashSize |-> n, hash |-> Text2(150, n)]
Vote(n) == [return_node |-> 32, end_index |-> 33, batch_size |-> 34] \bullet Hashed(n)
PrepMsg == Vote(2) \bullet Signed("PBFT_PREP_MSG")
ChkptMsg(k) == [index |-> 40 + k, return_node |-> 50 + k, beg_index |-> 60] \bullet
               Signed("PBFT_CHKPT_MSG")
BatchReq(n) ==
    [view |-> 35, batch_size |-> 36,
     batch |-> [k \in 1 .. BatchSize |->
        [index |-> 70 + k, hashSize |-> n, hash |-> Text2(160, n),
         requestMsg |-> Query(k, 0, k)]]] \bullet Signed("BATCH_REQ")
ViewChange(pre, prep) ==
    [view |-> 37, index |-> 38, numPreMsgs |-> pre, numPrepMsgs |-> prep,
     checkPointMessages |-> [k \in 1 .. 2 * F |-> ChkptMsg(k)],
     prePrepareMessages |-> [k \in 1 .. pre |-> BatchReq(1)],
     prepareMessages |-> [k \in 1 .. prep |-> PrepMsg],
     return_node |-> 39] \bullet Signed("PBFT_VIEW_CHANGE")
NewView ==
    [view |-> 37, numViewChangeMsgs |-> 2, numPreMsgs |-> 1,
     viewChangeMessages |-> <<ViewChange(0, 0), ViewChange(1, 1)>>,
     prePrepareMessages |-> <<BatchReq(1)>>] \bullet Signed("PBFT_NEW_VIEW")
Answers == [k \in 1 .. BatchSize |-> [value |-> 80 + k]]

KeyMsg == [pkeySz |-> 3, pkey |-> <<41, 42, 43>>, return_node |-> 6] \bullet Plain("KEYEX")

MCUnicast ==
    { Plain("INIT_DONE"), Plain("READY"), KeyMsg,
      Query(7, 0, 2), Query(8, 2, 0),
      [index |-> Answers, client_ts |-> Answers, view |-> 1] \bullet Signed("CL_RSP"),
      [return_node |-> 9, batch_size |-> BatchSize,
       cqrySet |-> [k \in 1 .. BatchSize |-> Query(k, 0, k)]] \bullet Signed("CL_BATCH"),
      [requests |-> Requests(2)] \bullet Plain("RQRY"),
      [pid |-> 14, rc |-> 15, readonly |-> 1] \bullet Plain("RFIN"),
      [rc |-> 15] \bullet Plain("RQRY_RSP"), [rc |-> 15] \bullet Plain("RACK_PREP"),
      [rc |-> 15] \bullet Plain("RFWD"), Plain("RPREPARE"), Plain("RDONE"),
      [client_startts |-> 11, view |-> 1] \bullet Signed("CL_CC"),
      [client_startts |-> 11, view |-> 1] \bullet Signed("CL_CAck"),
      Vote(1) \bullet Plain("EXECUTE_MSG"),
      [requestMsg |-> Query(9, 0, 1)] \bullet Hashed(1) \bullet Plain("PBFT_PRE_MSG") }

MCBroadcasts ==
    { BatchReq(2), PrepMsg, Vote(2) \bullet Signed("PBFT_COMMIT_MSG"), ChkptMsg(1),
      ViewChange(1, 2), NewView,
      [return_node |-> 32, tripleSignSize |-> 2, tripleSign |-> Text2(170, 2)] \bullet
          Hashed(1) \bullet Signed("DBFT_PREP_MSG"),
      Plain("PP_MSG") }
=============================================================================
