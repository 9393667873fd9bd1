----------------------------- MODULE KeyAgreeInv -----------------------------
(* The inductive invariant of KeyAgree, in named parts; KeyAgreeProofs proves *)
(* it.  Its last conjuncts are the properties the runs check.                 *)
EXTENDS KeyAgree

\* A client in a call has an open connection of its own, which holds nothing
\* before the request is sent and, if anything, its request afterwards.
ClientInv ==
    /\ \A c \in Clients : ~InCall(c) => cConn[c] = NoConn
    /\ \A c \in Clients : InCall(c) =>
         cConn[c] \in Conns /\ cEnd[cConn[c]] = "open" /\ cR1[c] \in Nonces
    /\ \A c \in Clients : cPc[c] = "connected" => req[cConn[c]] = NoMsg
    /\ \A c \in Clients : cPc[c] = "waiting" => req[cConn[c]] \in {NoMsg, Request(c)}
    /\ \A c, d \in Clients : InCall(c) /\ InCall(d) /\ cConn[c] = cConn[d] => c = d

\* A connection nobody opened is untouched on both sides.
UnusedInv ==
    \A k \in Conns : cEnd[k] = "unused" => req[k] = NoMsg /\ sEnd[k] = "unused"

\* A thread runs in a running process and has a connection, a request once it is past
\* recvMsg, and then a key made for that request.
WorkerInv ==
    /\ srvPc = "spawn" => mClient \in Conns
    /\ srvPc \in {"exited", "killed"} => \A w \in Workers : wPc[w] = "free"
    /\ \A w \in Workers : wPc[w] # "free" => wConn[w] \in Conns
    /\ \A w \in Workers : wPc[w] \notin {"free", "recv"} => req[wConn[w]] # NoMsg
    /\ \A w \in Workers : wPc[w] \in {"free", "recv", "agree"} => wOut[w] = NoMsg
    /\ \A w \in Workers :
         wPc[w] \in {"shm", "copy", "copyKey", "lost", "insert", "update"} =>
         wInfo[w] \in Entries /\ wInfo[w].secKey.r1 = req[wConn[w]].r1

\* What a thread is about to send agrees with what it stores.
PreparedInv ==
    \A w \in Workers : wOut[w] # NoMsg =>
        /\ wInfo[w] \in Entries
        /\ wInfo[w].seckeyID = wOut[w].seckeyid
        /\ wInfo[w].secKey = SecretOf(req[wConn[w]].r1, wOut[w])

\* The place a thread has begun to copy to has the ids it wrote, unless another thread
\* was copying to the place as well.
CopyInv ==
    \A w \in Workers : wPc[w] = "copyKey" /\ wPlace[w] # 0 =>
        /\ srvShm[wPlace[w]] # Blank
        /\ wPlace[w] \in mixed \/ srvShm[wPlace[w]].node = req[wConn[w]].node

\* What a thread is about to send is recorded.
RecordedInv ==
    \A w \in Workers :
        wPc[w] \in {"update", "reply"} /\ wOut[w] # NoMsg =>
            RowOf(wConn[w], wInfo[w]) \in db

\* The connection of a row is being finished by its thread, or is closed.
RowsInv ==
    \A row \in db :
        \/ sEnd[row.conn] = "closed"
        \/ \E w \in Workers : wPc[w] \in {"update", "reply"} /\ wConn[w] = row.conn

\* The inductive invariant.
IInv ==
    /\ TypeOK
    /\ ClientInv
    /\ UnusedInv
    /\ WorkerInv
    /\ OwnConnections
    /\ DescriptorsOwned
    /\ PreparedInv
    /\ CopyInv
    /\ RecordedInv
    /\ RowsInv
    /\ ReplyRecorded
    /\ ClientKeyRecorded
    /\ OneRowPerConnection


-----------------------------------------------------------------------------
(* Calls that do not overlap.  KeyAgreeCallProofs proves that the parts below *)
(* are inductive together with IInv.                                          *)

\* Other programs ask for no keys; their other requests, good or bad, are allowed.
PeersAskNothing ==
    "peer" \in Disturbances =>
        \A m \in PeerRequests : m.auth = "bad" \/ m.cmd # NewOrUpdate

\* Every client has a node of its own.
OneNodeEach == \A c, d \in Clients : NodeOf[c] = NodeOf[d] => c = d

\* The request on connection k asks for a key.
Asking(k) == req[k] # NoMsg /\ req[k].auth = "good" /\ req[k].cmd = NewOrUpdate

\* A thread that makes a key or has its response to send.
AtWork(w) ==
    \/ wPc[w] \in {"agree", "shm", "copy", "copyKey", "lost", "insert", "update"}
    \/ wOut[w] # NoMsg

\* At most one client is in a call, and a connection that asks for a key and is not
\* closed is the one of that call: at most one thread makes a key.
AloneInv ==
    /\ \A k \in Conns : resp[k] # NoMsg => sEnd[k] = "closed"
    /\ \A w \in Workers : AtWork(w) => Asking(wConn[w])
    /\ failed = {} =>
         /\ \A c, d \in Clients : InCall(c) /\ InCall(d) => c = d
         /\ \A k \in Conns : Asking(k) /\ sEnd[k] # "closed" =>
              \E c \in Clients : InCall(c) /\ cConn[c] = k

\* A call that cannot return normally any more: its connection is closed without a
\* response, or its thread has none to send.
Doomed(c) ==
    /\ InCall(c) /\ resp[cConn[c]] = NoMsg
    /\ \/ sEnd[cConn[c]] = "closed"
       \/ \E w \in Workers : /\ wPc[w] \in {"shm", "copy", "copyKey", "lost", "insert",
                                        "update", "reply"}
                             /\ wConn[w] = cConn[c] /\ wOut[w] = NoMsg

\* No two keys have the same number, and KEYSN is above all numbers in use, save the
\* one that a thread in updataKeyID is about to step over.
NumbersOk ==
    /\ \A r1, r2 \in db : r1.keyid = r2.keyid => r1 = r2
    /\ \A w \in Workers :
         wPc[w] \in {"shm", "copy", "copyKey", "lost", "insert", "update"} =>
         wInfo[w].seckeyID = keysn
    /\ \A row \in db :
         \/ row.keyid < keysn
         \/ \E w \in Workers : wPc[w] = "update" /\ wConn[w] = row.conn /\ row.keyid = keysn

NumbersInv == failed = {} => NumbersOk \/ \E c \in Clients : Doomed(c)

\* A segment has the secret for node n, or no place for the node.
HasKey(seg, n, sec) ==
    \/ \E i \in PlacesOf(seg, n) : seg[i].info # NoEntry /\ seg[i].info.secKey = sec
    \/ PlacesOf(seg, n) = {} /\ BlankPlaces(seg) = {}

\* Place i is one of node n, or the segment has none for the node.
InPlace(seg, i, n) ==
    IF i = 0 THEN PlacesOf(seg, n) = {} /\ BlankPlaces(seg) = {} ELSE i \in PlacesOf(seg, n)

\* No node has two places of a segment.
OnePlaceEach(seg) == \A n \in Nodes : \A i, j \in PlacesOf(seg, n) : i = j

\* From shmWrite on, the segment has the key that the thread, then the response, and
\* in the end the client has.
AgreeInv ==
    failed = {} =>
        /\ OnePlaceEach(srvShm)
        /\ \A w \in Workers : wPc[w] = "copy" =>
             wPlace[w] \in Targets(srvShm, req[wConn[w]].node)
        /\ \A w \in Workers : wPc[w] = "copyKey" =>
             InPlace(srvShm, wPlace[w], req[wConn[w]].node)
        /\ \A w \in Workers : wPc[w] \in {"insert", "update", "reply"} /\ wOut[w] # NoMsg =>
             HasKey(srvShm, req[wConn[w]].node, wInfo[w].secKey)
        /\ \A c \in Clients : InCall(c) /\ resp[cConn[c]] # NoMsg =>
             HasKey(srvShm, NodeOf[c], SecretOf(cR1[c], resp[cConn[c]]))
        /\ \A c \in Clients : ~InCall(c) /\ cShm[c] # Blank =>
             HasKey(srvShm, NodeOf[c], cShm[c].secKey)
=============================================================================
