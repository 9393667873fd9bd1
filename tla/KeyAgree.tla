------------------------------- MODULE KeyAgree -------------------------------
(* The key agreement of Server_Client/: ClientOperation::secKeyAgree on the   *)
(* client machines, ServerOperation::startWork and the detached threads       *)
(* myroute on the server, the TCP connections between them, the server's and  *)
(* the clients' shared memory, and the two tables of the key database.        *)
(*                                                                            *)
(* A connection carries one request and one response.  The framing and the    *)
(* TLV coding below it are left out: a message is a record.  Random strings   *)
(* are arbitrary members of Nonces: both sides reseed with time(NULL) before  *)
(* each string, so that any two strings may be equal.                         *)
EXTENDS NodeTable, Sequences

CONSTANTS Clients,       \* client machines, each running testClient
          NodeOf,        \* the node a client is configured with
          Conns,         \* TCP connections; each is used once
          Workers,       \* the threads that the system lets run myroute at one time
          Nonces,        \* random strings of 64 characters
          MaxNode,       \* places in the server's segment
          MaxKeyId,      \* bound on the key numbers handed out
          FirstKeyIds,   \* what KEYSN may hold at the start, NoRow included
          MaxStarts,     \* bound on the number of times the server is started
          Disturbances,  \* what may disturb a run, see AllDisturbances
          PeerRequests,  \* requests of peers other than testClient
          NoConn, NoMsg, NoEntry

AllDisturbances ==
    {"client",   \* a client is killed, or a send or a receive times out (TIMEOUT, 1000 s)
     "kill",     \* the server is killed, or a database call throws
     "signal",   \* SIGUSR1 asks the server to leave
     "thread",   \* pthread_create fails though there is room for a thread
     "peer",     \* a peer other than testClient sends a request
     "stall"}    \* such a peer stops in the middle of its message

NoRow == -1      \* getKeyID's answer when KEYSN has no row

\* RequestCodec::CmdType
NewOrUpdate == 1
Check       == 2
Revoke      == 3
View        == 4

\* auth: whether authCode is the HMAC of r1 under the ids in the request.
Requests == [node : Nodes, cmd : NewOrUpdate..View, r1 : Nonces, auth : {"good", "bad"}]

-----------------------------------------------------------------------------
(* Key material.  r2 fills its 64 bytes, without a terminator, and seckeyid   *)
(* follows it in RespondMsg: strlen(r2), and so the hash and the encoded r2,  *)
(* run on into the bytes of seckeyid up to the first zero byte.  The numbers  *)
(* up to MaxKeyId have one, so that both sides stop at the same byte; the -1  *)
(* of a missing row has none and the server reads on past the struct.         *)

KeyIds == NoRow..MaxKeyId

\* The least number without a zero byte, 0x01010101.
FullKeyId == 16843009

\* The bytes of key number id, lowest first, up to the first zero byte.
LeadBytes(id) ==
    LET byte == <<id % 256, (id \div 256) % 256,
                  (id \div 65536) % 256, (id \div 16777216) % 256>>
        last == {n \in 0..4 : \A i \in 1..n : byte[i] # 0}
    IN  SubSeq(byte, 1, Cardinality(last) - 1)

\* What may follow r2 in the hashed string, the unknown byte after -1 included.
Tails(id) ==
    IF id < 0 THEN {LeadBytes(id), Append(LeadBytes(id), 1)} ELSE {LeadBytes(id)}

\* SHA-512 over r1, r2 and the tail: the hash is kept as what is hashed.
Secrets == [r1 : Nonces, r2 : Nonces, tail : UNION {Tails(id) : id \in KeyIds}]

Responses == [r2 : Nonces, seckeyid : 0..MaxKeyId]

ASSUME KeyAgreeAssumption ==
    /\ NodeOf \in [Clients -> Nodes]
    /\ MaxKeyId \in Nat /\ 0 < MaxKeyId /\ MaxKeyId < FullKeyId
    /\ FirstKeyIds \subseteq NoRow..MaxKeyId
    /\ MaxStarts \in Nat
    /\ MaxNode \in Nat
    /\ Disturbances \subseteq AllDisturbances
    /\ PeerRequests \subseteq Requests
    /\ NoConn \notin Conns
    /\ NoMsg \notin Requests \cup Responses

\* The secret the client derives from its r1 and a response.
SecretOf(r1, rsp) == [r1 |-> r1, r2 |-> rsp.r2, tail |-> LeadBytes(rsp.seckeyid)]

Entries == [status : {0, 1}, seckeyID : KeyIds, secKey : Secrets]

\* What a place holds: of an entry, the node's identifiers may be there before the rest.
Infos == Entries \cup {NoEntry}

\* A place with an entry is not blank, for no node's identifiers are empty.
ASSUME NothingAssumption ==
    /\ Blank \notin Entries \cup [node : Nodes, info : Infos]
    /\ NoEntry \notin Entries
    /\ NoMsg \notin [node : Nodes, r1 : Nonces]

-----------------------------------------------------------------------------
VARIABLES
    cPc,       \* where each client is in secKeyAgree; "down": not running
    cConn,     \* TcpSocket::m_socket of each client
    cR1,       \* requestMsg.r1 of each client
    cShm,      \* the one place of each client's segment (maxNode = 1)
    failed,    \* history: the clients a call of which did not return normally, or
               \* began during a call of another client
    cEnd,      \* client end of each connection
    sEnd,      \* server end: queued for accept, open, orphan (open, but no thread could
               \* be created for it), closed
    req,       \* request sent on each connection
    resp,      \* response sent on each connection
    srvPc,     \* where the server's main thread is
    flag,      \* ServerOperation::flag
    mClient,   \* ServerOperation::mClient, what acceptConn returned last
    starts,    \* how many times the server was started
    wPc,       \* where each worker thread is in myroute
    wConn,     \* pInfo->tcpSocket of each worker
    wOut,      \* outData of each worker
    wInfo,     \* nodeShmInfo of each worker
    wPlace,    \* where shmWrite of each worker is about to write; 0: nowhere
    srvShm,    \* the server's segment
    db,        \* SECMNG.SECKYEINFO, each row with the connection it is for
    keysn,     \* SECMNG.KEYSN
    mixed      \* history: the places that two threads of the present process were copying
               \* to at one time

clientVars == <<cPc, cConn, cR1, cShm, failed>>
connVars   == <<cEnd, sEnd, req, resp>>
mainVars   == <<srvPc, flag, mClient, starts>>
workerVars == <<wPc, wConn, wOut, wInfo, wPlace>>
storeVars  == <<srvShm, db, keysn, mixed>>
vars == <<clientVars, connVars, mainVars, workerVars, storeVars>>

Rows == [node : Nodes, keyid : KeyIds, state : {0}, seckey : Secrets, conn : Conns]

TypeOK ==
    /\ cPc \in [Clients -> {"idle", "connected", "waiting", "down"}]
    /\ cConn \in [Clients -> Conns \cup {NoConn}]
    /\ cR1 \in [Clients -> Nonces \cup {NoMsg}]
    /\ cShm \in [Clients -> Entries \cup {Blank}]
    /\ failed \subseteq Clients
    /\ cEnd \in [Conns -> {"unused", "open", "closed"}]
    /\ sEnd \in [Conns -> {"unused", "queued", "open", "orphan", "closed"}]
    /\ req \in [Conns -> Requests \cup {NoMsg}]
    /\ resp \in [Conns -> Responses \cup {NoMsg}]
    /\ srvPc \in {"loop", "accept", "spawn", "leaving", "exited", "killed"}
    /\ flag \in {0, 1}
    /\ mClient \in Conns \cup {NoConn}
    /\ starts \in Nat \ {0}
    /\ wPc \in [Workers -> {"free", "recv", "agree", "shm", "copy", "copyKey",
                         "lost", "insert", "update", "reply"}]
    /\ wConn \in [Workers -> Conns \cup {NoConn}]
    /\ wOut \in [Workers -> Responses \cup {NoMsg}]
    /\ wInfo \in [Workers -> Entries \cup {NoEntry}]
    /\ wPlace \in [Workers -> 0..MaxNode]
    /\ srvShm \in Segments(MaxNode, Infos)
    /\ db \subseteq Rows
    /\ keysn \in NoRow..(MaxKeyId + 1)
    /\ mixed \subseteq 1..MaxNode

Init ==
    /\ cPc = [c \in Clients |-> "idle"]
    /\ cConn = [c \in Clients |-> NoConn]
    /\ cR1 = [c \in Clients |-> NoMsg]
    /\ cShm = [c \in Clients |-> Blank]
    /\ failed = {}
    /\ cEnd = [k \in Conns |-> "unused"]
    /\ sEnd = [k \in Conns |-> "unused"]
    /\ req = [k \in Conns |-> NoMsg]
    /\ resp = [k \in Conns |-> NoMsg]
    /\ srvPc = "loop" /\ flag = 0 /\ mClient = NoConn /\ starts = 1
    /\ wPc = [w \in Workers |-> "free"]
    /\ wConn = [w \in Workers |-> NoConn]
    /\ wOut = [w \in Workers |-> NoMsg]
    /\ wInfo = [w \in Workers |-> NoEntry]
    /\ wPlace = [w \in Workers |-> 0]
    /\ srvShm = EmptySegment(MaxNode)
    /\ db = {}
    /\ keysn \in FirstKeyIds
    /\ mixed = {}

-----------------------------------------------------------------------------
(* The client.  testClient runs one call at a time.  No result of the socket  *)
(* calls is looked at: a failed connect makes the send raise SIGPIPE, a       *)
(* failed receive makes the decoder follow a null pointer; both end the       *)
(* process.                                                                   *)

InCall(c) == cPc[c] \in {"connected", "waiting"}

Listening == srvPc \in {"loop", "accept", "spawn"}

\* The client process ends in the middle of a call; the kernel closes its socket.
ClientEnds(c) ==
    /\ cPc' = [cPc EXCEPT ![c] = "down"]
    /\ failed' = failed \cup {c}
    /\ cEnd' = [k \in Conns |-> IF k = cConn[c] THEN "closed" ELSE cEnd[k]]
    /\ cConn' = [cConn EXCEPT ![c] = NoConn]
    /\ UNCHANGED <<cR1, cShm, sEnd, req, resp, mainVars, workerVars, storeVars>>

\* secKeyAgree up to connectToHost: draw r1, encode, connect.
ClientConnect(c) ==
    /\ cPc[c] = "idle" /\ Listening
    /\ \E k \in Conns, r1 \in Nonces :
         /\ cEnd[k] = "unused"
         /\ cEnd' = [cEnd EXCEPT ![k] = "open"]
         /\ sEnd' = [sEnd EXCEPT ![k] = "queued"]
         /\ cConn' = [cConn EXCEPT ![c] = k]
         /\ cR1' = [cR1 EXCEPT ![c] = r1]
    /\ cPc' = [cPc EXCEPT ![c] = "connected"]
    /\ failed' = IF \E d \in Clients : InCall(d) THEN failed \cup {c} ELSE failed
    /\ UNCHANGED <<cShm, req, resp, mainVars, workerVars, storeVars>>

\* connectToHost is refused, the send that follows raises SIGPIPE.
ClientRefused(c) ==
    /\ cPc[c] = "idle" /\ ~Listening
    /\ ClientEnds(c)

\* The request testClient sends.
Request(c) == [node |-> NodeOf[c], cmd |-> NewOrUpdate, r1 |-> cR1[c], auth |-> "good"]

\* sendMsg of the encoded request.  When the connection is not yet through and the
\* send times out, nothing is sent, which the client does not notice: the connection
\* may still come through, and the client waits for the response to no request.
ClientSend(c) ==
    /\ cPc[c] = "connected"
    /\ \/ req' = [req EXCEPT ![cConn[c]] = Request(c)]
       \/ "client" \in Disturbances /\ UNCHANGED req
    /\ cPc' = [cPc EXCEPT ![c] = "waiting"]
    /\ UNCHANGED <<cConn, cR1, cShm, failed, cEnd, sEnd, resp, mainVars, workerVars, storeVars>>

\* The nodeShmInfo the client writes: status 0, key number 1 whatever the response says.
ClientEntry(c, rsp) == [status |-> 0, seckeyID |-> 1, secKey |-> SecretOf(cR1[c], rsp)]

\* recvMsg, decode, hash, shmWrite, disConnect, return 0.
ClientFinish(c) ==
    /\ cPc[c] = "waiting"
    /\ resp[cConn[c]] # NoMsg
    /\ cShm' = [cShm EXCEPT ![c] = ClientEntry(c, resp[cConn[c]])]
    /\ cEnd' = [cEnd EXCEPT ![cConn[c]] = "closed"]
    /\ cConn' = [cConn EXCEPT ![c] = NoConn]
    /\ cPc' = [cPc EXCEPT ![c] = "idle"]
    /\ UNCHANGED <<cR1, failed, sEnd, req, resp, mainVars, workerVars, storeVars>>

\* recvMsg meets the end of the stream; msgDecode(NULL, 0) ends the process.
ClientRecvFails(c) ==
    /\ cPc[c] = "waiting"
    /\ resp[cConn[c]] = NoMsg /\ sEnd[cConn[c]] = "closed"
    /\ ClientEnds(c)

\* The client is killed, or waits in vain for 1000 s and ends as above.
ClientKilled(c) ==
    /\ "client" \in Disturbances
    /\ cPc[c] \in {"connected", "waiting"}
    /\ ClientEnds(c)

\* testClient is started again; its segment is still there.
ClientRestart(c) ==
    /\ cPc[c] = "down"
    /\ cPc' = [cPc EXCEPT ![c] = "idle"]
    /\ UNCHANGED <<cConn, cR1, cShm, failed, connVars, mainVars, workerVars, storeVars>>

\* Another program connects and sends a request of its own, or only a part of it:
\* readn has no timeout for the rest.
PeerConnect(k) ==
    /\ "peer" \in Disturbances
    /\ cEnd[k] = "unused" /\ Listening
    /\ cEnd' = [cEnd EXCEPT ![k] = "open"]
    /\ sEnd' = [sEnd EXCEPT ![k] = "queued"]
    /\ \/ \E m \in PeerRequests : req' = [req EXCEPT ![k] = m]
       \/ "stall" \in Disturbances /\ UNCHANGED req
    /\ UNCHANGED <<clientVars, resp, mainVars, workerVars, storeVars>>

-----------------------------------------------------------------------------
(* The server's main thread, startWork.                                       *)

\* The server process ends wherever its threads are.
ServerEnds(pc) ==
    /\ srvPc' = pc
    /\ mClient' = NoConn
    /\ sEnd' = [k \in Conns |-> IF sEnd[k] = "unused" THEN "unused" ELSE "closed"]
    /\ wPc' = [w \in Workers |-> "free"]
    /\ wConn' = [w \in Workers |-> NoConn]
    /\ wOut' = [w \in Workers |-> NoMsg]
    /\ wInfo' = [w \in Workers |-> NoEntry]
    /\ wPlace' = [w \in Workers |-> 0]
    /\ UNCHANGED <<clientVars, cEnd, req, resp, flag, starts, storeVars>>

\* The top of the loop: leave it, and close the listening socket, when flag is set.
SrvCheckFlag ==
    /\ srvPc = "loop"
    /\ \/ /\ flag = 1
          /\ srvPc' = "leaving"
          /\ sEnd' = [k \in Conns |-> IF sEnd[k] = "queued" THEN "closed" ELSE sEnd[k]]
       \/ /\ flag # 1
          /\ srvPc' = "accept"
          /\ UNCHANGED sEnd
    /\ UNCHANGED <<clientVars, cEnd, req, resp, flag, mClient, starts, workerVars, storeVars>>

\* acceptConn(3) returns a connection.
SrvAccept ==
    /\ srvPc = "accept"
    /\ \E k \in Conns :
         /\ sEnd[k] = "queued"
         /\ sEnd' = [sEnd EXCEPT ![k] = "open"]
         /\ mClient' = k
    /\ srvPc' = "spawn"
    /\ UNCHANGED <<clientVars, cEnd, req, resp, flag, starts, workerVars, storeVars>>

\* Variant: only a connection is assigned to mClient, never the NULL, so that the
\* check after acceptConn passes with the connection before.
SrvAcceptTimeoutSpawns ==
    /\ srvPc = "accept"
    /\ \A k \in Conns : sEnd[k] # "queued"
    /\ srvPc' = IF mClient = NoConn THEN "loop" ELSE "spawn"
    /\ UNCHANGED <<clientVars, connVars, flag, mClient, starts, workerVars, storeVars>>

\* Variant: acceptConn(0), which waits for a connection without a timeout.
SrvAcceptTimeoutNever == srvPc = "accept" /\ FALSE /\ UNCHANGED vars

\* acceptConn(3) returns NULL, which mClient takes: nothing came within three seconds.
SrvAcceptTimeout ==
    /\ srvPc = "accept"
    /\ \A k \in Conns : sEnd[k] # "queued"
    /\ srvPc' = "loop"
    /\ mClient' = NoConn
    /\ UNCHANGED <<clientVars, connVars, flag, starts, workerVars, storeVars>>

\* A pthread_info_t of its own for the new, detached thread.
SrvSpawn ==
    /\ srvPc = "spawn"
    /\ \E w \in Workers :
         /\ wPc[w] = "free"
         /\ wPc' = [wPc EXCEPT ![w] = "recv"]
         /\ wConn' = [wConn EXCEPT ![w] = mClient]
    /\ srvPc' = "loop"
    /\ UNCHANGED <<clientVars, connVars, flag, mClient, starts, wOut, wInfo, wPlace, storeVars>>

\* pthread_create fails, which startWork does not look at: nobody serves or closes the
\* connection.  pthread_detach of what is in tid, the number of a thread that is gone or
\* of none, goes unnoticed or ends the process.
SrvSpawnFails ==
    /\ srvPc = "spawn"
    /\ "thread" \in Disturbances \/ \A w \in Workers : wPc[w] # "free"
    /\ \/ /\ sEnd' = [sEnd EXCEPT ![mClient] = "orphan"]
          /\ srvPc' = "loop"
          /\ UNCHANGED <<clientVars, cEnd, req, resp, flag, mClient, starts, workerVars, storeVars>>
       \/ ServerEnds("killed")

\* main returns after startWork and the process exits under its workers.
SrvExit ==
    /\ srvPc = "leaving"
    /\ ServerEnds("exited")

SrvKilled ==
    /\ "kill" \in Disturbances
    /\ srvPc \notin {"exited", "killed"}
    /\ ServerEnds("killed")

\* fun, the handler of SIGUSR1.
SrvSignal ==
    /\ "signal" \in Disturbances
    /\ srvPc \notin {"exited", "killed"} /\ flag = 0
    /\ flag' = 1
    /\ UNCHANGED <<clientVars, connVars, srvPc, mClient, starts, workerVars, storeVars>>

\* testServer is started again, on the segment and the database it left.
SrvStart ==
    /\ srvPc \in {"exited", "killed"}
    /\ starts < MaxStarts
    /\ starts' = starts + 1
    /\ srvPc' = "loop"
    /\ flag' = 0
    /\ mixed' = {}
    /\ UNCHANGED <<clientVars, connVars, mClient, workerVars, srvShm, db, keysn>>

-----------------------------------------------------------------------------
(* A worker thread, myroute, and within it secKeyAgree.                       *)

Goto(w, pc) == wPc' = [wPc EXCEPT ![w] = pc]

\* The thread ends: its stack and its pInfo are gone.
Returns(w) ==
    /\ Goto(w, "free")
    /\ wConn' = [wConn EXCEPT ![w] = NoConn]
    /\ wOut' = [wOut EXCEPT ![w] = NoMsg]
    /\ wInfo' = [wInfo EXCEPT ![w] = NoEntry]
    /\ wPlace' = [wPlace EXCEPT ![w] = 0]

\* recvMsg, decode, check of the authentication code, dispatch on cmdType.  A
\* worker that refuses a request returns without closing its connection.
WorkerRecv(w) ==
    /\ wPc[w] = "recv"
    /\ req[wConn[w]] # NoMsg
    /\ LET m == req[wConn[w]]
       IN  \/ /\ m.auth = "good" /\ m.cmd = NewOrUpdate
              /\ Goto(w, "agree")
              /\ UNCHANGED <<wConn, wOut, wInfo, wPlace>>
           \/ /\ m.auth = "good" /\ m.cmd \in {Check, Revoke}
              /\ Goto(w, "reply")
              /\ UNCHANGED <<wConn, wOut, wInfo, wPlace>>
           \/ /\ m.auth = "bad" \/ m.cmd = View
              /\ Returns(w)
    /\ UNCHANGED <<clientVars, connVars, mainVars, storeVars>>

\* recvMsg fails: msgDecode(NULL, -1) takes the whole server process down.
WorkerRecvFails(w) ==
    /\ wPc[w] = "recv"
    /\ req[wConn[w]] = NoMsg
    /\ cEnd[wConn[w]] = "closed" \/ "client" \in Disturbances
    /\ ServerEnds("killed")

\* Variant: a number out of the coder's range is sent all the same.
EncodedUnchecked(r2, id) == [r2 |-> r2, seckeyid |-> id]

\* outData after msgEncode: the coder refuses -1, which nobody notices.
Encoded(r2, id) == IF id < 0 THEN NoMsg ELSE [r2 |-> r2, seckeyid |-> id]

\* nodeShmInfo for the request of worker w, with the number just read.
InfoOf(w, r2, tail) ==
    [status |-> 1, seckeyID |-> keysn,
     secKey |-> [r1 |-> req[wConn[w]].r1, r2 |-> r2, tail |-> tail]]

\* getRandString, getKeyID, msgEncode and the hash.
Prepare(w) ==
    /\ \E r2 \in Nonces, tail \in Tails(keysn) :
         /\ wInfo' = [wInfo EXCEPT ![w] = InfoOf(w, r2, tail)]
         /\ wOut' = [wOut EXCEPT ![w] = Encoded(r2, keysn)]
    /\ Goto(w, "shm")
    /\ UNCHANGED <<wConn, wPlace>>

\* Variant: secKeyAgree returns -1 when the coder fails, and so does myroute.
WorkerGetKeyIDReturns(w) ==
    /\ wPc[w] = "agree"
    /\ keysn <= MaxKeyId
    /\ IF keysn < 0 THEN Returns(w) ELSE Prepare(w)
    /\ UNCHANGED <<clientVars, connVars, mainVars, storeVars>>

\* The first half of secKeyAgree, up to the shared memory.
WorkerGetKeyID(w) ==
    /\ wPc[w] = "agree"
    /\ keysn <= MaxKeyId
    /\ Prepare(w)
    /\ UNCHANGED <<clientVars, connVars, mainVars, storeVars>>

\* mShm->shmWrite(&nodeShmInfo), first half: map the segment and look for the
\* node's place or a blank one.  Nothing is locked.
WorkerShmFind(w) ==
    /\ wPc[w] = "shm"
    /\ \E i \in Targets(srvShm, req[wConn[w]].node) : wPlace' = [wPlace EXCEPT ![w] = i]
    /\ Goto(w, "copy")
    /\ UNCHANGED <<clientVars, connVars, mainVars, wConn, wOut, wInfo, storeVars>>

\* shmWrite, second half: copy the entry to the place found, whatever it holds now.
\* The memcpy takes time; its halves are those of SecKeyShm, the ids and then the rest.
WorkerShmCopy(w) ==
    /\ wPc[w] = "copy"
    /\ srvShm' = PutNode(srvShm, wPlace[w], req[wConn[w]].node, NoEntry)
    /\ mixed' = mixed \cup {i \in 1..MaxNode :
                    i = wPlace[w] /\ \E v \in Workers : wPc[v] = "copyKey" /\ wPlace[v] = i}
    /\ Goto(w, "copyKey")
    /\ UNCHANGED <<clientVars, connVars, mainVars, wConn, wOut, wInfo, wPlace, db, keysn>>

\* Variant: the response is sent before the database is written.
WorkerShmWriteReplies(w) ==
    /\ wPc[w] = "copyKey"
    /\ srvShm' = PutInfo(srvShm, wPlace[w], wInfo[w])
    /\ Goto(w, "reply")
    /\ UNCHANGED <<clientVars, connVars, mainVars, wConn, wOut, wInfo, wPlace, db, keysn, mixed>>

\* Variant: an entry that is there is kept.
WorkerShmWriteOnce(w) ==
    /\ wPc[w] = "copyKey"
    /\ srvShm' = IF wPlace[w] # 0 /\ srvShm[wPlace[w]].info = NoEntry
                 THEN PutInfo(srvShm, wPlace[w], wInfo[w])
                 ELSE srvShm
    /\ Goto(w, "insert")
    /\ UNCHANGED <<clientVars, connVars, mainVars, wConn, wOut, wInfo, wPlace, db, keysn, mixed>>

\* The copy's second half, and unMapShm.  All threads share ShareMemory::mShmAddr, the
\* mapping of whoever mapped last: it may be another thread that loses its mapping.
WorkerShmWrite(w) ==
    /\ wPc[w] = "copyKey"
    /\ srvShm' = PutInfo(srvShm, wPlace[w], wInfo[w])
    /\ \E v \in {u \in Workers : wPc[u] \in {"copy", "copyKey"}} :
         wPc' = [wPc EXCEPT ![v] = "lost", ![w] = "insert"]
    /\ wPlace' = [wPlace EXCEPT ![w] = 0]
    /\ UNCHANGED <<clientVars, connVars, mainVars, wConn, wOut, wInfo, db, keysn, mixed>>

\* A thread that lost its mapping touches the segment: SIGSEGV.
WorkerShmFaults(w) ==
    /\ wPc[w] = "lost"
    /\ ServerEnds("killed")

\* mOp->writeSecKey(&nodeShmInfo): one row, state 0, committed at once.
RowOf(k, e) == [node |-> req[k].node, keyid |-> e.seckeyID, state |-> 0,
                seckey |-> e.secKey, conn |-> k]

\* Variant: the database refuses a second row with a key number, unnoticed.
WorkerWriteSecKeyRefused(w) ==
    /\ wPc[w] = "insert"
    /\ db' = IF \E row \in db : row.keyid = wInfo[w].seckeyID
             THEN db ELSE db \cup {RowOf(wConn[w], wInfo[w])}
    /\ Goto(w, "update")
    /\ UNCHANGED <<clientVars, connVars, mainVars, wConn, wOut, wInfo, wPlace, srvShm, keysn, mixed>>

WorkerWriteSecKey(w) ==
    /\ wPc[w] = "insert"
    /\ db' = db \cup {RowOf(wConn[w], wInfo[w])}
    /\ Goto(w, "update")
    /\ UNCHANGED <<clientVars, connVars, mainVars, wConn, wOut, wInfo, wPlace, srvShm, keysn, mixed>>

\* Variant: the number just used is written back.
WorkerUpdateKeyIDSame(w) ==
    /\ wPc[w] = "update"
    /\ keysn' = IF keysn = NoRow THEN NoRow ELSE wInfo[w].seckeyID
    /\ Goto(w, "reply")
    /\ UNCHANGED <<clientVars, connVars, mainVars, wConn, wOut, wInfo, wPlace, srvShm, db, mixed>>

\* mOp->updataKeyID(keyId + 1): a missing row stays missing.
WorkerUpdateKeyID(w) ==
    /\ wPc[w] = "update"
    /\ keysn' = IF keysn = NoRow THEN NoRow ELSE wInfo[w].seckeyID + 1
    /\ Goto(w, "reply")
    /\ UNCHANGED <<clientVars, connVars, mainVars, wConn, wOut, wInfo, wPlace, srvShm, db, mixed>>

\* Variant: the response goes to the server's last connection, not to the thread's.
WorkerReplyShared(w) ==
    /\ wPc[w] = "reply" /\ mClient # NoConn
    /\ resp' = [resp EXCEPT ![mClient] = IF cEnd[mClient] = "open" THEN wOut[w] ELSE NoMsg]
    /\ sEnd' = [sEnd EXCEPT ![mClient] = "closed"]
    /\ Returns(w)
    /\ UNCHANGED <<clientVars, cEnd, req, mainVars, storeVars>>

\* Variant: the agreement is repeated when the response could not be delivered.
WorkerReplyRepeats(w) ==
    /\ wPc[w] = "reply"
    /\ IF cEnd[wConn[w]] = "open"
       THEN /\ resp' = [resp EXCEPT ![wConn[w]] = wOut[w]]
            /\ sEnd' = [sEnd EXCEPT ![wConn[w]] = "closed"]
            /\ Returns(w)
       ELSE Goto(w, "agree") /\ UNCHANGED <<resp, sEnd, wConn, wOut, wInfo, wPlace>>
    /\ UNCHANGED <<clientVars, cEnd, req, mainVars, storeVars>>

\* Variant: without a response the thread returns before it disconnects.
WorkerReplyEarly(w) ==
    /\ wPc[w] = "reply"
    /\ IF wOut[w] = NoMsg THEN UNCHANGED <<resp, sEnd>>
       ELSE /\ resp' = [resp EXCEPT ![wConn[w]] = IF cEnd[wConn[w]] = "open" THEN wOut[w] ELSE NoMsg]
            /\ sEnd' = [sEnd EXCEPT ![wConn[w]] = "closed"]
    /\ Returns(w)
    /\ UNCHANGED <<clientVars, cEnd, req, mainVars, storeVars>>

\* Variant: a thread whose peer has gone returns before it disconnects.
WorkerReplyGone(w) ==
    /\ wPc[w] = "reply"
    /\ IF cEnd[wConn[w]] # "open" THEN UNCHANGED <<resp, sEnd>>
       ELSE /\ resp' = [resp EXCEPT ![wConn[w]] = wOut[w]]
            /\ sEnd' = [sEnd EXCEPT ![wConn[w]] = "closed"]
    /\ Returns(w)
    /\ UNCHANGED <<clientVars, cEnd, req, mainVars, storeVars>>

\* sendMsg (nothing is sent when there is no outData), disConnect, return.
WorkerReply(w) ==
    /\ wPc[w] = "reply"
    /\ resp' = [resp EXCEPT ![wConn[w]] = IF cEnd[wConn[w]] = "open" THEN wOut[w] ELSE NoMsg]
    /\ sEnd' = [sEnd EXCEPT ![wConn[w]] = "closed"]
    /\ Returns(w)
    /\ UNCHANGED <<clientVars, cEnd, req, mainVars, storeVars>>

-----------------------------------------------------------------------------
ClientStep(c) ==
    \/ ClientConnect(c) \/ ClientRefused(c) \/ ClientSend(c) \/ ClientFinish(c)
    \/ ClientRecvFails(c) \/ ClientKilled(c) \/ ClientRestart(c)

SrvLoop ==
    SrvCheckFlag \/ SrvAccept \/ SrvAcceptTimeout \/ SrvSpawn \/ SrvSpawnFails \/ SrvExit

WorkerStep(w) ==
    \/ WorkerRecv(w) \/ WorkerRecvFails(w) \/ WorkerGetKeyID(w) \/ WorkerShmFind(w)
    \/ WorkerShmCopy(w) \/ WorkerShmWrite(w) \/ WorkerShmFaults(w)
    \/ WorkerWriteSecKey(w) \/ WorkerUpdateKeyID(w) \/ WorkerReply(w)

Next ==
    \/ \E c \in Clients : ClientStep(c)
    \/ \E k \in Conns : PeerConnect(k)
    \/ SrvLoop \/ SrvKilled \/ SrvSignal \/ SrvStart
    \/ \E w \in Workers : WorkerStep(w)

\* The threads of a running process are scheduled, select returns after three
\* seconds, and the database answers.  Nobody is obliged to start a program, to
\* ask for a key, to kill a process or to send a signal.
Fairness ==
    /\ WF_vars(SrvLoop)
    /\ \A w \in Workers : WF_vars(WorkerStep(w))
    /\ \A c \in Clients : WF_vars(ClientSend(c) \/ ClientFinish(c) \/ ClientRecvFails(c))

Spec == Init /\ [][Next]_vars
FairSpec == Spec /\ Fairness
-----------------------------------------------------------------------------
(* Properties.                                                                *)

\* The rows of the database for node n and secret sec.
RowsFor(n, sec) == {row \in db : row.node = n /\ row.seckey = sec}

\* Every key in a client's segment was recorded in the database, for the
\* client's node, before the client got it: whatever is killed, and whenever,
\* the server never knows less than a client.  (secKeyAgree writes the database
\* before myroute sends the response.)
ClientKeyRecorded ==
    \A c \in Clients : cShm[c] # Blank => RowsFor(NodeOf[c], cShm[c].secKey) # {}

\* A response belongs to the request on its own connection: the row of that very
\* connection has the number in the response and the secret that the requester
\* will derive from it.  (The main thread hands mClient on through a
\* pthread_info_t of its own for each thread.)
ReplyRecorded ==
    \A k \in Conns : resp[k] # NoMsg =>
        /\ req[k] # NoMsg
        /\ \E row \in db : /\ row.conn = k /\ row.node = req[k].node
                           /\ row.keyid = resp[k].seckeyid
                           /\ row.seckey = SecretOf(req[k].r1, resp[k])

\* No two threads serve one connection, nor does a thread serve the connection
\* that still waits for its thread, nor one whose descriptor is closed.
OwnConnections ==
    /\ \A w \in Workers : wPc[w] # "free" => sEnd[wConn[w]] = "open"
    /\ \A v, w \in Workers :
         wPc[v] # "free" /\ wPc[w] # "free" /\ wConn[v] = wConn[w] => v = w
    /\ srvPc = "spawn" =>
         /\ sEnd[mClient] = "open"
         /\ \A w \in Workers : wPc[w] # "free" => wConn[w] # mClient

\* The server keeps no descriptor that nobody will close, except those of requests it
\* refused and those for which pthread_create failed: every other connection it has
\* accepted and not closed is about to get its thread or has one.
DescriptorsOwned ==
    \A k \in Conns : sEnd[k] = "open" =>
        \/ srvPc = "spawn" /\ mClient = k
        \/ \E w \in Workers : wPc[w] # "free" /\ wConn[w] = k
        \/ req[k] # NoMsg /\ (req[k].auth = "bad" \/ req[k].cmd = View)

\* One request is recorded at most once, crashes and restarts included.
OneRowPerConnection ==
    \A r1, r2 \in db : r1.conn = r2.conn => r1 = r2

\* The calls so far did not overlap, all returned normally and none is under way.
AllReturned == failed = {} /\ \A c \in Clients : cPc[c] = "idle"

\* Between two calls the server's segment has, for the client's node, the secret
\* that the client has, unless other nodes' entries left no place for it: whatever
\* became of the server meanwhile, each side can read what the other one encrypts.
\* Needs calls that do not overlap.
KeysAgree ==
    AllReturned =>
        \A c \in Clients : cShm[c] # Blank =>
            \/ \E e \in Lookup(srvShm, NodeOf[c]) \ {NoEntry} : e.secKey = cShm[c].secKey
            \/ Targets(srvShm, NodeOf[c]) = {0}

\* The entry at place i, its ids and its key together, is in the database, or a thread
\* stands between shmWrite and writeSecKey with it.
Backed(i) ==
    \/ RowsFor(srvShm[i].node, srvShm[i].info.secKey) # {}
    \/ \E w \in Workers : /\ wPc[w] = "insert" /\ wInfo[w] = srvShm[i].info
                          /\ req[wConn[w]].node = srvShm[i].node

\* A copy to place i is under way, or was broken off by the loss of the mapping, which
\* ends the process; or two threads were copying to the place at one time.
Torn(i) ==
    \/ i \in mixed
    \/ \E w \in Workers : wPc[w] \in {"copyKey", "lost"} /\ wPlace[w] = i

\* The key at place i, under whatever ids, is in the database or about to be written to it.
KeyBacked(i) ==
    \/ \E row \in db : row.seckey = srvShm[i].info.secKey
    \/ \E w \in Workers : wPc[w] = "insert" /\ wInfo[w] = srvShm[i].info

\* Until the server process first ends, an entry of its segment is backed unless its
\* place is torn: two overlapping copies may leave the ids of one node with the key of
\* the other for good, but even such a key is never one the database does not get.
SegmentBacked ==
    starts = 1 /\ srvPc \notin {"exited", "killed"} =>
        \A i \in 1..MaxNode : srvShm[i] # Blank /\ srvShm[i].info # NoEntry =>
            (Backed(i) \/ Torn(i)) /\ KeyBacked(i)

\* Between two calls that do not overlap, no two keys have the same number and
\* the next number is above all numbers in use, restarts included.
NumbersUnique ==
    AllReturned =>
        /\ \A r1, r2 \in db : r1.keyid = r2.keyid => r1 = r2
        /\ \A row \in db : row.keyid < keysn

\* SIGUSR1 makes the server leave: no connection, waiting or silent, and no
\* worker keeps startWork in its loop.
ServerLeaves == (flag = 1) ~> (srvPc \in {"exited", "killed"})

\* A call of secKeyAgree comes to an end, though not always a good one, without
\* the help of the 1000 s timeout: every connection of testClient the server
\* took or left in its backlog is answered or closed, unless no thread could be
\* created for it.
CallEnds == \A c \in Clients : InCall(c) ~> (~InCall(c) \/ sEnd[cConn[c]] = "orphan")

(* The abstract service: what each call asked, what is recorded, who has what. *)
Asked    == [k \in Conns |-> IF req[k] = NoMsg THEN NoMsg
                             ELSE [node |-> req[k].node, r1 |-> req[k].r1]]
Recorded == {[conn |-> row.conn, node |-> row.node, seckey |-> row.seckey] : row \in db}
Held     == [c \in Clients |-> IF cShm[c] = Blank THEN Blank ELSE cShm[c].secKey]

Service == INSTANCE KeyService WITH
    Calls <- Conns, Requests <- [node : Nodes, r1 : Nonces], Keys <- Secrets,
    NoCall <- NoConn, NoRequest <- NoMsg, NoKey <- Blank,
    call <- cConn, asked <- Asked, recorded <- Recorded, held <- Held

\* However threads interleave and whatever is killed, a call is recorded at most once,
\* for what it asked, and a client gets a key only from the record of its own call.
ImplementsService == Service!Spec

(* What the sources say and the code does not do.                             *)

\* OCCIOP.cpp:67-68: writing the key to the database updates the key number.  The
\* number a thread gets from getKeyID is never that of a recorded key.
FreshKeyNumber ==
    [][\A w \in Workers : wPc[w] = "agree" /\ wPc'[w] = "shm" =>
           \A row \in db : row.keyid # wInfo'[w].seckeyID]_vars

\* ServerOperation.cpp:89: after SIGUSR1 the server leaves in a friendly way.  No
\* agreement is left half done, its key in the segment and not in the database.
FriendlyExit ==
    srvPc = "exited" =>
        \A i \in 1..MaxNode : srvShm[i] # Blank /\ srvShm[i].info # NoEntry =>
            RowsFor(srvShm[i].node, srvShm[i].info.secKey) # {}

\* SecKeyShm.cpp:40 and :74: shmWrite writes the node's key to the segment, to a
\* blank place if the node has none.  Once a client has its key and no thread is
\* at work any more, the server's segment has an entry for the client's node.
KeyWritten ==
    (\A w \in Workers : wPc[w] = "free") /\ srvPc \notin {"exited", "killed"} =>
        \A c \in Clients : cShm[c] # Blank => Lookup(srvShm, NodeOf[c]) # {}
=============================================================================
