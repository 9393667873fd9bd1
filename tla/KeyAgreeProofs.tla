---------------------------- MODULE KeyAgreeProofs ----------------------------
(* KeyAgree keeps its invariants for any number of clients, connections,      *)
(* threads, random strings, starts and disturbances: proofs for TLAPS.        *)
(* IInv is inductive (one lemma per conjunct, one step per action, then one   *)
(* lemma for the initial states); SegmentBacked is kept with its help.        *)
EXTENDS KeyAgreeInv, TLAPS

\* Writing a node's ids into a table over S gives a table over S and none.
LEMMA PutNodeType ==
  ASSUME NEW max \in Nat, NEW S, NEW none \in S, NEW seg \in Segments(max, S),
         NEW i \in 0..max, NEW n \in Nodes
  PROVE  PutNode(seg, i, n, none) \in Segments(max, S)
<1>1. CASE i = 0
  BY <1>1 DEF PutNode
<1>2. CASE i \in 1..max
  BY <1>2 DEF PutNode, Segments
<1>3. QED
  BY <1>1, <1>2

\* Writing an entry of S behind the ids of a place of a table over S gives a table over S.
LEMMA PutInfoType ==
  ASSUME NEW max \in Nat, NEW S, NEW seg \in Segments(max, S), NEW i \in 0..max,
         i # 0 => seg[i] # Blank, NEW e \in S
  PROVE  PutInfo(seg, i, e) \in Segments(max, S)
<1>1. CASE i = 0
  BY <1>1 DEF PutInfo
<1>2. CASE i \in 1..max
  <2>1. seg[i] \in [node : Nodes, info : S]
    BY <1>2 DEF Segments
  <2>2. [seg[i] EXCEPT !.info = e] \in [node : Nodes, info : S]
    BY <2>1
  <2>3. QED
    BY <1>2, <2>2 DEF PutInfo, Segments
<1>3. QED
  BY <1>1, <1>2

\* The place shmWrite finds is one of the segment's, or none.
LEMMA TargetsType ==
  ASSUME NEW max \in Nat, NEW S, NEW seg \in Segments(max, S), NEW n \in Nodes
  PROVE  Targets(seg, n) \subseteq 0..max
  BY DEF Targets, FirstOf, PlacesOf, BlankPlaces, Segments

\* A hash over two random strings and a tail of a key number is a secret.
LEMMA SecretType ==
  ASSUME NEW r1 \in Nonces, NEW r2 \in Nonces, NEW id \in KeyIds, NEW tail \in Tails(id)
  PROVE  [r1 |-> r1, r2 |-> r2, tail |-> tail] \in Secrets
  BY DEF Secrets

\* The bytes up to the first zero byte are a possible tail of a number.
LEMMA LeadInTails == \A id : LeadBytes(id) \in Tails(id)
  BY DEF Tails

\* What a client derives from its r1 and a response is a secret.
LEMMA SecretOfType ==
  ASSUME NEW r1 \in Nonces, NEW rsp \in Responses
  PROVE  SecretOf(r1, rsp) \in Secrets
<1>1. rsp.seckeyid \in KeyIds
  BY KeyAgreeAssumption DEF Responses, KeyIds, NoRow
<1>2. QED
  BY <1>1, SecretType, LeadInTails DEF SecretOf, Responses

\* What a client in a call sends is a well-formed request.
LEMMA RequestType ==
  ASSUME TypeOK, ClientInv, NEW c \in Clients, InCall(c)
  PROVE  Request(c) \in Requests
  BY KeyAgreeAssumption DEF ClientInv, Request, Requests, NewOrUpdate, View

\* What a client writes into its segment is a well-formed entry.
LEMMA ClientEntryType ==
  ASSUME TypeOK, ClientInv, NEW c \in Clients, InCall(c), NEW rsp \in Responses
  PROVE  ClientEntry(c, rsp) \in Entries
<1>1. cR1[c] \in Nonces
  BY DEF ClientInv
<1>2. SecretOf(cR1[c], rsp) \in Secrets
  BY <1>1, SecretOfType
<1>3. 1 \in KeyIds
  BY KeyAgreeAssumption DEF KeyIds, NoRow
<1>4. QED
  BY <1>2, <1>3 DEF ClientEntry, Entries

\* What a thread prepares for the segment and the database is a well-formed entry.
LEMMA InfoType ==
  ASSUME TypeOK, WorkerInv, keysn <= MaxKeyId, NEW w \in Workers, wPc[w] = "agree",
         NEW r2 \in Nonces, NEW tail \in Tails(keysn)
  PROVE  InfoOf(w, r2, tail) \in Entries
<1>1. keysn \in KeyIds
  BY DEF TypeOK, KeyIds, NoRow
<1>2. req[wConn[w]].r1 \in Nonces
  BY DEF TypeOK, WorkerInv, Requests
<1>3. [r1 |-> req[wConn[w]].r1, r2 |-> r2, tail |-> tail] \in Secrets
  BY <1>1, <1>2, SecretType
<1>4. QED
  BY <1>1, <1>3 DEF InfoOf, Entries

\* After recvMsg a thread goes on to the agreement or the reply, or it returns.
LEMMA RecvOutcomes ==
  ASSUME NEW w \in Workers, WorkerRecv(w)
  PROVE  \/ /\ \E pc \in {"agree", "reply"} : Goto(w, pc)
            /\ UNCHANGED <<wConn, wOut, wInfo, wPlace>>
         \/ Returns(w)
  BY DEF WorkerRecv

\* Every step keeps the variables in their types.
LEMMA TypeStep == IInv /\ [Next]_vars => TypeOK'
<1> SUFFICES ASSUME IInv, [Next]_vars PROVE TypeOK'
  OBVIOUS
<1> USE KeyAgreeAssumption DEF IInv, TypeOK, ClientInv, WorkerInv, InCall,
           vars, clientVars, connVars, mainVars, workerVars, storeVars
<1>1. ASSUME NEW c \in Clients, ClientConnect(c) PROVE TypeOK'
  BY <1>1 DEF ClientConnect
<1>2. ASSUME NEW c \in Clients, ClientRefused(c) PROVE TypeOK'
  BY <1>2 DEF ClientRefused, ClientEnds
<1>3. ASSUME NEW c \in Clients, ClientSend(c) PROVE TypeOK'
  <2>1. InCall(c)
    BY <1>3 DEF ClientSend, InCall
  <2>2. Request(c) \in Requests
    BY <2>1, RequestType
  <2>3. QED
    BY <1>3, <2>2 DEF ClientSend
<1>4. ASSUME NEW c \in Clients, ClientFinish(c) PROVE TypeOK'
  <2> DEFINE rsp == resp[cConn[c]]
  <2>1. InCall(c) /\ cConn[c] \in Conns
    BY <1>4 DEF ClientFinish, InCall
  <2>2. rsp \in Responses
    BY <1>4, <2>1 DEF ClientFinish
  <2>3. ClientEntry(c, rsp) \in Entries
    BY <2>1, <2>2, ClientEntryType
  <2>4. QED
    BY <1>4, <2>3 DEF ClientFinish
<1>5. ASSUME NEW c \in Clients, ClientRecvFails(c) PROVE TypeOK'
  BY <1>5 DEF ClientRecvFails, ClientEnds
<1>6. ASSUME NEW c \in Clients, ClientKilled(c) PROVE TypeOK'
  BY <1>6 DEF ClientKilled, ClientEnds
<1>7. ASSUME NEW c \in Clients, ClientRestart(c) PROVE TypeOK'
  BY <1>7 DEF ClientRestart
<1>8. ASSUME NEW k \in Conns, PeerConnect(k) PROVE TypeOK'
  BY <1>8 DEF PeerConnect
<1>9. CASE SrvCheckFlag
  BY <1>9 DEF SrvCheckFlag
<1>10. CASE SrvAccept
  BY <1>10 DEF SrvAccept
<1>11. CASE SrvAcceptTimeout
  BY <1>11 DEF SrvAcceptTimeout
<1>12. CASE SrvSpawn
  BY <1>12 DEF SrvSpawn
<1>12a. CASE SrvSpawnFails
  <2>1. CASE ServerEnds("killed")
    BY <2>1 DEF ServerEnds
  <2>2. CASE /\ sEnd' = [sEnd EXCEPT ![mClient] = "orphan"] /\ srvPc' = "loop"
             /\ UNCHANGED <<clientVars, cEnd, req, resp, flag, mClient, starts, workerVars, storeVars>>
    BY <2>2
  <2>3. QED
    BY <1>12a, <2>1, <2>2 DEF SrvSpawnFails
<1>13. CASE SrvExit
  BY <1>13 DEF SrvExit, ServerEnds
<1>14. CASE SrvKilled
  BY <1>14 DEF SrvKilled, ServerEnds
<1>15. CASE SrvSignal
  BY <1>15 DEF SrvSignal
<1>16. CASE SrvStart
  BY <1>16 DEF SrvStart
<1>17. ASSUME NEW w \in Workers, WorkerRecv(w) PROVE TypeOK'
  <2>1. CASE /\ \E pc \in {"agree", "reply"} : Goto(w, pc)
             /\ UNCHANGED <<wConn, wOut, wInfo, wPlace>>
    BY <1>17, <2>1 DEF WorkerRecv, Goto
  <2>2. CASE Returns(w)
    BY <1>17, <2>2 DEF WorkerRecv, Goto, Returns
  <2>3. QED
    BY <1>17, <2>1, <2>2, RecvOutcomes
<1>18. ASSUME NEW w \in Workers, WorkerRecvFails(w) PROVE TypeOK'
  BY <1>18 DEF WorkerRecvFails, ServerEnds
<1>19. ASSUME NEW w \in Workers, WorkerGetKeyID(w) PROVE TypeOK'
  <2>1. PICK r2 \in Nonces, tail \in Tails(keysn) :
          /\ wInfo' = [wInfo EXCEPT ![w] = InfoOf(w, r2, tail)]
          /\ wOut' = [wOut EXCEPT ![w] = Encoded(r2, keysn)]
    BY <1>19 DEF WorkerGetKeyID, Prepare
  <2>2. InfoOf(w, r2, tail) \in Entries
    BY <1>19, InfoType DEF WorkerGetKeyID
  <2>3. Encoded(r2, keysn) \in Responses \cup {NoMsg}
    BY <1>19 DEF WorkerGetKeyID, Encoded, Responses, NoRow
  <2>4. QED
    BY <1>19, <2>1, <2>2, <2>3 DEF WorkerGetKeyID, Prepare, Goto
<1>20. ASSUME NEW w \in Workers, WorkerShmFind(w) PROVE TypeOK'
  <2>1. req[wConn[w]].node \in Nodes
    BY <1>20 DEF WorkerShmFind, Requests
  <2>2. Targets(srvShm, req[wConn[w]].node) \subseteq 0..MaxNode
    BY <2>1, TargetsType
  <2>3. QED
    BY <1>20, <2>2 DEF WorkerShmFind, Goto
<1>20a. ASSUME NEW w \in Workers, WorkerShmCopy(w) PROVE TypeOK'
  <2>1. req[wConn[w]].node \in Nodes
    BY <1>20a DEF WorkerShmCopy, Requests
  <2>2. PutNode(srvShm, wPlace[w], req[wConn[w]].node, NoEntry) \in Segments(MaxNode, Infos)
    BY <2>1, PutNodeType DEF Infos
  <2>3. mixed' \subseteq 1..MaxNode
    BY <1>20a DEF WorkerShmCopy
  <2>4. QED
    BY <1>20a, <2>2, <2>3 DEF WorkerShmCopy, Goto
<1>21. ASSUME NEW w \in Workers, WorkerShmWrite(w) PROVE TypeOK'
  <2>1. wInfo[w] \in Infos /\ (wPlace[w] # 0 => srvShm[wPlace[w]] # Blank)
    BY <1>21 DEF WorkerShmWrite, CopyInv, Infos
  <2>2. PutInfo(srvShm, wPlace[w], wInfo[w]) \in Segments(MaxNode, Infos)
    BY <2>1, PutInfoType
  <2>3. QED
    BY <1>21, <2>2 DEF WorkerShmWrite
<1>22. ASSUME NEW w \in Workers, WorkerShmFaults(w) PROVE TypeOK'
  BY <1>22 DEF WorkerShmFaults, ServerEnds
<1>23. ASSUME NEW w \in Workers, WorkerWriteSecKey(w) PROVE TypeOK'
  <2>1. RowOf(wConn[w], wInfo[w]) \in Rows
    BY <1>23 DEF WorkerWriteSecKey, RowOf, Rows, Requests, Entries
  <2>2. QED
    BY <1>23, <2>1 DEF WorkerWriteSecKey, Goto
<1>24. ASSUME NEW w \in Workers, WorkerUpdateKeyID(w) PROVE TypeOK'
  <2>1. wInfo[w].seckeyID \in KeyIds
    BY <1>24 DEF WorkerUpdateKeyID, Entries
  <2>2. keysn' \in NoRow..(MaxKeyId + 1)
    BY <1>24, <2>1 DEF WorkerUpdateKeyID, KeyIds, NoRow
  <2>3. QED
    BY <1>24, <2>2 DEF WorkerUpdateKeyID, Goto
<1>25. ASSUME NEW w \in Workers, WorkerReply(w) PROVE TypeOK'
  BY <1>25 DEF WorkerReply, Goto, Returns
<1>26. CASE UNCHANGED vars
  BY <1>26
<1>27. QED
  BY <1>1, <1>2, <1>3, <1>4, <1>5, <1>6, <1>7, <1>8, <1>9, <1>10, <1>11, <1>12, <1>12a, <1>13,
     <1>14, <1>15, <1>16, <1>17, <1>18, <1>19, <1>20, <1>20a, <1>21, <1>22, <1>23,
     <1>24, <1>25, <1>26 DEF Next, ClientStep, SrvLoop, WorkerStep

\* Every step keeps a client's connection its own and its request unchanged.
LEMMA ClientStepInv == IInv /\ [Next]_vars => ClientInv'
<1> SUFFICES ASSUME IInv, [Next]_vars PROVE ClientInv'
  OBVIOUS
<1> USE KeyAgreeAssumption DEF IInv, TypeOK, ClientInv, UnusedInv, InCall, Request,
           vars, clientVars, connVars, mainVars, workerVars, storeVars
<1>1. ASSUME NEW c \in Clients, ClientConnect(c) PROVE ClientInv'
  BY <1>1 DEF ClientConnect
<1>2. ASSUME NEW c \in Clients, ClientRefused(c) PROVE ClientInv'
  BY <1>2 DEF ClientRefused, ClientEnds
<1>3. ASSUME NEW c \in Clients, ClientSend(c) PROVE ClientInv'
  BY <1>3 DEF ClientSend
<1>4. ASSUME NEW c \in Clients, ClientFinish(c) PROVE ClientInv'
  BY <1>4 DEF ClientFinish
<1>5. ASSUME NEW c \in Clients, ClientRecvFails(c) PROVE ClientInv'
  BY <1>5 DEF ClientRecvFails, ClientEnds
<1>6. ASSUME NEW c \in Clients, ClientKilled(c) PROVE ClientInv'
  BY <1>6 DEF ClientKilled, ClientEnds
<1>7. ASSUME NEW c \in Clients, ClientRestart(c) PROVE ClientInv'
  BY <1>7 DEF ClientRestart
<1>8. ASSUME NEW k \in Conns, PeerConnect(k) PROVE ClientInv'
  BY <1>8 DEF PeerConnect
<1>9. CASE SrvCheckFlag
  BY <1>9 DEF SrvCheckFlag
<1>10. CASE SrvAccept
  BY <1>10 DEF SrvAccept
<1>11. CASE SrvAcceptTimeout
  BY <1>11 DEF SrvAcceptTimeout
<1>12. CASE SrvSpawn
  BY <1>12 DEF SrvSpawn
<1>12a. CASE SrvSpawnFails
  BY <1>12a DEF SrvSpawnFails, ServerEnds
<1>13. CASE SrvExit
  BY <1>13 DEF SrvExit, ServerEnds
<1>14. CASE SrvKilled
  BY <1>14 DEF SrvKilled, ServerEnds
<1>15. CASE SrvSignal
  BY <1>15 DEF SrvSignal
<1>16. CASE SrvStart
  BY <1>16 DEF SrvStart
<1>17. ASSUME NEW w \in Workers, WorkerRecv(w) PROVE ClientInv'
  BY <1>17 DEF WorkerRecv, Goto, Returns
<1>18. ASSUME NEW w \in Workers, WorkerRecvFails(w) PROVE ClientInv'
  BY <1>18 DEF WorkerRecvFails, ServerEnds
<1>19. ASSUME NEW w \in Workers, WorkerGetKeyID(w) PROVE ClientInv'
  BY <1>19 DEF WorkerGetKeyID, Goto, Prepare
<1>20. ASSUME NEW w \in Workers, WorkerShmFind(w) PROVE ClientInv'
  BY <1>20 DEF WorkerShmFind, Goto
<1>20a. ASSUME NEW w \in Workers, WorkerShmCopy(w) PROVE ClientInv'
  BY <1>20a DEF WorkerShmCopy, Goto
<1>21. ASSUME NEW w \in Workers, WorkerShmWrite(w) PROVE ClientInv'
  BY <1>21 DEF WorkerShmWrite
<1>22. ASSUME NEW w \in Workers, WorkerShmFaults(w) PROVE ClientInv'
  BY <1>22 DEF WorkerShmFaults, ServerEnds
<1>23. ASSUME NEW w \in Workers, WorkerWriteSecKey(w) PROVE ClientInv'
  BY <1>23 DEF WorkerWriteSecKey, Goto
<1>24. ASSUME NEW w \in Workers, WorkerUpdateKeyID(w) PROVE ClientInv'
  BY <1>24 DEF WorkerUpdateKeyID, Goto
<1>25. ASSUME NEW w \in Workers, WorkerReply(w) PROVE ClientInv'
  BY <1>25 DEF WorkerReply, Goto, Returns
<1>26. CASE UNCHANGED vars
  BY <1>26
<1>27. QED
  BY <1>1, <1>2, <1>3, <1>4, <1>5, <1>6, <1>7, <1>8, <1>9, <1>10, <1>11, <1>12, <1>12a, <1>13,
     <1>14, <1>15, <1>16, <1>17, <1>18, <1>19, <1>20, <1>20a, <1>21, <1>22, <1>23,
     <1>24, <1>25, <1>26 DEF Next, ClientStep, SrvLoop, WorkerStep

\* Every step leaves a connection nobody opened untouched on both sides.
LEMMA UnusedStep == IInv /\ [Next]_vars => UnusedInv'
<1> SUFFICES ASSUME IInv, [Next]_vars PROVE UnusedInv'
  OBVIOUS
<1> USE KeyAgreeAssumption DEF IInv, TypeOK, UnusedInv, ClientInv, InCall, OwnConnections,
           vars, clientVars, connVars, mainVars, workerVars, storeVars
<1>1. ASSUME NEW c \in Clients, ClientConnect(c) PROVE UnusedInv'
  BY <1>1 DEF ClientConnect
<1>2. ASSUME NEW c \in Clients, ClientRefused(c) PROVE UnusedInv'
  BY <1>2 DEF ClientRefused, ClientEnds
<1>3. ASSUME NEW c \in Clients, ClientSend(c) PROVE UnusedInv'
  BY <1>3 DEF ClientSend
<1>4. ASSUME NEW c \in Clients, ClientFinish(c) PROVE UnusedInv'
  BY <1>4 DEF ClientFinish
<1>5. ASSUME NEW c \in Clients, ClientRecvFails(c) PROVE UnusedInv'
  BY <1>5 DEF ClientRecvFails, ClientEnds
<1>6. ASSUME NEW c \in Clients, ClientKilled(c) PROVE UnusedInv'
  BY <1>6 DEF ClientKilled, ClientEnds
<1>7. ASSUME NEW c \in Clients, ClientRestart(c) PROVE UnusedInv'
  BY <1>7 DEF ClientRestart
<1>8. ASSUME NEW k \in Conns, PeerConnect(k) PROVE UnusedInv'
  BY <1>8 DEF PeerConnect
<1>9. CASE SrvCheckFlag
  BY <1>9 DEF SrvCheckFlag
<1>10. CASE SrvAccept
  BY <1>10 DEF SrvAccept
<1>11. CASE SrvAcceptTimeout
  BY <1>11 DEF SrvAcceptTimeout
<1>12. CASE SrvSpawn
  BY <1>12 DEF SrvSpawn
<1>12a. CASE SrvSpawnFails
  BY <1>12a DEF SrvSpawnFails, ServerEnds
<1>13. CASE SrvExit
  BY <1>13 DEF SrvExit, ServerEnds
<1>14. CASE SrvKilled
  BY <1>14 DEF SrvKilled, ServerEnds
<1>15. CASE SrvSignal
  BY <1>15 DEF SrvSignal
<1>16. CASE SrvStart
  BY <1>16 DEF SrvStart
<1>17. ASSUME NEW w \in Workers, WorkerRecv(w) PROVE UnusedInv'
  BY <1>17 DEF WorkerRecv, Goto, Returns
<1>18. ASSUME NEW w \in Workers, WorkerRecvFails(w) PROVE UnusedInv'
  BY <1>18 DEF WorkerRecvFails, ServerEnds
<1>19. ASSUME NEW w \in Workers, WorkerGetKeyID(w) PROVE UnusedInv'
  BY <1>19 DEF WorkerGetKeyID, Goto, Prepare
<1>20. ASSUME NEW w \in Workers, WorkerShmFind(w) PROVE UnusedInv'
  BY <1>20 DEF WorkerShmFind, Goto
<1>20a. ASSUME NEW w \in Workers, WorkerShmCopy(w) PROVE UnusedInv'
  BY <1>20a DEF WorkerShmCopy, Goto
<1>21. ASSUME NEW w \in Workers, WorkerShmWrite(w) PROVE UnusedInv'
  BY <1>21 DEF WorkerShmWrite
<1>22. ASSUME NEW w \in Workers, WorkerShmFaults(w) PROVE UnusedInv'
  BY <1>22 DEF WorkerShmFaults, ServerEnds
<1>23. ASSUME NEW w \in Workers, WorkerWriteSecKey(w) PROVE UnusedInv'
  BY <1>23 DEF WorkerWriteSecKey, Goto
<1>24. ASSUME NEW w \in Workers, WorkerUpdateKeyID(w) PROVE UnusedInv'
  BY <1>24 DEF WorkerUpdateKeyID, Goto
<1>25. ASSUME NEW w \in Workers, WorkerReply(w) PROVE UnusedInv'
  BY <1>25 DEF WorkerReply, Goto, Returns
<1>26. CASE UNCHANGED vars
  BY <1>26
<1>27. QED
  BY <1>1, <1>2, <1>3, <1>4, <1>5, <1>6, <1>7, <1>8, <1>9, <1>10, <1>11, <1>12, <1>12a, <1>13,
     <1>14, <1>15, <1>16, <1>17, <1>18, <1>19, <1>20, <1>20a, <1>21, <1>22, <1>23,
     <1>24, <1>25, <1>26 DEF Next, ClientStep, SrvLoop, WorkerStep

\* Every step leaves a thread with its connection and, past recvMsg, its request.
LEMMA WorkerStepInv == IInv /\ [Next]_vars => WorkerInv'
<1> SUFFICES ASSUME IInv, [Next]_vars PROVE WorkerInv'
  OBVIOUS
<1> USE KeyAgreeAssumption DEF IInv, TypeOK, WorkerInv, UnusedInv, ClientInv, InCall,
           vars, clientVars, connVars, mainVars, workerVars, storeVars
<1>1. ASSUME NEW c \in Clients, ClientConnect(c) PROVE WorkerInv'
  BY <1>1 DEF ClientConnect
<1>2. ASSUME NEW c \in Clients, ClientRefused(c) PROVE WorkerInv'
  BY <1>2 DEF ClientRefused, ClientEnds
<1>3. ASSUME NEW c \in Clients, ClientSend(c) PROVE WorkerInv'
  BY <1>3 DEF ClientSend
<1>4. ASSUME NEW c \in Clients, ClientFinish(c) PROVE WorkerInv'
  BY <1>4 DEF ClientFinish
<1>5. ASSUME NEW c \in Clients, ClientRecvFails(c) PROVE WorkerInv'
  BY <1>5 DEF ClientRecvFails, ClientEnds
<1>6. ASSUME NEW c \in Clients, ClientKilled(c) PROVE WorkerInv'
  BY <1>6 DEF ClientKilled, ClientEnds
<1>7. ASSUME NEW c \in Clients, ClientRestart(c) PROVE WorkerInv'
  BY <1>7 DEF ClientRestart
<1>8. ASSUME NEW k \in Conns, PeerConnect(k) PROVE WorkerInv'
  BY <1>8 DEF PeerConnect
<1>9. CASE SrvCheckFlag
  BY <1>9 DEF SrvCheckFlag
<1>10. CASE SrvAccept
  BY <1>10 DEF SrvAccept
<1>11. CASE SrvAcceptTimeout
  BY <1>11 DEF SrvAcceptTimeout
<1>12. CASE SrvSpawn
  BY <1>12 DEF SrvSpawn
<1>12a. CASE SrvSpawnFails
  BY <1>12a DEF SrvSpawnFails, ServerEnds
<1>13. CASE SrvExit
  BY <1>13 DEF SrvExit, ServerEnds
<1>14. CASE SrvKilled
  BY <1>14 DEF SrvKilled, ServerEnds
<1>15. CASE SrvSignal
  BY <1>15 DEF SrvSignal
<1>16. CASE SrvStart
  BY <1>16 DEF SrvStart
<1>17. ASSUME NEW w \in Workers, WorkerRecv(w) PROVE WorkerInv'
  <2>1. CASE /\ \E pc \in {"agree", "reply"} : Goto(w, pc)
             /\ UNCHANGED <<wConn, wOut, wInfo, wPlace>>
    BY <1>17, <2>1 DEF WorkerRecv, Goto
  <2>2. CASE Returns(w)
    BY <1>17, <2>2 DEF WorkerRecv, Goto, Returns
  <2>3. QED
    BY <1>17, <2>1, <2>2, RecvOutcomes
<1>18. ASSUME NEW w \in Workers, WorkerRecvFails(w) PROVE WorkerInv'
  BY <1>18 DEF WorkerRecvFails, ServerEnds
<1>19. ASSUME NEW w \in Workers, WorkerGetKeyID(w) PROVE WorkerInv'
  <2>1. PICK r2 \in Nonces, tail \in Tails(keysn) :
          /\ wInfo' = [wInfo EXCEPT ![w] = InfoOf(w, r2, tail)]
          /\ wOut' = [wOut EXCEPT ![w] = Encoded(r2, keysn)]
    BY <1>19 DEF WorkerGetKeyID, Prepare
  <2>2. InfoOf(w, r2, tail) \in Entries
    BY <1>19, InfoType DEF WorkerGetKeyID
  <2>3. wInfo'[w] \in Entries /\ wInfo'[w].secKey.r1 = req[wConn[w]].r1
    BY <2>1, <2>2 DEF InfoOf
  <2>4. QED
    BY <1>19, <2>1, <2>3 DEF WorkerGetKeyID, Prepare, Goto
<1>20. ASSUME NEW w \in Workers, WorkerShmFind(w) PROVE WorkerInv'
  BY <1>20 DEF WorkerShmFind, Goto
<1>20a. ASSUME NEW w \in Workers, WorkerShmCopy(w) PROVE WorkerInv'
  BY <1>20a DEF WorkerShmCopy, Goto
<1>21. ASSUME NEW w \in Workers, WorkerShmWrite(w) PROVE WorkerInv'
  BY <1>21 DEF WorkerShmWrite
<1>22. ASSUME NEW w \in Workers, WorkerShmFaults(w) PROVE WorkerInv'
  BY <1>22 DEF WorkerShmFaults, ServerEnds
<1>23. ASSUME NEW w \in Workers, WorkerWriteSecKey(w) PROVE WorkerInv'
  BY <1>23 DEF WorkerWriteSecKey, Goto
<1>24. ASSUME NEW w \in Workers, WorkerUpdateKeyID(w) PROVE WorkerInv'
  BY <1>24 DEF WorkerUpdateKeyID, Goto
<1>25. ASSUME NEW w \in Workers, WorkerReply(w) PROVE WorkerInv'
  BY <1>25 DEF WorkerReply, Goto, Returns
<1>26. CASE UNCHANGED vars
  BY <1>26
<1>27. QED
  BY <1>1, <1>2, <1>3, <1>4, <1>5, <1>6, <1>7, <1>8, <1>9, <1>10, <1>11, <1>12, <1>12a, <1>13,
     <1>14, <1>15, <1>16, <1>17, <1>18, <1>19, <1>20, <1>20a, <1>21, <1>22, <1>23,
     <1>24, <1>25, <1>26 DEF Next, ClientStep, SrvLoop, WorkerStep

\* No step gives a connection to two threads or closes one under its thread.
LEMMA OwnStep == IInv /\ [Next]_vars => OwnConnections'
<1> SUFFICES ASSUME IInv, [Next]_vars PROVE OwnConnections'
  OBVIOUS
<1> USE KeyAgreeAssumption DEF IInv, TypeOK, OwnConnections, WorkerInv, UnusedInv,
           vars, clientVars, connVars, mainVars, workerVars, storeVars
<1>1. ASSUME NEW c \in Clients, ClientConnect(c) PROVE OwnConnections'
  BY <1>1 DEF ClientConnect
<1>2. ASSUME NEW c \in Clients, ClientRefused(c) PROVE OwnConnections'
  BY <1>2 DEF ClientRefused, ClientEnds
<1>3. ASSUME NEW c \in Clients, ClientSend(c) PROVE OwnConnections'
  BY <1>3 DEF ClientSend
<1>4. ASSUME NEW c \in Clients, ClientFinish(c) PROVE OwnConnections'
  BY <1>4 DEF ClientFinish
<1>5. ASSUME NEW c \in Clients, ClientRecvFails(c) PROVE OwnConnections'
  BY <1>5 DEF ClientRecvFails, ClientEnds
<1>6. ASSUME NEW c \in Clients, ClientKilled(c) PROVE OwnConnections'
  BY <1>6 DEF ClientKilled, ClientEnds
<1>7. ASSUME NEW c \in Clients, ClientRestart(c) PROVE OwnConnections'
  BY <1>7 DEF ClientRestart
<1>8. ASSUME NEW k \in Conns, PeerConnect(k) PROVE OwnConnections'
  BY <1>8 DEF PeerConnect
<1>9. CASE SrvCheckFlag
  BY <1>9 DEF SrvCheckFlag
<1>10. CASE SrvAccept
  BY <1>10 DEF SrvAccept
<1>11. CASE SrvAcceptTimeout
  BY <1>11 DEF SrvAcceptTimeout
<1>12. CASE SrvSpawn
  BY <1>12 DEF SrvSpawn
<1>12a. CASE SrvSpawnFails
  BY <1>12a DEF SrvSpawnFails, ServerEnds
<1>13. CASE SrvExit
  BY <1>13 DEF SrvExit, ServerEnds
<1>14. CASE SrvKilled
  BY <1>14 DEF SrvKilled, ServerEnds
<1>15. CASE SrvSignal
  BY <1>15 DEF SrvSignal
<1>16. CASE SrvStart
  BY <1>16 DEF SrvStart
<1>17. ASSUME NEW w \in Workers, WorkerRecv(w) PROVE OwnConnections'
  <2>1. CASE /\ \E pc \in {"agree", "reply"} : Goto(w, pc)
             /\ UNCHANGED <<wConn, wOut, wInfo, wPlace>>
    BY <1>17, <2>1 DEF WorkerRecv, Goto
  <2>2. CASE Returns(w)
    BY <1>17, <2>2 DEF WorkerRecv, Goto, Returns
  <2>3. QED
    BY <1>17, <2>1, <2>2, RecvOutcomes
<1>18. ASSUME NEW w \in Workers, WorkerRecvFails(w) PROVE OwnConnections'
  BY <1>18 DEF WorkerRecvFails, ServerEnds
<1>19. ASSUME NEW w \in Workers, WorkerGetKeyID(w) PROVE OwnConnections'
  BY <1>19 DEF WorkerGetKeyID, Goto, Prepare
<1>20. ASSUME NEW w \in Workers, WorkerShmFind(w) PROVE OwnConnections'
  BY <1>20 DEF WorkerShmFind, Goto
<1>20a. ASSUME NEW w \in Workers, WorkerShmCopy(w) PROVE OwnConnections'
  BY <1>20a DEF WorkerShmCopy, Goto
<1>21. ASSUME NEW w \in Workers, WorkerShmWrite(w) PROVE OwnConnections'
  BY <1>21 DEF WorkerShmWrite
<1>22. ASSUME NEW w \in Workers, WorkerShmFaults(w) PROVE OwnConnections'
  BY <1>22 DEF WorkerShmFaults, ServerEnds
<1>23. ASSUME NEW w \in Workers, WorkerWriteSecKey(w) PROVE OwnConnections'
  BY <1>23 DEF WorkerWriteSecKey, Goto
<1>24. ASSUME NEW w \in Workers, WorkerUpdateKeyID(w) PROVE OwnConnections'
  BY <1>24 DEF WorkerUpdateKeyID, Goto
<1>25. ASSUME NEW w \in Workers, WorkerReply(w) PROVE OwnConnections'
  BY <1>25 DEF WorkerReply, Goto, Returns
<1>26. CASE UNCHANGED vars
  BY <1>26
<1>27. QED
  BY <1>1, <1>2, <1>3, <1>4, <1>5, <1>6, <1>7, <1>8, <1>9, <1>10, <1>11, <1>12, <1>12a, <1>13,
     <1>14, <1>15, <1>16, <1>17, <1>18, <1>19, <1>20, <1>20a, <1>21, <1>22, <1>23,
     <1>24, <1>25, <1>26 DEF Next, ClientStep, SrvLoop, WorkerStep

\* No step leaves the server an open descriptor without an owner, but for refusals.
LEMMA DescriptorStep == IInv /\ [Next]_vars => DescriptorsOwned'
<1> SUFFICES ASSUME IInv, [Next]_vars PROVE DescriptorsOwned'
  OBVIOUS
<1> USE KeyAgreeAssumption DEF IInv, TypeOK, DescriptorsOwned, OwnConnections, WorkerInv, UnusedInv,
           ClientInv, InCall, vars, clientVars, connVars, mainVars, workerVars, storeVars
<1>1. ASSUME NEW c \in Clients, ClientConnect(c) PROVE DescriptorsOwned'
  BY <1>1 DEF ClientConnect
<1>2. ASSUME NEW c \in Clients, ClientRefused(c) PROVE DescriptorsOwned'
  BY <1>2 DEF ClientRefused, ClientEnds
<1>3. ASSUME NEW c \in Clients, ClientSend(c) PROVE DescriptorsOwned'
  BY <1>3 DEF ClientSend
<1>4. ASSUME NEW c \in Clients, ClientFinish(c) PROVE DescriptorsOwned'
  BY <1>4 DEF ClientFinish
<1>5. ASSUME NEW c \in Clients, ClientRecvFails(c) PROVE DescriptorsOwned'
  BY <1>5 DEF ClientRecvFails, ClientEnds
<1>6. ASSUME NEW c \in Clients, ClientKilled(c) PROVE DescriptorsOwned'
  BY <1>6 DEF ClientKilled, ClientEnds
<1>7. ASSUME NEW c \in Clients, ClientRestart(c) PROVE DescriptorsOwned'
  BY <1>7 DEF ClientRestart
<1>8. ASSUME NEW k \in Conns, PeerConnect(k) PROVE DescriptorsOwned'
  BY <1>8 DEF PeerConnect
<1>9. CASE SrvCheckFlag
  BY <1>9 DEF SrvCheckFlag
<1>10. CASE SrvAccept
  BY <1>10 DEF SrvAccept
<1>11. CASE SrvAcceptTimeout
  BY <1>11 DEF SrvAcceptTimeout
<1>12. CASE SrvSpawn
  BY <1>12 DEF SrvSpawn
<1>12a. CASE SrvSpawnFails
  BY <1>12a DEF SrvSpawnFails, ServerEnds
<1>13. CASE SrvExit
  BY <1>13 DEF SrvExit, ServerEnds
<1>14. CASE SrvKilled
  BY <1>14 DEF SrvKilled, ServerEnds
<1>15. CASE SrvSignal
  BY <1>15 DEF SrvSignal
<1>16. CASE SrvStart
  BY <1>16 DEF SrvStart
<1>17. ASSUME NEW w \in Workers, WorkerRecv(w) PROVE DescriptorsOwned'
  <2>1. CASE /\ \E pc \in {"agree", "reply"} : Goto(w, pc)
             /\ UNCHANGED <<wConn, wOut, wInfo, wPlace>>
    BY <1>17, <2>1 DEF WorkerRecv, Goto
  <2>2. CASE Returns(w)
    BY <1>17, <2>2 DEF WorkerRecv, Goto, Returns
  <2>3. QED
    BY <1>17, <2>1, <2>2, RecvOutcomes
<1>18. ASSUME NEW w \in Workers, WorkerRecvFails(w) PROVE DescriptorsOwned'
  BY <1>18 DEF WorkerRecvFails, ServerEnds
<1>19. ASSUME NEW w \in Workers, WorkerGetKeyID(w) PROVE DescriptorsOwned'
  BY <1>19 DEF WorkerGetKeyID, Goto, Prepare
<1>20. ASSUME NEW w \in Workers, WorkerShmFind(w) PROVE DescriptorsOwned'
  BY <1>20 DEF WorkerShmFind, Goto
<1>20a. ASSUME NEW w \in Workers, WorkerShmCopy(w) PROVE DescriptorsOwned'
  BY <1>20a DEF WorkerShmCopy, Goto
<1>21. ASSUME NEW w \in Workers, WorkerShmWrite(w) PROVE DescriptorsOwned'
  BY <1>21 DEF WorkerShmWrite
<1>22. ASSUME NEW w \in Workers, WorkerShmFaults(w) PROVE DescriptorsOwned'
  BY <1>22 DEF WorkerShmFaults, ServerEnds
<1>23. ASSUME NEW w \in Workers, WorkerWriteSecKey(w) PROVE DescriptorsOwned'
  BY <1>23 DEF WorkerWriteSecKey, Goto
<1>24. ASSUME NEW w \in Workers, WorkerUpdateKeyID(w) PROVE DescriptorsOwned'
  BY <1>24 DEF WorkerUpdateKeyID, Goto
<1>25. ASSUME NEW w \in Workers, WorkerReply(w) PROVE DescriptorsOwned'
  BY <1>25 DEF WorkerReply, Goto, Returns
<1>26. CASE UNCHANGED vars
  BY <1>26
<1>27. QED
  BY <1>1, <1>2, <1>3, <1>4, <1>5, <1>6, <1>7, <1>8, <1>9, <1>10, <1>11, <1>12, <1>12a, <1>13,
     <1>14, <1>15, <1>16, <1>17, <1>18, <1>19, <1>20, <1>20a, <1>21, <1>22, <1>23,
     <1>24, <1>25, <1>26 DEF Next, ClientStep, SrvLoop, WorkerStep

\* Every step keeps what a thread will send in accord with what it stores.
LEMMA PreparedStep == IInv /\ [Next]_vars => PreparedInv'
<1> SUFFICES ASSUME IInv, [Next]_vars PROVE PreparedInv'
  OBVIOUS
<1> USE KeyAgreeAssumption DEF IInv, TypeOK, PreparedInv, WorkerInv, ClientInv,
           UnusedInv, InCall,
           vars, clientVars, connVars, mainVars, workerVars, storeVars
<1>1. ASSUME NEW c \in Clients, ClientConnect(c) PROVE PreparedInv'
  BY <1>1 DEF ClientConnect
<1>2. ASSUME NEW c \in Clients, ClientRefused(c) PROVE PreparedInv'
  BY <1>2 DEF ClientRefused, ClientEnds
<1>3. ASSUME NEW c \in Clients, ClientSend(c) PROVE PreparedInv'
  BY <1>3 DEF ClientSend
<1>4. ASSUME NEW c \in Clients, ClientFinish(c) PROVE PreparedInv'
  BY <1>4 DEF ClientFinish
<1>5. ASSUME NEW c \in Clients, ClientRecvFails(c) PROVE PreparedInv'
  BY <1>5 DEF ClientRecvFails, ClientEnds
<1>6. ASSUME NEW c \in Clients, ClientKilled(c) PROVE PreparedInv'
  BY <1>6 DEF ClientKilled, ClientEnds
<1>7. ASSUME NEW c \in Clients, ClientRestart(c) PROVE PreparedInv'
  BY <1>7 DEF ClientRestart
<1>8. ASSUME NEW k \in Conns, PeerConnect(k) PROVE PreparedInv'
  BY <1>8 DEF PeerConnect
<1>9. CASE SrvCheckFlag
  BY <1>9 DEF SrvCheckFlag
<1>10. CASE SrvAccept
  BY <1>10 DEF SrvAccept
<1>11. CASE SrvAcceptTimeout
  BY <1>11 DEF SrvAcceptTimeout
<1>12. CASE SrvSpawn
  BY <1>12 DEF SrvSpawn
<1>12a. CASE SrvSpawnFails
  BY <1>12a DEF SrvSpawnFails, ServerEnds
<1>13. CASE SrvExit
  BY <1>13 DEF SrvExit, ServerEnds
<1>14. CASE SrvKilled
  BY <1>14 DEF SrvKilled, ServerEnds
<1>15. CASE SrvSignal
  BY <1>15 DEF SrvSignal
<1>16. CASE SrvStart
  BY <1>16 DEF SrvStart
<1>17. ASSUME NEW w \in Workers, WorkerRecv(w) PROVE PreparedInv'
  BY <1>17 DEF WorkerRecv, Goto, Returns
<1>18. ASSUME NEW w \in Workers, WorkerRecvFails(w) PROVE PreparedInv'
  BY <1>18 DEF WorkerRecvFails, ServerEnds
<1>19. ASSUME NEW w \in Workers, WorkerGetKeyID(w) PROVE PreparedInv'
  <2>1. PICK r2 \in Nonces, tail \in Tails(keysn) :
          /\ wInfo' = [wInfo EXCEPT ![w] = InfoOf(w, r2, tail)]
          /\ wOut' = [wOut EXCEPT ![w] = Encoded(r2, keysn)]
    BY <1>19 DEF WorkerGetKeyID, Prepare
  <2>2. InfoOf(w, r2, tail) \in Entries
    BY <1>19, InfoType DEF WorkerGetKeyID
  <2>3. ASSUME Encoded(r2, keysn) # NoMsg
        PROVE  /\ InfoOf(w, r2, tail).seckeyID = Encoded(r2, keysn).seckeyid
               /\ InfoOf(w, r2, tail).secKey = SecretOf(req[wConn[w]].r1, Encoded(r2, keysn))
    BY <2>3 DEF Encoded, InfoOf, SecretOf, Tails, NoRow
  <2>4. \A v \in Workers : v # w => wInfo'[v] = wInfo[v] /\ wOut'[v] = wOut[v]
    BY <2>1
  <2>5. wInfo'[w] = InfoOf(w, r2, tail) /\ wOut'[w] = Encoded(r2, keysn)
    BY <2>1
  <2>6. wConn' = wConn /\ req' = req
    BY <1>19 DEF WorkerGetKeyID, Prepare
  <2>7. QED
    BY <2>2, <2>3, <2>4, <2>5, <2>6
<1>20. ASSUME NEW w \in Workers, WorkerShmFind(w) PROVE PreparedInv'
  BY <1>20 DEF WorkerShmFind, Goto
<1>20a. ASSUME NEW w \in Workers, WorkerShmCopy(w) PROVE PreparedInv'
  BY <1>20a DEF WorkerShmCopy, Goto
<1>21. ASSUME NEW w \in Workers, WorkerShmWrite(w) PROVE PreparedInv'
  BY <1>21 DEF WorkerShmWrite
<1>22. ASSUME NEW w \in Workers, WorkerShmFaults(w) PROVE PreparedInv'
  BY <1>22 DEF WorkerShmFaults, ServerEnds
<1>23. ASSUME NEW w \in Workers, WorkerWriteSecKey(w) PROVE PreparedInv'
  BY <1>23 DEF WorkerWriteSecKey, Goto
<1>24. ASSUME NEW w \in Workers, WorkerUpdateKeyID(w) PROVE PreparedInv'
  BY <1>24 DEF WorkerUpdateKeyID, Goto
<1>25. ASSUME NEW w \in Workers, WorkerReply(w) PROVE PreparedInv'
  BY <1>25 DEF WorkerReply, Goto, Returns
<1>26. CASE UNCHANGED vars
  BY <1>26
<1>27. QED
  BY <1>1, <1>2, <1>3, <1>4, <1>5, <1>6, <1>7, <1>8, <1>9, <1>10, <1>11, <1>12, <1>12a, <1>13,
     <1>14, <1>15, <1>16, <1>17, <1>18, <1>19, <1>20, <1>20a, <1>21, <1>22, <1>23,
     <1>24, <1>25, <1>26 DEF Next, ClientStep, SrvLoop, WorkerStep

\* Every step leaves a place that a thread is copying to with the ids it wrote, unless
\* another thread copies to it.
LEMMA CopyStep == IInv /\ [Next]_vars => CopyInv'
<1> SUFFICES ASSUME IInv, [Next]_vars PROVE CopyInv'
  OBVIOUS
<1> USE KeyAgreeAssumption DEF IInv, TypeOK, ClientInv, UnusedInv, WorkerInv, CopyInv, InCall,
           vars, clientVars, connVars, mainVars, workerVars, storeVars
<1>1. ASSUME NEW c \in Clients, ClientConnect(c) PROVE CopyInv'
  BY <1>1 DEF ClientConnect
<1>2. ASSUME NEW c \in Clients, ClientRefused(c) PROVE CopyInv'
  BY <1>2 DEF ClientRefused, ClientEnds
<1>3. ASSUME NEW c \in Clients, ClientSend(c) PROVE CopyInv'
  BY <1>3 DEF ClientSend
<1>4. ASSUME NEW c \in Clients, ClientFinish(c) PROVE CopyInv'
  BY <1>4 DEF ClientFinish
<1>5. ASSUME NEW c \in Clients, ClientRecvFails(c) PROVE CopyInv'
  BY <1>5 DEF ClientRecvFails, ClientEnds
<1>6. ASSUME NEW c \in Clients, ClientKilled(c) PROVE CopyInv'
  BY <1>6 DEF ClientKilled, ClientEnds
<1>7. ASSUME NEW c \in Clients, ClientRestart(c) PROVE CopyInv'
  BY <1>7 DEF ClientRestart
<1>8. ASSUME NEW k \in Conns, PeerConnect(k) PROVE CopyInv'
  BY <1>8 DEF PeerConnect
<1>9. CASE SrvCheckFlag
  BY <1>9 DEF SrvCheckFlag
<1>10. CASE SrvAccept
  BY <1>10 DEF SrvAccept
<1>11. CASE SrvAcceptTimeout
  BY <1>11 DEF SrvAcceptTimeout
<1>12. CASE SrvSpawn
  BY <1>12 DEF SrvSpawn
<1>12a. CASE SrvSpawnFails
  BY <1>12a DEF SrvSpawnFails, ServerEnds
<1>13. CASE SrvExit
  BY <1>13 DEF SrvExit, ServerEnds
<1>14. CASE SrvKilled
  BY <1>14 DEF SrvKilled, ServerEnds
<1>15. CASE SrvSignal
  BY <1>15 DEF SrvSignal
<1>16. CASE SrvStart
  BY <1>16 DEF SrvStart
<1>17. ASSUME NEW w \in Workers, WorkerRecv(w) PROVE CopyInv'
  BY <1>17 DEF WorkerRecv, Goto, Returns
<1>18. ASSUME NEW w \in Workers, WorkerRecvFails(w) PROVE CopyInv'
  BY <1>18 DEF WorkerRecvFails, ServerEnds
<1>19. ASSUME NEW w \in Workers, WorkerGetKeyID(w) PROVE CopyInv'
  BY <1>19 DEF WorkerGetKeyID, Goto, Prepare
<1>20. ASSUME NEW w \in Workers, WorkerShmFind(w) PROVE CopyInv'
  BY <1>20 DEF WorkerShmFind, Goto
<1>20a. ASSUME NEW w \in Workers, WorkerShmCopy(w) PROVE CopyInv'
  <2> SUFFICES ASSUME NEW v \in Workers, wPc'[v] = "copyKey", wPlace'[v] # 0
               PROVE  /\ srvShm'[wPlace[v]] # Blank
                      /\ \/ wPlace[v] \in mixed'
                         \/ srvShm'[wPlace[v]].node = req[wConn[v]].node
    BY <1>20a DEF WorkerShmCopy
  <2> DEFINE i == wPlace[v]
  <2>1. i \in 1..MaxNode
    BY <1>20a DEF WorkerShmCopy
  <2>2. CASE wPlace[w] = i
    <3>1. srvShm'[i] = [node |-> req[wConn[w]].node,
                        info |-> IF srvShm[i] = Blank THEN NoEntry ELSE srvShm[i].info]
      BY <1>20a, <2>1, <2>2 DEF WorkerShmCopy, PutNode, Segments
    <3>2. srvShm'[i] # Blank
      <4>1. srvShm'[i] \in [node : Nodes, info : Infos]
        BY <1>20a, <2>1, <2>2, <3>1 DEF WorkerShmCopy, Segments, Requests, Infos
      <4>2. QED
        BY <4>1, NothingAssumption
    <3>3. CASE v = w
      BY <3>1, <3>2, <3>3
    <3>4. CASE v # w
      <4>1. wPc[v] = "copyKey"
        BY <1>20a, <3>4 DEF WorkerShmCopy, Goto
      <4>2. i \in mixed'
        BY <1>20a, <2>1, <2>2, <4>1 DEF WorkerShmCopy
      <4>3. QED
        BY <3>2, <4>2
    <3>5. QED
      BY <3>3, <3>4
  <2>3. CASE wPlace[w] # i
    <3>1. v # w /\ wPc[v] = "copyKey" /\ mixed \subseteq mixed'
      BY <1>20a, <2>3 DEF WorkerShmCopy, Goto
    <3>2. srvShm'[i] = srvShm[i]
      BY <1>20a, <2>1, <2>3 DEF WorkerShmCopy, PutNode, Segments
    <3>3. QED
      BY <2>1, <3>1, <3>2
  <2>4. QED
    BY <2>2, <2>3
<1>21. ASSUME NEW w \in Workers, WorkerShmWrite(w) PROVE CopyInv'
  <2> SUFFICES ASSUME NEW v \in Workers, wPc'[v] = "copyKey", wPlace'[v] # 0
               PROVE  /\ srvShm'[wPlace[v]] # Blank
                      /\ \/ wPlace[v] \in mixed
                         \/ srvShm'[wPlace[v]].node = req[wConn[v]].node
    BY <1>21 DEF WorkerShmWrite
  <2> DEFINE i == wPlace[v]
  <2>1. v # w /\ wPc[v] = "copyKey" /\ i \in 1..MaxNode
    BY <1>21 DEF WorkerShmWrite
  <2>2. CASE srvShm'[i] = srvShm[i]
    BY <2>1, <2>2
  <2>3. CASE wPlace[w] = i
    <3>1. srvShm'[i] = [srvShm[i] EXCEPT !.info = wInfo[w]]
      BY <1>21, <2>1, <2>3 DEF WorkerShmWrite, PutInfo, Segments
    <3>2. srvShm[i] \in [node : Nodes, info : Infos] /\ wInfo[w] \in Infos
      BY <1>21, <2>1 DEF WorkerShmWrite, Segments, Infos
    <3>3. srvShm'[i].node = srvShm[i].node /\ srvShm'[i] \in [node : Nodes, info : Infos]
      BY <3>1, <3>2
    <3>4. QED
      BY <2>1, <3>3, NothingAssumption
  <2>4. wPlace[w] = i \/ srvShm'[i] = srvShm[i]
    BY <1>21, <2>1 DEF WorkerShmWrite, PutInfo, Segments
  <2>5. QED
    BY <2>2, <2>3, <2>4
<1>22. ASSUME NEW w \in Workers, WorkerShmFaults(w) PROVE CopyInv'
  BY <1>22 DEF WorkerShmFaults, ServerEnds
<1>23. ASSUME NEW w \in Workers, WorkerWriteSecKey(w) PROVE CopyInv'
  BY <1>23 DEF WorkerWriteSecKey, Goto
<1>24. ASSUME NEW w \in Workers, WorkerUpdateKeyID(w) PROVE CopyInv'
  BY <1>24 DEF WorkerUpdateKeyID, Goto
<1>25. ASSUME NEW w \in Workers, WorkerReply(w) PROVE CopyInv'
  BY <1>25 DEF WorkerReply, Goto, Returns
<1>26. CASE UNCHANGED vars
  BY <1>26
<1>27. QED
  BY <1>1, <1>2, <1>3, <1>4, <1>5, <1>6, <1>7, <1>8, <1>9, <1>10, <1>11, <1>12, <1>12a, <1>13,
     <1>14, <1>15, <1>16, <1>17, <1>18, <1>19, <1>20, <1>20a, <1>21, <1>22, <1>23,
     <1>24, <1>25, <1>26 DEF Next, ClientStep, SrvLoop, WorkerStep

\* Every step keeps a thread that is past writeSecKey with its row in the database.
LEMMA RecordedStep == IInv /\ [Next]_vars => RecordedInv'
<1> SUFFICES ASSUME IInv, [Next]_vars PROVE RecordedInv'
  OBVIOUS
<1> USE KeyAgreeAssumption DEF IInv, TypeOK, RecordedInv, WorkerInv, ClientInv,
           UnusedInv, InCall, RowOf,
           vars, clientVars, connVars, mainVars, workerVars, storeVars
<1>1. ASSUME NEW c \in Clients, ClientConnect(c) PROVE RecordedInv'
  BY <1>1 DEF ClientConnect
<1>2. ASSUME NEW c \in Clients, ClientRefused(c) PROVE RecordedInv'
  BY <1>2 DEF ClientRefused, ClientEnds
<1>3. ASSUME NEW c \in Clients, ClientSend(c) PROVE RecordedInv'
  BY <1>3 DEF ClientSend
<1>4. ASSUME NEW c \in Clients, ClientFinish(c) PROVE RecordedInv'
  BY <1>4 DEF ClientFinish
<1>5. ASSUME NEW c \in Clients, ClientRecvFails(c) PROVE RecordedInv'
  BY <1>5 DEF ClientRecvFails, ClientEnds
<1>6. ASSUME NEW c \in Clients, ClientKilled(c) PROVE RecordedInv'
  BY <1>6 DEF ClientKilled, ClientEnds
<1>7. ASSUME NEW c \in Clients, ClientRestart(c) PROVE RecordedInv'
  BY <1>7 DEF ClientRestart
<1>8. ASSUME NEW k \in Conns, PeerConnect(k) PROVE RecordedInv'
  BY <1>8 DEF PeerConnect
<1>9. CASE SrvCheckFlag
  BY <1>9 DEF SrvCheckFlag
<1>10. CASE SrvAccept
  BY <1>10 DEF SrvAccept
<1>11. CASE SrvAcceptTimeout
  BY <1>11 DEF SrvAcceptTimeout
<1>12. CASE SrvSpawn
  BY <1>12 DEF SrvSpawn
<1>12a. CASE SrvSpawnFails
  BY <1>12a DEF SrvSpawnFails, ServerEnds
<1>13. CASE SrvExit
  BY <1>13 DEF SrvExit, ServerEnds
<1>14. CASE SrvKilled
  BY <1>14 DEF SrvKilled, ServerEnds
<1>15. CASE SrvSignal
  BY <1>15 DEF SrvSignal
<1>16. CASE SrvStart
  BY <1>16 DEF SrvStart
<1>17. ASSUME NEW w \in Workers, WorkerRecv(w) PROVE RecordedInv'
  BY <1>17 DEF WorkerRecv, Goto, Returns
<1>18. ASSUME NEW w \in Workers, WorkerRecvFails(w) PROVE RecordedInv'
  BY <1>18 DEF WorkerRecvFails, ServerEnds
<1>19. ASSUME NEW w \in Workers, WorkerGetKeyID(w) PROVE RecordedInv'
  BY <1>19 DEF WorkerGetKeyID, Goto, Prepare
<1>20. ASSUME NEW w \in Workers, WorkerShmFind(w) PROVE RecordedInv'
  BY <1>20 DEF WorkerShmFind, Goto
<1>20a. ASSUME NEW w \in Workers, WorkerShmCopy(w) PROVE RecordedInv'
  BY <1>20a DEF WorkerShmCopy, Goto
<1>21. ASSUME NEW w \in Workers, WorkerShmWrite(w) PROVE RecordedInv'
  BY <1>21 DEF WorkerShmWrite
<1>22. ASSUME NEW w \in Workers, WorkerShmFaults(w) PROVE RecordedInv'
  BY <1>22 DEF WorkerShmFaults, ServerEnds
<1>23. ASSUME NEW w \in Workers, WorkerWriteSecKey(w) PROVE RecordedInv'
  BY <1>23 DEF WorkerWriteSecKey, Goto
<1>24. ASSUME NEW w \in Workers, WorkerUpdateKeyID(w) PROVE RecordedInv'
  BY <1>24 DEF WorkerUpdateKeyID, Goto
<1>25. ASSUME NEW w \in Workers, WorkerReply(w) PROVE RecordedInv'
  BY <1>25 DEF WorkerReply, Goto, Returns
<1>26. CASE UNCHANGED vars
  BY <1>26
<1>27. QED
  BY <1>1, <1>2, <1>3, <1>4, <1>5, <1>6, <1>7, <1>8, <1>9, <1>10, <1>11, <1>12, <1>12a, <1>13,
     <1>14, <1>15, <1>16, <1>17, <1>18, <1>19, <1>20, <1>20a, <1>21, <1>22, <1>23,
     <1>24, <1>25, <1>26 DEF Next, ClientStep, SrvLoop, WorkerStep

\* Every step keeps a row's connection with the thread that wrote it, or closed.
LEMMA RowsStep == IInv /\ [Next]_vars => RowsInv'
<1> SUFFICES ASSUME IInv, [Next]_vars PROVE RowsInv'
  OBVIOUS
<1> USE KeyAgreeAssumption DEF IInv, TypeOK, RowsInv, OwnConnections, WorkerInv,
           UnusedInv, RowOf, Rows,
           vars, clientVars, connVars, mainVars, workerVars, storeVars
<1>1. ASSUME NEW c \in Clients, ClientConnect(c) PROVE RowsInv'
  BY <1>1 DEF ClientConnect
<1>2. ASSUME NEW c \in Clients, ClientRefused(c) PROVE RowsInv'
  BY <1>2 DEF ClientRefused, ClientEnds
<1>3. ASSUME NEW c \in Clients, ClientSend(c) PROVE RowsInv'
  BY <1>3 DEF ClientSend
<1>4. ASSUME NEW c \in Clients, ClientFinish(c) PROVE RowsInv'
  BY <1>4 DEF ClientFinish
<1>5. ASSUME NEW c \in Clients, ClientRecvFails(c) PROVE RowsInv'
  BY <1>5 DEF ClientRecvFails, ClientEnds
<1>6. ASSUME NEW c \in Clients, ClientKilled(c) PROVE RowsInv'
  BY <1>6 DEF ClientKilled, ClientEnds
<1>7. ASSUME NEW c \in Clients, ClientRestart(c) PROVE RowsInv'
  BY <1>7 DEF ClientRestart
<1>8. ASSUME NEW k \in Conns, PeerConnect(k) PROVE RowsInv'
  BY <1>8 DEF PeerConnect
<1>9. CASE SrvCheckFlag
  BY <1>9 DEF SrvCheckFlag
<1>10. CASE SrvAccept
  BY <1>10 DEF SrvAccept
<1>11. CASE SrvAcceptTimeout
  BY <1>11 DEF SrvAcceptTimeout
<1>12. CASE SrvSpawn
  <2>1. \A v \in Workers : wPc[v] \in {"update", "reply"} =>
          wPc'[v] \in {"update", "reply"} /\ wConn'[v] = wConn[v]
    BY <1>12 DEF SrvSpawn
  <2>2. db' = db /\ sEnd' = sEnd
    BY <1>12 DEF SrvSpawn
  <2>3. QED
    BY <2>1, <2>2
<1>12a. CASE SrvSpawnFails
  BY <1>12a DEF SrvSpawnFails, ServerEnds
<1>13. CASE SrvExit
  <2>1. \A row \in db : row.conn \in Conns /\ sEnd[row.conn] # "unused"
    OBVIOUS
  <2>2. QED
    BY <1>13, <2>1 DEF SrvExit, ServerEnds
<1>14. CASE SrvKilled
  <2>1. \A row \in db : row.conn \in Conns /\ sEnd[row.conn] # "unused"
    OBVIOUS
  <2>2. QED
    BY <1>14, <2>1 DEF SrvKilled, ServerEnds
<1>15. CASE SrvSignal
  BY <1>15 DEF SrvSignal
<1>16. CASE SrvStart
  BY <1>16 DEF SrvStart
<1>17. ASSUME NEW w \in Workers, WorkerRecv(w) PROVE RowsInv'
  BY <1>17 DEF WorkerRecv, Goto, Returns
<1>18. ASSUME NEW w \in Workers, WorkerRecvFails(w) PROVE RowsInv'
  <2>1. \A row \in db : row.conn \in Conns /\ sEnd[row.conn] # "unused"
    OBVIOUS
  <2>2. QED
    BY <1>18, <2>1 DEF WorkerRecvFails, ServerEnds
<1>19. ASSUME NEW w \in Workers, WorkerGetKeyID(w) PROVE RowsInv'
  <2>1. \A v \in Workers : wPc[v] \in {"update", "reply"} =>
          wPc'[v] \in {"update", "reply"} /\ wConn'[v] = wConn[v]
    BY <1>19 DEF WorkerGetKeyID, Prepare, Goto
  <2>2. db' = db /\ sEnd' = sEnd
    BY <1>19 DEF WorkerGetKeyID, Prepare, Goto
  <2>3. QED
    BY <2>1, <2>2
<1>20. ASSUME NEW w \in Workers, WorkerShmFind(w) PROVE RowsInv'
  BY <1>20 DEF WorkerShmFind, Goto
<1>20a. ASSUME NEW w \in Workers, WorkerShmCopy(w) PROVE RowsInv'
  BY <1>20a DEF WorkerShmCopy, Goto
<1>21. ASSUME NEW w \in Workers, WorkerShmWrite(w) PROVE RowsInv'
  <2>1. \A v \in Workers : wPc[v] \in {"update", "reply"} =>
          wPc'[v] \in {"update", "reply"} /\ wConn'[v] = wConn[v]
    BY <1>21 DEF WorkerShmWrite
  <2>2. db' = db /\ sEnd' = sEnd
    BY <1>21 DEF WorkerShmWrite
  <2>3. QED
    BY <2>1, <2>2
<1>22. ASSUME NEW w \in Workers, WorkerShmFaults(w) PROVE RowsInv'
  BY <1>22 DEF WorkerShmFaults, ServerEnds
<1>23. ASSUME NEW w \in Workers, WorkerWriteSecKey(w) PROVE RowsInv'
  BY <1>23 DEF WorkerWriteSecKey, Goto
<1>24. ASSUME NEW w \in Workers, WorkerUpdateKeyID(w) PROVE RowsInv'
  BY <1>24 DEF WorkerUpdateKeyID, Goto
<1>25. ASSUME NEW w \in Workers, WorkerReply(w) PROVE RowsInv'
  BY <1>25 DEF WorkerReply, Goto, Returns
<1>26. CASE UNCHANGED vars
  BY <1>26
<1>27. QED
  BY <1>1, <1>2, <1>3, <1>4, <1>5, <1>6, <1>7, <1>8, <1>9, <1>10, <1>11, <1>12, <1>12a, <1>13,
     <1>14, <1>15, <1>16, <1>17, <1>18, <1>19, <1>20, <1>20a, <1>21, <1>22, <1>23,
     <1>24, <1>25, <1>26 DEF Next, ClientStep, SrvLoop, WorkerStep

\* Every step keeps each response in accord with the row of its own connection.
LEMMA ReplyStep == IInv /\ [Next]_vars => ReplyRecorded'
<1> SUFFICES ASSUME IInv, [Next]_vars PROVE ReplyRecorded'
  OBVIOUS
<1> USE KeyAgreeAssumption DEF IInv, TypeOK, ReplyRecorded, WorkerInv, ClientInv,
           UnusedInv, InCall,
           vars, clientVars, connVars, mainVars, workerVars, storeVars
<1>1. ASSUME NEW c \in Clients, ClientConnect(c) PROVE ReplyRecorded'
  BY <1>1 DEF ClientConnect
<1>2. ASSUME NEW c \in Clients, ClientRefused(c) PROVE ReplyRecorded'
  BY <1>2 DEF ClientRefused, ClientEnds
<1>3. ASSUME NEW c \in Clients, ClientSend(c) PROVE ReplyRecorded'
  BY <1>3 DEF ClientSend
<1>4. ASSUME NEW c \in Clients, ClientFinish(c) PROVE ReplyRecorded'
  BY <1>4 DEF ClientFinish
<1>5. ASSUME NEW c \in Clients, ClientRecvFails(c) PROVE ReplyRecorded'
  BY <1>5 DEF ClientRecvFails, ClientEnds
<1>6. ASSUME NEW c \in Clients, ClientKilled(c) PROVE ReplyRecorded'
  BY <1>6 DEF ClientKilled, ClientEnds
<1>7. ASSUME NEW c \in Clients, ClientRestart(c) PROVE ReplyRecorded'
  BY <1>7 DEF ClientRestart
<1>8. ASSUME NEW k \in Conns, PeerConnect(k) PROVE ReplyRecorded'
  BY <1>8 DEF PeerConnect
<1>9. CASE SrvCheckFlag
  BY <1>9 DEF SrvCheckFlag
<1>10. CASE SrvAccept
  BY <1>10 DEF SrvAccept
<1>11. CASE SrvAcceptTimeout
  BY <1>11 DEF SrvAcceptTimeout
<1>12. CASE SrvSpawn
  BY <1>12 DEF SrvSpawn
<1>12a. CASE SrvSpawnFails
  BY <1>12a DEF SrvSpawnFails, ServerEnds
<1>13. CASE SrvExit
  BY <1>13 DEF SrvExit, ServerEnds
<1>14. CASE SrvKilled
  BY <1>14 DEF SrvKilled, ServerEnds
<1>15. CASE SrvSignal
  BY <1>15 DEF SrvSignal
<1>16. CASE SrvStart
  BY <1>16 DEF SrvStart
<1>17. ASSUME NEW w \in Workers, WorkerRecv(w) PROVE ReplyRecorded'
  BY <1>17 DEF WorkerRecv, Goto, Returns
<1>18. ASSUME NEW w \in Workers, WorkerRecvFails(w) PROVE ReplyRecorded'
  BY <1>18 DEF WorkerRecvFails, ServerEnds
<1>19. ASSUME NEW w \in Workers, WorkerGetKeyID(w) PROVE ReplyRecorded'
  BY <1>19 DEF WorkerGetKeyID, Goto, Prepare
<1>20. ASSUME NEW w \in Workers, WorkerShmFind(w) PROVE ReplyRecorded'
  BY <1>20 DEF WorkerShmFind, Goto
<1>20a. ASSUME NEW w \in Workers, WorkerShmCopy(w) PROVE ReplyRecorded'
  BY <1>20a DEF WorkerShmCopy, Goto
<1>21. ASSUME NEW w \in Workers, WorkerShmWrite(w) PROVE ReplyRecorded'
  BY <1>21 DEF WorkerShmWrite
<1>22. ASSUME NEW w \in Workers, WorkerShmFaults(w) PROVE ReplyRecorded'
  BY <1>22 DEF WorkerShmFaults, ServerEnds
<1>23. ASSUME NEW w \in Workers, WorkerWriteSecKey(w) PROVE ReplyRecorded'
  BY <1>23 DEF WorkerWriteSecKey, Goto
<1>24. ASSUME NEW w \in Workers, WorkerUpdateKeyID(w) PROVE ReplyRecorded'
  BY <1>24 DEF WorkerUpdateKeyID, Goto
<1>25. ASSUME NEW w \in Workers, WorkerReply(w) PROVE ReplyRecorded'
  <2> DEFINE k == wConn[w]
  <2>1. k \in Conns /\ req[k] # NoMsg /\ req' = req /\ db' = db
    BY <1>25 DEF WorkerReply
  <2>2. resp' = [resp EXCEPT ![k] = IF cEnd[k] = "open" THEN wOut[w] ELSE NoMsg]
    BY <1>25 DEF WorkerReply
  <2>3. ASSUME wOut[w] # NoMsg
        PROVE  /\ RowOf(k, wInfo[w]) \in db
               /\ RowOf(k, wInfo[w]).conn = k
               /\ RowOf(k, wInfo[w]).node = req[k].node
               /\ RowOf(k, wInfo[w]).keyid = wOut[w].seckeyid
               /\ RowOf(k, wInfo[w]).seckey = SecretOf(req[k].r1, wOut[w])
    BY <1>25, <2>3 DEF WorkerReply, RecordedInv, PreparedInv, RowOf
  <2>4. QED
    BY <2>1, <2>2, <2>3
<1>26. CASE UNCHANGED vars
  BY <1>26
<1>27. QED
  BY <1>1, <1>2, <1>3, <1>4, <1>5, <1>6, <1>7, <1>8, <1>9, <1>10, <1>11, <1>12, <1>12a, <1>13,
     <1>14, <1>15, <1>16, <1>17, <1>18, <1>19, <1>20, <1>20a, <1>21, <1>22, <1>23,
     <1>24, <1>25, <1>26 DEF Next, ClientStep, SrvLoop, WorkerStep

\* The row of a response to a client has the client's node and the client's secret.
LEMMA ReplyRow ==
    ASSUME ReplyRecorded, NEW k \in Conns, NEW c \in Clients,
           resp[k] # NoMsg, req[k] = Request(c)
    PROVE  \E row \in db : row.node = NodeOf[c] /\ row.seckey = SecretOf(cR1[c], resp[k])
<1>1. Request(c).node = NodeOf[c] /\ Request(c).r1 = cR1[c]
  BY DEF Request
<1>2. PICK row \in db : row.node = req[k].node /\ row.seckey = SecretOf(req[k].r1, resp[k])
  BY DEF ReplyRecorded
<1>3. row.node = NodeOf[c] /\ row.seckey = SecretOf(cR1[c], resp[k])
  BY <1>1, <1>2
<1>4. QED
  BY <1>3

\* Every step keeps the keys in the clients' segments recorded in the database.
LEMMA ClientKeyStep == IInv /\ [Next]_vars => ClientKeyRecorded'
<1> SUFFICES ASSUME IInv, [Next]_vars PROVE ClientKeyRecorded'
  OBVIOUS
<1> USE KeyAgreeAssumption DEF IInv, TypeOK, ClientKeyRecorded, ClientInv, RowsFor,
           vars, clientVars, connVars, mainVars, workerVars, storeVars
<1>1. ASSUME NEW c \in Clients, ClientConnect(c) PROVE ClientKeyRecorded'
  BY <1>1 DEF ClientConnect
<1>2. ASSUME NEW c \in Clients, ClientRefused(c) PROVE ClientKeyRecorded'
  BY <1>2 DEF ClientRefused, ClientEnds
<1>3. ASSUME NEW c \in Clients, ClientSend(c) PROVE ClientKeyRecorded'
  BY <1>3 DEF ClientSend
<1>4. ASSUME NEW c \in Clients, ClientFinish(c) PROVE ClientKeyRecorded'
  <2> DEFINE rsp == resp[cConn[c]]
  <2>1. cConn[c] \in Conns /\ req[cConn[c]] = Request(c) /\ rsp # NoMsg
    BY <1>4 DEF ClientFinish, InCall, ReplyRecorded
  <2>2. PICK row \in db : row.node = NodeOf[c] /\ row.seckey = SecretOf(cR1[c], rsp)
    BY <2>1, ReplyRow
  <2>3. db' = db
    BY <1>4 DEF ClientFinish
  <2>4. SUFFICES ASSUME NEW d \in Clients, cShm'[d] # Blank
                 PROVE  \E r \in db : r.node = NodeOf[d] /\ r.seckey = cShm'[d].secKey
    BY <2>3
  <2>5. \/ cShm'[d] = cShm[d]
        \/ d = c /\ cShm'[d] = ClientEntry(c, rsp)
    BY <1>4 DEF ClientFinish
  <2>6. QED
    BY <2>2, <2>4, <2>5 DEF ClientEntry
<1>5. ASSUME NEW c \in Clients, ClientRecvFails(c) PROVE ClientKeyRecorded'
  BY <1>5 DEF ClientRecvFails, ClientEnds
<1>6. ASSUME NEW c \in Clients, ClientKilled(c) PROVE ClientKeyRecorded'
  BY <1>6 DEF ClientKilled, ClientEnds
<1>7. ASSUME NEW c \in Clients, ClientRestart(c) PROVE ClientKeyRecorded'
  BY <1>7 DEF ClientRestart
<1>8. ASSUME NEW k \in Conns, PeerConnect(k) PROVE ClientKeyRecorded'
  BY <1>8 DEF PeerConnect
<1>9. CASE SrvCheckFlag
  BY <1>9 DEF SrvCheckFlag
<1>10. CASE SrvAccept
  BY <1>10 DEF SrvAccept
<1>11. CASE SrvAcceptTimeout
  BY <1>11 DEF SrvAcceptTimeout
<1>12. CASE SrvSpawn
  BY <1>12 DEF SrvSpawn
<1>12a. CASE SrvSpawnFails
  BY <1>12a DEF SrvSpawnFails, ServerEnds
<1>13. CASE SrvExit
  BY <1>13 DEF SrvExit, ServerEnds
<1>14. CASE SrvKilled
  BY <1>14 DEF SrvKilled, ServerEnds
<1>15. CASE SrvSignal
  BY <1>15 DEF SrvSignal
<1>16. CASE SrvStart
  BY <1>16 DEF SrvStart
<1>17. ASSUME NEW w \in Workers, WorkerRecv(w) PROVE ClientKeyRecorded'
  BY <1>17 DEF WorkerRecv, Goto, Returns
<1>18. ASSUME NEW w \in Workers, WorkerRecvFails(w) PROVE ClientKeyRecorded'
  BY <1>18 DEF WorkerRecvFails, ServerEnds
<1>19. ASSUME NEW w \in Workers, WorkerGetKeyID(w) PROVE ClientKeyRecorded'
  BY <1>19 DEF WorkerGetKeyID, Goto, Prepare
<1>20. ASSUME NEW w \in Workers, WorkerShmFind(w) PROVE ClientKeyRecorded'
  BY <1>20 DEF WorkerShmFind, Goto
<1>20a. ASSUME NEW w \in Workers, WorkerShmCopy(w) PROVE ClientKeyRecorded'
  BY <1>20a DEF WorkerShmCopy, Goto
<1>21. ASSUME NEW w \in Workers, WorkerShmWrite(w) PROVE ClientKeyRecorded'
  BY <1>21 DEF WorkerShmWrite
<1>22. ASSUME NEW w \in Workers, WorkerShmFaults(w) PROVE ClientKeyRecorded'
  BY <1>22 DEF WorkerShmFaults, ServerEnds
<1>23. ASSUME NEW w \in Workers, WorkerWriteSecKey(w) PROVE ClientKeyRecorded'
  BY <1>23 DEF WorkerWriteSecKey, Goto
<1>24. ASSUME NEW w \in Workers, WorkerUpdateKeyID(w) PROVE ClientKeyRecorded'
  BY <1>24 DEF WorkerUpdateKeyID, Goto
<1>25. ASSUME NEW w \in Workers, WorkerReply(w) PROVE ClientKeyRecorded'
  BY <1>25 DEF WorkerReply, Goto, Returns
<1>26. CASE UNCHANGED vars
  BY <1>26
<1>27. QED
  BY <1>1, <1>2, <1>3, <1>4, <1>5, <1>6, <1>7, <1>8, <1>9, <1>10, <1>11, <1>12, <1>12a, <1>13,
     <1>14, <1>15, <1>16, <1>17, <1>18, <1>19, <1>20, <1>20a, <1>21, <1>22, <1>23,
     <1>24, <1>25, <1>26 DEF Next, ClientStep, SrvLoop, WorkerStep

\* A thread that is about to record its request finds no row of it.
LEMMA NoRowYet ==
  ASSUME IInv, NEW w \in Workers, wPc[w] = "insert", NEW row \in db
  PROVE  row.conn # wConn[w]
<1> SUFFICES ASSUME row.conn = wConn[w] PROVE FALSE
  OBVIOUS
<1>1. sEnd[wConn[w]] = "open"
  BY DEF IInv, OwnConnections
<1>2. PICK v \in Workers : wPc[v] \in {"update", "reply"} /\ wConn[v] = wConn[w]
  BY <1>1 DEF IInv, RowsInv
<1>3. v = w
  BY <1>2 DEF IInv, OwnConnections
<1>4. QED
  BY <1>2, <1>3

\* No step records a request a second time.
LEMMA OneRowStep == IInv /\ [Next]_vars => OneRowPerConnection'
<1> SUFFICES ASSUME IInv, [Next]_vars PROVE OneRowPerConnection'
  OBVIOUS
<1> USE KeyAgreeAssumption DEF IInv, TypeOK, OneRowPerConnection, WorkerInv,
           vars, clientVars, connVars, mainVars, workerVars, storeVars
<1>1. ASSUME NEW c \in Clients, ClientConnect(c) PROVE OneRowPerConnection'
  BY <1>1 DEF ClientConnect
<1>2. ASSUME NEW c \in Clients, ClientRefused(c) PROVE OneRowPerConnection'
  BY <1>2 DEF ClientRefused, ClientEnds
<1>3. ASSUME NEW c \in Clients, ClientSend(c) PROVE OneRowPerConnection'
  BY <1>3 DEF ClientSend
<1>4. ASSUME NEW c \in Clients, ClientFinish(c) PROVE OneRowPerConnection'
  BY <1>4 DEF ClientFinish
<1>5. ASSUME NEW c \in Clients, ClientRecvFails(c) PROVE OneRowPerConnection'
  BY <1>5 DEF ClientRecvFails, ClientEnds
<1>6. ASSUME NEW c \in Clients, ClientKilled(c) PROVE OneRowPerConnection'
  BY <1>6 DEF ClientKilled, ClientEnds
<1>7. ASSUME NEW c \in Clients, ClientRestart(c) PROVE OneRowPerConnection'
  BY <1>7 DEF ClientRestart
<1>8. ASSUME NEW k \in Conns, PeerConnect(k) PROVE OneRowPerConnection'
  BY <1>8 DEF PeerConnect
<1>9. CASE SrvCheckFlag
  BY <1>9 DEF SrvCheckFlag
<1>10. CASE SrvAccept
  BY <1>10 DEF SrvAccept
<1>11. CASE SrvAcceptTimeout
  BY <1>11 DEF SrvAcceptTimeout
<1>12. CASE SrvSpawn
  BY <1>12 DEF SrvSpawn
<1>12a. CASE SrvSpawnFails
  BY <1>12a DEF SrvSpawnFails, ServerEnds
<1>13. CASE SrvExit
  BY <1>13 DEF SrvExit, ServerEnds
<1>14. CASE SrvKilled
  BY <1>14 DEF SrvKilled, ServerEnds
<1>15. CASE SrvSignal
  BY <1>15 DEF SrvSignal
<1>16. CASE SrvStart
  BY <1>16 DEF SrvStart
<1>17. ASSUME NEW w \in Workers, WorkerRecv(w) PROVE OneRowPerConnection'
  BY <1>17 DEF WorkerRecv, Goto, Returns
<1>18. ASSUME NEW w \in Workers, WorkerRecvFails(w) PROVE OneRowPerConnection'
  BY <1>18 DEF WorkerRecvFails, ServerEnds
<1>19. ASSUME NEW w \in Workers, WorkerGetKeyID(w) PROVE OneRowPerConnection'
  BY <1>19 DEF WorkerGetKeyID, Goto, Prepare
<1>20. ASSUME NEW w \in Workers, WorkerShmFind(w) PROVE OneRowPerConnection'
  BY <1>20 DEF WorkerShmFind, Goto
<1>20a. ASSUME NEW w \in Workers, WorkerShmCopy(w) PROVE OneRowPerConnection'
  BY <1>20a DEF WorkerShmCopy, Goto
<1>21. ASSUME NEW w \in Workers, WorkerShmWrite(w) PROVE OneRowPerConnection'
  BY <1>21 DEF WorkerShmWrite
<1>22. ASSUME NEW w \in Workers, WorkerShmFaults(w) PROVE OneRowPerConnection'
  BY <1>22 DEF WorkerShmFaults, ServerEnds
<1>23. ASSUME NEW w \in Workers, WorkerWriteSecKey(w) PROVE OneRowPerConnection'
  <2> DEFINE k == wConn[w]
  <2>1. k \in Conns /\ sEnd[k] = "open"
    BY <1>23 DEF WorkerWriteSecKey, OwnConnections
  <2>2. \A row \in db : row.conn # k
    BY <1>23, NoRowYet DEF WorkerWriteSecKey
  <2>3. db' = db \cup {RowOf(k, wInfo[w])} /\ RowOf(k, wInfo[w]).conn = k
    BY <1>23 DEF WorkerWriteSecKey, RowOf
  <2>4. QED
    BY <2>2, <2>3
<1>24. ASSUME NEW w \in Workers, WorkerUpdateKeyID(w) PROVE OneRowPerConnection'
  BY <1>24 DEF WorkerUpdateKeyID, Goto
<1>25. ASSUME NEW w \in Workers, WorkerReply(w) PROVE OneRowPerConnection'
  BY <1>25 DEF WorkerReply, Goto, Returns
<1>26. CASE UNCHANGED vars
  BY <1>26
<1>27. QED
  BY <1>1, <1>2, <1>3, <1>4, <1>5, <1>6, <1>7, <1>8, <1>9, <1>10, <1>11, <1>12, <1>12a, <1>13,
     <1>14, <1>15, <1>16, <1>17, <1>18, <1>19, <1>20, <1>20a, <1>21, <1>22, <1>23,
     <1>24, <1>25, <1>26 DEF Next, ClientStep, SrvLoop, WorkerStep

\* Place i has what SegmentBacked promises.
Sound(i) == srvShm[i] # Blank /\ srvShm[i].info # NoEntry => (Backed(i) \/ Torn(i)) /\ KeyBacked(i)

\* A step that loses no row, no thread on its way to the database and no copy to place i.
Quiet(i) ==
    /\ db \subseteq db' /\ mixed \subseteq mixed'
    /\ \A v \in Workers : wPc[v] = "insert" =>
         /\ wPc'[v] = "insert" /\ wInfo'[v] = wInfo[v]
         /\ req'[wConn'[v]].node = req[wConn[v]].node
    /\ \A v \in Workers : wPc[v] \in {"copyKey", "lost"} /\ wPlace[v] = i =>
         wPc'[v] \in {"copyKey", "lost"} /\ wPlace'[v] = i

\* Such a step keeps the promise of a place it does not write.
LEMMA PlaceKept ==
  ASSUME NEW i, Sound(i), Quiet(i), srvShm'[i] = srvShm[i]
  PROVE  Sound(i)'
<1>1. Backed(i) => Backed(i)'
  <2>1. CASE RowsFor(srvShm[i].node, srvShm[i].info.secKey) # {}
    BY <2>1 DEF RowsFor, Backed, Quiet
  <2>2. ASSUME NEW v \in Workers, wPc[v] = "insert", wInfo[v] = srvShm[i].info,
               req[wConn[v]].node = srvShm[i].node
        PROVE  Backed(i)'
    BY <2>2 DEF Backed, Quiet
  <2>3. QED
    BY <2>1, <2>2 DEF Backed
<1>2. Torn(i) => Torn(i)'
  BY DEF Torn, Quiet
<1>3. KeyBacked(i) => KeyBacked(i)'
  BY DEF KeyBacked, Quiet
<1>4. QED
  BY <1>1, <1>2, <1>3 DEF Sound

\* Nor does it break SegmentBacked when it writes no place and starts no process.
LEMMA SegmentKept ==
  ASSUME SegmentBacked, UNCHANGED <<srvShm, starts>>, \A i \in 1..MaxNode : Quiet(i),
         srvPc \in {"exited", "killed"} => srvPc' \in {"exited", "killed"}
  PROVE  SegmentBacked'
<1> SUFFICES ASSUME starts = 1, srvPc \notin {"exited", "killed"}, NEW i \in 1..MaxNode
             PROVE  Sound(i)'
  BY DEF SegmentBacked, Sound
<1>1. Sound(i)
  BY DEF SegmentBacked, Sound
<1>2. QED
  BY <1>1, PlaceKept

\* Until the server first ends, every step keeps an entry of its segment in the
\* database or in the hands of a thread that is about to write it there.
LEMMA SegmentStep == IInv /\ SegmentBacked /\ [Next]_vars => SegmentBacked'
<1> SUFFICES ASSUME IInv, SegmentBacked, [Next]_vars PROVE SegmentBacked'
  OBVIOUS
<1> USE KeyAgreeAssumption DEF IInv, TypeOK, ClientInv, UnusedInv, WorkerInv, InCall,
           vars, clientVars, connVars, mainVars, workerVars, storeVars
<1>1. ASSUME NEW c \in Clients, ClientConnect(c) PROVE SegmentBacked'
  BY <1>1, SegmentKept DEF Quiet, ClientConnect
<1>2. ASSUME NEW c \in Clients, ClientRefused(c) PROVE SegmentBacked'
  BY <1>2, SegmentKept DEF Quiet, ClientRefused, ClientEnds
<1>3. ASSUME NEW c \in Clients, ClientSend(c) PROVE SegmentBacked'
  BY <1>3, SegmentKept DEF Quiet, ClientSend
<1>4. ASSUME NEW c \in Clients, ClientFinish(c) PROVE SegmentBacked'
  BY <1>4, SegmentKept DEF Quiet, ClientFinish
<1>5. ASSUME NEW c \in Clients, ClientRecvFails(c) PROVE SegmentBacked'
  BY <1>5, SegmentKept DEF Quiet, ClientRecvFails, ClientEnds
<1>6. ASSUME NEW c \in Clients, ClientKilled(c) PROVE SegmentBacked'
  BY <1>6, SegmentKept DEF Quiet, ClientKilled, ClientEnds
<1>7. ASSUME NEW c \in Clients, ClientRestart(c) PROVE SegmentBacked'
  BY <1>7, SegmentKept DEF Quiet, ClientRestart
<1>8. ASSUME NEW k \in Conns, PeerConnect(k) PROVE SegmentBacked'
  BY <1>8, SegmentKept DEF Quiet, PeerConnect
<1>9. CASE SrvCheckFlag
  BY <1>9, SegmentKept DEF Quiet, SrvCheckFlag
<1>10. CASE SrvAccept
  BY <1>10, SegmentKept DEF Quiet, SrvAccept
<1>11. CASE SrvAcceptTimeout
  BY <1>11, SegmentKept DEF Quiet, SrvAcceptTimeout
<1>12. CASE SrvSpawn
  BY <1>12, SegmentKept DEF Quiet, SrvSpawn
<1>12a. CASE SrvSpawnFails
  <2>1. CASE UNCHANGED <<req, starts, workerVars, storeVars>> /\ srvPc = "spawn"
    BY <2>1 DEF Quiet, SegmentBacked, Sound, Backed, Torn, KeyBacked, RowsFor
  <2>2. CASE ServerEnds("killed")
    BY <2>2 DEF ServerEnds, SegmentBacked
  <2>3. QED
    BY <1>12a, <2>1, <2>2 DEF SrvSpawnFails
<1>13. CASE SrvExit
  BY <1>13 DEF SegmentBacked, SrvExit, ServerEnds
<1>14. CASE SrvKilled
  BY <1>14 DEF SegmentBacked, SrvKilled, ServerEnds
<1>15. CASE SrvSignal
  BY <1>15, SegmentKept DEF Quiet, SrvSignal
<1>16. CASE SrvStart
  BY <1>16 DEF SegmentBacked, SrvStart
<1>17. ASSUME NEW w \in Workers, WorkerRecv(w) PROVE SegmentBacked'
  BY <1>17, SegmentKept DEF Quiet, WorkerRecv, Goto, Returns
<1>18. ASSUME NEW w \in Workers, WorkerRecvFails(w) PROVE SegmentBacked'
  BY <1>18 DEF SegmentBacked, WorkerRecvFails, ServerEnds
<1>19. ASSUME NEW w \in Workers, WorkerGetKeyID(w) PROVE SegmentBacked'
  BY <1>19, SegmentKept DEF Quiet, WorkerGetKeyID, Prepare, Goto
<1>20. ASSUME NEW w \in Workers, WorkerShmFind(w) PROVE SegmentBacked'
  BY <1>20, SegmentKept DEF Quiet, WorkerShmFind, Goto
<1>20a. ASSUME NEW w \in Workers, WorkerShmCopy(w) PROVE SegmentBacked'
  <2> SUFFICES ASSUME starts = 1, srvPc \notin {"exited", "killed"}, NEW i \in 1..MaxNode
               PROVE  Sound(i)'
    BY <1>20a DEF WorkerShmCopy, SegmentBacked, Sound
  <2>1. Sound(i)
    BY DEF SegmentBacked, Sound
  <2>2. Quiet(i)
    BY <1>20a DEF WorkerShmCopy, Goto, Quiet
  <2>3. CASE srvShm'[i] = srvShm[i]
    BY <2>1, <2>2, <2>3, PlaceKept
  <2>4. CASE wPlace[w] = i
    <3>1. wPc'[w] = "copyKey" /\ wPlace'[w] = i
      BY <1>20a, <2>4 DEF WorkerShmCopy, Goto
    <3>2. Torn(i)'
      BY <3>1 DEF Torn
    <3>3. srvShm'[i] # Blank /\ srvShm'[i].info # NoEntry =>
            srvShm[i] # Blank /\ srvShm'[i].info = srvShm[i].info
      BY <1>20a, <2>4 DEF WorkerShmCopy, PutNode, Segments
    <3>4. srvShm[i] # Blank /\ srvShm'[i].info = srvShm[i].info /\ KeyBacked(i) => KeyBacked(i)'
      BY <2>2 DEF KeyBacked, Quiet
    <3>5. QED
      BY <2>1, <3>2, <3>3, <3>4 DEF Sound
  <2>5. wPlace[w] = i \/ srvShm'[i] = srvShm[i]
    BY <1>20a DEF WorkerShmCopy, PutNode, Segments
  <2>6. QED
    BY <2>3, <2>4, <2>5
<1>21. ASSUME NEW w \in Workers, WorkerShmWrite(w) PROVE SegmentBacked'
  <2> SUFFICES ASSUME starts = 1, srvPc \notin {"exited", "killed"}, NEW i \in 1..MaxNode
               PROVE  Sound(i)'
    BY <1>21 DEF WorkerShmWrite, SegmentBacked, Sound
  <2>1. Sound(i)
    BY DEF SegmentBacked, Sound
  <2>2. CASE wPlace[w] # i
    <3>1. Quiet(i)
      BY <1>21, <2>2 DEF WorkerShmWrite, Quiet
    <3>2. srvShm'[i] = srvShm[i]
      BY <1>21, <2>2 DEF WorkerShmWrite, PutInfo, Segments
    <3>3. QED
      BY <2>1, <3>1, <3>2, PlaceKept
  <2>3. CASE wPlace[w] = i
    <3>1. /\ wPc'[w] = "insert" /\ UNCHANGED <<wInfo, wConn, req, mixed>>
          /\ wInfo'[w] = srvShm'[i].info /\ srvShm'[i].node = srvShm[i].node
      BY <1>21, <2>3 DEF WorkerShmWrite, PutInfo, Segments, CopyInv
    <3>2. i \in mixed \/ srvShm[i].node = req[wConn[w]].node
      BY <1>21, <2>3 DEF WorkerShmWrite, CopyInv
    <3>3. KeyBacked(i)'
      BY <3>1 DEF KeyBacked
    <3>4. Backed(i)' \/ Torn(i)'
      BY <3>1, <3>2 DEF Backed, Torn
    <3>5. QED
      BY <3>3, <3>4 DEF Sound
  <2>4. QED
    BY <2>2, <2>3
<1>22. ASSUME NEW w \in Workers, WorkerShmFaults(w) PROVE SegmentBacked'
  BY <1>22 DEF SegmentBacked, WorkerShmFaults, ServerEnds
<1>23. ASSUME NEW w \in Workers, WorkerWriteSecKey(w) PROVE SegmentBacked'
  <2> SUFFICES ASSUME starts = 1, srvPc \notin {"exited", "killed"}, NEW i \in 1..MaxNode
               PROVE  Sound(i)'
    BY <1>23 DEF WorkerWriteSecKey, SegmentBacked, Sound
  <2>1. Sound(i)
    BY DEF SegmentBacked, Sound
  <2>2. /\ UNCHANGED <<srvShm, wInfo, wConn, wPlace, req, mixed>>
        /\ wPc[w] = "insert" /\ \A v \in Workers \ {w} : wPc'[v] = wPc[v]
        /\ db' = db \cup {RowOf(wConn[w], wInfo[w])}
    BY <1>23 DEF WorkerWriteSecKey, Goto
  <2>3. CASE wInfo[w] = srvShm[i].info
    <3> DEFINE row == RowOf(wConn[w], wInfo[w])
    <3>1. row \in db' /\ row.seckey = srvShm'[i].info.secKey
      BY <2>2, <2>3 DEF RowOf
    <3>2. KeyBacked(i)'
      BY <3>1 DEF KeyBacked
    <3>3. CASE req[wConn[w]].node = srvShm[i].node
      <4>1. row.node = srvShm'[i].node
        BY <2>2, <3>3 DEF RowOf
      <4>2. QED
        BY <3>1, <3>2, <4>1 DEF Sound, Backed, RowsFor
    <3>4. CASE req[wConn[w]].node # srvShm[i].node
      <4>1. Backed(i) => Backed(i)'
        BY <2>2, <3>4 DEF Backed, RowsFor
      <4>2. Torn(i) => Torn(i)'
        BY <2>2 DEF Torn
      <4>3. QED
        BY <2>1, <2>2, <3>2, <4>1, <4>2 DEF Sound
    <3>5. QED
      BY <3>3, <3>4
  <2>4. CASE wInfo[w] # srvShm[i].info
    <3>1. Backed(i) => Backed(i)'
      BY <2>2, <2>4 DEF Backed, RowsFor
    <3>2. Torn(i) => Torn(i)'
      BY <2>2 DEF Torn
    <3>3. KeyBacked(i) => KeyBacked(i)'
      BY <2>2, <2>4 DEF KeyBacked
    <3>4. QED
      BY <2>1, <2>2, <3>1, <3>2, <3>3 DEF Sound
  <2>5. QED
    BY <2>3, <2>4
<1>24. ASSUME NEW w \in Workers, WorkerUpdateKeyID(w) PROVE SegmentBacked'
  BY <1>24, SegmentKept DEF Quiet, WorkerUpdateKeyID, Goto
<1>25. ASSUME NEW w \in Workers, WorkerReply(w) PROVE SegmentBacked'
  BY <1>25, SegmentKept DEF Quiet, WorkerReply, Goto, Returns
<1>26. CASE UNCHANGED vars
  BY <1>26, SegmentKept DEF Quiet
<1>27. QED
  BY <1>1, <1>2, <1>3, <1>4, <1>5, <1>6, <1>7, <1>8, <1>9, <1>10, <1>11, <1>12, <1>12a, <1>13,
     <1>14, <1>15, <1>16, <1>17, <1>18, <1>19, <1>20, <1>20a, <1>21, <1>22, <1>23,
     <1>24, <1>25, <1>26 DEF Next, ClientStep, SrvLoop, WorkerStep


\* The invariant holds when the programs are started for the first time.
LEMMA InitInv == Init => IInv /\ SegmentBacked
<1> USE KeyAgreeAssumption DEF Init
<1>1. ASSUME Init PROVE TypeOK
  <2>1. srvShm \in Segments(MaxNode, Infos)
    BY <1>1 DEF EmptySegment, Segments
  <2>2. keysn \in NoRow..(MaxKeyId + 1)
    BY <1>1 DEF NoRow
  <2>3. QED
    BY <1>1, <2>1, <2>2 DEF TypeOK
<1>2. ASSUME Init PROVE ClientInv /\ UnusedInv /\ WorkerInv /\ OwnConnections /\ DescriptorsOwned
                         /\ CopyInv
  BY <1>2 DEF ClientInv, UnusedInv, WorkerInv, OwnConnections, DescriptorsOwned, CopyInv, InCall
<1>3. ASSUME Init PROVE PreparedInv /\ RecordedInv /\ RowsInv /\ OneRowPerConnection
  BY <1>3 DEF PreparedInv, RecordedInv, RowsInv, OneRowPerConnection
<1>4. ASSUME Init PROVE ReplyRecorded /\ ClientKeyRecorded /\ SegmentBacked
  BY <1>4 DEF ReplyRecorded, ClientKeyRecorded, SegmentBacked, EmptySegment
<1>5. QED
  BY <1>1, <1>2, <1>3, <1>4 DEF IInv

\* IInv and SegmentBacked hold in every reachable state.
THEOREM Inductive == Spec => [](IInv /\ SegmentBacked)
<1>1. Init => IInv /\ SegmentBacked
  BY InitInv
<1>2. IInv /\ [Next]_vars => IInv'
  BY TypeStep, ClientStepInv, UnusedStep, WorkerStepInv, OwnStep, DescriptorStep, PreparedStep,
     CopyStep, RecordedStep, RowsStep, ReplyStep, ClientKeyStep, OneRowStep DEF IInv
<1>3. IInv /\ SegmentBacked /\ [Next]_vars => (IInv /\ SegmentBacked)'
  BY <1>2, SegmentStep
<1>4. QED
  BY <1>1, <1>3, PTL DEF Spec

\* The variables keep their types: whatever the database says, what is sent is a
\* well-formed response or nothing.
THEOREM TypeCorrect == Spec => []TypeOK
<1>1. IInv /\ SegmentBacked => TypeOK
  BY DEF IInv
<1>2. QED
  BY Inductive, <1>1, PTL

\* Whatever is killed, and whenever, a key in a client's segment is in the
\* database, for that client's node: the server never knows less than a client.
THEOREM ClientKeysRecorded == Spec => []ClientKeyRecorded
<1>1. IInv /\ SegmentBacked => ClientKeyRecorded
  BY DEF IInv
<1>2. QED
  BY Inductive, <1>1, PTL

\* A response on a connection answers the request on that connection, and the row
\* of that connection has its number and its secret, however threads interleave.
THEOREM RepliesRecorded == Spec => []ReplyRecorded
<1>1. IInv /\ SegmentBacked => ReplyRecorded
  BY DEF IInv
<1>2. QED
  BY Inductive, <1>1, PTL

\* A connection is served by at most one thread, and not closed under it.
THEOREM ConnectionsOwned == Spec => []OwnConnections
<1>1. IInv /\ SegmentBacked => OwnConnections
  BY DEF IInv
<1>2. QED
  BY Inductive, <1>1, PTL

\* Whatever ends when, the server forgets no descriptor except those of requests it
\* refuses and those of connections for which pthread_create failed.
THEOREM DescriptorsKept == Spec => []DescriptorsOwned
<1>1. IInv /\ SegmentBacked => DescriptorsOwned
  BY DEF IInv
<1>2. QED
  BY Inductive, <1>1, PTL

\* One request is recorded at most once, crashes and restarts included.
THEOREM OneRow == Spec => []OneRowPerConnection
<1>1. IInv /\ SegmentBacked => OneRowPerConnection
  BY DEF IInv
<1>2. QED
  BY Inductive, <1>1, PTL

\* Until the server process first ends, every key in its segment is in the database or
\* in the hands of a thread between shmWrite and writeSecKey, and so is the pair of ids
\* and key at a place, unless two threads' copies to the place overlapped, halves of the
\* copy being steps of their own, or one is under way.
THEOREM SegmentIsBacked == Spec => []SegmentBacked
<1>1. IInv /\ SegmentBacked => SegmentBacked
  OBVIOUS
<1>2. QED
  BY Inductive, <1>1, PTL

-----------------------------------------------------------------------------
(* KeyAgree implements KeyService: every step is a step of the service or is  *)
(* hidden from it.                                                            *)

\* What the service does not see.
LEMMA Unseen ==
  ASSUME UNCHANGED <<cConn, req, db, cShm>>
  PROVE  UNCHANGED Service!vars
  BY DEF Service!vars, Asked, Recorded, Held

\* The initial states are initial states of the service.
LEMMA ServiceInit == Init => Service!Init
  BY DEF Init, Service!Init, Asked, Recorded, Held

\* A client connects: it begins a call.
LEMMA BeginStep ==
  ASSUME IInv, NEW c \in Clients, ClientConnect(c)
  PROVE  Service!Next
<1> USE DEF IInv, TypeOK, ClientInv, UnusedInv, InCall
<1>1. PICK k \in Conns : cEnd[k] = "unused" /\ cConn' = [cConn EXCEPT ![c] = k]
  BY DEF ClientConnect
<1>2. cConn[c] = NoConn /\ Asked[k] = NoMsg
  BY <1>1 DEF ClientConnect, Asked
<1>3. \A d \in Clients : cConn[d] # k
  BY <1>1, KeyAgreeAssumption
<1>4. UNCHANGED <<Asked, Recorded, Held>>
  BY DEF ClientConnect, Asked, Recorded, Held, storeVars
<1>5. Service!Begin(c, k)
  BY <1>1, <1>2, <1>3, <1>4 DEF Service!Begin
<1>6. QED
  BY <1>1, <1>5 DEF Service!Next

\* A client gives its call up, or is in none.
LEMMA GiveUpStep ==
  ASSUME IInv, NEW c \in Clients, ClientEnds(c)
  PROVE  Service!Next
<1>1. Service!GiveUp(c)
  BY DEF ClientEnds, storeVars, Service!GiveUp, Asked, Recorded, Held
<1>2. QED
  BY <1>1 DEF Service!Next

\* A connection on which nothing was sent gets a request, or still none.
LEMMA AskStep ==
  ASSUME IInv, NEW k \in Conns, NEW m \in Requests, req[k] = NoMsg,
         req' = [req EXCEPT ![k] = m], UNCHANGED <<cConn, cShm, db>>,
         \A c \in Clients : cConn[c] = k => m.node = NodeOf[c]
  PROVE  Service!Next
<1> DEFINE a == [node |-> m.node, r1 |-> m.r1]
<1>1. a \in [node : Nodes, r1 : Nonces]
  BY DEF Requests
<1>2. Asked[k] = NoMsg
  BY DEF Asked
<1>3. Asked' = [Asked EXCEPT ![k] = a]
  BY KeyAgreeAssumption DEF Asked, IInv, TypeOK
<1>4. UNCHANGED <<Recorded, Held>>
  BY DEF Recorded, Held
<1>5. Service!Ask(k, a)
  BY <1>2, <1>3, <1>4 DEF Service!Ask
<1>6. QED
  BY <1>1, <1>5 DEF Service!Next

\* A thread records a request, for the first time.
LEMMA RecordStep ==
  ASSUME IInv, NEW w \in Workers, WorkerWriteSecKey(w)
  PROVE  Service!Next
<1> DEFINE k   == wConn[w]
           key == wInfo[w].secKey
<1> USE DEF IInv, TypeOK
<1>1. k \in Conns /\ req[k] \in Requests /\ req[k] # NoMsg /\ wInfo[w] \in Entries
  BY DEF WorkerWriteSecKey, WorkerInv
<1>2. key \in Secrets /\ key.r1 = req[k].r1
  BY <1>1 DEF WorkerWriteSecKey, Entries, WorkerInv
<1>3. Asked[k] = [node |-> req[k].node, r1 |-> req[k].r1]
  BY <1>1 DEF Asked
<1>4. Asked[k] # NoMsg
  BY <1>1, <1>3, NothingAssumption DEF Requests
<1>5. \A row \in db : row.conn # k
  BY <1>1, NoRowYet DEF WorkerWriteSecKey
<1>6. Recorded' = Recorded \cup {[conn |-> k, node |-> req[k].node, seckey |-> key]}
  <2> DEFINE Seen(row) == [conn |-> row.conn, node |-> row.node, seckey |-> row.seckey]
  <2>1. db' = db \cup {RowOf(k, wInfo[w])}
    BY DEF WorkerWriteSecKey
  <2>2. Seen(RowOf(k, wInfo[w])) = [conn |-> k, node |-> req[k].node, seckey |-> key]
    BY DEF RowOf
  <2>3. Recorded = {Seen(row) : row \in db} /\ Recorded' = {Seen(row) : row \in db'}
    BY DEF Recorded
  <2> HIDE DEF Seen
  <2>4. QED
    BY <2>1, <2>2, <2>3
<1>7. UNCHANGED <<cConn, Asked, Held>>
  BY DEF WorkerWriteSecKey, clientVars, connVars, Asked, Held
<1>8. Service!Record(k, key)
  BY <1>2, <1>3, <1>4, <1>5, <1>6, <1>7 DEF Service!Record, Recorded
<1>9. QED
  BY <1>1, <1>2, <1>8 DEF Service!Next

\* A client takes the key of its own call's record.
LEMMA DeliverStep ==
  ASSUME IInv, NEW c \in Clients, ClientFinish(c)
  PROVE  Service!Next
<1> DEFINE k   == cConn[c]
           rsp == resp[k]
<1> USE DEF IInv, TypeOK, InCall
<1>1. k \in Conns /\ req[k] = Request(c) /\ rsp \in Responses
  BY DEF ClientFinish, ClientInv, ReplyRecorded
<1>2. PICK row \in db : /\ row.conn = k /\ row.node = NodeOf[c]
                       /\ row.seckey = SecretOf(cR1[c], rsp)
  BY <1>1 DEF ClientFinish, ReplyRecorded, Request
<1> DEFINE r == [conn |-> row.conn, node |-> row.node, seckey |-> row.seckey]
<1>3. r \in Recorded
  BY DEF Recorded
<1>4. ClientEntry(c, rsp) # Blank
  <2>1. ClientEntry(c, rsp) \in Entries
    BY <1>1, ClientEntryType DEF ClientFinish
  <2>2. QED
    BY <2>1, NothingAssumption
<1>5. Held' = [Held EXCEPT ![c] = r.seckey]
  BY <1>2, <1>4 DEF ClientFinish, Held, ClientEntry
<1>6. cConn' = [cConn EXCEPT ![c] = NoConn] /\ UNCHANGED <<Asked, Recorded>>
  BY DEF ClientFinish, storeVars, Asked, Recorded
<1>7. Service!Deliver(c, r)
  BY <1>2, <1>5, <1>6 DEF Service!Deliver
<1>8. QED
  BY <1>3, <1>7 DEF Service!Next

\* Every step of the programs is a step of the service or hidden from it.
LEMMA ServiceStep == IInv /\ [Next]_vars => [Service!Next]_(Service!vars)
<1> SUFFICES ASSUME IInv, [Next]_vars PROVE Service!Next \/ UNCHANGED Service!vars
  OBVIOUS
<1> DEFINE Hidden == UNCHANGED <<cConn, req, db, cShm>>
<1> USE DEF clientVars, connVars, mainVars, workerVars, storeVars
<1>1. ASSUME NEW c \in Clients, ClientConnect(c) PROVE Service!Next
  BY <1>1, BeginStep
<1>2. ASSUME NEW c \in Clients, ClientRefused(c) \/ ClientRecvFails(c) \/ ClientKilled(c)
      PROVE  Service!Next
  BY <1>2, GiveUpStep DEF ClientRefused, ClientRecvFails, ClientKilled
<1>3. ASSUME NEW c \in Clients, ClientSend(c) PROVE Service!Next \/ Hidden
  <2>1. InCall(c) /\ cConn[c] \in Conns /\ req[cConn[c]] = NoMsg
    BY <1>3 DEF ClientSend, InCall, IInv, ClientInv
  <2>2. Request(c) \in Requests /\ Request(c).node = NodeOf[c]
    BY <2>1, RequestType DEF IInv, Request
  <2>3. \A d \in Clients : cConn[d] = cConn[c] => d = c
    BY <2>1, KeyAgreeAssumption DEF IInv, ClientInv
  <2>4. CASE req' = [req EXCEPT ![cConn[c]] = Request(c)]
    BY <1>3, <2>1, <2>2, <2>3, <2>4, AskStep DEF ClientSend
  <2>5. CASE UNCHANGED req
    BY <1>3, <2>5 DEF ClientSend
  <2>6. QED
    BY <1>3, <2>4, <2>5 DEF ClientSend
<1>4. ASSUME NEW c \in Clients, ClientFinish(c) PROVE Service!Next
  BY <1>4, DeliverStep
<1>5. ASSUME NEW c \in Clients, ClientRestart(c) PROVE Hidden
  BY <1>5 DEF ClientRestart
<1>6. ASSUME NEW k \in Conns, PeerConnect(k) PROVE Service!Next \/ Hidden
  <2>1. req[k] = NoMsg /\ \A c \in Clients : cConn[c] # k
    BY <1>6, KeyAgreeAssumption DEF PeerConnect, IInv, UnusedInv, ClientInv
  <2>2. ASSUME NEW m \in PeerRequests, req' = [req EXCEPT ![k] = m] PROVE Service!Next
    <3>1. m \in Requests
      BY KeyAgreeAssumption
    <3>2. QED
      BY <1>6, <2>1, <2>2, <3>1, AskStep DEF PeerConnect
  <2>3. QED
    BY <1>6, <2>2 DEF PeerConnect
<1>7. ASSUME SrvLoop \/ SrvKilled \/ SrvSignal \/ SrvStart PROVE Hidden
  BY <1>7 DEF SrvLoop, SrvCheckFlag, SrvAccept, SrvAcceptTimeout, SrvSpawn, SrvSpawnFails,
              SrvExit, SrvKilled, SrvSignal, SrvStart, ServerEnds
<1>8. ASSUME NEW w \in Workers, WorkerWriteSecKey(w) PROVE Service!Next
  BY <1>8, RecordStep
<1>9. ASSUME NEW w \in Workers, WorkerStep(w), ~WorkerWriteSecKey(w) PROVE Hidden
  BY <1>9 DEF WorkerStep, WorkerRecv, WorkerRecvFails, WorkerGetKeyID, WorkerShmFind,
              WorkerShmCopy, WorkerShmWrite, WorkerShmFaults, WorkerUpdateKeyID, WorkerReply, ServerEnds
<1>10. ASSUME UNCHANGED vars PROVE Hidden
  BY <1>10 DEF vars
<1>11. ASSUME Hidden PROVE UNCHANGED Service!vars
  BY <1>11, Unseen
<1>12. QED
  BY <1>1, <1>2, <1>3, <1>4, <1>5, <1>6, <1>7, <1>8, <1>9, <1>10, <1>11
     DEF Next, ClientStep

\* The programs implement the service: each call is recorded at most once, for what it
\* asked, and a client gets a key only from the record of the call it is in.
THEOREM ServiceImplemented == Spec => ImplementsService
<1>1. Init => Service!Init
  BY ServiceInit
<1>2. IInv /\ SegmentBacked /\ [Next]_vars => [Service!Next]_(Service!vars)
  BY ServiceStep
<1>3. QED
  BY <1>1, <1>2, Inductive, PTL DEF Spec, ImplementsService, Service!Spec
=============================================================================
