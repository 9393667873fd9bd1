-------------------------- MODULE KeyAgreeCallProofs --------------------------
(* What the key agreement keeps between calls that do not overlap: key numbers *)
(* are unique and the server has the key each client has.  The history         *)
(* variable failed is empty until a call overlaps another or ends abnormally.  *)
EXTENDS KeyAgreeProofs

LEMMA AloneStep == IInv /\ AloneInv /\ PeersAskNothing /\ [Next]_vars => AloneInv'
<1> SUFFICES ASSUME IInv, AloneInv, PeersAskNothing, [Next]_vars PROVE AloneInv'
  OBVIOUS
<1> USE KeyAgreeAssumption DEF IInv, TypeOK, AloneInv, PeersAskNothing, Asking, AtWork, ClientInv,
           UnusedInv, WorkerInv, InCall, NewOrUpdate, Check, Revoke, View,
           vars, clientVars, connVars, mainVars, workerVars, storeVars
<1>1. ASSUME NEW c \in Clients, ClientConnect(c) PROVE AloneInv'
  <2>1. PICK k \in Conns : /\ cEnd[k] = "unused"
                           /\ sEnd' = [sEnd EXCEPT ![k] = "queued"]
                           /\ cConn' = [cConn EXCEPT ![c] = k]
    BY <1>1 DEF ClientConnect
  <2>2. req[k] = NoMsg /\ resp[k] = NoMsg
    BY <2>1
  <2>3. \A j \in Conns : resp'[j] # NoMsg => sEnd'[j] = "closed"
    BY <1>1, <2>1, <2>2 DEF ClientConnect
  <2>4. \A w \in Workers : AtWork(w)' => Asking(wConn[w])'
    BY <1>1 DEF ClientConnect
  <2>5. failed' = {} => failed = {} /\ \A d \in Clients : ~InCall(d)
    BY <1>1 DEF ClientConnect
  <2>6. \A d \in Clients : InCall(d)' => d = c \/ InCall(d)
    BY <1>1 DEF ClientConnect
  <2>7. \A j \in Conns : Asking(j)' /\ sEnd'[j] # "closed" => Asking(j) /\ sEnd[j] # "closed"
    BY <1>1, <2>1, <2>2 DEF ClientConnect
  <2>8. UNCHANGED wConn
    BY <1>1 DEF ClientConnect
  <2>9. QED
    BY <2>3, <2>4, <2>5, <2>6, <2>7, <2>8
<1>2. ASSUME NEW c \in Clients, ClientRefused(c) PROVE AloneInv'
  BY <1>2 DEF ClientRefused, ClientEnds
<1>3. ASSUME NEW c \in Clients, ClientSend(c) PROVE AloneInv'
  BY <1>3 DEF ClientSend, Request
<1>4. ASSUME NEW c \in Clients, ClientFinish(c) PROVE AloneInv'
  BY <1>4 DEF ClientFinish
<1>5. ASSUME NEW c \in Clients, ClientRecvFails(c) PROVE AloneInv'
  BY <1>5 DEF ClientRecvFails, ClientEnds
<1>6. ASSUME NEW c \in Clients, ClientKilled(c) PROVE AloneInv'
  BY <1>6 DEF ClientKilled, ClientEnds
<1>7. ASSUME NEW c \in Clients, ClientRestart(c) PROVE AloneInv'
  BY <1>7 DEF ClientRestart
<1>8. ASSUME NEW k \in Conns, PeerConnect(k) PROVE AloneInv'
  BY <1>8 DEF PeerConnect
<1>9. CASE SrvCheckFlag
  BY <1>9 DEF SrvCheckFlag
<1>10. CASE SrvAccept
  BY <1>10 DEF SrvAccept
<1>11. CASE SrvAcceptTimeout
  BY <1>11 DEF SrvAcceptTimeout
<1>12. CASE SrvSpawn
  BY <1>12 DEF SrvSpawn
<1>12a. CASE SrvSpawnFails
  <2>1. CASE ServerEnds("killed")
    BY <2>1 DEF ServerEnds
  <2>2. CASE /\ sEnd' = [sEnd EXCEPT ![mClient] = "orphan"]
             /\ UNCHANGED <<clientVars, cEnd, req, resp, workerVars>>
    BY <1>12a, <2>2 DEF SrvSpawnFails, OwnConnections
  <2>3. QED
    BY <1>12a, <2>1, <2>2 DEF SrvSpawnFails
<1>13. CASE SrvExit
  BY <1>13 DEF SrvExit, ServerEnds
<1>14. CASE SrvKilled
  BY <1>14 DEF SrvKilled, ServerEnds
<1>15. CASE SrvSignal
  BY <1>15 DEF SrvSignal
<1>16. CASE SrvStart
  BY <1>16 DEF SrvStart
<1>17. ASSUME NEW w \in Workers, WorkerRecv(w) PROVE AloneInv'
  BY <1>17 DEF WorkerRecv, Goto, Returns
<1>18. ASSUME NEW w \in Workers, WorkerRecvFails(w) PROVE AloneInv'
  BY <1>18 DEF WorkerRecvFails, ServerEnds
<1>19. ASSUME NEW w \in Workers, WorkerGetKeyID(w) PROVE AloneInv'
  BY <1>19 DEF WorkerGetKeyID, Prepare, Goto
<1>20. ASSUME NEW w \in Workers, WorkerShmFind(w) PROVE AloneInv'
  BY <1>20 DEF WorkerShmFind, Goto
<1>20a. ASSUME NEW w \in Workers, WorkerShmCopy(w) PROVE AloneInv'
  BY <1>20a DEF WorkerShmCopy, Goto
<1>21. ASSUME NEW w \in Workers, WorkerShmWrite(w) PROVE AloneInv'
  BY <1>21 DEF WorkerShmWrite
<1>22. ASSUME NEW w \in Workers, WorkerShmFaults(w) PROVE AloneInv'
  BY <1>22 DEF WorkerShmFaults, ServerEnds
<1>23. ASSUME NEW w \in Workers, WorkerWriteSecKey(w) PROVE AloneInv'
  BY <1>23 DEF WorkerWriteSecKey, Goto
<1>24. ASSUME NEW w \in Workers, WorkerUpdateKeyID(w) PROVE AloneInv'
  BY <1>24 DEF WorkerUpdateKeyID, Goto
<1>25. ASSUME NEW w \in Workers, WorkerReply(w) PROVE AloneInv'
  BY <1>25 DEF WorkerReply, Goto, Returns
<1>26. CASE UNCHANGED vars
  BY <1>26
<1>27. QED
  BY <1>1, <1>2, <1>3, <1>4, <1>5, <1>6, <1>7, <1>8, <1>9, <1>10, <1>11, <1>12, <1>12a, <1>13,
     <1>14, <1>15, <1>16, <1>17, <1>18, <1>19, <1>20, <1>20a, <1>21, <1>22, <1>23,
     <1>24, <1>25, <1>26 DEF Next, ClientStep, SrvLoop, WorkerStep


\* While nothing went wrong, at most one thread makes a key, and it does so for the
\* client that is in a call.
LEMMA OnlyOne ==
  ASSUME IInv, AloneInv, failed = {}, NEW v \in Workers, NEW w \in Workers, AtWork(v), AtWork(w)
  PROVE  v = w /\ \E c \in Clients : InCall(c) /\ cConn[c] = wConn[w]
<1>1. wPc[v] # "free" /\ wPc[w] # "free"
  BY DEF AtWork, IInv, WorkerInv
<1>2. wConn[v] \in Conns /\ sEnd[wConn[v]] = "open" /\ wConn[w] \in Conns /\ sEnd[wConn[w]] = "open"
  BY <1>1 DEF IInv, WorkerInv, OwnConnections
<1>3. Asking(wConn[v]) /\ Asking(wConn[w])
  BY DEF AloneInv
<1>4. \E c \in Clients : InCall(c) /\ cConn[c] = wConn[v]
  BY <1>2, <1>3 DEF AloneInv
<1>5. \E c \in Clients : InCall(c) /\ cConn[c] = wConn[w]
  BY <1>2, <1>3 DEF AloneInv
<1>6. wConn[v] = wConn[w]
  BY <1>4, <1>5 DEF AloneInv
<1>7. QED
  BY <1>1, <1>5, <1>6 DEF IInv, OwnConnections

\* A failure is not forgotten.
LEMMA FailedStays == IInv /\ [Next]_vars => failed \subseteq failed'
<1> USE DEF vars, clientVars, connVars, mainVars, workerVars, storeVars
<1> SUFFICES ASSUME [Next]_vars PROVE failed \subseteq failed'
  OBVIOUS
<1>1. ASSUME NEW c \in Clients, ClientConnect(c) PROVE failed \subseteq failed'
  BY <1>1 DEF ClientConnect
<1>2. ASSUME NEW c \in Clients, ClientRefused(c) PROVE failed \subseteq failed'
  BY <1>2 DEF ClientRefused, ClientEnds
<1>3. ASSUME NEW c \in Clients, ClientSend(c) PROVE failed \subseteq failed'
  BY <1>3 DEF ClientSend, Request
<1>4. ASSUME NEW c \in Clients, ClientFinish(c) PROVE failed \subseteq failed'
  BY <1>4 DEF ClientFinish
<1>5. ASSUME NEW c \in Clients, ClientRecvFails(c) PROVE failed \subseteq failed'
  BY <1>5 DEF ClientRecvFails, ClientEnds
<1>6. ASSUME NEW c \in Clients, ClientKilled(c) PROVE failed \subseteq failed'
  BY <1>6 DEF ClientKilled, ClientEnds
<1>7. ASSUME NEW c \in Clients, ClientRestart(c) PROVE failed \subseteq failed'
  BY <1>7 DEF ClientRestart
<1>8. ASSUME NEW k \in Conns, PeerConnect(k) PROVE failed \subseteq failed'
  BY <1>8 DEF PeerConnect
<1>9. CASE SrvCheckFlag
  BY <1>9 DEF SrvCheckFlag
<1>10. CASE SrvAccept
  BY <1>10 DEF SrvAccept
<1>11. CASE SrvAcceptTimeout
  BY <1>11 DEF SrvAcceptTimeout
<1>12. CASE SrvSpawn
  BY <1>12 DEF SrvSpawn
<1>12a. CASE SrvSpawnFails
  BY <1>12a DEF SrvSpawnFails, ServerEnds
<1>13. CASE SrvExit
  BY <1>13 DEF SrvExit, ServerEnds
<1>14. CASE SrvKilled
  BY <1>14 DEF SrvKilled, ServerEnds
<1>15. CASE SrvSignal
  BY <1>15 DEF SrvSignal
<1>16. CASE SrvStart
  BY <1>16 DEF SrvStart
<1>17. ASSUME NEW w \in Workers, WorkerRecv(w) PROVE failed \subseteq failed'
  BY <1>17 DEF WorkerRecv, Goto, Returns
<1>18. ASSUME NEW w \in Workers, WorkerRecvFails(w) PROVE failed \subseteq failed'
  BY <1>18 DEF WorkerRecvFails, ServerEnds
<1>19. ASSUME NEW w \in Workers, WorkerGetKeyID(w) PROVE failed \subseteq failed'
  BY <1>19 DEF WorkerGetKeyID, Prepare, Goto
<1>20. ASSUME NEW w \in Workers, WorkerShmFind(w) PROVE failed \subseteq failed'
  BY <1>20 DEF WorkerShmFind, Goto
<1>20a. ASSUME NEW w \in Workers, WorkerShmCopy(w) PROVE failed \subseteq failed'
  BY <1>20a DEF WorkerShmCopy, Goto
<1>21. ASSUME NEW w \in Workers, WorkerShmWrite(w) PROVE failed \subseteq failed'
  BY <1>21 DEF WorkerShmWrite
<1>22. ASSUME NEW w \in Workers, WorkerShmFaults(w) PROVE failed \subseteq failed'
  BY <1>22 DEF WorkerShmFaults, ServerEnds
<1>23. ASSUME NEW w \in Workers, WorkerWriteSecKey(w) PROVE failed \subseteq failed'
  BY <1>23 DEF WorkerWriteSecKey, Goto
<1>24. ASSUME NEW w \in Workers, WorkerUpdateKeyID(w) PROVE failed \subseteq failed'
  BY <1>24 DEF WorkerUpdateKeyID, Goto
<1>25. ASSUME NEW w \in Workers, WorkerReply(w) PROVE failed \subseteq failed'
  BY <1>25 DEF WorkerReply, Goto, Returns
<1>26. CASE UNCHANGED vars
  BY <1>26
<1>27. QED
  BY <1>1, <1>2, <1>3, <1>4, <1>5, <1>6, <1>7, <1>8, <1>9, <1>10, <1>11, <1>12, <1>12a, <1>13,
     <1>14, <1>15, <1>16, <1>17, <1>18, <1>19, <1>20, <1>20a, <1>21, <1>22, <1>23,
     <1>24, <1>25, <1>26 DEF Next, ClientStep, SrvLoop, WorkerStep

\* A call that cannot return normally stays one until it is given up.
LEMMA DoomedStep ==
  ASSUME IInv, AloneInv, [Next]_vars, NEW e \in Clients, Doomed(e), failed' = {}
  PROVE  Doomed(e)'
<1> USE KeyAgreeAssumption DEF IInv, TypeOK, AloneInv, Doomed, ClientInv,
           UnusedInv, WorkerInv, OwnConnections, InCall,
           vars, clientVars, connVars, mainVars, workerVars, storeVars
<1>1. ASSUME NEW c \in Clients, ClientConnect(c) PROVE Doomed(e)'
  BY <1>1 DEF ClientConnect
<1>2. ASSUME NEW c \in Clients, ClientRefused(c) PROVE Doomed(e)'
  BY <1>2 DEF ClientRefused, ClientEnds
<1>3. ASSUME NEW c \in Clients, ClientSend(c) PROVE Doomed(e)'
  BY <1>3 DEF ClientSend, Request
<1>4. ASSUME NEW c \in Clients, ClientFinish(c) PROVE Doomed(e)'
  BY <1>4 DEF ClientFinish
<1>5. ASSUME NEW c \in Clients, ClientRecvFails(c) PROVE Doomed(e)'
  BY <1>5 DEF ClientRecvFails, ClientEnds
<1>6. ASSUME NEW c \in Clients, ClientKilled(c) PROVE Doomed(e)'
  BY <1>6 DEF ClientKilled, ClientEnds
<1>7. ASSUME NEW c \in Clients, ClientRestart(c) PROVE Doomed(e)'
  BY <1>7 DEF ClientRestart
<1>8. ASSUME NEW k \in Conns, PeerConnect(k) PROVE Doomed(e)'
  BY <1>8 DEF PeerConnect
<1>9. CASE SrvCheckFlag
  BY <1>9 DEF SrvCheckFlag
<1>10. CASE SrvAccept
  BY <1>10 DEF SrvAccept
<1>11. CASE SrvAcceptTimeout
  BY <1>11 DEF SrvAcceptTimeout
<1>12. CASE SrvSpawn
  BY <1>12 DEF SrvSpawn
<1>12a. CASE SrvSpawnFails
  BY <1>12a DEF SrvSpawnFails, ServerEnds
<1>13. CASE SrvExit
  BY <1>13 DEF SrvExit, ServerEnds
<1>14. CASE SrvKilled
  BY <1>14 DEF SrvKilled, ServerEnds
<1>15. CASE SrvSignal
  BY <1>15 DEF SrvSignal
<1>16. CASE SrvStart
  BY <1>16 DEF SrvStart
<1>17. ASSUME NEW w \in Workers, WorkerRecv(w) PROVE Doomed(e)'
  BY <1>17 DEF WorkerRecv, Goto, Returns
<1>18. ASSUME NEW w \in Workers, WorkerRecvFails(w) PROVE Doomed(e)'
  BY <1>18 DEF WorkerRecvFails, ServerEnds
<1>19. ASSUME NEW w \in Workers, WorkerGetKeyID(w) PROVE Doomed(e)'
  BY <1>19 DEF WorkerGetKeyID, Prepare, Goto
<1>20. ASSUME NEW w \in Workers, WorkerShmFind(w) PROVE Doomed(e)'
  BY <1>20 DEF WorkerShmFind, Goto
<1>20a. ASSUME NEW w \in Workers, WorkerShmCopy(w) PROVE Doomed(e)'
  BY <1>20a DEF WorkerShmCopy, Goto
<1>21. ASSUME NEW w \in Workers, WorkerShmWrite(w) PROVE Doomed(e)'
  BY <1>21 DEF WorkerShmWrite
<1>22. ASSUME NEW w \in Workers, WorkerShmFaults(w) PROVE Doomed(e)'
  BY <1>22 DEF WorkerShmFaults, ServerEnds
<1>23. ASSUME NEW w \in Workers, WorkerWriteSecKey(w) PROVE Doomed(e)'
  BY <1>23 DEF WorkerWriteSecKey, Goto
<1>24. ASSUME NEW w \in Workers, WorkerUpdateKeyID(w) PROVE Doomed(e)'
  BY <1>24 DEF WorkerUpdateKeyID, Goto
<1>25. ASSUME NEW w \in Workers, WorkerReply(w) PROVE Doomed(e)'
  BY <1>25 DEF WorkerReply, Goto, Returns
<1>26. CASE UNCHANGED vars
  BY <1>26
<1>27. QED
  BY <1>1, <1>2, <1>3, <1>4, <1>5, <1>6, <1>7, <1>8, <1>9, <1>10, <1>11, <1>12, <1>12a, <1>13,
     <1>14, <1>15, <1>16, <1>17, <1>18, <1>19, <1>20, <1>20a, <1>21, <1>22, <1>23,
     <1>24, <1>25, <1>26 DEF Next, ClientStep, SrvLoop, WorkerStep


\* When the server process ends, the call that a thread was making a key for is lost.
LEMMA EndDooms ==
  ASSUME IInv, AloneInv, failed = {}, NEW pc, ServerEnds(pc), NEW w \in Workers, AtWork(w)
  PROVE  \E c \in Clients : Doomed(c)'
<1>1. wPc[w] # "free"
  BY DEF AtWork, IInv, WorkerInv
<1>2. wConn[w] \in Conns /\ sEnd[wConn[w]] = "open"
  BY <1>1 DEF IInv, WorkerInv, OwnConnections
<1>3. PICK c \in Clients : InCall(c) /\ cConn[c] = wConn[w]
  BY OnlyOne
<1>4. resp[wConn[w]] = NoMsg
  BY <1>2 DEF AloneInv
<1>5. UNCHANGED <<cPc, cConn, resp>> /\ sEnd'[wConn[w]] = "closed"
  BY <1>2 DEF ServerEnds, clientVars
<1>6. QED
  BY <1>3, <1>4, <1>5 DEF Doomed, InCall

\* When the server process ends, the numbers stay in order, or a call is lost.
LEMMA NumbersAtEnd ==
  ASSUME IInv, AloneInv, failed = {}, NumbersOk, NEW pc, ServerEnds(pc)
  PROVE  NumbersOk' \/ \E c \in Clients : Doomed(c)'
<1>1. CASE \E w \in Workers : AtWork(w)
  BY <1>1, EndDooms
<1>2. CASE \A w \in Workers : ~AtWork(w)
  <2>1. \A w \in Workers : wPc[w] # "update" /\ wPc'[w] = "free"
    BY <1>2 DEF AtWork, ServerEnds
  <2>2. UNCHANGED <<db, keysn>>
    BY DEF ServerEnds, storeVars
  <2>3. QED
    BY <2>1, <2>2 DEF NumbersOk
<1>3. QED
  BY <1>1, <1>2

\* A step from ordered numbers keeps them in order, or a call is lost.
LEMMA NumbersOkStep ==
  ASSUME IInv, AloneInv, failed = {}, NumbersOk, [Next]_vars
  PROVE  NumbersOk' \/ \E c \in Clients : Doomed(c)'
<1> DEFINE Goal == NumbersOk' \/ \E c \in Clients : Doomed(c)'
<1> USE KeyAgreeAssumption DEF IInv, TypeOK, NumbersOk, WorkerInv,
           vars, clientVars, connVars, mainVars, workerVars, storeVars
<1>1. ASSUME NEW c \in Clients, ClientConnect(c) PROVE Goal
  BY <1>1 DEF ClientConnect
<1>2. ASSUME NEW c \in Clients, ClientRefused(c) PROVE Goal
  BY <1>2 DEF ClientRefused, ClientEnds
<1>3. ASSUME NEW c \in Clients, ClientSend(c) PROVE Goal
  BY <1>3 DEF ClientSend, Request
<1>4. ASSUME NEW c \in Clients, ClientFinish(c) PROVE Goal
  BY <1>4 DEF ClientFinish
<1>5. ASSUME NEW c \in Clients, ClientRecvFails(c) PROVE Goal
  BY <1>5 DEF ClientRecvFails, ClientEnds
<1>6. ASSUME NEW c \in Clients, ClientKilled(c) PROVE Goal
  BY <1>6 DEF ClientKilled, ClientEnds
<1>7. ASSUME NEW c \in Clients, ClientRestart(c) PROVE Goal
  BY <1>7 DEF ClientRestart
<1>8. ASSUME NEW k \in Conns, PeerConnect(k) PROVE Goal
  BY <1>8 DEF PeerConnect
<1>9. CASE SrvCheckFlag
  BY <1>9 DEF SrvCheckFlag
<1>10. CASE SrvAccept
  BY <1>10 DEF SrvAccept
<1>11. CASE SrvAcceptTimeout
  BY <1>11 DEF SrvAcceptTimeout
<1>12. CASE SrvSpawn
  BY <1>12 DEF SrvSpawn
<1>12a. CASE SrvSpawnFails
  <2>1. CASE ServerEnds("killed")
    BY <2>1, NumbersAtEnd
  <2>2. CASE UNCHANGED <<workerVars, storeVars>>
    BY <2>2
  <2>3. QED
    BY <1>12a, <2>1, <2>2 DEF SrvSpawnFails
<1>13. CASE SrvExit
  BY <1>13, NumbersAtEnd DEF SrvExit
<1>14. CASE SrvKilled
  BY <1>14, NumbersAtEnd DEF SrvKilled
<1>15. CASE SrvSignal
  BY <1>15 DEF SrvSignal
<1>16. CASE SrvStart
  BY <1>16 DEF SrvStart
<1>17. ASSUME NEW w \in Workers, WorkerRecv(w) PROVE Goal
  BY <1>17 DEF WorkerRecv, Goto, Returns
<1>18. ASSUME NEW w \in Workers, WorkerRecvFails(w) PROVE Goal
  BY <1>18, NumbersAtEnd DEF WorkerRecvFails
<1>19. ASSUME NEW w \in Workers, WorkerGetKeyID(w) PROVE Goal
  <2>1. PICK r2 \in Nonces, tail \in Tails(keysn) :
          wInfo' = [wInfo EXCEPT ![w] = InfoOf(w, r2, tail)]
    BY <1>19 DEF WorkerGetKeyID, Prepare
  <2>2. wInfo'[w].seckeyID = keysn
    BY <2>1 DEF InfoOf
  <2>3. \A v \in Workers \ {w} : wInfo'[v] = wInfo[v] /\ wPc'[v] = wPc[v]
    BY <1>19, <2>1 DEF WorkerGetKeyID, Prepare, Goto
  <2>4. UNCHANGED <<db, keysn, wConn>> /\ wPc[w] = "agree"
    BY <1>19 DEF WorkerGetKeyID, Prepare
  <2>5. NumbersOk'
    BY <2>2, <2>3, <2>4
  <2>6. QED
    BY <2>5
<1>20. ASSUME NEW w \in Workers, WorkerShmFind(w) PROVE Goal
  BY <1>20 DEF WorkerShmFind, Goto
<1>20a. ASSUME NEW w \in Workers, WorkerShmCopy(w) PROVE Goal
  BY <1>20a DEF WorkerShmCopy, Goto
<1>21. ASSUME NEW w \in Workers, WorkerShmWrite(w) PROVE Goal
  BY <1>21 DEF WorkerShmWrite
<1>22. ASSUME NEW w \in Workers, WorkerShmFaults(w) PROVE Goal
  BY <1>22, NumbersAtEnd DEF WorkerShmFaults
<1>23. ASSUME NEW w \in Workers, WorkerWriteSecKey(w) PROVE Goal
  <2> DEFINE new == RowOf(wConn[w], wInfo[w])
  <2>1. wPc[w] = "insert" /\ AtWork(w)
    BY <1>23 DEF WorkerWriteSecKey, AtWork
  <2>2. \A row \in db : row.keyid < keysn
    <3>1. \A v \in Workers : wPc[v] # "update"
      BY <2>1, OnlyOne DEF AtWork
    <3>2. QED
      BY <3>1
  <2>3. new.keyid = keysn /\ new.conn = wConn[w]
    BY <2>1 DEF RowOf
  <2>4. db' = db \cup {new} /\ UNCHANGED <<keysn, wInfo, wConn>>
    BY <1>23 DEF WorkerWriteSecKey
  <2>5. wPc'[w] = "update" /\ \A v \in Workers \ {w} : wPc'[v] = wPc[v]
    BY <1>23 DEF WorkerWriteSecKey, Goto
  <2>6. \A row \in db : row.keyid # new.keyid
    BY <2>2, <2>3 DEF Rows, KeyIds, NoRow
  <2>7. NumbersOk'
    BY <2>1, <2>2, <2>3, <2>4, <2>5, <2>6
  <2>8. QED
    BY <2>7
<1>24. ASSUME NEW w \in Workers, WorkerUpdateKeyID(w) PROVE Goal
  <2>1. wPc[w] = "update" /\ AtWork(w) /\ wInfo[w].seckeyID = keysn
    BY <1>24 DEF WorkerUpdateKeyID, AtWork
  <2>2. \A v \in Workers \ {w} : wPc'[v] = wPc[v] /\ ~AtWork(v)
    BY <1>24, <2>1, OnlyOne DEF WorkerUpdateKeyID, Goto
  <2>3. wPc'[w] = "reply" /\ UNCHANGED <<db, wInfo, wConn, wOut, resp, cPc, cConn, sEnd>>
    BY <1>24 DEF WorkerUpdateKeyID, Goto
  <2>4. CASE keysn = NoRow
    <3>1. wOut[w] = NoMsg
      <4>1. ASSUME wOut[w] # NoMsg PROVE FALSE
        BY <2>1, <2>4, <4>1 DEF PreparedInv, Responses, NoRow
      <4>2. QED
        BY <4>1
    <3>2. PICK c \in Clients : InCall(c) /\ cConn[c] = wConn[w]
      BY <2>1, OnlyOne
    <3>3. resp[wConn[w]] = NoMsg
      BY <2>1 DEF AloneInv, OwnConnections
    <3>4. Doomed(c)'
      BY <2>3, <3>1, <3>2, <3>3 DEF Doomed, InCall
    <3>5. QED
      BY <3>4
  <2>5. CASE keysn # NoRow
    <3>1. keysn' = keysn + 1
      BY <1>24, <2>1, <2>5 DEF WorkerUpdateKeyID
    <3>2. \A row \in db : row.keyid <= keysn /\ row.keyid \in Int
      BY DEF Rows, KeyIds, NoRow
    <3>3. \A row \in db : row.keyid < keysn + 1
      BY <3>2 DEF NoRow
    <3>4. NumbersOk'
      BY <2>2, <2>3, <3>1, <3>3 DEF AtWork
    <3>5. QED
      BY <3>4
  <2>6. QED
    BY <2>4, <2>5
<1>25. ASSUME NEW w \in Workers, WorkerReply(w) PROVE Goal
  BY <1>25 DEF WorkerReply, Goto, Returns
<1>26. CASE UNCHANGED vars
  BY <1>26
<1>27. QED
  BY <1>1, <1>2, <1>3, <1>4, <1>5, <1>6, <1>7, <1>8, <1>9, <1>10, <1>11, <1>12, <1>12a, <1>13,
     <1>14, <1>15, <1>16, <1>17, <1>18, <1>19, <1>20, <1>20a, <1>21, <1>22, <1>23,
     <1>24, <1>25, <1>26 DEF Next, ClientStep, SrvLoop, WorkerStep


\* Every step keeps the key numbers in order while nothing went wrong, unless the
\* call under way can no longer return normally.
LEMMA NumbersStep == IInv /\ AloneInv /\ NumbersInv /\ [Next]_vars => NumbersInv'
<1> SUFFICES ASSUME IInv, AloneInv, NumbersInv, [Next]_vars, failed' = {}
             PROVE  NumbersOk' \/ \E c \in Clients : Doomed(c)'
  BY DEF NumbersInv
<1>1. failed = {}
  BY FailedStays
<1>2. CASE NumbersOk
  BY <1>1, <1>2, NumbersOkStep
<1>3. CASE \E c \in Clients : Doomed(c)
  BY <1>3, DoomedStep
<1>4. QED
  BY <1>1, <1>2, <1>3 DEF NumbersInv

\* At the start no call is under way and no key is recorded.
LEMMA InitCalls == Init => AloneInv /\ NumbersInv /\ AgreeInv
  BY KeyAgreeAssumption
     DEF Init, AloneInv, NumbersInv, NumbersOk, AgreeInv, Asking, AtWork, InCall,
         OnePlaceEach, PlacesOf, EmptySegment

\* While nothing went wrong and no client is in a call, no thread makes a key.
LEMMA NoneAtWork ==
  ASSUME IInv, AloneInv, AllReturned
  PROVE  \A w \in Workers : ~AtWork(w)
  BY OnlyOne DEF AllReturned, InCall

\* Key numbers are unique, and KEYSN is above them all, between any two calls, as
\* long as the calls so far returned normally and did not overlap; what the server's
\* process went through meanwhile does not matter.  getKeyID and updataKeyID are two
\* transactions, which only the call's thread runs.
THEOREM KeyNumbersUnique ==
  ASSUME PeersAskNothing
  PROVE  Spec => []NumbersUnique
<1>1. Init => IInv /\ SegmentBacked /\ AloneInv /\ NumbersInv
  BY InitInv, InitCalls
<1>2. IInv /\ AloneInv /\ NumbersInv /\ [Next]_vars => (AloneInv /\ NumbersInv)'
  BY AloneStep, NumbersStep
<1>3. IInv /\ AloneInv /\ NumbersInv => NumbersUnique
  <2> SUFFICES ASSUME IInv, AloneInv, NumbersInv, AllReturned
               PROVE  /\ \A r1, r2 \in db : r1.keyid = r2.keyid => r1 = r2
                      /\ \A row \in db : row.keyid < keysn
    BY DEF NumbersUnique
  <2>1. NumbersOk
    BY DEF NumbersInv, AllReturned, Doomed, InCall
  <2>2. \A w \in Workers : wPc[w] # "update"
    BY NoneAtWork DEF AtWork
  <2>3. QED
    BY <2>1, <2>2 DEF NumbersOk
<1>4. QED
  BY <1>1, <1>2, <1>3, Inductive, PTL DEF Spec


-----------------------------------------------------------------------------
(* The segments.                                                              *)

\* The ids shmWrite copies to the place it found change nothing, or fill a blank place
\* for a node that has none.
LEMMA PutNodeChanges ==
  ASSUME NEW max \in Nat, NEW S, NEW seg \in Segments(max, S), NEW n \in Nodes, NEW none,
         NEW i \in Targets(seg, n), Blank \notin [node : Nodes, info : S],
         Blank # [node |-> n, info |-> none]
  PROVE  LET new == PutNode(seg, i, n, none) IN
         \/ new = seg /\ InPlace(seg, i, n)
         \/ /\ i # 0 /\ i \in BlankPlaces(seg) /\ PlacesOf(seg, n) = {}
            /\ DOMAIN new = DOMAIN seg
            /\ new[i] = [node |-> n, info |-> none]
            /\ \A j \in DOMAIN seg \ {i} : new[j] = seg[j]
<1> DEFINE new == PutNode(seg, i, n, none)
<1>1. CASE PlacesOf(seg, n) # {}
  <2>1. i \in PlacesOf(seg, n)
    BY <1>1 DEF Targets, FirstOf
  <2>2. i \in 1..max /\ seg[i] # Blank /\ seg[i].node = n /\ i # 0
    BY <2>1 DEF PlacesOf, Segments
  <2>3. seg[i] = [node |-> n, info |-> seg[i].info]
    BY <2>2 DEF Segments
  <2>4. new = [seg EXCEPT ![i] = [node |-> n, info |-> seg[i].info]]
    BY <2>2 DEF PutNode
  <2>5. new = seg
    BY <2>2, <2>3, <2>4 DEF Segments
  <2>6. QED
    BY <2>1, <2>2, <2>5 DEF InPlace
<1>2. CASE PlacesOf(seg, n) = {} /\ BlankPlaces(seg) # {}
  <2>1. i \in BlankPlaces(seg)
    BY <1>2 DEF Targets, FirstOf
  <2>2. i \in 1..max /\ seg[i] = Blank /\ i # 0
    BY <2>1 DEF BlankPlaces, Segments
  <2>3. new = [seg EXCEPT ![i] = [node |-> n, info |-> none]]
    BY <2>2 DEF PutNode
  <2>4. QED
    BY <1>2, <2>1, <2>2, <2>3 DEF Segments
<1>3. CASE PlacesOf(seg, n) = {} /\ BlankPlaces(seg) = {}
  BY <1>3 DEF Targets, PutNode, InPlace
<1>4. QED
  BY <1>1, <1>2, <1>3

\* They leave every node with one place at most, and the node with this one.
LEMMA PutNodeOnePlace ==
  ASSUME NEW max \in Nat, NEW S, NEW seg \in Segments(max, S), NEW n \in Nodes, NEW none,
         NEW i \in Targets(seg, n), Blank \notin [node : Nodes, info : S],
         Blank # [node |-> n, info |-> none],
         OnePlaceEach(seg)
  PROVE  OnePlaceEach(PutNode(seg, i, n, none)) /\ InPlace(PutNode(seg, i, n, none), i, n)
<1> DEFINE new == PutNode(seg, i, n, none)
<1>1. CASE new = seg /\ InPlace(seg, i, n)
  BY <1>1
<1>2. CASE /\ i # 0 /\ i \in BlankPlaces(seg) /\ PlacesOf(seg, n) = {}
           /\ DOMAIN new = DOMAIN seg
           /\ new[i] = [node |-> n, info |-> none]
           /\ \A j \in DOMAIN seg \ {i} : new[j] = seg[j]
  <2> HIDE DEF new
  <2>1. \A m \in Nodes \ {n} : PlacesOf(new, m) \subseteq PlacesOf(seg, m)
    BY <1>2 DEF PlacesOf, BlankPlaces
  <2>2. PlacesOf(new, n) = {i}
    BY <1>2 DEF PlacesOf, BlankPlaces
  <2>3. QED
    BY <1>2, <2>1, <2>2 DEF OnePlaceEach, InPlace, new
<1>3. QED
  BY <1>1, <1>2, PutNodeChanges

\* They take no key from any node.
LEMMA PutNodeKeepsKey ==
  ASSUME NEW max \in Nat, NEW S, NEW seg \in Segments(max, S), NEW n \in Nodes, NEW none,
         NEW i \in Targets(seg, n), Blank \notin [node : Nodes, info : S],
         Blank # [node |-> n, info |-> none],
         NEW m \in Nodes, NEW sec, HasKey(seg, m, sec)
  PROVE  HasKey(PutNode(seg, i, n, none), m, sec)
<1> DEFINE new == PutNode(seg, i, n, none)
<1>1. CASE new = seg /\ InPlace(seg, i, n)
  BY <1>1
<1>2. CASE /\ i # 0 /\ i \in BlankPlaces(seg) /\ PlacesOf(seg, n) = {}
           /\ DOMAIN new = DOMAIN seg
           /\ new[i] = [node |-> n, info |-> none]
           /\ \A j \in DOMAIN seg \ {i} : new[j] = seg[j]
  <2> HIDE DEF new
  <2>1. PICK j \in PlacesOf(seg, m) : seg[j].info # NoEntry /\ seg[j].info.secKey = sec
    BY <1>2 DEF HasKey
  <2>2. j \in PlacesOf(new, m) /\ new[j] = seg[j]
    BY <1>2, <2>1 DEF PlacesOf, BlankPlaces
  <2>3. QED
    BY <2>1, <2>2 DEF HasKey, new
<1>3. QED
  BY <1>1, <1>2, PutNodeChanges

\* The rest of the entry, copied behind the node's ids, moves no node.
LEMMA PutInfoChanges ==
  ASSUME NEW max \in Nat, NEW S, NEW seg \in Segments(max, S), NEW n, NEW e \in S,
         NEW i, InPlace(seg, i, n), Blank \notin [node : Nodes, info : S]
  PROVE  /\ \A m : PlacesOf(PutInfo(seg, i, e), m) = PlacesOf(seg, m)
         /\ BlankPlaces(PutInfo(seg, i, e)) = BlankPlaces(seg)
         /\ \A j \in DOMAIN seg \ {i} : PutInfo(seg, i, e)[j] = seg[j]
         /\ i # 0 => PutInfo(seg, i, e)[i].info = e
<1> DEFINE new == PutInfo(seg, i, e)
<1>1. CASE i = 0
  BY <1>1 DEF PutInfo
<1>2. CASE i # 0
  <2>1. i \in 1..max /\ seg[i] # Blank
    BY <1>2 DEF InPlace, PlacesOf, Segments
  <2>2. seg[i] \in [node : Nodes, info : S]
    BY <2>1 DEF Segments
  <2>3. DOMAIN new = DOMAIN seg /\ new[i] = [seg[i] EXCEPT !.info = e]
    BY <1>2, <2>1 DEF PutInfo, Segments
  <2>4. new[i].node = seg[i].node /\ new[i].info = e /\ new[i] \in [node : Nodes, info : S]
    BY <2>2, <2>3
  <2>5. \A j \in DOMAIN seg \ {i} : new[j] = seg[j]
    BY <1>2 DEF PutInfo
  <2> HIDE DEF new
  <2>6. new[i] # Blank
    BY <2>4
  <2>7. \A j \in DOMAIN seg : (new[j] = Blank <=> seg[j] = Blank)
                             /\ (seg[j] # Blank => new[j].node = seg[j].node)
    BY <2>1, <2>4, <2>5, <2>6
  <2>8. BlankPlaces(new) = BlankPlaces(seg)
    BY <2>3, <2>7 DEF BlankPlaces
  <2>9. \A m : PlacesOf(new, m) = PlacesOf(seg, m)
    BY <2>3, <2>7 DEF PlacesOf
  <2>10. QED
    BY <2>4, <2>5, <2>8, <2>9 DEF new
<1>3. QED
  BY <1>1, <1>2

\* It leaves every node with one place at most.
LEMMA PutInfoOnePlace ==
  ASSUME NEW max \in Nat, NEW S, NEW seg \in Segments(max, S), NEW n, NEW e \in S,
         NEW i, InPlace(seg, i, n), Blank \notin [node : Nodes, info : S], OnePlaceEach(seg)
  PROVE  OnePlaceEach(PutInfo(seg, i, e))
<1>1. \A m \in Nodes : PlacesOf(PutInfo(seg, i, e), m) = PlacesOf(seg, m)
  BY PutInfoChanges DEF InPlace
<1>2. QED
  BY <1>1 DEF OnePlaceEach

\* After shmWrite the segment has the key written, or there is no place for it.
LEMMA PutInfoHasKey ==
  ASSUME NEW max \in Nat, NEW S, NEW seg \in Segments(max, S), NEW n, NEW e \in S, e # NoEntry,
         NEW i, InPlace(seg, i, n), Blank \notin [node : Nodes, info : S]
  PROVE  HasKey(PutInfo(seg, i, e), n, e.secKey)
  BY PutInfoChanges DEF HasKey, InPlace

\* shmWrite for one node takes nothing from another.
LEMMA PutInfoKeepsKey ==
  ASSUME NEW max \in Nat, NEW S, NEW seg \in Segments(max, S), NEW n, NEW e \in S,
         NEW i, InPlace(seg, i, n), Blank \notin [node : Nodes, info : S],
         NEW m, m # n, NEW sec, HasKey(seg, m, sec)
  PROVE  HasKey(PutInfo(seg, i, e), m, sec)
<1> DEFINE new == PutInfo(seg, i, e)
<1>1. /\ PlacesOf(new, m) = PlacesOf(seg, m) /\ BlankPlaces(new) = BlankPlaces(seg)
      /\ \A j \in DOMAIN seg \ {i} : new[j] = seg[j]
  BY PutInfoChanges DEF InPlace
<1> HIDE DEF new
<1>2. ASSUME NEW j \in PlacesOf(seg, m) PROVE new[j] = seg[j]
  <2>1. j \in 1..max /\ j \in DOMAIN seg /\ j # i
    BY <1>2 DEF PlacesOf, InPlace, Segments
  <2>2. QED
    BY <1>1, <2>1
<1>3. QED
  BY <1>1, <1>2 DEF HasKey, new

\* The key a thread makes, while nothing went wrong, is for the request of the client
\* that is in a call, and that client has no response yet.
LEMMA ThreadsClient ==
  ASSUME IInv, AloneInv, failed = {}, NEW w \in Workers, AtWork(w)
  PROVE  \E c \in Clients : /\ InCall(c) /\ cConn[c] = wConn[w]
                            /\ req[wConn[w]] = Request(c) /\ resp[wConn[w]] = NoMsg
<1>1. PICK c \in Clients : InCall(c) /\ cConn[c] = wConn[w]
  BY OnlyOne
<1>2. req[wConn[w]] = Request(c)
  BY <1>1 DEF AloneInv, Asking, IInv, ClientInv, InCall
<1>3. wPc[w] # "free"
  BY DEF AtWork, IInv, WorkerInv
<1>4. resp[wConn[w]] = NoMsg
  BY <1>3 DEF AloneInv, IInv, WorkerInv, OwnConnections
<1>5. QED
  BY <1>1, <1>2, <1>4

\* Every step keeps the keys of the segments in agreement while nothing went wrong.
LEMMA AgreeStep == IInv /\ AloneInv /\ AgreeInv /\ OneNodeEach /\ [Next]_vars => AgreeInv'
<1> SUFFICES ASSUME IInv, AloneInv, AgreeInv, OneNodeEach, [Next]_vars PROVE AgreeInv'
  OBVIOUS
<1> USE KeyAgreeAssumption DEF IInv, TypeOK, AgreeInv, ClientInv, UnusedInv,
           WorkerInv, OwnConnections, AloneInv, InCall,
           vars, clientVars, connVars, mainVars, workerVars, storeVars
<1>1. ASSUME NEW c \in Clients, ClientConnect(c) PROVE AgreeInv'
  BY <1>1 DEF ClientConnect
<1>2. ASSUME NEW c \in Clients, ClientRefused(c) PROVE AgreeInv'
  BY <1>2 DEF ClientRefused, ClientEnds
<1>3. ASSUME NEW c \in Clients, ClientSend(c) PROVE AgreeInv'
  <2>1. UNCHANGED <<failed, srvShm, wPc, wPlace, wInfo, wOut, wConn, resp, cConn, cR1, cShm>>
    BY <1>3 DEF ClientSend
  <2>2. \A w \in Workers : wPc[w] \in {"copy", "copyKey", "insert", "update", "reply"} =>
          req'[wConn[w]] = req[wConn[w]]
    BY <1>3 DEF ClientSend
  <2>3. \A d \in Clients : InCall(d)' <=> InCall(d)
    BY <1>3 DEF ClientSend
  <2>4. QED
    BY <2>1, <2>2, <2>3
<1>4. ASSUME NEW c \in Clients, ClientFinish(c) PROVE AgreeInv'
  <2> DEFINE rsp == resp[cConn[c]]
  <2>1. UNCHANGED <<failed, srvShm, wPc, wPlace, wInfo, wOut, wConn, req, resp, cR1>>
    BY <1>4 DEF ClientFinish
  <2>2. InCall(c) /\ rsp # NoMsg /\ ~InCall(c)'
    BY <1>4 DEF ClientFinish
  <2>3. cShm'[c].secKey = SecretOf(cR1[c], rsp)
    BY <1>4 DEF ClientFinish, ClientEntry
  <2>4. \A d \in Clients \ {c} : /\ InCall(d)' <=> InCall(d)
                                /\ cConn'[d] = cConn[d] /\ cShm'[d] = cShm[d]
    BY <1>4 DEF ClientFinish
  <2>5. QED
    BY <2>1, <2>2, <2>3, <2>4
<1>5. ASSUME NEW c \in Clients, ClientRecvFails(c) PROVE AgreeInv'
  BY <1>5 DEF ClientRecvFails, ClientEnds
<1>6. ASSUME NEW c \in Clients, ClientKilled(c) PROVE AgreeInv'
  BY <1>6 DEF ClientKilled, ClientEnds
<1>7. ASSUME NEW c \in Clients, ClientRestart(c) PROVE AgreeInv'
  BY <1>7 DEF ClientRestart
<1>8. ASSUME NEW k \in Conns, PeerConnect(k) PROVE AgreeInv'
  <2>1. UNCHANGED <<failed, srvShm, wPc, wPlace, wInfo, wOut, wConn, resp, cPc, cConn, cR1,
                  cShm>>
    BY <1>8 DEF PeerConnect
  <2>2. \A w \in Workers : wPc[w] \in {"copy", "copyKey", "insert", "update", "reply"} =>
          req'[wConn[w]] = req[wConn[w]]
    BY <1>8 DEF PeerConnect
  <2>3. QED
    BY <2>1, <2>2
<1>9. CASE SrvCheckFlag
  BY <1>9 DEF SrvCheckFlag
<1>10. CASE SrvAccept
  BY <1>10 DEF SrvAccept
<1>11. CASE SrvAcceptTimeout
  BY <1>11 DEF SrvAcceptTimeout
<1>12. CASE SrvSpawn
  BY <1>12 DEF SrvSpawn
<1>12a. CASE SrvSpawnFails
  BY <1>12a DEF SrvSpawnFails, ServerEnds
<1>13. CASE SrvExit
  BY <1>13 DEF SrvExit, ServerEnds
<1>14. CASE SrvKilled
  BY <1>14 DEF SrvKilled, ServerEnds
<1>15. CASE SrvSignal
  BY <1>15 DEF SrvSignal
<1>16. CASE SrvStart
  BY <1>16 DEF SrvStart
<1>17. ASSUME NEW w \in Workers, WorkerRecv(w) PROVE AgreeInv'
  <2>1. CASE /\ \E pc \in {"agree", "reply"} : Goto(w, pc)
             /\ UNCHANGED <<wConn, wOut, wInfo, wPlace>>
    BY <1>17, <2>1 DEF WorkerRecv, Goto
  <2>2. CASE Returns(w)
    BY <1>17, <2>2 DEF WorkerRecv, Goto, Returns
  <2>3. QED
    BY <1>17, <2>1, <2>2, RecvOutcomes
<1>18. ASSUME NEW w \in Workers, WorkerRecvFails(w) PROVE AgreeInv'
  BY <1>18 DEF WorkerRecvFails, ServerEnds
<1>19. ASSUME NEW w \in Workers, WorkerGetKeyID(w) PROVE AgreeInv'
  BY <1>19 DEF WorkerGetKeyID, Prepare, Goto
<1>20. ASSUME NEW w \in Workers, WorkerShmFind(w) PROVE AgreeInv'
  BY <1>20 DEF WorkerShmFind, Goto
<1>20a. ASSUME NEW w \in Workers, WorkerShmCopy(w) PROVE AgreeInv'
  <2> SUFFICES ASSUME failed = {} PROVE AgreeInv'
    BY <1>20a DEF WorkerShmCopy
  <2>1. wPc[w] = "copy" /\ AtWork(w)
    BY <1>20a DEF WorkerShmCopy, AtWork
  <2>2. PICK c \in Clients : /\ InCall(c) /\ cConn[c] = wConn[w]
                             /\ req[wConn[w]] = Request(c) /\ resp[wConn[w]] = NoMsg
    BY <2>1, ThreadsClient
  <2> DEFINE n == req[wConn[w]].node
             i == wPlace[w]
  <2>3. n \in Nodes /\ i \in Targets(srvShm, n)
    BY <2>1, <2>2 DEF Request
  <2>4. /\ Blank \notin [node : Nodes, info : Infos] /\ Blank # [node |-> n, info |-> NoEntry]
        /\ srvShm \in Segments(MaxNode, Infos) /\ srvShm' = PutNode(srvShm, i, n, NoEntry)
    BY <1>20a, <2>3, NothingAssumption DEF WorkerShmCopy, Infos
  <2>5. UNCHANGED <<failed, wPlace, wInfo, wOut, wConn, req, resp, cPc, cConn, cR1, cShm>>
    BY <1>20a DEF WorkerShmCopy
  <2>6. wPc'[w] = "copyKey" /\ \A v \in Workers \ {w} : wPc'[v] = wPc[v] /\ ~AtWork(v)
    BY <1>20a, <2>1, OnlyOne DEF WorkerShmCopy, Goto
  <2>7. OnePlaceEach(srvShm') /\ InPlace(srvShm', i, n)
    BY <2>3, <2>4, PutNodeOnePlace
  <2>8. \A m \in Nodes : \A sec : HasKey(srvShm, m, sec) => HasKey(srvShm', m, sec)
    BY <2>3, <2>4, PutNodeKeepsKey
  <2>9. \A v \in Workers : wPc'[v] = "copyKey" => v = w
    BY <2>6 DEF AtWork
  <2>10. \A v \in Workers : /\ wPc'[v] # "copy"
                            /\ ~(wPc'[v] \in {"insert", "update", "reply"} /\ wOut'[v] # NoMsg)
    BY <2>5, <2>6 DEF AtWork
  <2>11. \A d \in Clients : NodeOf[d] \in Nodes
    OBVIOUS
  <2>12. QED
    BY <2>5, <2>7, <2>8, <2>9, <2>10, <2>11
<1>21. ASSUME NEW w \in Workers, WorkerShmWrite(w) PROVE AgreeInv'
  <2> SUFFICES ASSUME failed = {} PROVE AgreeInv'
    BY <1>21 DEF WorkerShmWrite
  <2>1. wPc[w] = "copyKey" /\ AtWork(w)
    BY <1>21 DEF WorkerShmWrite, AtWork
  <2>2. PICK c \in Clients : /\ InCall(c) /\ cConn[c] = wConn[w]
                             /\ req[wConn[w]] = Request(c) /\ resp[wConn[w]] = NoMsg
    BY <2>1, ThreadsClient
  <2> DEFINE n == NodeOf[c]
             i == wPlace[w]
             e == wInfo[w]
  <2>3. n \in Nodes /\ req[wConn[w]].node = n /\ InPlace(srvShm, i, n)
    BY <2>1, <2>2 DEF Request
  <2>4. e \in Infos /\ e # NoEntry /\ Blank \notin [node : Nodes, info : Infos]
    BY <2>1, NothingAssumption DEF Infos
  <2>5. srvShm \in Segments(MaxNode, Infos) /\ srvShm' = PutInfo(srvShm, i, e)
    BY <1>21 DEF WorkerShmWrite
  <2>6. UNCHANGED <<failed, wInfo, wOut, wConn, req, resp, cPc, cConn, cR1, cShm>>
    BY <1>21 DEF WorkerShmWrite
  <2>7. wPc'[w] = "insert" /\ \A v \in Workers \ {w} : wPc'[v] \in {wPc[v], "lost"}
    BY <1>21 DEF WorkerShmWrite
  <2>8. \A v \in Workers \ {w} : ~AtWork(v)
    BY <2>1, OnlyOne
  <2>9. \A v \in Workers : wPc'[v] \notin {"copy", "copyKey"}
    BY <2>7, <2>8 DEF AtWork
  <2>10. \A v \in Workers : wPc'[v] \in {"insert", "update", "reply"} /\ wOut'[v] # NoMsg => v = w
    BY <2>6, <2>8 DEF AtWork
  <2>11. OnePlaceEach(srvShm')
    BY <2>3, <2>4, <2>5, PutInfoOnePlace
  <2>12. HasKey(srvShm', n, e.secKey)
    BY <2>3, <2>4, <2>5, PutInfoHasKey
  <2>13. \A d \in Clients : ~InCall(d) /\ cShm[d] # Blank =>
           HasKey(srvShm', NodeOf[d], cShm[d].secKey)
    <3> SUFFICES ASSUME NEW d \in Clients, ~InCall(d), cShm[d] # Blank
                 PROVE  HasKey(srvShm', NodeOf[d], cShm[d].secKey)
      OBVIOUS
    <3>1. NodeOf[d] # n
      BY <2>2 DEF OneNodeEach
    <3>2. HasKey(srvShm, NodeOf[d], cShm[d].secKey)
      OBVIOUS
    <3>3. QED
      BY <2>3, <2>4, <2>5, <3>1, <3>2, PutInfoKeepsKey
  <2>14. \A d \in Clients : InCall(d) => resp[cConn[d]] = NoMsg
    BY <2>2
  <2>15. QED
    BY <2>3, <2>6, <2>9, <2>10, <2>11, <2>12, <2>13, <2>14
<1>22. ASSUME NEW w \in Workers, WorkerShmFaults(w) PROVE AgreeInv'
  BY <1>22 DEF WorkerShmFaults, ServerEnds
<1>23. ASSUME NEW w \in Workers, WorkerWriteSecKey(w) PROVE AgreeInv'
  BY <1>23 DEF WorkerWriteSecKey, Goto
<1>24. ASSUME NEW w \in Workers, WorkerUpdateKeyID(w) PROVE AgreeInv'
  BY <1>24 DEF WorkerUpdateKeyID, Goto
<1>25. ASSUME NEW w \in Workers, WorkerReply(w) PROVE AgreeInv'
  <2> SUFFICES ASSUME failed = {} PROVE AgreeInv'
    BY <1>25 DEF WorkerReply
  <2>1. UNCHANGED <<failed, srvShm, req, cPc, cConn, cR1, cShm>>
    BY <1>25 DEF WorkerReply
  <2>2. /\ wPc'[w] = "free"
        /\ \A v \in Workers \ {w} : /\ wPc'[v] = wPc[v] /\ wConn'[v] = wConn[v] /\ wOut'[v] = wOut[v]
                                    /\ wInfo'[v] = wInfo[v] /\ wPlace'[v] = wPlace[v]
    BY <1>25 DEF WorkerReply, Goto, Returns
  <2>3. /\ resp'[wConn[w]] \in {wOut[w], NoMsg}
        /\ \A k \in Conns \ {wConn[w]} : resp'[k] = resp[k]
    BY <1>25 DEF WorkerReply
  <2>4. \A d \in Clients : InCall(d) /\ resp'[cConn[d]] # NoMsg =>
           HasKey(srvShm, NodeOf[d], SecretOf(cR1[d], resp'[cConn[d]]))
    <3> SUFFICES ASSUME NEW d \in Clients, InCall(d), resp'[cConn[d]] # NoMsg
                 PROVE  HasKey(srvShm, NodeOf[d], SecretOf(cR1[d], resp'[cConn[d]]))
      OBVIOUS
    <3>1. CASE cConn[d] # wConn[w]
      BY <2>3, <3>1
    <3>2. CASE cConn[d] = wConn[w]
      <4>1. wOut[w] # NoMsg /\ resp'[cConn[d]] = wOut[w] /\ wPc[w] = "reply"
        BY <1>25, <2>3, <3>2 DEF WorkerReply
      <4>2. AtWork(w)
        BY <4>1 DEF AtWork
      <4>3. req[wConn[w]] = Request(d)
        BY <4>2, <3>2, ThreadsClient
      <4>4. HasKey(srvShm, req[wConn[w]].node, wInfo[w].secKey)
        BY <4>1
      <4>5. wInfo[w].secKey = SecretOf(req[wConn[w]].r1, wOut[w])
        BY <4>1 DEF PreparedInv
      <4>6. QED
        BY <4>1, <4>3, <4>4, <4>5 DEF Request
    <3>3. QED
      BY <3>1, <3>2
  <2>5. QED
    BY <2>1, <2>2, <2>4
<1>26. CASE UNCHANGED vars
  BY <1>26
<1>27. QED
  BY <1>1, <1>2, <1>3, <1>4, <1>5, <1>6, <1>7, <1>8, <1>9, <1>10, <1>11, <1>12, <1>12a, <1>13,
     <1>14, <1>15, <1>16, <1>17, <1>18, <1>19, <1>20, <1>20a, <1>21, <1>22, <1>23,
     <1>24, <1>25, <1>26 DEF Next, ClientStep, SrvLoop, WorkerStep


\* Where a segment has the secret for a node, shmRead finds it.
LEMMA HasKeyRead ==
  ASSUME NEW seg \in Segments(MaxNode, Infos), NEW n \in Nodes, NEW sec,
         OnePlaceEach(seg), HasKey(seg, n, sec)
  PROVE  (\E e \in Lookup(seg, n) \ {NoEntry} : e.secKey = sec) \/ Targets(seg, n) = {0}
<1>1. CASE PlacesOf(seg, n) = {} /\ BlankPlaces(seg) = {}
  BY <1>1 DEF Targets
<1>2. ASSUME NEW i \in PlacesOf(seg, n), seg[i].info # NoEntry, seg[i].info.secKey = sec
      PROVE  \E e \in Lookup(seg, n) \ {NoEntry} : e.secKey = sec
  <2>1. i \in Nat /\ \A j \in PlacesOf(seg, n) : j = i
    BY KeyAgreeAssumption DEF OnePlaceEach, PlacesOf, Segments
  <2>2. i \in FirstOf(PlacesOf(seg, n))
    BY <2>1 DEF FirstOf
  <2>3. QED
    BY <1>2, <2>2 DEF Lookup
<1>3. QED
  BY <1>1, <1>2 DEF HasKey

\* Between any two calls the server's segment has, for each client's node, the very
\* secret the client has, unless there was no place for the node; provided that the
\* calls so far returned normally and did not overlap, and that every client has a
\* node of its own.  The thread writes the segment before the response, and no later
\* step of it fails unseen by the client.
THEOREM SegmentsAgree ==
  ASSUME PeersAskNothing, OneNodeEach
  PROVE  Spec => []KeysAgree
<1>1. Init => AloneInv /\ AgreeInv
  BY InitCalls
<1>2. IInv /\ AloneInv /\ AgreeInv /\ [Next]_vars => (AloneInv /\ AgreeInv)'
  BY AloneStep, AgreeStep
<1>3. IInv /\ AloneInv /\ AgreeInv => KeysAgree
  <2> SUFFICES ASSUME IInv, AgreeInv, AllReturned, NEW c \in Clients, cShm[c] # Blank
               PROVE  \/ \E e \in Lookup(srvShm, NodeOf[c]) \ {NoEntry} : e.secKey = cShm[c].secKey
                      \/ Targets(srvShm, NodeOf[c]) = {0}
    BY DEF KeysAgree
  <2>1. OnePlaceEach(srvShm) /\ HasKey(srvShm, NodeOf[c], cShm[c].secKey)
    BY DEF AgreeInv, AllReturned, InCall
  <2>2. srvShm \in Segments(MaxNode, Infos) /\ NodeOf[c] \in Nodes
    BY KeyAgreeAssumption DEF IInv, TypeOK
  <2>3. QED
    BY <2>1, <2>2, HasKeyRead
<1>4. QED
  BY <1>1, <1>2, <1>3, Inductive, PTL DEF Spec
=============================================================================
