--------------------------- MODULE TcpConnectProofs ---------------------------
(* TcpConnect keeps its invariants for any sockets, queue, table of           *)
(* descriptors and number of starts: proofs for TLAPS.  IInv is inductive:    *)
(* TypeStep keeps the types, SocketStep what a socket and its call know of    *)
(* each other, QueueStep what the queue has to do with both.                  *)
EXTENDS TcpConnect, TLAPS, FiniteSetTheorems

\* A socket follows its call, and the call keeps O_NONBLOCK until it returns.
SocketOk(k) ==
    /\ call[k] = "idle" => net[k] = "none"
    /\ call[k] \in {"select", "sockopt"} => k \in Timed /\ nonblock[k]
    /\ call[k] = "blocked" => k \notin Timed
    /\ call[k] # "done" => ret[k] = "none" /\ net[k] # "closed"
    /\ net[k] \in {"none", "syn", "expired"} => k \notin made
    /\ net[k] = "established" => k \in made
    /\ ret[k] = "ok" => k \in made
    /\ k \in cut => call[k] = "done"
    /\ call[k] = "done" /\ nonblock[k] => k \in cut

SocketInv == \A k \in Socks : SocketOk(k)

\* The queue holds connections that were made and not yet taken, each once.
QueueInv ==
    \A i \in 1..Len(queue) :
        /\ queue[i] \in made \ taken
        /\ net[queue[i]] # "error"
        /\ \A j \in 1..Len(queue) : queue[i] = queue[j] => i = j

\* A connection that failed, or whose call said so after select and getsockopt, was never taken and
\* waits in no queue.
Failed(k) == k \in Timed /\ ret[k] = "error" /\ k \notin cut

FailedOk(k) ==
    /\ net[k] = "error" => k \notin taken
    /\ Failed(k) => /\ net[k] = "closed" /\ call[k] = "done" /\ k \notin taken
                    /\ \A i \in 1..Len(queue) : queue[i] # k

FailedInv == \A k \in Socks : FailedOk(k)

IInv == TypeOK /\ SocketInv /\ QueueInv /\ FailedInv

-----------------------------------------------------------------------------
(* Types.                                                                     *)

\* The descriptors of the server stay within MaxFds: Accept takes one more only
\* below the bound, the others take none.
LEMMA AddDescriptor ==
  ASSUME NEW S, NEW x, IsFiniteSet(S), Cardinality(S) < MaxFds, MaxFds \in Nat
  PROVE  IsFiniteSet(S \cup {x}) /\ Cardinality(S \cup {x}) <= MaxFds
<1>1. IsFiniteSet(S \cup {x}) /\ Cardinality(S) \in Nat
  BY FS_AddElement, FS_CardinalityType
<1>2. Cardinality(S \cup {x}) = Cardinality(S) \/ Cardinality(S \cup {x}) = Cardinality(S) + 1
  BY FS_AddElement
<1>3. QED
  BY <1>1, <1>2

LEMMA OpenFinite == ASSUME TypeOK PROVE IsFiniteSet(open)
BY TcpConnectAssumption, FS_Subset DEF TypeOK

LEMMA InitOk == Init => IInv
<1>1. IsFiniteSet({}) /\ Cardinality({}) = 0
  BY FS_EmptySet
<1>2. MaxFds \in Nat /\ Backlog \in Nat /\ MaxStarts \in Nat
  BY TcpConnectAssumption
<1>3. ASSUME Init PROVE TypeOK
  <2>1. /\ net \in [Socks -> {"none"}] /\ nonblock \in [Socks -> BOOLEAN]
        /\ call \in [Socks -> {"idle"}] /\ ret \in [Socks -> {"none"}]
    BY <1>3 DEF Init
  <2>2. made = {} /\ cut = {} /\ open = {} /\ taken = {} /\ starts \in 0..MaxStarts
    BY <1>2, <1>3 DEF Init
  <2>3. queue = <<>> /\ lfd = "none" /\ sPc = "down" /\ flag \in BOOLEAN
    BY <1>3 DEF Init
  <2>4. QED
    BY <1>1, <1>2, <2>1, <2>2, <2>3 DEF TypeOK
<1>4. Init => SocketInv /\ QueueInv /\ FailedInv
  BY DEF Init, SocketInv, SocketOk, QueueInv, FailedInv, FailedOk, Failed
<1>5. QED
  BY <1>3, <1>4 DEF IInv

LEMMA TypeStep == IInv /\ [Next]_vars => TypeOK'
<1> SUFFICES ASSUME TypeOK, SocketInv, QueueInv, [Next]_vars PROVE TypeOK'
  BY DEF IInv
<1>0. MaxFds \in Nat /\ Backlog \in Nat \ {0} /\ MaxStarts \in Nat
  BY TcpConnectAssumption
<1> USE <1>0 DEF TypeOK
<1>1. ASSUME NEW k \in Socks, Connect(k) PROVE TypeOK'
  <2>1. k \notin made
    BY <1>1 DEF Connect, SocketInv, SocketOk
  <2>2. CASE Establish(k)
    <3>1. /\ net' \in [Socks -> {"none", "syn", "established", "error", "expired", "closed"}]
          /\ made' = made \cup {k} /\ queue' = Append(queue, k) /\ Len(queue) < Backlog
      BY <2>2 DEF Establish, HasRoom, SetNet
    <3>2. queue' \in Seq(Socks) /\ Len(queue') <= Backlog /\ made' \subseteq Socks /\ taken \subseteq made'
      BY <3>1
    <3>3. /\ nonblock' \in [Socks -> BOOLEAN]
          /\ call' \in [Socks -> {"idle", "select", "sockopt", "blocked", "done"}]
          /\ ret' \in [Socks -> {"none", "ok", "timeout", "error"}]
      BY <1>1 DEF Connect, Return
    <3>4. UNCHANGED <<cut, lfd, sPc, flag, open, taken, starts>>
      BY <1>1 DEF Connect
    <3>5. QED
      BY <3>1, <3>2, <3>3, <3>4
  <2>3. CASE ~Establish(k)
    BY <1>1, <2>3 DEF Connect, SetNet, Return
  <2>4. QED
    BY <2>2, <2>3
<1>2. ASSUME NEW k \in Socks, ClientGoesOn(k) PROVE TypeOK'
  BY <1>2 DEF ClientGoesOn, SelectTimesOut, SelectReturns, GetSockOpt, ConnectReturns,
              Outcome, Return, SetNet, server
<1>3. ASSUME NEW k \in Socks, SelectFails(k) \/ ConnectInterrupted(k) \/ DisConnect(k)
      PROVE  TypeOK'
  BY <1>3 DEF SelectFails, ConnectInterrupted, DisConnect, Return, ReturnEarly, SetNet, server
<1>4. ASSUME NEW k \in Socks, Completes(k) PROVE TypeOK'
  BY <1>4 DEF Completes, Establish, HasRoom, SetNet
<1>5. ASSUME NEW k \in Socks, CompletesNot(k) PROVE TypeOK'
  BY <1>5 DEF CompletesNot, SetNet, server
<1>6. ASSUME NEW k \in Socks, WorkingEnds(k) PROVE TypeOK'
  <2>1. Cardinality(open \ {k}) <= Cardinality(open)
    BY OpenFinite, FS_Subset
  <2>2. Cardinality(open) \in Nat /\ Cardinality(open \ {k}) \in Nat
    BY OpenFinite, FS_CardinalityType, FS_Subset
  <2>3. QED
    BY <1>6, <2>1, <2>2 DEF WorkingEnds, client
<1>7. ASSUME StartWork \/ Signal PROVE TypeOK'
  <2>1. CASE StartWork
    <3>1. starts' \in 0..MaxStarts
      BY <2>1 DEF StartWork
    <3>2. lfd' \in {"none", "listening", "broken"}
      BY <2>1 DEF StartWork
    <3>3. UNCHANGED <<net, nonblock, call, ret, made, cut, queue, flag, open, taken>> /\ sPc' = "loop"
      BY <2>1 DEF StartWork, client
    <3>4. QED
      BY <3>1, <3>2, <3>3
  <2>2. CASE Signal
    BY <2>2 DEF Signal, client
  <2>3. QED
    BY <1>7, <2>1, <2>2
<1>8. ASSUME ServerEnds PROVE TypeOK'
  <2>1. Cardinality({}) = 0
    BY FS_EmptySet
  <2>2. net' \in [Socks -> {"none", "syn", "established", "error", "expired", "closed"}]
    BY <1>8 DEF ServerEnds
  <2>3. lfd' = "none" /\ queue' = <<>> /\ sPc' = "down" /\ flag' = FALSE /\ open' = {}
    BY <1>8 DEF ServerEnds
  <2>4. UNCHANGED <<nonblock, call, ret, made, cut, taken, starts>>
    BY <1>8 DEF ServerEnds
  <2>5. queue' \in Seq(Socks) /\ Len(queue') <= Backlog
    BY <2>3
  <2>6. open' \subseteq taken' /\ Cardinality(open') <= MaxFds /\ taken' \subseteq made'
    BY <2>1, <2>3, <2>4
  <2>7. QED
    BY <2>2, <2>3, <2>4, <2>5, <2>6
<1>9. ASSUME NEW l \in {"loop", "select", "accept"}, ServerGoto(l) PROVE TypeOK'
  BY <1>9 DEF ServerGoto, client
<1>10. ASSUME Accept PROVE TypeOK'
  <2>1. Head(queue) = queue[1] /\ Tail(queue) \in Seq(Socks) /\ Len(Tail(queue)) = Len(queue) - 1
    BY <1>10 DEF Accept
  <2>2. queue[1] \in made
    BY <1>10 DEF Accept, QueueInv
  <2>3. Cardinality(open \cup {queue[1]}) <= MaxFds
    BY <1>10, OpenFinite, AddDescriptor DEF Accept
  <2>4. QED
    BY <1>10, <2>1, <2>2, <2>3 DEF Accept, client
<1>11. CASE UNCHANGED vars
  BY <1>11 DEF vars, client, server
<1>12. ServerGoesOn \/ KillServer =>
         ServerEnds \/ Accept \/ \E l \in {"loop", "select", "accept"} : ServerGoto(l)
  BY DEF ServerGoesOn, KillServer, Closefd, AcceptConn, AcceptTimesOut, AcceptSelected, AcceptFails
<1>13. QED
  BY <1>1, <1>2, <1>3, <1>4, <1>5, <1>6, <1>7, <1>8, <1>9, <1>10, <1>11, <1>12 DEF Next

-----------------------------------------------------------------------------
(* The invariants.                                                            *)

\* The kernel's and the calls' steps on one socket.
ClientStep(k) ==
    \/ Connect(k) \/ ClientGoesOn(k) \/ SelectFails(k) \/ ConnectInterrupted(k)
    \/ DisConnect(k) \/ Completes(k) \/ CompletesNot(k)

\* The server touches the clients only when it ends.
LEMMA StepOk ==
  ASSUME [Next]_vars
  PROVE  (\E k \in Socks : ClientStep(k)) \/ ServerEnds \/ UNCHANGED client
BY DEF Next, vars, ClientStep, WorkingEnds, StartWork, Signal, KillServer, ServerGoesOn,
       Closefd, AcceptConn, AcceptTimesOut, AcceptSelected, Accept, AcceptFails, ServerGoto

LEMMA SocketStep == IInv /\ [Next]_vars => SocketInv'
<1> SUFFICES ASSUME TypeOK, [Next]_vars, NEW j \in Socks, SocketOk(j) PROVE SocketOk(j)'
  BY DEF IInv, SocketInv
<1> USE DEF TypeOK, SocketOk
<1>1. ASSUME NEW k \in Socks, Connect(k) PROVE SocketOk(j)'
  BY <1>1 DEF Connect, Establish, SetNet, Return
<1>2. ASSUME NEW k \in Socks, SelectTimesOut(k) \/ SelectReturns(k) PROVE SocketOk(j)'
  BY <1>2 DEF SelectTimesOut, SelectReturns, Return, server
<1>3. ASSUME NEW k \in Socks, GetSockOpt(k) \/ ConnectReturns(k) PROVE SocketOk(j)'
  BY <1>3 DEF GetSockOpt, ConnectReturns, Outcome, Return, SetNet, server
<1>4. ASSUME NEW k \in Socks, SelectFails(k) \/ ConnectInterrupted(k) \/ DisConnect(k)
      PROVE  SocketOk(j)'
  BY <1>4 DEF SelectFails, ConnectInterrupted, DisConnect, Return, ReturnEarly, SetNet, server
<1>5. ASSUME NEW k \in Socks, Completes(k) PROVE SocketOk(j)'
  BY <1>5 DEF Completes, Establish, SetNet
<1>6. ASSUME NEW k \in Socks, CompletesNot(k) PROVE SocketOk(j)'
  BY <1>6 DEF CompletesNot, SetNet, server
<1>7. ASSUME ServerEnds PROVE SocketOk(j)'
  <2>1. net'[j] = net[j] \/ (net[j] = "established" /\ net'[j] = "error")
    BY <1>7 DEF ServerEnds
  <2>2. UNCHANGED <<nonblock, call, ret, made, cut>>
    BY <1>7 DEF ServerEnds
  <2>3. QED
    BY <2>1, <2>2
<1>8. CASE UNCHANGED client
  BY <1>8 DEF client
<1>9. QED
  BY <1>1, <1>2, <1>3, <1>4, <1>5, <1>6, <1>7, <1>8, StepOk DEF ClientStep, ClientGoesOn

\* Only a handshake fills the queue, and only Accept takes from it.
LEMMA QueueStep == IInv /\ [Next]_vars => QueueInv'
<1> SUFFICES ASSUME TypeOK, SocketInv, QueueInv, [Next]_vars PROVE QueueInv'
  BY DEF IInv
<1> USE DEF QueueInv
<1>1. ASSUME NEW k \in Socks, HasRoom, Establish(k), k \notin made, UNCHANGED taken PROVE QueueInv'
  <2>1. /\ queue' = Append(queue, k) /\ made' = made \cup {k}
        /\ \A j \in Socks : net'[j] = IF j = k THEN "established" ELSE net[j]
    BY <1>1 DEF Establish, SetNet, TypeOK
  <2>2. queue \in Seq(Socks) /\ taken \subseteq made
    BY DEF TypeOK
  <2>3. \A i \in 1..Len(queue') :
          \/ i \in 1..Len(queue) /\ queue'[i] = queue[i] /\ queue[i] # k /\ queue[i] \in Socks
          \/ i = Len(queue) + 1 /\ queue'[i] = k
    BY <1>1, <2>1, <2>2
  <2>4. ASSUME NEW i \in 1..Len(queue')
        PROVE  queue'[i] \in made' \ taken' /\ net'[queue'[i]] # "error"
    BY <1>1, <2>1, <2>2, <2>3
  <2>5. ASSUME NEW i \in 1..Len(queue'), NEW j \in 1..Len(queue'), queue'[i] = queue'[j]
        PROVE  i = j
    BY <2>3, <2>5
  <2>6. QED
    BY <2>4, <2>5
<1>2. ASSUME NEW k \in Socks, Completes(k) PROVE QueueInv'
  <2>1. k \notin made
    BY <1>2 DEF Completes, SocketInv, SocketOk
  <2>2. QED
    BY <1>1, <1>2, <2>1 DEF Completes, Establish
<1>3. ASSUME NEW k \in Socks, Connect(k) PROVE QueueInv'
  <2>1. k \notin made /\ \A i \in 1..Len(queue) : queue[i] # k
    BY <1>3 DEF Connect, SocketInv, SocketOk
  <2>2. CASE Establish(k)
    BY <1>1, <1>3, <2>1, <2>2 DEF Connect, Establish
  <2>3. CASE ~Establish(k)
    BY <1>3, <2>1, <2>3 DEF Connect, SetNet, TypeOK
  <2>4. QED
    BY <2>2, <2>3
<1>4. ASSUME NEW k \in Socks, CompletesNot(k) PROVE QueueInv'
  <2>1. \A i \in 1..Len(queue) : queue[i] # k
    BY <1>4 DEF CompletesNot, SocketInv, SocketOk
  <2>2. QED
    BY <1>4, <2>1 DEF CompletesNot, SetNet, TypeOK, server
<1>5. ASSUME NEW k \in Socks,
             ClientGoesOn(k) \/ SelectFails(k) \/ ConnectInterrupted(k) \/ DisConnect(k)
      PROVE  QueueInv'
  <2>1. \A j \in Socks : net'[j] = net[j] \/ net'[j] = "closed"
    BY <1>5 DEF ClientGoesOn, SelectTimesOut, SelectReturns, GetSockOpt, ConnectReturns, Outcome,
                SelectFails, ConnectInterrupted, DisConnect, SetNet, TypeOK
  <2>2. UNCHANGED <<made, queue, taken>>
    BY <1>5 DEF ClientGoesOn, SelectTimesOut, SelectReturns, GetSockOpt, ConnectReturns,
                SelectFails, ConnectInterrupted, DisConnect, server
  <2>3. \A i \in 1..Len(queue) : queue[i] \in Socks
    BY DEF TypeOK
  <2>4. QED
    BY <2>1, <2>2, <2>3
<1>6. ASSUME ServerEnds PROVE QueueInv'
  <2>1. Len(queue') = 0
    BY <1>6 DEF ServerEnds
  <2>2. QED
    BY <2>1
<1>7. ASSUME Accept PROVE QueueInv'
  <2>1. /\ Head(queue) = queue[1] /\ queue' = Tail(queue) /\ 1 \in 1..Len(queue)
        /\ Len(queue') = Len(queue) - 1 /\ Len(queue) \in Nat
        /\ \A i \in 1..Len(queue') : queue'[i] = queue[i + 1]
    BY <1>7 DEF Accept, TypeOK
  <2>2. taken' = taken \cup {queue[1]} /\ UNCHANGED <<made, net>>
    BY <1>7, <2>1 DEF Accept, client
  <2>3. \A i \in 1..Len(queue') : i + 1 \in 1..Len(queue) /\ i + 1 # 1 /\ queue[i + 1] # queue[1]
    BY <2>1
  <2>4. ASSUME NEW i \in 1..Len(queue') PROVE queue'[i] \in made' \ taken' /\ net'[queue'[i]] # "error"
    BY <2>1, <2>2, <2>3
  <2>5. ASSUME NEW i \in 1..Len(queue'), NEW j \in 1..Len(queue'), queue'[i] = queue'[j] PROVE i = j
    <3>1. queue[i + 1] = queue[j + 1]
      BY <2>1, <2>5
    <3>2. i + 1 = j + 1
      BY <2>3, <3>1
    <3>3. QED
      BY <3>2
  <2>6. QED
    BY <2>4, <2>5
<1>8. CASE UNCHANGED <<net, made, queue, taken>>
  BY <1>8
<1>9. QED
  <2>1. \/ \E k \in Socks : ClientStep(k)
        \/ ServerEnds \/ Accept \/ UNCHANGED <<net, made, queue, taken>>
    BY DEF Next, vars, client, server, ClientStep, WorkingEnds, StartWork, Signal, KillServer,
           ServerGoesOn, Closefd, AcceptConn, AcceptTimesOut, AcceptSelected, AcceptFails, ServerGoto
  <2>2. QED
    BY <2>1, <1>2, <1>3, <1>4, <1>5, <1>6, <1>7, <1>8 DEF ClientStep

LEMMA FailedStep == IInv /\ [Next]_vars => FailedInv'
<1> SUFFICES ASSUME TypeOK, SocketInv, QueueInv, [Next]_vars, NEW j \in Socks, FailedOk(j)
             PROVE  FailedOk(j)'
  BY DEF IInv, FailedInv
<1> DEFINE waits(q) == \E i \in 1..Len(q) : q[i] = j
<1>0. SocketOk(j) /\ (j \notin made => ~waits(queue)) /\ (net[j] = "error" => ~waits(queue))
  BY DEF SocketInv, QueueInv
<1>1. ASSUME NEW k \in Socks, Establish(k), j # k PROVE ~waits(queue) => ~waits(queue')
  <2>1. queue' = Append(queue, k) /\ queue \in Seq(Socks)
    BY <1>1 DEF Establish, TypeOK
  <2>2. \A i \in 1..Len(queue') :
          (i \in 1..Len(queue) /\ queue'[i] = queue[i]) \/ queue'[i] = k
    BY <2>1
  <2>3. QED
    BY <1>1, <2>2
<1>2. ASSUME NEW k \in Socks, Connect(k) \/ Completes(k) PROVE FailedOk(j)'
  <2>1. UNCHANGED <<taken, cut>> /\ taken \subseteq made
    BY <1>2 DEF Connect, Completes, TypeOK
  <2>2. CASE k = j
    BY <1>0, <1>2, <2>1, <2>2 DEF Connect, Completes, Establish, SetNet, Return, TypeOK,
                            SocketOk, FailedOk, Failed
  <2>3. CASE k # j /\ Establish(k)
    <3>1. net'[j] = net[j] /\ ret'[j] = ret[j] /\ call'[j] = call[j] /\ nonblock'[j] = nonblock[j]
      BY <1>2, <2>3 DEF Connect, Completes, Establish, SetNet, Return, TypeOK
    <3>2. ~waits(queue) => ~waits(queue')
      BY <1>1, <2>3
    <3>3. QED
      BY <2>1, <3>1, <3>2 DEF FailedOk, Failed
  <2>4. CASE k # j /\ ~Establish(k)
    BY <1>2, <2>1, <2>4 DEF Connect, Completes, SetNet, Return, TypeOK, FailedOk, Failed
  <2>5. QED
    BY <2>2, <2>3, <2>4
<1>3. ASSUME NEW k \in Socks, CompletesNot(k) PROVE FailedOk(j)'
  <2>1. taken \subseteq made
    BY DEF TypeOK
  <2>2. QED
    BY <1>0, <1>3, <2>1 DEF CompletesNot, SetNet, server, TypeOK, SocketOk, FailedOk, Failed
<1>4. ASSUME NEW k \in Socks, SelectTimesOut(k) \/ SelectReturns(k) \/ SelectFails(k)
      PROVE  FailedOk(j)'
  BY <1>0, <1>4 DEF SelectTimesOut, SelectReturns, SelectFails, Return, ReturnEarly, server, TypeOK,
                    SocketOk, FailedOk, Failed
<1>5. ASSUME NEW k \in Socks, GetSockOpt(k) \/ ConnectReturns(k) PROVE FailedOk(j)'
  BY <1>0, <1>5 DEF GetSockOpt, ConnectReturns, Outcome, Return, SetNet, server, TypeOK,
                    SocketOk, FailedOk, Failed
<1>6. ASSUME NEW k \in Socks, ConnectInterrupted(k) \/ DisConnect(k) PROVE FailedOk(j)'
  BY <1>0, <1>6 DEF ConnectInterrupted, DisConnect, Return, SetNet, server, TypeOK,
                    SocketOk, FailedOk, Failed
<1>7. ASSUME ServerEnds PROVE FailedOk(j)'
  <2>1. UNCHANGED <<nonblock, call, ret, cut, taken>> /\ Len(queue') = 0
    BY <1>7 DEF ServerEnds
  <2>2. net'[j] = net[j] \/ (waits(queue) /\ net[j] = "established" /\ net'[j] = "error")
    BY <1>7 DEF ServerEnds
  <2>3. waits(queue) => j \notin taken
    BY DEF QueueInv
  <2>4. QED
    BY <2>1, <2>2, <2>3 DEF FailedOk, Failed
<1>8. ASSUME Accept PROVE FailedOk(j)'
  <2>1. /\ Head(queue) = queue[1] /\ queue' = Tail(queue) /\ 1 \in 1..Len(queue)
        /\ \A i \in 1..Len(queue') : i + 1 \in 1..Len(queue) /\ queue'[i] = queue[i + 1]
    BY <1>8 DEF Accept, TypeOK
  <2>2. taken' = taken \cup {queue[1]} /\ UNCHANGED <<net, nonblock, call, ret, cut>>
    BY <1>8, <2>1 DEF Accept, client
  <2>3. ~waits(queue) => ~waits(queue') /\ (j \in taken' => j \in taken)
    BY <2>1, <2>2
  <2>4. QED
    BY <1>0, <2>2, <2>3 DEF FailedOk, Failed
<1>9. CASE UNCHANGED <<client, queue, taken>>
  BY <1>9 DEF client, FailedOk, Failed
<1>10. QED
  <2>1. \/ \E k \in Socks : ClientStep(k)
        \/ ServerEnds \/ Accept \/ UNCHANGED <<client, queue, taken>>
    BY DEF Next, vars, server, ClientStep, WorkingEnds, StartWork, Signal, KillServer,
           ServerGoesOn, Closefd, AcceptConn, AcceptTimesOut, AcceptSelected, AcceptFails, ServerGoto
  <2>2. QED
    BY <2>1, <1>2, <1>3, <1>4, <1>5, <1>6, <1>7, <1>8, <1>9 DEF ClientStep, ClientGoesOn

-----------------------------------------------------------------------------
(* The theorems.                                                              *)

LEMMA Inductive == Spec => []IInv
<1>1. IInv /\ [Next]_vars => IInv'
  BY TypeStep, SocketStep, QueueStep, FailedStep DEF IInv
<1>2. QED
  BY <1>1, InitOk, PTL DEF Spec

\* The types: among them, the queue never outgrows listen's backlog, the server
\* never holds more descriptors than the process may have, and what it accepted
\* was established before.
THEOREM TypesKept == Spec => []TypeOK
<1>1. IInv => TypeOK
  BY DEF IInv
<1>2. QED
  BY <1>1, Inductive, PTL

\* connectToHost tells the truth, for any number of calls racing with handshakes,
\* kills and restarts of the server: 0 only for a connection that was made, and an
\* error, unless select or getsockopt failed, only for one the server never accepts.
THEOREM ResultIsTrue == Spec => []ResultTrue
<1>1. IInv => ResultTrue
  BY TcpConnectAssumption DEF IInv, SocketInv, SocketOk, FailedInv, FailedOk, Failed, ResultTrue
<1>2. QED
  BY <1>1, Inductive, PTL

\* After connectToHost the socket blocks again, whatever the call returns, be the
\* connection made, refused or timed out, unless select or getsockopt itself failed in
\* this very call.
THEOREM BlocksAgain == Spec => []BlockingAgain
<1>1. IInv => BlockingAgain
  BY DEF IInv, SocketInv, SocketOk, BlockingAgain
<1>2. QED
  BY <1>1, Inductive, PTL
=============================================================================
