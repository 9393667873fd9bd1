------------------------------ MODULE TcpConnect ------------------------------
(* ClassSocket/: connectToHost on the clients' side, setListen, acceptConn    *)
(* and closefd on the server's, inside ServerOperation::startWork's loop,     *)
(* with the kernel between them.  A connection may be completed, refused,     *)
(* lost or given up at any moment of the calls, also after connectToHost has  *)
(* returned.  Interrupted calls of select (EINTR) are repeated and leave no   *)
(* trace.                                                                     *)
(*                                                                            *)
(* The network and the kernel are external, modelled from the calls made to   *)
(* them: a connection is established when it enters the listener's queue, a   *)
(* full queue lets it wait, a port without a listener refuses it, and closing *)
(* the listener resets the connections that are still in the queue.           *)
EXTENDS Integers, Sequences, FiniteSets

CONSTANTS Socks,      \* sockets, one for each call of connectToHost
          Timed,      \* those whose call has a timeout (all in this repository)
          Faulty,     \* those for which select and getsockopt may fail
          Held,       \* those whose descriptors the server may keep for ever: it refuses the
                      \* request, has no thread for it, or its thread is in readn, which
                      \* waits for the rest of a message without a timeout
          Backlog,    \* room in the listener's queue (SOMAXCONN)
          MaxFds,     \* descriptors the server may have open
          MaxStarts   \* bound on the starts of the server

ASSUME TcpConnectAssumption ==
    /\ Timed \subseteq Socks /\ Faulty \subseteq Socks /\ Held \subseteq Socks
    /\ IsFiniteSet(Socks)
    /\ Backlog \in Nat \ {0} /\ MaxFds \in Nat \ {0} /\ MaxStarts \in Nat

VARIABLES
    net,       \* a client's socket, as its kernel sees it
    nonblock,  \* whether O_NONBLOCK is set on it
    call,      \* where its connectToHost is
    ret,       \* what connectToHost returned
    made,      \* history: the sockets whose connection was established
    cut,       \* history: the sockets for which select or getsockopt failed
    lfd,       \* m_lfd
    queue,     \* the established connections waiting for accept
    sPc,       \* startWork
    flag,      \* ServerOperation::flag
    open,      \* connections the server process has descriptors of
    taken,     \* history: the connections accepted
    starts     \* how often the server was started

client == <<net, nonblock, call, ret, made, cut>>
server == <<lfd, queue, sPc, flag, open, taken, starts>>
vars == <<client, server>>

TypeOK ==
    /\ net \in [Socks -> {"none", "syn", "established", "error", "expired", "closed"}]
    /\ nonblock \in [Socks -> BOOLEAN]
    /\ call \in [Socks -> {"idle", "select", "sockopt", "blocked", "done"}]
    /\ ret \in [Socks -> {"none", "ok", "timeout", "error"}]
    /\ made \subseteq Socks /\ cut \subseteq Socks
    /\ lfd \in {"none", "listening", "broken"}
    /\ queue \in Seq(Socks) /\ Len(queue) <= Backlog
    /\ sPc \in {"down", "loop", "select", "accept"}
    /\ flag \in BOOLEAN
    /\ open \subseteq taken /\ Cardinality(open) <= MaxFds
    /\ taken \subseteq made
    /\ starts \in 0..MaxStarts

Init ==
    /\ net = [k \in Socks |-> "none"]
    /\ nonblock = [k \in Socks |-> FALSE]
    /\ call = [k \in Socks |-> "idle"]
    /\ ret = [k \in Socks |-> "none"]
    /\ made = {} /\ cut = {}
    /\ lfd = "none" /\ queue = <<>>
    /\ sPc = "down" /\ flag = FALSE
    /\ open = {} /\ taken = {}
    /\ starts = 0

-----------------------------------------------------------------------------
(* The kernel.                                                                *)

SetNet(k, n) == net' = [net EXCEPT ![k] = n]

HasRoom == lfd = "listening" /\ Len(queue) < Backlog

Establish(k) ==
    /\ HasRoom
    /\ SetNet(k, "established")
    /\ made' = made \cup {k}
    /\ queue' = Append(queue, k)

\* The handshake completes.
Completes(k) ==
    /\ net[k] = "syn"
    /\ Establish(k)
    /\ UNCHANGED <<nonblock, call, ret, cut, lfd, sPc, flag, open, taken, starts>>

\* Nobody listens; or nobody answers, and the kernel gives up with ETIMEDOUT.
CompletesNot(k) ==
    /\ net[k] = "syn"
    /\ \/ lfd # "listening" /\ SetNet(k, "error")
       \/ SetNet(k, "expired")
    /\ UNCHANGED <<nonblock, call, ret, made, cut, server>>

-----------------------------------------------------------------------------
(* connectToHost.                                                             *)

\* The call returns r; noBlockIO comes first.
Return(k, r) ==
    /\ ret' = [ret EXCEPT ![k] = r]
    /\ nonblock' = [nonblock EXCEPT ![k] = FALSE]
    /\ call' = [call EXCEPT ![k] = "done"]

\* The call returns -1 at once, out of the middle of connectTimeout.
ReturnEarly(k) ==
    /\ ret' = [ret EXCEPT ![k] = "error"]
    /\ call' = [call EXCEPT ![k] = "done"]
    /\ UNCHANGED nonblock

\* socket, blockIO if there is a timeout, and connect, which is in progress, or waits,
\* or succeeds or fails at once.
Connect(k) ==
    /\ call[k] = "idle"
    /\ \/ /\ k \in Timed
          /\ nonblock' = [nonblock EXCEPT ![k] = TRUE]
          /\ SetNet(k, "syn")
          /\ call' = [call EXCEPT ![k] = "select"]
          /\ UNCHANGED <<ret, made, queue>>
       \/ /\ k \notin Timed
          /\ SetNet(k, "syn")
          /\ call' = [call EXCEPT ![k] = "blocked"]
          /\ UNCHANGED <<nonblock, ret, made, queue>>
       \/ /\ Establish(k)
          /\ Return(k, "ok")
       \/ /\ lfd # "listening"
          /\ SetNet(k, "closed")
          /\ Return(k, "error")
          /\ UNCHANGED <<made, queue>>
    /\ UNCHANGED <<cut, lfd, sPc, flag, open, taken, starts>>

\* Variant: select is repeated when its time is over, as after EINTR.
SelectTimesOutNever(k) ==
    /\ call[k] = "select" /\ net[k] = "syn"
    /\ UNCHANGED vars

\* select's time is over; the connection goes on trying.
SelectTimesOut(k) ==
    /\ call[k] = "select" /\ net[k] = "syn"
    /\ Return(k, "timeout")
    /\ UNCHANGED <<net, made, cut, server>>

\* The socket is writable: the connection was made, or has an error.
SelectReturns(k) ==
    /\ call[k] = "select" /\ net[k] # "syn"
    /\ call' = [call EXCEPT ![k] = "sockopt"]
    /\ UNCHANGED <<net, nonblock, ret, made, cut, server>>

\* select or getsockopt fails.
SelectFails(k) ==
    /\ k \in Faulty /\ call[k] \in {"select", "sockopt"}
    /\ ReturnEarly(k)
    /\ cut' = cut \cup {k}
    /\ UNCHANGED <<net, made, server>>

\* The error of the socket, which is cleared, and what connectToHost makes of it.
Outcome(k) ==
    \/ net[k] = "established" /\ Return(k, "ok") /\ UNCHANGED net
    \/ net[k] = "error" /\ Return(k, "error") /\ SetNet(k, "closed")
    \/ net[k] = "expired" /\ Return(k, "timeout") /\ SetNet(k, "closed")

\* Variant: SO_ERROR is not looked at.
GetSockOptNot(k) ==
    /\ call[k] = "sockopt"
    /\ Return(k, "ok")
    /\ UNCHANGED <<net, made, cut, server>>

\* Variant: connectTimeout returns the error itself.
GetSockOptErrno(k) ==
    /\ call[k] = "sockopt"
    /\ \/ net[k] = "established" /\ Return(k, "ok")
       \/ net[k] # "established" /\ Return(k, "errno")
    /\ UNCHANGED <<net, made, cut, server>>

\* Variant: an error of the socket, too, is returned before noBlockIO.
GetSockOptEarly(k) ==
    /\ call[k] = "sockopt"
    /\ IF net[k] = "error" THEN ReturnEarly(k) /\ SetNet(k, "closed") ELSE Outcome(k)
    /\ UNCHANGED <<made, cut, server>>

GetSockOpt(k) ==
    /\ call[k] = "sockopt"
    /\ Outcome(k)
    /\ UNCHANGED <<made, cut, server>>

\* The connect of a call without timeout returns.
ConnectReturns(k) ==
    /\ call[k] = "blocked"
    /\ Outcome(k)
    /\ UNCHANGED <<made, cut, server>>

\* It is interrupted and not repeated; the connection goes on trying.
ConnectInterrupted(k) ==
    /\ call[k] = "blocked" /\ net[k] = "syn"
    /\ Return(k, "error")
    /\ UNCHANGED <<net, made, cut, server>>

\* disConnect, whatever connectToHost returned (the clients do not look at it).
DisConnect(k) ==
    /\ call[k] = "done" /\ net[k] # "closed"
    /\ SetNet(k, "closed")
    /\ UNCHANGED <<nonblock, call, ret, made, cut, server>>

-----------------------------------------------------------------------------
(* startWork with TcpServer.                                                  *)

\* setListen, whose failure startWork only reports, in a new process.
StartWork ==
    /\ sPc = "down" /\ starts < MaxStarts
    /\ lfd' \in {"listening", "broken"}
    /\ sPc' = "loop"
    /\ starts' = starts + 1
    /\ UNCHANGED <<client, queue, flag, open, taken>>

\* SIGUSR1.
Signal ==
    /\ sPc # "down"
    /\ flag' = TRUE
    /\ UNCHANGED <<client, lfd, queue, sPc, open, taken, starts>>

\* The listener is closed, what is in its queue is reset, and the process ends.
ServerEnds ==
    /\ net' = [k \in Socks |->
                 IF \E i \in 1..Len(queue) : queue[i] = k /\ net[k] = "established"
                 THEN "error" ELSE net[k]]
    /\ lfd' = "none" /\ queue' = <<>>
    /\ sPc' = "down" /\ flag' = FALSE /\ open' = {}
    /\ UNCHANGED <<nonblock, call, ret, made, cut, taken, starts>>

\* The friendly exit: closefd.
Closefd == sPc = "loop" /\ flag /\ ServerEnds

KillServer == sPc # "down" /\ ServerEnds

ServerGoto(l) == sPc' = l /\ UNCHANGED <<client, lfd, queue, flag, open, taken, starts>>

\* Variant: acceptConn(0), that is accept without select.
AcceptConnWaits == sPc = "loop" /\ ~flag /\ ServerGoto("accept")

\* acceptConn(3) begins; select comes first.
AcceptConn == sPc = "loop" /\ ~flag /\ ServerGoto("select")

\* Variant: startWork leaves its loop when acceptConn gives NULL.
AcceptTimesOutLeaves ==
    /\ sPc = "select" /\ lfd = "listening" /\ queue = <<>>
    /\ sPc' = "down"
    /\ UNCHANGED <<client, lfd, queue, flag, open, taken, starts>>

\* Three seconds without a connection: acceptConn returns NULL, startWork goes on.
AcceptTimesOut ==
    /\ sPc = "select" /\ lfd = "listening" /\ queue = <<>>
    /\ ServerGoto("loop")

\* A connection is there; or the socket does not listen, and select returns at once.
AcceptSelected ==
    /\ sPc = "select" /\ (queue # <<>> \/ lfd = "broken")
    /\ ServerGoto("accept")

\* accept gives the next connection a descriptor, and startWork gives it a thread.
Accept ==
    /\ sPc = "accept" /\ queue # <<>> /\ Cardinality(open) < MaxFds
    /\ queue' = Tail(queue)
    /\ taken' = taken \cup {Head(queue)}
    /\ open' = open \cup {Head(queue)}
    /\ sPc' = "loop"
    /\ UNCHANGED <<client, lfd, flag, starts>>

\* accept fails: the socket does not listen, or there is no descriptor left.
AcceptFails ==
    /\ sPc = "accept"
    /\ lfd = "broken" \/ (queue # <<>> /\ Cardinality(open) >= MaxFds)
    /\ ServerGoto("loop")

\* working ends with disConnect; for a descriptor that is held this may never happen.
WorkingEnds(k) ==
    /\ k \in open
    /\ open' = open \ {k}
    /\ UNCHANGED <<client, lfd, queue, sPc, flag, taken, starts>>

-----------------------------------------------------------------------------
ClientGoesOn(k) == SelectTimesOut(k) \/ SelectReturns(k) \/ GetSockOpt(k) \/ ConnectReturns(k)

ServerGoesOn == Closefd \/ AcceptConn \/ AcceptTimesOut \/ AcceptSelected \/ Accept \/ AcceptFails

Next ==
    \/ \E k \in Socks :
         \/ Connect(k) \/ ClientGoesOn(k) \/ SelectFails(k) \/ ConnectInterrupted(k)
         \/ DisConnect(k) \/ Completes(k) \/ CompletesNot(k)
         \/ WorkingEnds(k)
    \/ StartWork \/ Signal \/ KillServer \/ ServerGoesOn

Spec == Init /\ [][Next]_vars

\* Running processes and threads go on, and time passes in select.  The network owes
\* nobody an answer, nor a peer the rest of a message, and nobody has to start or to be killed.
FairSpec ==
    /\ Spec
    /\ \A k \in Socks : WF_vars(ClientGoesOn(k))
    /\ \A k \in Socks \ Held : WF_vars(WorkingEnds(k))
    /\ WF_vars(ServerGoesOn)

-----------------------------------------------------------------------------
(* Properties.                                                                *)

\* connectToHost tells the truth: 0 only if the connection was made, and an error, unless
\* select or getsockopt failed, only if no server ever serves this connection.  A timeout
\* says neither: the connection may be made, and served, afterwards.
ResultTrue ==
    \A k \in Timed :
        /\ ret[k] = "ok" => k \in made
        /\ ret[k] = "error" /\ k \notin cut => k \notin taken

\* After connectToHost the socket blocks again, as readn and writen need it (they take
\* EAGAIN for a failure), whether the connection was made, refused or given up: only a
\* failure of select or getsockopt itself leaves the call before noBlockIO.
BlockingAgain ==
    \A k \in Socks : call[k] = "done" /\ nonblock[k] => k \in cut

\* Every connectToHost with a timeout returns, whatever the network and the server do:
\* again and again (and there are finitely many calls) none is going on.
CallsReturn == LET Calling == \E k \in Timed : call[k] \in {"select", "sockopt"}
               IN  Calling ~> ~Calling

\* Every connection in the queue is accepted in the end, or reset with its server, as long
\* as the descriptors that are leaked and those of stalled peers leave one for the others:
\* timeouts of acceptConn and failures of accept only delay it.
QueuedServed == Cardinality(Held) < MaxFds => (queue # <<>> ~> queue = <<>>)

\* SIGUSR1 ends the server even if nobody connects, and even if setListen had failed.
SignalEnds == flag ~> (sPc = "down")
=============================================================================
