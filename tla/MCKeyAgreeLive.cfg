\* KEYSN may have no row, the server may be killed or told to leave, other programs send their
\* requests or stop halfway, no client is killed or times out; a segment of one place.
CONSTANTS
    c1 = c1
    c2 = c2
    n1 = n1
    n2 = n2
    ra = ra
    rb = rb
    Clients = {c1, c2}
    Nodes = {n1, n2}
    NodeOf <- MCNodeOf
    Conns = {k1, k2}
    Workers = {w1, w2}
    Nonces = {ra}
    MaxNode = 1
    MaxKeyId = 4
    FirstKeyIds <- MCFirstAny
    MaxStarts = 1
    Disturbances = {"kill", "signal", "thread", "peer", "stall"}
    PeerRequests <- MCPeerRequests
    NoConn = NoConn
    NoMsg = NoMsg
    NoEntry = NoEntry
    Blank = Blank
SPECIFICATION FairSpec
INVARIANTS TypeOK DescriptorsOwned 
PROPERTIES ImplementsService ServerLeaves CallEnds
CHECK_DEADLOCK FALSE
