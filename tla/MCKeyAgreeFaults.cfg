\* Two clients, three connections, two threads; the server is started
\* twice, and clients and server may be killed or time out at every step.
CONSTANTS
    c1 = c1
    c2 = c2
    n1 = n1
    n2 = n2
    ra = ra
    rb = rb
    Clients = {c1, c2}
    Nodes = {n1, n2}
    NodeOf <- MCNodeOf
    Conns = {k1, k2, k3}
    Workers = {w1, w2}
    Nonces = {ra}
    MaxNode = 2
    MaxKeyId = 4
    FirstKeyIds <- MCFirst
    MaxStarts = 2
    Disturbances = {"client", "kill"}
    PeerRequests <- MCPeerRequests
    NoConn = NoConn
    NoMsg = NoMsg
    NoEntry = NoEntry
    Blank = Blank
SPECIFICATION Spec
INVARIANTS OwnConnections DescriptorsOwned OneRowPerConnection ClientKeyRecorded ReplyRecorded KeysAgree NumbersUnique
SYMMETRY MCSymmetry
CHECK_DEADLOCK FALSE
