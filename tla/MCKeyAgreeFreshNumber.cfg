\* Two requests at a time.
CONSTANTS
    c1 = c1
    c2 = c2
    n1 = n1
    n2 = n2
    ra = ra
    rb = rb
    Clients = {c1, c2}
    Nodes = {n1, n2}
    NodeOf <- MCNodeOf
    Conns = {k1, k2}
    Workers = {w1, w2}
    Nonces = {ra}
    MaxNode = 2
    MaxKeyId = 4
    FirstKeyIds <- MCFirst
    MaxStarts = 1
    Disturbances = {}
    PeerRequests <- MCPeerRequests
    NoConn = NoConn
    NoMsg = NoMsg
    NoEntry = NoEntry
    Blank = Blank
SPECIFICATION Spec
PROPERTIES FreshKeyNumber
CHECK_DEADLOCK FALSE
