\* Three calls, one without a timeout, a queue with room for one connection, two
\* descriptors of which one may be held for ever (a refused request, no thread, a peer that
\* stalls), two starts of the server.
CONSTANTS
    k1 = k1
    k2 = k2
    k3 = k3
    Socks = {k1, k2, k3}
    Timed = {k1, k2}
    Faulty = {k1}
    Held = {k2}
    Backlog = 1
    MaxFds = 2
    MaxStarts = 2
SPECIFICATION FairSpec
INVARIANTS TypeOK ResultTrue BlockingAgain
PROPERTIES CallsReturn QueuedServed SignalEnds
CHECK_DEADLOCK FALSE
