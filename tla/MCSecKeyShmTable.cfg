\* Two processes that create the segment, for one place and for two, and one that opens it and
\* looks at three; each writes and reads, no two calls overlap.
CONSTANTS
    p1 = p1
    p2 = p2
    p3 = p3
    t1 = t1
    t2 = t2
    t3 = t3
    Procs = {p1, p2, p3}
    Creators = {p1, p2}
    Threads = {t1, t2, t3}
    ProcOf <- MCOwn
    Writers = {t1, t2, t3}
    Readers = {t2, t3}
    Nodes = {n1, n2, n3}
    Keys = {s1, s2}
    MaxNode <- MCSizes
    AllPlaces = 3
    Addrs = {a1, a2}
    ExistsAtStart = FALSE
    Killable = {}
    Serial = TRUE
    NoNode = NoNode
    NoKey = NoKey
    NoAddr = NoAddr
SPECIFICATION Spec
INVARIANTS OnePlacePerNode MappingBalanced
PROPERTIES ImplementsTable
SYMMETRY MCSymmetry
CHECK_DEADLOCK FALSE
