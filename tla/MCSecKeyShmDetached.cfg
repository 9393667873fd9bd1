\* Two threads of one process.
CONSTANTS
    p1 = p1
    p2 = p2
    p3 = p3
    t1 = t1
    t2 = t2
    t3 = t3
    Procs = {p1}
    Creators = {p1}
    Threads = {t1, t2}
    ProcOf <- MCShared
    Writers = {t1, t2}
    Readers = {}
    Nodes = {n1, n2}
    Keys = {s1}
    MaxNode <- MCTwo
    AllPlaces = 2
    Addrs = {a1, a2, a3}
    ExistsAtStart = TRUE
    Killable = {}
    Serial = FALSE
    NoNode = NoNode
    NoKey = NoKey
    NoAddr = NoAddr
SPECIFICATION Spec
INVARIANTS MappedWhileUsed
SYMMETRY MCSymmetry
CHECK_DEADLOCK FALSE
