\* A process whose one thread writes while the other reads and which may be killed at
\* every step, and the segment it finds.
CONSTANTS
    p1 = p1
    p2 = p2
    p3 = p3
    t1 = t1
    t2 = t2
    t3 = t3
    Procs = {p1}
    Creators = {p1}
    Threads = {t1, t2}
    ProcOf <- MCShared
    Writers = {t1}
    Readers = {t2}
    Nodes = {n1, n2, n3}
    Keys = {s1}
    MaxNode <- MCTwo
    AllPlaces = 2
    Addrs = {a1, a2, a3}
    ExistsAtStart = TRUE
    Killable = {p1}
    Serial = FALSE
    NoNode = NoNode
    NoKey = NoKey
    NoAddr = NoAddr
SPECIFICATION Spec
INVARIANTS TypeOK
PROPERTIES ReadsOwnNode EntriesStay
CHECK_DEADLOCK FALSE
