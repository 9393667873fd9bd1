\* The server with two threads and two programs with one; each may be killed and connect
\* again; agreements begin while KEYSN is at most 2.
CONSTANTS
    s1 = s1
    s2 = s2
    s3 = s3
    t1 = t1
    t2 = t2
    t3 = t3
    t4 = t4
    Sessions = {s1, s2, s3}
    Threads = {t1, t2, t3, t4}
    SessionOf <- MCSessionOf
    FirstKeyIds <- MCFirst
    MaxKeyId = 2
    Killable = {s1, s2, s3}
    NoSession = NoSession
SPECIFICATION FairSpec
INVARIANTS TypeOK StillCurrent NoneSkipped
PROPERTIES AgreementsEnd
CHECK_DEADLOCK FALSE
