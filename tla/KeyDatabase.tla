----------------------------- MODULE KeyDatabase -----------------------------
(* OCCI/: OCCIOP and the database behind it, for several programs at a time.  *)
(* A program has one session (m_conn); the server's threads share its session *)
(* and OCCI/main.cpp runs the same calls in a session of its own.             *)
(*                                                                            *)
(* The database is external and modelled from the statements sent to it:      *)
(* "for update" locks the row of KEYSN for the session until the session's    *)
(* next commit, whichever thread it comes from, a locked row makes others     *)
(* wait their turn, and every insert and update commits at once.  A session   *)
(* runs one statement at a time.                                              *)
EXTENDS Integers, Sequences

CONSTANTS Sessions,     \* connections to the database
          Threads,      \* threads that make and record keys
          SessionOf,    \* the session each thread uses
          FirstKeyIds,  \* what KEYSN may hold at the start, NoRow included
          MaxKeyId,     \* bound: no agreement begins once KEYSN is beyond it
          Killable,     \* sessions whose program may be killed
          NoSession

\* getKeyID's answer when KEYSN has no row.
NoRow == -1

ASSUME KeyDatabaseAssumption ==
    /\ SessionOf \in [Threads -> Sessions]
    /\ MaxKeyId \in Nat
    /\ FirstKeyIds \subseteq Nat \cup {NoRow}
    /\ Killable \subseteq Sessions
    /\ NoSession \notin Sessions

VARIABLES
    first,   \* history: what KEYSN held at the start
    keysn,   \* SECMNG.KEYSN
    rows,    \* the key numbers in SECMNG.SECKYEINFO
    lock,    \* the session that has KEYSN's row locked
    queue,   \* the sessions with a statement that waits for the row, the next first
    on,      \* the sessions that are connected
    pc,      \* where each thread is in its agreement
    num      \* keyId of each thread

vars == <<first, keysn, rows, lock, queue, on, pc, num>>

KeyIds == Nat \cup {NoRow}

\* The variables' types; the row is locked for a session that is connected.
TypeOK ==
    /\ first \in KeyIds /\ keysn \in KeyIds
    /\ rows \subseteq KeyIds
    /\ on \subseteq Sessions
    /\ lock \in on \cup {NoSession}
    /\ queue \in Seq(Sessions)
    /\ pc \in [Threads -> {"idle", "waitGet", "insert", "update", "waitUpdate"}]
    /\ num \in [Threads -> KeyIds]

Init ==
    /\ first \in FirstKeyIds /\ keysn = first
    /\ rows = {}
    /\ lock = NoSession /\ queue = <<>>
    /\ on = {}
    /\ pc = [t \in Threads |-> "idle"]
    /\ num = [t \in Threads |-> NoRow]

-----------------------------------------------------------------------------
(* The row lock and the sessions.                                             *)

Goto(t, l) == pc' = [pc EXCEPT ![t] = l]

Waiting(t) == pc[t] \in {"waitGet", "waitUpdate"}

\* The thread's session is connected and runs no statement.
Ready(t) ==
    /\ SessionOf[t] \in on
    /\ \A u \in Threads : SessionOf[u] = SessionOf[t] => ~Waiting(u)

\* The thread's statement need not wait for the row.
Locks(t) == lock \in {SessionOf[t], NoSession}

\* Session s commits, and its lock goes to the session that is waiting next.
Commit(s) ==
    IF lock # s THEN UNCHANGED <<lock, queue>>
    ELSE IF queue = <<>> THEN lock' = NoSession /\ UNCHANGED queue
    ELSE lock' = Head(queue) /\ queue' = Tail(queue)

\* connectDB.
ConnectDB(s) ==
    /\ s \notin on
    /\ on' = on \cup {s}
    /\ UNCHANGED <<first, keysn, rows, lock, queue, pc, num>>

\* The queue without session s, which waits in it once at most.
Without(q, s) ==
    IF \A i \in 1..Len(q) : q[i] # s THEN q
    ELSE LET at == CHOOSE i \in 1..Len(q) : q[i] = s
         IN  [i \in 1..(Len(q) - 1) |-> IF i < at THEN q[i] ELSE q[i + 1]]

\* Variant: the lock of a program that ends stays.
EndsKeepsLock(s) ==
    /\ on' = on \ {s}
    /\ pc' = [t \in Threads |-> IF SessionOf[t] = s THEN "idle" ELSE pc[t]]
    /\ num' = [t \in Threads |-> IF SessionOf[t] = s THEN NoRow ELSE num[t]]
    /\ queue' = Without(queue, s)
    /\ UNCHANGED <<first, keysn, rows, lock>>

\* The program of session s ends, in whatever call its threads are; the database
\* rolls back what is not committed and releases the session's lock.
Ends(s) ==
    /\ on' = on \ {s}
    /\ pc' = [t \in Threads |-> IF SessionOf[t] = s THEN "idle" ELSE pc[t]]
    /\ num' = [t \in Threads |-> IF SessionOf[t] = s THEN NoRow ELSE num[t]]
    /\ \/ /\ lock # s
          /\ queue' = Without(queue, s)
          /\ UNCHANGED lock
       \/ /\ lock = s
          /\ Commit(s)
    /\ UNCHANGED <<first, keysn, rows>>

Killed(s) == s \in Killable /\ s \in on /\ Ends(s)

-----------------------------------------------------------------------------
(* The calls a thread makes, one agreement after the other.                   *)

\* The thread's session has the row locked and the thread its number.
TakesNumber(t) ==
    /\ lock' = SessionOf[t]
    /\ num' = [num EXCEPT ![t] = keysn]
    /\ Goto(t, "insert")

\* Variant: a select without "for update".
GetKeyIDPlain(t) ==
    /\ pc[t] = "idle" /\ Ready(t) /\ keysn <= MaxKeyId
    /\ num' = [num EXCEPT ![t] = keysn]
    /\ Goto(t, "insert")
    /\ UNCHANGED <<first, keysn, rows, lock, queue, on>>

\* getKeyID: "select ikeysn from SECMNG.KEYSN for update"; without a row nothing is
\* locked and the number is -1.
GetKeyID(t) ==
    /\ pc[t] = "idle" /\ Ready(t) /\ keysn <= MaxKeyId
    /\ \/ /\ keysn # NoRow /\ Locks(t)
          /\ TakesNumber(t)
          /\ UNCHANGED queue
       \/ /\ keysn # NoRow /\ ~Locks(t)
          /\ queue' = Append(queue, SessionOf[t])
          /\ Goto(t, "waitGet")
          /\ UNCHANGED <<lock, num>>
       \/ /\ keysn = NoRow
          /\ num' = [num EXCEPT ![t] = NoRow]
          /\ Goto(t, "insert")
          /\ UNCHANGED <<lock, queue>>
    /\ UNCHANGED <<first, keysn, rows, on>>

\* The row is the session's now, and so is what others committed meanwhile.
GetKeyIDReturns(t) ==
    /\ pc[t] = "waitGet" /\ lock = SessionOf[t]
    /\ TakesNumber(t)
    /\ UNCHANGED <<first, keysn, rows, queue, on>>

\* writeSecKey: the insert commits at once, and with it ends the lock on KEYSN.
WriteSecKey(t) ==
    /\ pc[t] = "insert" /\ Ready(t)
    /\ rows' = rows \cup {num[t]}
    /\ Commit(SessionOf[t])
    /\ Goto(t, "update")
    /\ UNCHANGED <<first, keysn, on, num>>

\* Variant: "set ikeysn = ikeysn + 1".
SetKeyIDIncrements(t) ==
    /\ keysn' = IF keysn = NoRow THEN NoRow ELSE keysn + 1
    /\ Goto(t, "idle")
    /\ num' = [num EXCEPT ![t] = NoRow]

\* The update sets KEYSN to keyId + 1, if there is a row; the agreement is done.
SetKeyID(t) ==
    /\ keysn' = IF keysn = NoRow THEN NoRow ELSE num[t] + 1
    /\ Goto(t, "idle")
    /\ num' = [num EXCEPT ![t] = NoRow]

\* updataKeyID(keyId + 1), which commits at once, when it need not wait.
UpdataKeyID(t) ==
    /\ pc[t] = "update" /\ Ready(t)
    /\ \/ /\ Locks(t) \/ keysn = NoRow
          /\ SetKeyID(t)
          /\ Commit(SessionOf[t])
       \/ /\ ~Locks(t) /\ keysn # NoRow
          /\ queue' = Append(queue, SessionOf[t])
          /\ Goto(t, "waitUpdate")
          /\ UNCHANGED <<keysn, lock, num>>
    /\ UNCHANGED <<first, rows, on>>

\* Variant: setAutoCommit is forgotten, the update keeps its lock.
UpdataKeyIDKeeps(t) ==
    /\ pc[t] = "waitUpdate" /\ lock = SessionOf[t]
    /\ SetKeyID(t)
    /\ UNCHANGED <<first, rows, lock, queue, on>>

UpdataKeyIDReturns(t) ==
    /\ pc[t] = "waitUpdate" /\ lock = SessionOf[t]
    /\ SetKeyID(t)
    /\ Commit(SessionOf[t])
    /\ UNCHANGED <<first, rows, on>>

-----------------------------------------------------------------------------
Finishes(t) ==
    \/ GetKeyIDReturns(t) \/ WriteSecKey(t) \/ UpdataKeyID(t) \/ UpdataKeyIDReturns(t)

Next ==
    \/ \E s \in Sessions : ConnectDB(s) \/ Killed(s)
    \/ \E t \in Threads : GetKeyID(t) \/ Finishes(t)

Spec == Init /\ [][Next]_vars

\* The database answers and running threads go on; nobody has to start an agreement.
FairSpec == Spec /\ \A t \in Threads : WF_vars(Finishes(t))
-----------------------------------------------------------------------------
(* Properties.                                                                *)

\* The thread has its session for itself.
Alone(t) == \A u \in Threads : SessionOf[u] = SessionOf[t] => u = t

\* The lock of "for update" does its work up to writeSecKey: a thread that has a
\* session for itself records its key under the number that KEYSN still holds,
\* whatever other sessions do and whenever they are killed.  (Not so updataKeyID:
\* the insert's commit has released the lock.)
StillCurrent ==
    \A t \in Threads : pc[t] = "insert" /\ Alone(t) => num[t] = keysn

\* KEYSN skips no number: every number from the first up to the one before it is in
\* the database, however sessions interleave and whenever they are killed.
\* (writeSecKey comes before updataKeyID and commits on its own.)
NoneSkipped ==
    first # NoRow => \A n \in first..(keysn - 1) : n \in rows

\* A thread that has begun an agreement ends it, unless its program is killed: the
\* sessions never wait for one another in a circle, and no lock is left behind.
AgreementsEnd == \A t \in Threads : (pc[t] # "idle") ~> (pc[t] = "idle")
-----------------------------------------------------------------------------
(* The inductive invariant, in named parts, for the proofs.                   *)

\* A session waits for the row once, while a thread of it waits, and does not hold it.
QueueInv ==
    /\ \A i \in 1..Len(queue) :
         /\ queue[i] \in on /\ queue[i] # lock
         /\ \E t \in Threads : SessionOf[t] = queue[i] /\ Waiting(t)
    /\ \A i, j \in 1..Len(queue) : queue[i] = queue[j] => i = j

HasNumber(t) == pc[t] \in {"insert", "update", "waitUpdate"}

\* A row of KEYSN stays, and then every agreement has a number of it.
NumberInv ==
    first # NoRow =>
        /\ keysn # NoRow
        /\ \A t \in Threads : HasNumber(t) => num[t] # NoRow

\* The numbers before a thread's own are in the database, and its own from writeSecKey on.
BelowInv ==
    first # NoRow =>
        \A t \in Threads : HasNumber(t) =>
            /\ \A n \in first..(num[t] - 1) : n \in rows
            /\ pc[t] # "insert" => num[t] \in rows

\* Up to writeSecKey a thread alone in its session has the row locked, if there is one.
HeldInv ==
    \A t \in Threads : pc[t] = "insert" /\ Alone(t) /\ keysn # NoRow => lock = SessionOf[t]

IInv == TypeOK /\ QueueInv /\ NumberInv /\ BelowInv /\ NoneSkipped /\ HeldInv /\ StillCurrent
=============================================================================
