-------------------------- MODULE KeyDatabaseProofs --------------------------
(* KeyDatabase keeps its invariants for any number of sessions, threads and   *)
(* key numbers: proofs for TLAPS.  IInv is inductive: QueueStep, NumberStep   *)
(* and HeldStep keep its parts, with one step per action.                     *)
EXTENDS KeyDatabase, TLAPS

Distinct(q) == \A i, j \in 1..Len(q) : q[i] = q[j] => i = j

\* Without keeps the other sessions, each once.
LEMMA WithoutOk ==
  ASSUME NEW q \in Seq(Sessions), Distinct(q), NEW s \in Sessions
  PROVE  /\ Without(q, s) \in Seq(Sessions)
         /\ Distinct(Without(q, s))
         /\ \A i \in 1..Len(Without(q, s)) :
              /\ Without(q, s)[i] # s
              /\ \E j \in 1..Len(q) : Without(q, s)[i] = q[j]
<1>1. CASE \A i \in 1..Len(q) : q[i] # s
  BY <1>1 DEF Without
<1>2. CASE \E i \in 1..Len(q) : q[i] = s
  <2> DEFINE at == CHOOSE i \in 1..Len(q) : q[i] = s
             w == [i \in 1..(Len(q) - 1) |-> IF i < at THEN q[i] ELSE q[i + 1]]
  <2>1. at \in 1..Len(q) /\ q[at] = s
    BY <1>2
  <2>2. Without(q, s) = w
    BY <1>2 DEF Without
  <2> HIDE DEF at
  <2>3. Len(q) - 1 \in Nat /\ \A i \in 1..(Len(q) - 1) : w[i] \in Sessions
    BY <2>1
  <2>4. w \in Seq(Sessions) /\ Len(w) = Len(q) - 1
    BY <2>3
  <2>5. \A i \in 1..(Len(q) - 1) :
          \E j \in 1..Len(q) : w[i] = q[j] /\ j # at /\ j = IF i < at THEN i ELSE i + 1
    BY <2>1
  <2>6. \A i \in 1..Len(w) : w[i] # s /\ \E j \in 1..Len(q) : w[i] = q[j]
    BY <2>1, <2>4, <2>5 DEF Distinct
  <2>7. Distinct(w)
    BY <2>1, <2>4, <2>5 DEF Distinct
  <2>8. QED
    BY <2>2, <2>4, <2>6, <2>7
<1>3. QED
  BY <1>1, <1>2

\* A commit hands the lock of its session on, or leaves lock and queue alone.
LEMMA CommitOk ==
  ASSUME TypeOK, QueueInv, NEW s \in Sessions, Commit(s)
  PROVE  /\ queue' \in Seq(Sessions) /\ Distinct(queue')
         /\ lock' \in on \cup {NoSession}
         /\ \A i \in 1..Len(queue') :
              queue'[i] # lock' /\ \E j \in 1..Len(queue) : queue'[i] = queue[j]
         /\ lock # s => lock' = lock
         /\ lock = s => lock' # s
<1>1. CASE lock # s
  BY <1>1, KeyDatabaseAssumption DEF Commit, TypeOK, QueueInv, Distinct
<1>2. CASE lock = s /\ queue = <<>>
  BY <1>2, KeyDatabaseAssumption DEF Commit, TypeOK, QueueInv, Distinct
<1>3. CASE lock = s /\ queue # <<>>
  <2>1. lock' = Head(queue) /\ queue' = Tail(queue)
    BY <1>3 DEF Commit
  <2>2. queue \in Seq(Sessions) /\ Len(queue) \in Nat \ {0}
    BY <1>3 DEF TypeOK
  <2>3. /\ Head(queue) = queue[1]
        /\ Tail(queue) \in Seq(Sessions) /\ Len(Tail(queue)) = Len(queue) - 1
        /\ \A i \in 1..(Len(queue) - 1) : Tail(queue)[i] = queue[i + 1]
    BY <1>3, <2>2
  <2>4. \A i \in 1..Len(queue') : i + 1 \in 1..Len(queue) /\ queue'[i] = queue[i + 1]
    BY <2>1, <2>2, <2>3
  <2>5. Distinct(queue') /\ \A i \in 1..Len(queue') : queue'[i] # lock'
    BY <2>1, <2>2, <2>3, <2>4 DEF QueueInv, Distinct
  <2>6. lock' \in on /\ lock' # s
    BY <1>3, <2>1, <2>2, <2>3 DEF QueueInv
  <2>7. QED
    BY <1>3, <2>1, <2>3, <2>4, <2>5, <2>6
<1>4. QED
  BY <1>1, <1>2, <1>3

\* A commit whose thread t does not wait afterwards keeps types and queue.
LEMMA CommitKeeps ==
  ASSUME TypeOK, QueueInv, NEW t \in Threads, Commit(SessionOf[t]), on' = on,
         NEW l, pc' = [pc EXCEPT ![t] = l],
         ~Waiting(t) \/ lock = SessionOf[t]
  PROVE  QueueInv'
<1>1. SessionOf[t] \in Sessions
  BY KeyDatabaseAssumption
<1>2. \A i \in 1..Len(queue') :
         queue'[i] \in on' /\ queue'[i] # lock' /\ \E j \in 1..Len(queue) : queue'[i] = queue[j]
  BY <1>1, CommitOk DEF QueueInv
<1>3. \A j \in 1..Len(queue) : \E u \in Threads : SessionOf[u] = queue[j] /\ Waiting(u) /\ u # t
  BY DEF QueueInv
<1>4. \A u \in Threads : u # t /\ Waiting(u) => Waiting(u)'
  BY DEF Waiting, TypeOK
<1>5. ASSUME NEW i \in 1..Len(queue')
      PROVE  \E u \in Threads : SessionOf[u] = queue'[i] /\ Waiting(u)'
  <2>1. PICK j \in 1..Len(queue) : queue'[i] = queue[j]
    BY <1>2
  <2>2. PICK u \in Threads : SessionOf[u] = queue[j] /\ Waiting(u) /\ u # t
    BY <1>3
  <2>3. Waiting(u)'
    BY <1>4, <2>2
  <2>4. QED
    BY <2>1, <2>2, <2>3
<1>6. Distinct(queue')
  BY <1>1, CommitOk
<1>7. QED
  BY <1>2, <1>5, <1>6 DEF QueueInv, Distinct

\* A session that begins to wait for the row, with thread t, did not wait before.
LEMMA WaitKeeps ==
  ASSUME TypeOK, QueueInv, NEW t \in Threads, Ready(t), lock # SessionOf[t], ~Waiting(t),
         on' = on, lock' = lock, queue' = Append(queue, SessionOf[t]),
         NEW l \in {"waitGet", "waitUpdate"}, pc' = [pc EXCEPT ![t] = l]
  PROVE  QueueInv' /\ queue' \in Seq(Sessions)
<1>1. SessionOf[t] \in Sessions /\ SessionOf[t] \in on
  BY KeyDatabaseAssumption DEF Ready
<1>2. queue' \in Seq(Sessions) /\ Len(queue') = Len(queue) + 1
      /\ \A i \in 1..Len(queue) : queue'[i] = queue[i]
      /\ queue'[Len(queue) + 1] = SessionOf[t]
  BY <1>1 DEF TypeOK
<1>3. \A i \in 1..Len(queue) : queue[i] # SessionOf[t]
  BY DEF QueueInv, Ready
<1>4. Waiting(t)' /\ \A u \in Threads : Waiting(u) => Waiting(u)'
  BY DEF Waiting, TypeOK
<1>5. \A i \in 1..Len(queue') : i \in 1..Len(queue) \/ i = Len(queue) + 1
  BY <1>2 DEF TypeOK
<1>6. \A i \in 1..Len(queue') :
         queue'[i] \in on' /\ queue'[i] # lock'
         /\ \E u \in Threads : SessionOf[u] = queue'[i] /\ Waiting(u)'
  BY <1>1, <1>2, <1>4, <1>5 DEF QueueInv
<1>7. \A i, j \in 1..Len(queue') : queue'[i] = queue'[j] => i = j
  BY <1>2, <1>3, <1>5 DEF QueueInv
<1>8. QED
  BY <1>2, <1>6, <1>7 DEF QueueInv

\* The end of a program leaves only connected sessions in the queue and on the lock.
LEMMA EndsKeeps ==
  ASSUME TypeOK, QueueInv, NEW s \in Sessions, Ends(s)
  PROVE  QueueInv' /\ TypeOK'
<1>1. /\ queue' \in Seq(Sessions) /\ Distinct(queue')
      /\ lock' \in (on \ {s}) \cup {NoSession}
      /\ \A i \in 1..Len(queue') :
           /\ queue'[i] # lock' /\ queue'[i] # s
           /\ \E j \in 1..Len(queue) : queue'[i] = queue[j]
  <2>1. CASE lock # s
    <3>1. lock' = lock /\ queue' = Without(queue, s)
      BY <2>1, KeyDatabaseAssumption DEF Ends, Commit, TypeOK
    <3>2. Distinct(queue) /\ queue \in Seq(Sessions)
      BY DEF QueueInv, Distinct, TypeOK
    <3>3. /\ queue' \in Seq(Sessions) /\ Distinct(queue')
          /\ \A i \in 1..Len(queue') : queue'[i] # s /\ \E j \in 1..Len(queue) : queue'[i] = queue[j]
      <4> DEFINE w == Without(queue, s)
      <4>1. w \in Seq(Sessions) /\ Distinct(w)
            /\ \A i \in 1..Len(w) : w[i] # s /\ \E j \in 1..Len(queue) : w[i] = queue[j]
        BY <3>2, WithoutOk
      <4>2. queue' = w
        BY <3>1
      <4> HIDE DEF w
      <4>3. QED
        BY <4>1, <4>2 DEF Distinct
    <3>4. \A j \in 1..Len(queue) : queue[j] # lock
      BY DEF QueueInv
    <3>5. lock' \in (on \ {s}) \cup {NoSession}
      BY <2>1, <3>1 DEF TypeOK
    <3>6. QED
      BY <3>1, <3>3, <3>4, <3>5
  <2>2. CASE lock = s
    <3>1. Commit(s)
      BY <2>2 DEF Ends
    <3>2. \A j \in 1..Len(queue) : queue[j] # s
      BY <2>2 DEF QueueInv
    <3>3. NoSession # s
      BY KeyDatabaseAssumption
    <3>4. QED
      BY <2>2, <3>1, <3>2, <3>3, CommitOk
  <2>3. QED
    BY <2>1, <2>2
<1>2. \A i \in 1..Len(queue') : queue'[i] \in on'
  BY <1>1 DEF QueueInv, Ends
<1>3. \A t \in Threads : SessionOf[t] # s /\ Waiting(t) => Waiting(t)'
  BY DEF Ends, Waiting
<1>4. \A i \in 1..Len(queue') : \E t \in Threads : SessionOf[t] = queue'[i] /\ Waiting(t)'
  BY <1>1, <1>3 DEF QueueInv
<1>5. QueueInv'
  BY <1>1, <1>2, <1>4 DEF QueueInv, Distinct
<1>6. TypeOK'
  BY <1>1 DEF TypeOK, Ends, KeyIds
<1>7. QED
  BY <1>5, <1>6

\* Types and queue are kept by every step.
LEMMA QueueStep == TypeOK /\ QueueInv /\ [Next]_vars => TypeOK' /\ QueueInv'
<1> SUFFICES ASSUME TypeOK, QueueInv, [Next]_vars
             PROVE  TypeOK' /\ QueueInv'
  OBVIOUS
<1> USE KeyDatabaseAssumption
<1>1. ASSUME NEW s \in Sessions, ConnectDB(s)
      PROVE  TypeOK' /\ QueueInv'
  <2>1. TypeOK'
    BY <1>1 DEF TypeOK, ConnectDB
  <2>2. QueueInv'
    BY <1>1 DEF QueueInv, ConnectDB, Waiting
  <2>3. QED
    BY <2>1, <2>2
<1>2. ASSUME NEW s \in Sessions, Killed(s)
      PROVE  TypeOK' /\ QueueInv'
  BY <1>2, EndsKeeps DEF Killed
<1>3. ASSUME NEW t \in Threads, GetKeyID(t)
      PROVE  TypeOK' /\ QueueInv'
  <2>1. CASE Locks(t) /\ TakesNumber(t) /\ UNCHANGED queue
    <3>1. lock' \in on'
      BY <1>3, <2>1 DEF GetKeyID, TakesNumber, Ready
    <3>2. TypeOK'
      BY <1>3, <2>1, <3>1 DEF TypeOK, GetKeyID, TakesNumber, Goto, KeyIds
    <3>3. \A u \in Threads : Waiting(u) => SessionOf[u] # SessionOf[t] /\ Waiting(u)'
      BY <1>3, <2>1 DEF GetKeyID, Ready, TakesNumber, Goto, Waiting, TypeOK
    <3>4. QueueInv'
      BY <1>3, <2>1, <3>3 DEF QueueInv, GetKeyID, TakesNumber
    <3>5. QED
      BY <3>2, <3>4
  <2>2. CASE ~Locks(t) /\ queue' = Append(queue, SessionOf[t]) /\ Goto(t, "waitGet")
             /\ UNCHANGED <<lock, num>>
    <3>1. QueueInv' /\ queue' \in Seq(Sessions)
      BY <1>3, <2>2, WaitKeeps DEF GetKeyID, Locks, Goto, Waiting
    <3>2. QED
      BY <1>3, <2>2, <3>1 DEF TypeOK, GetKeyID, Goto
  <2>3. CASE num' = [num EXCEPT ![t] = NoRow] /\ Goto(t, "insert") /\ UNCHANGED <<lock, queue>>
    <3>1. TypeOK'
      BY <1>3, <2>3 DEF TypeOK, GetKeyID, Goto, KeyIds
    <3>2. \A u \in Threads : Waiting(u) => Waiting(u)'
      BY <1>3, <2>3 DEF GetKeyID, Goto, Waiting, TypeOK
    <3>3. QueueInv'
      BY <1>3, <2>3, <3>2 DEF QueueInv, GetKeyID
    <3>4. QED
      BY <3>1, <3>3
  <2>4. QED
    BY <1>3, <2>1, <2>2, <2>3 DEF GetKeyID
<1>4. ASSUME NEW t \in Threads, GetKeyIDReturns(t)
      PROVE  TypeOK' /\ QueueInv'
  <2>1. lock' = lock /\ lock = SessionOf[t]
    BY <1>4 DEF GetKeyIDReturns, TakesNumber
  <2>2. TypeOK'
    BY <1>4, <2>1 DEF TypeOK, GetKeyIDReturns, TakesNumber, Goto, KeyIds
  <2>3. \A u \in Threads : u # t /\ Waiting(u) => Waiting(u)'
    BY <1>4 DEF GetKeyIDReturns, TakesNumber, Goto, Waiting, TypeOK
  <2>4. QueueInv'
    BY <1>4, <2>1, <2>3 DEF QueueInv, GetKeyIDReturns
  <2>5. QED
    BY <2>2, <2>4
<1>5. ASSUME NEW t \in Threads, WriteSecKey(t)
      PROVE  TypeOK' /\ QueueInv'
  <2>1. QueueInv' /\ queue' \in Seq(Sessions) /\ lock' \in on \cup {NoSession}
    BY <1>5, CommitKeeps, CommitOk DEF WriteSecKey, Goto, Waiting
  <2>2. QED
    BY <1>5, <2>1 DEF TypeOK, WriteSecKey, Goto, KeyIds
<1>6. ASSUME NEW t \in Threads, SetKeyID(t), UNCHANGED <<first, rows, on>>,
             queue' \in Seq(Sessions), lock' \in on \cup {NoSession}
      PROVE  TypeOK'
  <2>1. NoRow \in KeyIds /\ \A n \in KeyIds : n + 1 \in KeyIds
    BY DEF KeyIds, NoRow
  <2>2. num[t] \in KeyIds
    BY DEF TypeOK
  <2>3. keysn' \in KeyIds /\ num' \in [Threads -> KeyIds]
    BY <1>6, <2>1, <2>2 DEF SetKeyID, TypeOK
  <2>4. QED
    BY <1>6, <2>3 DEF TypeOK, SetKeyID, Goto
<1>7. ASSUME NEW t \in Threads, UpdataKeyID(t)
      PROVE  TypeOK' /\ QueueInv'
  <2>1. CASE SetKeyID(t) /\ Commit(SessionOf[t])
    <3>1. QueueInv' /\ queue' \in Seq(Sessions) /\ lock' \in on \cup {NoSession}
      BY <1>7, <2>1, CommitKeeps, CommitOk DEF UpdataKeyID, SetKeyID, Goto, Waiting
    <3>2. QED
      BY <1>7, <2>1, <3>1, <1>6 DEF UpdataKeyID
  <2>2. CASE ~Locks(t) /\ queue' = Append(queue, SessionOf[t]) /\ Goto(t, "waitUpdate")
             /\ UNCHANGED <<keysn, lock, num>>
    <3>1. QueueInv' /\ queue' \in Seq(Sessions)
      BY <1>7, <2>2, WaitKeeps DEF UpdataKeyID, Locks, Goto, Waiting
    <3>2. QED
      BY <1>7, <2>2, <3>1 DEF TypeOK, UpdataKeyID, Goto
  <2>3. QED
    BY <1>7, <2>1, <2>2 DEF UpdataKeyID
<1>8. ASSUME NEW t \in Threads, UpdataKeyIDReturns(t)
      PROVE  TypeOK' /\ QueueInv'
  <2>1. QueueInv' /\ queue' \in Seq(Sessions) /\ lock' \in on \cup {NoSession}
    BY <1>8, CommitKeeps, CommitOk DEF UpdataKeyIDReturns, SetKeyID, Goto
  <2>2. QED
    BY <1>8, <2>1, <1>6 DEF UpdataKeyIDReturns
<1>9. CASE UNCHANGED vars
  BY <1>9 DEF vars, TypeOK, QueueInv, Waiting
<1>10. QED
  BY <1>1, <1>2, <1>3, <1>4, <1>5, <1>7, <1>8, <1>9 DEF Next, Finishes

-----------------------------------------------------------------------------
(* The key numbers.                                                           *)

\* Every step keeps what is said of key numbers: KEYSN only ever becomes the number after
\* a recorded one that has all before it in the database.
LEMMA NumberStep ==
  ASSUME TypeOK, NumberInv, BelowInv, NoneSkipped, [Next]_vars
  PROVE  NumberInv' /\ BelowInv' /\ NoneSkipped'
<1> SUFFICES ASSUME first # NoRow, first' = first
             PROVE  NumberInv' /\ BelowInv' /\ NoneSkipped'
  <2>1. first' = first
    BY DEF Next, ConnectDB, Killed, Ends, GetKeyID, Finishes, GetKeyIDReturns, WriteSecKey,
           UpdataKeyID, UpdataKeyIDReturns, vars
  <2>2. QED
    BY <2>1 DEF NumberInv, BelowInv, NoneSkipped
<1> DEFINE Below(n) == \A m \in first..(n - 1) : m \in rows
<1>0. /\ keysn # NoRow /\ Below(keysn)
      /\ \A t \in Threads : HasNumber(t) =>
           num[t] # NoRow /\ Below(num[t]) /\ (pc[t] # "insert" => num[t] \in rows)
  BY DEF NumberInv, BelowInv, NoneSkipped
\* It is enough to look at KEYSN and at the threads whose state changes.
<1>1. ASSUME rows \subseteq rows', keysn' # NoRow,
             \A n \in first..(keysn' - 1) : n \in rows',
             \A t \in Threads : HasNumber(t)' =>
                \/ /\ HasNumber(t) /\ num'[t] = num[t]
                   /\ pc'[t] # "insert" => pc[t] # "insert" \/ num[t] \in rows'
                \/ /\ num'[t] # NoRow /\ pc'[t] = "insert"
                   /\ \A n \in first..(num'[t] - 1) : n \in rows'
      PROVE  NumberInv' /\ BelowInv' /\ NoneSkipped'
  <2>1. NumberInv' /\ NoneSkipped'
    BY <1>0, <1>1 DEF NumberInv, NoneSkipped
  <2>2. ASSUME NEW t \in Threads, HasNumber(t)'
        PROVE  /\ \A n \in first..(num'[t] - 1) : n \in rows'
               /\ pc'[t] # "insert" => num'[t] \in rows'
    BY <1>0, <1>1, <2>2
  <2>3. QED
    BY <2>1, <2>2 DEF BelowInv
<1>2. CASE UNCHANGED <<keysn, rows, pc, num>>
  BY <1>0, <1>1, <1>2 DEF HasNumber
<1>3. ASSUME NEW s \in Sessions, Killed(s)
      PROVE  NumberInv' /\ BelowInv' /\ NoneSkipped'
  <2>1. \A t \in Threads : HasNumber(t)' => HasNumber(t) /\ num'[t] = num[t] /\ pc'[t] = pc[t]
    BY <1>3 DEF Killed, Ends, HasNumber
  <2>2. UNCHANGED <<keysn, rows>>
    BY <1>3 DEF Killed, Ends
  <2>3. QED
    BY <1>0, <1>1, <2>1, <2>2
<1>4. ASSUME NEW t \in Threads, TakesNumber(t), UNCHANGED <<keysn, rows>>
      PROVE  NumberInv' /\ BelowInv' /\ NoneSkipped'
  <2>1. num'[t] = keysn /\ pc'[t] = "insert"
    BY <1>4 DEF TakesNumber, Goto, TypeOK
  <2>2. \A u \in Threads : u # t => num'[u] = num[u] /\ pc'[u] = pc[u]
    BY <1>4 DEF TakesNumber, Goto, TypeOK
  <2>3. QED
    BY <1>0, <1>1, <1>4, <2>1, <2>2 DEF HasNumber
\* A thread that begins to wait changes nothing here.
<1>5. ASSUME NEW t \in Threads, UNCHANGED <<keysn, rows, num>>,
             \/ Goto(t, "waitGet")
             \/ pc[t] = "update" /\ Goto(t, "waitUpdate")
      PROVE  NumberInv' /\ BelowInv' /\ NoneSkipped'
  <2>1. \A u \in Threads : u # t => pc'[u] = pc[u]
    BY <1>5 DEF Goto, TypeOK
  <2>2. pc'[t] = "waitGet" \/ (pc[t] = "update" /\ pc'[t] = "waitUpdate")
    BY <1>5 DEF Goto, TypeOK
  <2>3. QED
    BY <1>0, <1>1, <1>5, <2>1, <2>2 DEF HasNumber
<1>6. ASSUME NEW t \in Threads, GetKeyID(t)
      PROVE  NumberInv' /\ BelowInv' /\ NoneSkipped'
  BY <1>0, <1>4, <1>5, <1>6 DEF GetKeyID
<1>7. ASSUME NEW t \in Threads, WriteSecKey(t)
      PROVE  NumberInv' /\ BelowInv' /\ NoneSkipped'
  <2>1. pc[t] = "insert" /\ pc'[t] = "update" /\ \A u \in Threads : u # t => pc'[u] = pc[u]
    BY <1>7 DEF WriteSecKey, Goto, TypeOK
  <2>2. rows' = rows \cup {num[t]} /\ UNCHANGED <<keysn, num>>
    BY <1>7 DEF WriteSecKey
  <2>3. QED
    BY <1>0, <1>1, <2>1, <2>2 DEF HasNumber
<1>8. ASSUME NEW t \in Threads, SetKeyID(t), UNCHANGED rows, pc[t] \in {"update", "waitUpdate"}
      PROVE  NumberInv' /\ BelowInv' /\ NoneSkipped'
  <2>1. keysn' = num[t] + 1 /\ num[t] \in rows /\ num[t] \in Nat /\ Below(num[t])
    BY <1>0, <1>8 DEF SetKeyID, HasNumber, TypeOK, KeyIds
  <2>2. keysn' # NoRow /\ \A n \in first..(keysn' - 1) : n \in first..(num[t] - 1) \/ n = num[t]
    BY <2>1 DEF NoRow, TypeOK, KeyIds
  <2>3. pc'[t] = "idle" /\ \A u \in Threads : u # t => pc'[u] = pc[u] /\ num'[u] = num[u]
    BY <1>8 DEF SetKeyID, Goto, TypeOK
  <2>4. \A n \in first..(keysn' - 1) : n \in rows'
    BY <1>8, <2>1, <2>2
  <2>5. QED
    BY <1>0, <1>1, <1>8, <2>2, <2>3, <2>4 DEF HasNumber
<1>9. ASSUME NEW t \in Threads, UpdataKeyID(t) \/ UpdataKeyIDReturns(t)
      PROVE  NumberInv' /\ BelowInv' /\ NoneSkipped'
  BY <1>5, <1>8, <1>9 DEF UpdataKeyID, UpdataKeyIDReturns
<1>10. QED
  BY <1>2, <1>3, <1>4, <1>6, <1>7, <1>9
     DEF Next, ConnectDB, Finishes, GetKeyIDReturns, vars

\* A thread alone in its session keeps the row, and KEYSN, up to writeSecKey.
LEMMA HeldStep ==
  ASSUME TypeOK, HeldInv, StillCurrent, [Next]_vars
  PROVE  HeldInv' /\ StillCurrent'
<1> USE KeyDatabaseAssumption
<1> DEFINE Mine(t) == num[t] = keysn /\ (keysn # NoRow => lock = SessionOf[t])
<1> SUFFICES ASSUME NEW t \in Threads, pc'[t] = "insert", Alone(t),
                    pc[t] = "insert" => Mine(t)
             PROVE  num'[t] = keysn' /\ (keysn' # NoRow => lock' = SessionOf[t])
  BY DEF HeldInv, StillCurrent, Alone
<1>1. \A u \in Threads : u # t => SessionOf[u] # SessionOf[t]
  BY DEF Alone
<1>2. ASSUME pc[t] = "insert", num'[t] = num[t], keysn' = keysn, keysn # NoRow => lock' = lock
      PROVE  num'[t] = keysn' /\ (keysn' # NoRow => lock' = SessionOf[t])
  BY <1>2
<1>3. ASSUME NEW s \in Sessions, ConnectDB(s) \/ Killed(s)
      PROVE  num'[t] = keysn' /\ (keysn' # NoRow => lock' = SessionOf[t])
  <2>1. pc[t] = "insert" /\ num'[t] = num[t] /\ keysn' = keysn /\ (Killed(s) => s # SessionOf[t])
    BY <1>3 DEF ConnectDB, Killed, Ends
  <2>2. keysn # NoRow => lock' = lock
    BY <1>3, <2>1 DEF ConnectDB, Killed, Ends
  <2>3. QED
    BY <1>2, <2>1, <2>2
<1>4. ASSUME GetKeyID(t) \/ GetKeyIDReturns(t)
      PROVE  num'[t] = keysn' /\ (keysn' # NoRow => lock' = SessionOf[t])
  BY <1>4 DEF GetKeyID, GetKeyIDReturns, TakesNumber, Goto, TypeOK
<1>5. ~WriteSecKey(t) /\ ~UpdataKeyID(t) /\ ~UpdataKeyIDReturns(t)
  BY DEF WriteSecKey, UpdataKeyID, UpdataKeyIDReturns, SetKeyID, Goto, TypeOK
<1>6. ASSUME NEW u \in Threads, u # t,
             GetKeyID(u) \/ GetKeyIDReturns(u) \/ WriteSecKey(u) \/ UpdataKeyID(u)
               \/ UpdataKeyIDReturns(u)
      PROVE  num'[t] = keysn' /\ (keysn' # NoRow => lock' = SessionOf[t])
  <2>1. pc[t] = "insert" /\ num'[t] = num[t]
    BY <1>6 DEF GetKeyID, GetKeyIDReturns, WriteSecKey, UpdataKeyID, UpdataKeyIDReturns, SetKeyID,
                TakesNumber, Goto, TypeOK
  <2>2. CASE keysn = NoRow
    BY <1>6, <2>1, <2>2 DEF GetKeyID, GetKeyIDReturns, WriteSecKey, UpdataKeyID,
                            UpdataKeyIDReturns, SetKeyID
  <2>3. CASE keysn # NoRow
    <3>1. lock = SessionOf[t] /\ lock # SessionOf[u] /\ ~Locks(u)
      BY <1>1, <1>6, <2>1, <2>3 DEF Locks
    <3>2. keysn' = keysn /\ lock' = lock
      BY <1>6, <2>3, <3>1 DEF GetKeyID, GetKeyIDReturns, WriteSecKey, UpdataKeyID,
                              UpdataKeyIDReturns, Commit
    <3>3. QED
      BY <1>2, <2>1, <3>2
  <2>4. QED
    BY <2>2, <2>3
<1>7. CASE UNCHANGED vars
  BY <1>2, <1>7 DEF vars
<1>8. QED
  BY <1>3, <1>4, <1>5, <1>6, <1>7 DEF Next, Finishes

LEMMA InitIInv == Init => IInv
<1> SUFFICES ASSUME Init
             PROVE  IInv
  OBVIOUS
<1> USE KeyDatabaseAssumption DEF Init
<1>1. TypeOK
  BY DEF TypeOK, KeyIds
<1>2. QueueInv /\ HeldInv /\ StillCurrent /\ NumberInv /\ BelowInv
  BY DEF QueueInv, HeldInv, StillCurrent, NumberInv, BelowInv, HasNumber
<1>3. NoneSkipped
  BY <1>1 DEF NoneSkipped, TypeOK, KeyIds, NoRow
<1>4. QED
  BY <1>1, <1>2, <1>3 DEF IInv

LEMMA Inductive == Spec => []IInv
<1>1. IInv /\ [Next]_vars => IInv'
  BY QueueStep, NumberStep, HeldStep DEF IInv
<1>2. QED
  BY InitIInv, <1>1, PTL DEF Spec

\* The variables keep their types, and the row is only locked for connected sessions.
THEOREM TypeCorrect == Spec => []TypeOK
<1>1. IInv => TypeOK
  BY DEF IInv
<1>2. QED
  BY Inductive, <1>1, PTL

\* A thread alone in its session records its key under the number KEYSN still holds.
THEOREM RecordsCurrent == Spec => []StillCurrent
<1>1. IInv => StillCurrent
  BY DEF IInv
<1>2. QED
  BY Inductive, <1>1, PTL

\* KEYSN skips no number, whatever sessions and threads there are and whoever is killed.
THEOREM SkipsNone == Spec => []NoneSkipped
<1>1. IInv => NoneSkipped
  BY DEF IInv
<1>2. QED
  BY Inductive, <1>1, PTL
=============================================================================
