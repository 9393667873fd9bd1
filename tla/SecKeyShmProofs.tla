---------------------------- MODULE SecKeyShmProofs ----------------------------
(* SecKeyShm for any processes, threads, nodes, keys, places and addresses:   *)
(* proofs for TLAPS.  What a property needs of the way the program is used is *)
(* a hypothesis on the constants: OneWriter, NoLateClear, OneThreadEach, or   *)
(* calls that do not overlap (Serial).  The inductive invariants, each with   *)
(* its Init and Step lemma, build on one another:                             *)
(*   CallInv      what a call is about                 (no hypothesis)        *)
(*   FreshInv     who clears the segment finds it blank (NoLateClear)         *)
(*   UsedInv      nobody detaches a mapping in use   (Serial, OneThreadEach)  *)
(*   BalancedInv  a call has one mapping               (OneThreadEach)        *)
(*   TableInv     a write overlooks no place           (OneWriter)            *)
(*   ReadInv      a read finds the place of its node   (both)                 *)
(*   WholeInv     only a copy under way lacks its key  (Serial, no kills)     *)
EXTENDS SecKeyShm, TLAPS

LEMMA SizeOk == ASSUME NEW t \in Threads
                PROVE  ProcOf[t] \in Procs /\ Size(t) \in 1..AllPlaces /\ AllPlaces \in Nat
BY SecKeyShmAssumption DEF Size

LEMMA ZeroOk == Zero \in Places /\ Zero.node = NoNode /\ Zero.info = NoKey
BY DEF Zero, Places

LEMMA InitTypes == Init => TypeOK
<1> SUFFICES ASSUME Init PROVE TypeOK
  OBVIOUS
<1>1. size \in 0..AllPlaces /\ seg \in [1..AllPlaces -> Places]
  BY SecKeyShmAssumption, ZeroOk DEF Init
<1>2. QED
  BY <1>1, ZeroOk, SecKeyShmAssumption DEF Init, TypeOK, InUse

LEMMA TypeStep == TypeOK /\ [Next]_vars => TypeOK'
<1> SUFFICES ASSUME TypeOK, [Next]_vars PROVE TypeOK'
  OBVIOUS
<1> USE DEF TypeOK
<1>1. ASSUME NEW p \in Procs, ObjOpen(p) \/ ObjOpenOnly(p) \/ Restarts(p) PROVE TypeOK'
  BY <1>1 DEF ObjOpen, ObjOpenOnly, Restarts, mapVars, threadVars, argVars
<1>2. ASSUME NEW p \in Procs, ObjCreate(p) PROVE TypeOK'
  <2>1. MaxNode[p] \in 1..AllPlaces /\ AllPlaces \in Nat
    BY SecKeyShmAssumption
  <2>2. size' \in 0..AllPlaces
    BY <1>2, <2>1 DEF ObjCreate
  <2>3. attached' \in [Procs -> SUBSET Addrs] /\ mShmAddr' \in [Procs -> Addrs \cup {NoAddr}]
    <3>1. Attach(p) \/ UNCHANGED <<attached, mShmAddr>>
      BY <1>2 DEF ObjCreate, mapVars
    <3>2. CASE Attach(p)
      BY <3>2 DEF Attach
    <3>3. QED
      BY <3>1, <3>2
  <2>4. pPc' \in [Procs -> {"new", "create", "clear", "ready", "noId", "dead"}]
    BY <1>2 DEF ObjCreate
  <2>5. UNCHANGED <<seg, pc, op, node, key, addr, idx, half, out>>
    BY <1>2 DEF ObjCreate, threadVars, argVars
  <2>6. QED
    BY <2>2, <2>3, <2>4, <2>5
<1>3. ASSUME NEW p \in Procs, ObjClear(p) PROVE TypeOK'
  <2>1. seg' \in [1..AllPlaces -> Places]
    BY <1>3, ZeroOk DEF ObjClear
  <2>2. attached' \in [Procs -> SUBSET Addrs]
    BY <1>3 DEF ObjClear, Detach
  <2>3. pPc' \in [Procs -> {"new", "create", "clear", "ready", "noId", "dead"}]
    BY <1>3 DEF ObjClear
  <2>4. UNCHANGED <<size, mShmAddr, pc, op, node, key, addr, idx, half, out>>
    BY <1>3 DEF ObjClear, Detach, threadVars, argVars
  <2>5. QED
    BY <2>1, <2>2, <2>3, <2>4
<1>4. ASSUME NEW p \in Procs, Ends(p) PROVE TypeOK'
  BY <1>4, ZeroOk, SecKeyShmAssumption DEF Ends
<1>5. ASSUME NEW t \in Threads, NEW o \in {"write", "read"}, Call(t, o), key' \in [Threads -> Keys \cup {NoKey}]
      PROVE  TypeOK'
  BY <1>5, SizeOk DEF Call, Attach, Goto, procVars
<1>6. ASSUME NEW t \in Threads, WriteCall(t) \/ ReadCall(t) PROVE TypeOK'
  <2>1. key' \in [Threads -> Keys \cup {NoKey}]
    BY <1>6 DEF WriteCall, ReadCall
  <2>2. Call(t, "write") \/ Call(t, "read")
    BY <1>6 DEF WriteCall, ReadCall
  <2>3. QED
    BY <1>5, <2>1, <2>2
<1>7. ASSUME NEW t \in Threads, CallFails(t) PROVE TypeOK'
  <2>1. mShmAddr' \in [Procs -> Addrs \cup {NoAddr}]
    BY <1>7 DEF CallFails
  <2>2. UNCHANGED <<size, pPc, seg, attached, pc, op, node, key, addr, idx, half, out>>
    BY <1>7 DEF CallFails, procVars, threadVars, argVars
  <2>3. QED
    BY <2>1, <2>2
<1>8. ASSUME NEW t \in Threads, MapReturns(t) PROVE TypeOK'
  <2>1. /\ pc' \in [Threads -> {"idle", "map", "unmap"} \cup InUse]
        /\ addr' \in [Threads -> Addrs \cup {NoAddr}]
    BY <1>8, SizeOk DEF MapReturns, Returns, Goto, InUse
  <2>2. \/ Returns(t)
        \/ UNCHANGED <<op, node, key, idx, half>>
    BY <1>8 DEF MapReturns, argVars
  <2>3. /\ op' \in [Threads -> {"write", "read"}]
        /\ node' \in [Threads -> Nodes \cup {NoNode}]
        /\ key' \in [Threads -> Keys \cup {NoKey}]
        /\ idx' \in [Threads -> 1..AllPlaces]
        /\ half' \in [Threads -> Nodes \cup {NoNode}]
    <3>1. 1 \in 1..AllPlaces
      BY SecKeyShmAssumption
    <3>2. CASE Returns(t)
      BY <3>1, <3>2 DEF Returns
    <3>3. QED
      BY <2>2, <3>2
  <2>4. UNCHANGED <<size, pPc, seg, attached, mShmAddr, out>>
    BY <1>8 DEF MapReturns, procVars, mapVars
  <2>5. QED
    BY <2>1, <2>3, <2>4
<1>9. ASSUME NEW t \in Threads, Scan(t) \/ ScanBlank(t) PROVE TypeOK'
  <2>1. idx' \in [Threads -> 1..AllPlaces]
    BY <1>9, SizeOk DEF Scan, ScanBlank
  <2>2. pc' \in [Threads -> {"idle", "map", "unmap"} \cup InUse]
    BY <1>9 DEF Scan, ScanBlank, Goto, InUse
  <2>3. UNCHANGED <<size, pPc, seg, attached, mShmAddr, op, node, key, addr, half, out>>
    BY <1>9 DEF Scan, ScanBlank, procVars, mapVars, argVars
  <2>4. QED
    BY <2>1, <2>2, <2>3
<1>10. ASSUME NEW t \in Threads, Copy(t) \/ CopyKey(t) PROVE TypeOK'
  <2>1. seg' \in [1..AllPlaces -> Places]
    <3>1. seg[idx[t]] \in Places
      OBVIOUS
    <3>2. /\ [seg[idx[t]] EXCEPT !.node = node[t]] \in Places
          /\ [seg[idx[t]] EXCEPT !.info = key[t]] \in Places
      BY <3>1 DEF Places
    <3>3. QED
      BY <1>10, <3>2 DEF Copy, CopyKey
  <2>2. QED
    BY <1>10, <2>1 DEF Copy, CopyKey, Goto, procVars, mapVars, argVars, InUse
<1>11. ASSUME NEW t \in Threads, Fetch(t) \/ FetchKey(t) PROVE TypeOK'
  <2>1. seg[idx[t]].node \in Nodes \cup {NoNode} /\ seg[idx[t]].info \in Keys \cup {NoKey}
    BY DEF Places
  <2>2. [node |-> half[t], info |-> seg[idx[t]].info] \in Places
    BY <2>1 DEF Places
  <2>3. QED
    BY <1>11, <2>1, <2>2, ZenonT(60) DEF Fetch, FetchKey, Goto, procVars, mapVars, argVars, InUse
<1>12. ASSUME NEW t \in Threads, Unmap(t) PROVE TypeOK'
  BY <1>12, SizeOk DEF Unmap, Detach, Returns, Goto, procVars
<1>13. CASE UNCHANGED vars
  BY <1>13 DEF vars, procVars, mapVars, argVars
<1>14. QED
  BY <1>1, <1>2, <1>3, <1>4, <1>6, <1>7, <1>8, <1>9, <1>10, <1>11, <1>12, <1>13, SizeOk
     DEF Next, ProcStep, ThreadStep, Killed, Faults

-----------------------------------------------------------------------------
(* Who changes what.                                                          *)

\* The locals of thread u.
Same(u) ==
    /\ pc'[u] = pc[u] /\ op'[u] = op[u] /\ node'[u] = node[u] /\ key'[u] = key[u]
    /\ addr'[u] = addr[u] /\ idx'[u] = idx[u] /\ half'[u] = half[u] /\ out'[u] = out[u]

Gone(u) ==
    /\ pc'[u] = "idle" /\ op'[u] = "read" /\ idx'[u] = 1

\* The steps of a thread that goes on.
Runs(t) ==
    \/ WriteCall(t) \/ ReadCall(t) \/ CallFails(t) \/ MapReturns(t) \/ Scan(t)
    \/ ScanBlank(t) \/ Copy(t) \/ CopyKey(t) \/ Fetch(t) \/ FetchKey(t) \/ Unmap(t)

\* The steps of a process that goes on.
Constructs(p) == ObjOpen(p) \/ ObjOpenOnly(p) \/ ObjCreate(p) \/ ObjClear(p) \/ Restarts(p)

LEMMA StepOf ==
  ASSUME [Next]_vars
  PROVE  \/ \E p \in Procs : Constructs(p)
         \/ \E p \in Procs : Ends(p) /\ (p \in Killable \/ \E t \in Threads : Faults(t) /\ ProcOf[t] = p)
         \/ \E t \in Threads : Runs(t)
         \/ UNCHANGED vars
BY SizeOk DEF Next, ProcStep, ThreadStep, Constructs, Runs, Killed, Faults

LEMMA RunsKeepsProcs == ASSUME NEW t \in Threads, Runs(t) PROVE UNCHANGED procVars
BY DEF Runs, WriteCall, ReadCall, Call, CallFails, MapReturns, Scan, ScanBlank, Copy, CopyKey,
       Fetch, FetchKey, Unmap, procVars

LEMMA OthersStay ==
  ASSUME TypeOK, NEW t \in Threads, Runs(t), NEW u \in Threads, u # t
  PROVE  Same(u)
<1> USE DEF TypeOK, Same
<1>1. CASE WriteCall(t) \/ ReadCall(t)
  BY <1>1 DEF WriteCall, ReadCall, Call, Goto
<1>2. CASE CallFails(t)
  BY <1>2 DEF CallFails, threadVars, argVars
<1>3. CASE MapReturns(t)
  BY <1>3 DEF MapReturns, Returns, Goto, argVars
<1>4. CASE Scan(t) \/ ScanBlank(t)
  BY <1>4 DEF Scan, ScanBlank, Goto, argVars
<1>5. CASE Copy(t) \/ CopyKey(t)
  BY <1>5 DEF Copy, CopyKey, Goto, argVars
<1>6. CASE Fetch(t) \/ FetchKey(t)
  BY <1>6 DEF Fetch, FetchKey, Goto, argVars
<1>7. CASE Unmap(t)
  BY <1>7 DEF Unmap, Returns, Goto
<1>8. QED
  BY <1>1, <1>2, <1>3, <1>4, <1>5, <1>6, <1>7 DEF Runs

LEMMA ConstructsKeeps ==
  ASSUME NEW p \in Procs, Constructs(p)
  PROVE  /\ \A u \in Threads : Same(u)
         /\ UNCHANGED <<pc, op, node, key, addr, idx, half, out>>
         /\ ObjClear(p) \/ UNCHANGED seg
BY DEF Constructs, ObjOpen, ObjOpenOnly, ObjCreate, ObjClear, Restarts, threadVars, argVars, Same

LEMMA EndsKeeps ==
  ASSUME NEW p \in Procs, Ends(p), NEW u \in Threads
  PROVE  /\ ProcOf[u] = p => Gone(u)
         /\ ProcOf[u] # p => Same(u)
BY DEF Ends, Same, Gone

\* A process that is ready stays so until it ends.
LEMMA ReadyStays ==
  ASSUME TypeOK, NEW q \in Procs, [Next]_vars, pPc[q] = "ready"
  PROVE  pPc'[q] = "ready" \/ Ends(q)
<1> USE DEF TypeOK
<1>1. ASSUME NEW p \in Procs, Constructs(p) PROVE pPc'[q] = "ready"
  BY <1>1 DEF Constructs, ObjOpen, ObjOpenOnly, ObjCreate, ObjClear, Restarts
<1>2. ASSUME NEW p \in Procs, Ends(p), p # q PROVE pPc'[q] = "ready"
  BY <1>2 DEF Ends
<1>3. ASSUME NEW t \in Threads, Runs(t) PROVE UNCHANGED pPc
  BY <1>3, RunsKeepsProcs DEF procVars
<1>4. QED
  BY StepOf, <1>1, <1>2, <1>3 DEF vars, procVars

-----------------------------------------------------------------------------
(* What a call is about.                                                      *)

CallOk(u) ==
    /\ pc[u] = "idle" => op[u] = "read" /\ idx[u] = 1
    /\ pc[u] = "map" => idx[u] = 1
    /\ pc[u] # "idle" => node[u] \in Nodes /\ pPc[ProcOf[u]] = "ready"
    /\ op[u] = "write" => u \in Writers /\ key[u] \in Keys
    /\ pc[u] \in {"blank", "copy", "copyKey"} => op[u] = "write"
    /\ pc[u] \in {"fetch", "fetchKey"} => op[u] = "read"
    /\ pc[u] \in InUse => idx[u] <= Size(u)

CallInv == \A u \in Threads : CallOk(u)

LEMMA InitCalls == Init => CallInv
BY DEF Init, CallInv, CallOk, InUse

LEMMA CallStep == TypeOK /\ CallInv /\ [Next]_vars => CallInv'
<1> SUFFICES ASSUME TypeOK, CallInv, [Next]_vars, NEW u \in Threads PROVE CallOk(u)'
  BY DEF CallInv
<1>0. CallOk(u) /\ ProcOf[u] \in Procs /\ Size(u) \in 1..AllPlaces /\ AllPlaces \in Nat
  BY SizeOk DEF CallInv
<1>1. ASSUME Same(u) PROVE CallOk(u)'
  <2>1. pPc[ProcOf[u]] = "ready" => pPc'[ProcOf[u]] = "ready" \/ Gone(u)
    BY <1>0, ReadyStays, EndsKeeps
  <2>2. QED
    BY <1>0, <1>1, <2>1 DEF CallOk, Same, Gone, InUse, Size
<1>2. ASSUME Gone(u) PROVE CallOk(u)'
  BY <1>2 DEF CallOk, Gone, InUse
<1>3. ASSUME Runs(u) PROVE CallOk(u)'
  <2> USE <1>0 DEF TypeOK, CallOk
  <2>1. CASE WriteCall(u) \/ ReadCall(u)
    BY <2>1 DEF WriteCall, ReadCall, Call, MayCall, Goto, procVars, InUse
  <2>2. CASE CallFails(u) \/ Unmap(u)
    BY <2>2 DEF CallFails, Unmap, Returns, Goto, procVars, threadVars, argVars, InUse
  <2>3. CASE MapReturns(u)
    BY <2>3 DEF MapReturns, Returns, Goto, procVars, argVars, InUse
  <2>4. CASE Scan(u) \/ ScanBlank(u)
    BY <2>4 DEF Scan, ScanBlank, Goto, procVars, argVars, InUse, Size
  <2>5. CASE Copy(u) \/ CopyKey(u) \/ Fetch(u) \/ FetchKey(u)
    BY <2>5 DEF Copy, CopyKey, Fetch, FetchKey, Goto, procVars, argVars, InUse, Size
  <2>6. QED
    BY <1>3, <2>1, <2>2, <2>3, <2>4, <2>5 DEF Runs
<1>4. CASE UNCHANGED vars
  BY <1>1, <1>4 DEF vars, argVars, Same
<1>5. QED
  BY <1>1, <1>2, <1>3, <1>4, StepOf, OthersStay, ConstructsKeeps, EndsKeeps

-----------------------------------------------------------------------------
(* When the segment is cleared.                                               *)

\* Calls overlap neither one another nor a constructor, or only one thread writes.
OneWriter == Serial \/ \A t, u \in Writers : t = u

\* The segment is not cleared after the first write: no call overlaps a constructor,
\* or it was there before.
NoLateClear == Serial \/ ExistsAtStart

AllBlank == seg = [i \in 1..AllPlaces |-> Zero]

\* Who creates the segment finds nobody at work and nothing in it.
FreshInv ==
    /\ \A p \in Procs : pPc[p] \in {"create", "clear"} => Serial /\ AllIdle /\ AllBlank
    /\ size = 0 => /\ Serial /\ AllIdle /\ AllBlank
                   /\ \A p \in Procs : pPc[p] \notin {"ready", "clear"}
    /\ Serial => \A t, u \in Threads : pc[t] # "idle" /\ pc[u] # "idle" => t = u

LEMMA InitFresh == ASSUME NoLateClear PROVE Init => FreshInv
BY SecKeyShmAssumption DEF Init, FreshInv, AllIdle, AllBlank, NoLateClear

LEMMA FreshStep == ASSUME NoLateClear PROVE TypeOK /\ CallInv /\ FreshInv /\ [Next]_vars => FreshInv'
<1> SUFFICES ASSUME TypeOK, CallInv, FreshInv, [Next]_vars PROVE FreshInv'
  OBVIOUS
<1> USE DEF TypeOK, FreshInv
<1>1. ASSUME NEW p \in Procs, Constructs(p) PROVE FreshInv'
  <2>1. UNCHANGED pc /\ (AllIdle => AllIdle')
    BY <1>1, ConstructsKeeps DEF AllIdle
  <2>2. CASE ObjOpen(p) \/ ObjOpenOnly(p)
    <3>1. UNCHANGED <<size, seg>> /\ (AllBlank => AllBlank')
      BY <2>2 DEF ObjOpen, ObjOpenOnly, AllBlank
    <3>2. \A q \in Procs : q # p => pPc'[q] = pPc[q]
      BY <2>2 DEF ObjOpen, ObjOpenOnly
    <3>3. size = 0 => pPc'[p] \in {"create", "noId"} /\ AllIdle /\ AllBlank /\ Serial
      BY <2>2 DEF ObjOpen, ObjOpenOnly
    <3>4. size # 0 => pPc'[p] \in {"ready", "noId"}
      BY <2>2 DEF ObjOpen, ObjOpenOnly
    <3>5. QED
      BY <2>1, <3>1, <3>2, <3>3, <3>4
  <2>3. CASE ObjCreate(p)
    <3>1. pPc[p] = "create" /\ UNCHANGED seg /\ size' # 0
      BY <2>3, SecKeyShmAssumption DEF ObjCreate
    <3>2. (AllBlank => AllBlank') /\ \A q \in Procs : q # p => pPc'[q] = pPc[q]
      BY <2>3, <3>1 DEF ObjCreate, AllBlank
    <3>3. QED
      BY <2>1, <3>1, <3>2
  <2>4. CASE ObjClear(p)
    <3>1. pPc[p] = "clear" /\ AllBlank /\ size # 0 /\ UNCHANGED size
      BY <2>4 DEF ObjClear
    <3>2. AllBlank'
      BY <2>4, <3>1 DEF ObjClear, AllBlank
    <3>3. \A q \in Procs : pPc'[q] = pPc[q] \/ pPc'[q] = "ready"
      BY <2>4 DEF ObjClear
    <3>4. QED
      BY <2>1, <3>1, <3>2, <3>3
  <2>5. CASE Restarts(p)
    <3>1. UNCHANGED <<size, seg>> /\ (AllBlank => AllBlank')
      BY <2>5 DEF Restarts, AllBlank
    <3>2. \A q \in Procs : pPc'[q] = pPc[q] \/ pPc'[q] = "new"
      BY <2>5 DEF Restarts
    <3>3. QED
      BY <2>1, <3>1, <3>2
  <2>6. QED
    BY <1>1, <2>2, <2>3, <2>4, <2>5 DEF Constructs
<1>2. ASSUME NEW p \in Procs, Ends(p) PROVE FreshInv'
  <2>1. \A u \in Threads : pc'[u] = pc[u] \/ pc'[u] = "idle"
    BY <1>2, EndsKeeps DEF Same, Gone
  <2>2. (AllIdle => AllIdle') /\ (AllBlank => AllBlank') /\ UNCHANGED size
    BY <1>2, <2>1 DEF AllIdle, AllBlank, Ends
  <2>3. \A q \in Procs : pPc'[q] = pPc[q] \/ pPc'[q] = "dead"
    BY <1>2 DEF Ends
  <2>4. QED
    BY <2>1, <2>2, <2>3
<1>3. ASSUME NEW t \in Threads, Runs(t) PROVE FreshInv'
  <2>1. UNCHANGED <<pPc, size>>
    BY <1>3, RunsKeepsProcs DEF procVars
  <2>2. CASE CallFails(t)
    <3>1. UNCHANGED <<seg, pc>>
      BY <2>2 DEF CallFails, threadVars
    <3>2. QED
      BY <2>1, <3>1 DEF AllIdle, AllBlank
  <2>3. CASE WriteCall(t) \/ ReadCall(t)
    <3>1. /\ pPc[ProcOf[t]] = "ready" /\ UNCHANGED seg
          /\ Serial => AllIdle /\ \A p \in Procs : pPc[p] \notin {"create", "clear"}
      BY <2>3 DEF WriteCall, ReadCall, Call, MayCall
    <3>2. size # 0 /\ \A p \in Procs : pPc[p] \notin {"create", "clear"}
      BY <3>1, SizeOk
    <3>3. \A u \in Threads : u # t => pc'[u] = pc[u]
      BY <1>3, OthersStay DEF Same
    <3>4. QED
      BY <2>1, <3>1, <3>2, <3>3 DEF AllIdle
  <2>4. CASE pc[t] # "idle"
    <3>1. pPc[ProcOf[t]] = "ready" /\ ~AllIdle
      BY <2>4 DEF CallInv, CallOk, AllIdle
    <3>2. size # 0 /\ \A p \in Procs : pPc[p] \notin {"create", "clear"}
      BY <3>1, SizeOk
    <3>3. \A u \in Threads : u # t => pc'[u] = pc[u]
      BY <1>3, OthersStay DEF Same
    <3>4. QED
      BY <2>1, <2>4, <3>2, <3>3
  <2>5. QED
    BY <1>3, <2>2, <2>3, <2>4 DEF Runs, MapReturns, Scan, ScanBlank, Copy, CopyKey, Fetch, FetchKey, Unmap
<1>4. CASE UNCHANGED vars
  BY <1>4 DEF vars, procVars, AllIdle, AllBlank
<1>5. QED
  BY <1>1, <1>2, <1>3, <1>4, StepOf

-----------------------------------------------------------------------------
(* Mappings.                                                                  *)

OneThreadEach == \A t, u \in Threads : ProcOf[t] = ProcOf[u] => t = u

\* Nobody detaches the mapping of a call that is going on.
UsedOk(t) ==
    /\ pc[t] # "idle" => mShmAddr[ProcOf[t]] \in attached[ProcOf[t]]
    /\ pc[t] \notin {"idle", "map"} => addr[t] = mShmAddr[ProcOf[t]]

UsedInv == \A t \in Threads : UsedOk(t)

LEMMA InitUsed == Init => UsedInv
BY DEF Init, UsedInv, UsedOk

LEMMA UsedStep ==
  ASSUME Serial \/ OneThreadEach
  PROVE  TypeOK /\ CallInv /\ (NoLateClear => FreshInv) /\ UsedInv /\ [Next]_vars => UsedInv'
<1> SUFFICES ASSUME TypeOK, CallInv, NoLateClear => FreshInv, UsedInv, [Next]_vars, NEW u \in Threads
             PROVE  UsedOk(u)'
  BY DEF UsedInv
<1> DEFINE q == ProcOf[u]
<1> USE DEF TypeOK
<1>0. /\ UsedOk(u) /\ q \in Procs /\ (pc[u] # "idle" => pPc[q] = "ready")
      /\ NoAddr \notin Addrs
  BY SizeOk, SecKeyShmAssumption DEF CallInv, CallOk, UsedInv
<1>1. ASSUME Gone(u) PROVE UsedOk(u)'
  BY <1>1 DEF Gone, UsedOk
<1>2. ASSUME Same(u), attached'[q] = attached[q], mShmAddr'[q] = mShmAddr[q] PROVE UsedOk(u)'
  BY <1>0, <1>2 DEF Same, UsedOk
<1>3. ASSUME Same(u), pc[u] = "idle" PROVE UsedOk(u)'
  BY <1>3 DEF Same, UsedOk
<1>4. ASSUME NEW p \in Procs, Constructs(p) PROVE UsedOk(u)'
  <2>1. Same(u)
    BY <1>4, ConstructsKeeps
  <2>2. CASE pc[u] # "idle"
    <3>1. p # q
      BY <1>0, <1>4, <2>2 DEF Constructs, ObjOpen, ObjOpenOnly, ObjCreate, ObjClear, Restarts
    <3>2. attached'[q] = attached[q] /\ mShmAddr'[q] = mShmAddr[q]
      BY <1>0, <1>4, <3>1 DEF Constructs, ObjOpen, ObjOpenOnly, ObjCreate, ObjClear, Restarts,
                              Attach, Detach, mapVars
    <3>3. QED
      BY <1>2, <2>1, <3>2
  <2>3. QED
    BY <1>3, <2>1, <2>2
<1>5. ASSUME NEW p \in Procs, Ends(p), p # q PROVE UsedOk(u)'
  <2>1. attached'[q] = attached[q] /\ mShmAddr'[q] = mShmAddr[q]
    BY <1>0, <1>5 DEF Ends
  <2>2. QED
    BY <1>2, <1>5, <2>1, EndsKeeps
<1>6. ASSUME NEW t \in Threads, Runs(t), t # u PROVE UsedOk(u)'
  <2>1. Same(u)
    BY <1>6, OthersStay
  <2>2. CASE pc[u] # "idle" /\ OneThreadEach
    <3>1. ProcOf[t] # q /\ ProcOf[t] \in Procs
      BY <1>6, <2>2, SizeOk DEF OneThreadEach
    <3>2. attached'[q] = attached[q] /\ mShmAddr'[q] = mShmAddr[q]
      BY <1>0, <1>6, <3>1 DEF Runs, WriteCall, ReadCall, Call, CallFails, MapReturns, Scan, ScanBlank,
                              Copy, CopyKey, Fetch, FetchKey, Unmap, Attach, Detach, mapVars
    <3>3. QED
      BY <1>2, <2>1, <3>2
  <2>3. CASE pc[u] # "idle" /\ Serial
    <3>1. pc[t] = "idle" /\ ~AllIdle
      BY <1>6, <2>3 DEF FreshInv, NoLateClear, AllIdle
    <3>2. FALSE
      BY <1>6, <2>3, <3>1 DEF Runs, WriteCall, ReadCall, Call, MayCall, CallFails, MapReturns, Scan,
                              ScanBlank, Copy, CopyKey, Fetch, FetchKey, Unmap
    <3>3. QED
      BY <3>2
  <2>4. QED
    BY <1>3, <2>1, <2>2, <2>3
<1>7. ASSUME Runs(u) PROVE UsedOk(u)'
  <2> USE <1>0 DEF UsedOk
  <2>1. CASE WriteCall(u) \/ ReadCall(u)
    BY <2>1 DEF WriteCall, ReadCall, Call, Attach, Goto
  <2>2. CASE CallFails(u)
    BY <2>2 DEF CallFails, MayCall, threadVars
  <2>3. CASE Unmap(u)
    BY <2>3 DEF Unmap, Returns, Goto
  <2>4. CASE MapReturns(u)
    BY <2>4 DEF MapReturns, Returns, Goto, mapVars
  <2>5. CASE Scan(u) \/ ScanBlank(u) \/ Copy(u) \/ CopyKey(u) \/ Fetch(u) \/ FetchKey(u)
    BY <2>5 DEF Scan, ScanBlank, Copy, CopyKey, Fetch, FetchKey, Goto, mapVars
  <2>6. QED
    BY <1>7, <2>1, <2>2, <2>3, <2>4, <2>5 DEF Runs
<1>8. CASE UNCHANGED vars
  BY <1>2, <1>8 DEF vars, mapVars, argVars, Same
<1>9. QED
  BY <1>1, <1>4, <1>5, <1>6, <1>7, <1>8, StepOf, EndsKeeps

\* A process without a call has no mapping, a constructor and a call have one.
BalancedInv ==
    /\ \A p \in Procs :
         /\ pPc[p] \in {"new", "create", "noId", "dead"} => attached[p] = {}
         /\ pPc[p] = "clear" => attached[p] = {mShmAddr[p]}
    /\ \A t \in Threads :
         pPc[ProcOf[t]] = "ready" =>
             attached[ProcOf[t]] = IF pc[t] = "idle" THEN {} ELSE {mShmAddr[ProcOf[t]]}

LEMMA InitBalanced == Init => BalancedInv
BY SecKeyShmAssumption DEF Init, BalancedInv

LEMMA BalancedStep ==
  ASSUME OneThreadEach
  PROVE  TypeOK /\ CallInv /\ UsedInv /\ BalancedInv /\ [Next]_vars => BalancedInv'
<1> SUFFICES ASSUME TypeOK, CallInv, UsedInv, BalancedInv, [Next]_vars PROVE BalancedInv'
  OBVIOUS
<1> USE DEF TypeOK
<1> DEFINE free(p) == /\ pPc[p] \in {"new", "create", "noId", "dead"} => attached[p] = {}
                      /\ pPc[p] = "clear" => attached[p] = {mShmAddr[p]}
           own(t) == pPc[ProcOf[t]] = "ready" =>
                       attached[ProcOf[t]] = IF pc[t] = "idle" THEN {} ELSE {mShmAddr[ProcOf[t]]}
<1>0. \A u \in Threads : ProcOf[u] \in Procs /\ (pc[u] # "idle" => pPc[ProcOf[u]] = "ready")
  BY SizeOk DEF CallInv, CallOk
<1>1. ASSUME NEW p \in Procs, Constructs(p) PROVE BalancedInv'
  <2>1. UNCHANGED pc
    BY <1>1, ConstructsKeeps
  <2>2. \A q \in Procs : q # p => /\ attached'[q] = attached[q] /\ mShmAddr'[q] = mShmAddr[q]
                                  /\ pPc'[q] = pPc[q]
    BY <1>1 DEF Constructs, ObjOpen, ObjOpenOnly, ObjCreate, ObjClear, Restarts, Attach, Detach, mapVars
  <2>3. pPc[p] # "ready" /\ free(p)
    BY <1>1 DEF Constructs, ObjOpen, ObjOpenOnly, ObjCreate, ObjClear, Restarts, BalancedInv
  <2>4. free(p)' /\ (pPc'[p] = "ready" => attached'[p] = {})
    <3>1. CASE ObjOpen(p) \/ ObjOpenOnly(p) \/ Restarts(p)
      BY <2>3, <3>1 DEF ObjOpen, ObjOpenOnly, Restarts, mapVars
    <3>2. CASE ObjCreate(p)
      BY <2>3, <3>2 DEF ObjCreate, Attach, mapVars
    <3>3. CASE ObjClear(p)
      BY <2>3, <3>3 DEF ObjClear, Detach
    <3>4. QED
      BY <1>1, <3>1, <3>2, <3>3 DEF Constructs
  <2>5. ASSUME NEW t \in Threads PROVE own(t)'
    <3>1. CASE ProcOf[t] = p
      BY <1>0, <2>1, <2>3, <2>4, <3>1
    <3>2. CASE ProcOf[t] # p
      BY <1>0, <2>1, <2>2, <3>2 DEF BalancedInv
    <3>3. QED
      BY <3>1, <3>2
  <2>6. QED
    BY <2>2, <2>4, <2>5 DEF BalancedInv
<1>2. ASSUME NEW p \in Procs, Ends(p) PROVE BalancedInv'
  <2>1. /\ pPc'[p] = "dead" /\ attached'[p] = {}
        /\ \A q \in Procs : q # p => /\ attached'[q] = attached[q] /\ mShmAddr'[q] = mShmAddr[q]
                                    /\ pPc'[q] = pPc[q]
    BY <1>2 DEF Ends
  <2>2. \A t \in Threads : ProcOf[t] # p => pc'[t] = pc[t]
    BY <1>2, EndsKeeps DEF Same
  <2>3. ASSUME NEW q \in Procs PROVE free(q)'
    BY <2>1 DEF BalancedInv
  <2>4. ASSUME NEW t \in Threads PROVE own(t)'
    <3>1. CASE ProcOf[t] = p
      BY <2>1, <3>1
    <3>2. CASE ProcOf[t] # p
      <4>1. own(t) /\ ProcOf[t] \in Procs
        BY <1>0 DEF BalancedInv
      <4>2. QED
        BY <2>1, <2>2, <3>2, <4>1
    <3>3. QED
      BY <3>1, <3>2
  <2>5. QED
    BY <2>3, <2>4 DEF BalancedInv
<1>3. ASSUME NEW t \in Threads, Runs(t) PROVE BalancedInv'
  <2> DEFINE p == ProcOf[t]
  <2>1. UNCHANGED pPc /\ \A u \in Threads : u # t => pc'[u] = pc[u] /\ ProcOf[u] # p
    BY <1>3, RunsKeepsProcs, OthersStay DEF procVars, Same, OneThreadEach
  <2>2. p \in Procs /\ own(t) /\ UsedOk(t) /\ free(p)
    BY <1>0 DEF BalancedInv, UsedInv
  <2>3. \A q \in Procs : q # p => attached'[q] = attached[q] /\ mShmAddr'[q] = mShmAddr[q]
    BY <1>3, <2>2 DEF Runs, WriteCall, ReadCall, Call, CallFails, MapReturns, Scan, ScanBlank,
                      Copy, CopyKey, Fetch, FetchKey, Unmap, Attach, Detach, mapVars
  <2>4. own(t)' /\ free(p)'
    <3> USE <2>1, <2>2 DEF UsedOk
    <3>1. CASE WriteCall(t) \/ ReadCall(t)
      BY <3>1 DEF WriteCall, ReadCall, Call, MayCall, Attach, Goto
    <3>2. CASE CallFails(t)
      BY <3>2 DEF CallFails, MayCall, threadVars
    <3>3. CASE Unmap(t)
      BY <1>0, <3>3 DEF Unmap, Returns, Goto, Detach
    <3>4. CASE MapReturns(t)
      BY <1>0, <3>4, SecKeyShmAssumption DEF MapReturns, Returns, Goto, mapVars
    <3>5. CASE Scan(t) \/ ScanBlank(t) \/ Copy(t) \/ CopyKey(t) \/ Fetch(t) \/ FetchKey(t)
      BY <3>5 DEF Scan, ScanBlank, Copy, CopyKey, Fetch, FetchKey, Goto, mapVars
    <3>6. QED
      BY <1>3, <3>1, <3>2, <3>3, <3>4, <3>5 DEF Runs
  <2>5. ASSUME NEW q \in Procs, q # p PROVE free(q)'
    BY <2>1, <2>3, <2>5 DEF BalancedInv
  <2>6. ASSUME NEW u \in Threads, u # t PROVE own(u)'
    BY <1>0, <2>1, <2>3, <2>6, ZenonT(60) DEF BalancedInv
  <2>7. QED
    BY <2>4, <2>5, <2>6 DEF BalancedInv
<1>4. CASE UNCHANGED vars
  BY <1>4 DEF vars, procVars, mapVars, BalancedInv
<1>5. QED
  BY <1>1, <1>2, <1>3, <1>4, StepOf

-----------------------------------------------------------------------------
(* The table.                                                                 *)

\* A write has not overlooked the node: not before the place it looks at, nor, when it
\* looks for a blank place, in any place it uses, nor, when it copies, in another one.
ScanOk(w) ==
    op[w] = "write" =>
        /\ pc[w] = "scan" => \A i \in 1..AllPlaces : i < idx[w] => seg[i].node # node[w]
        /\ pc[w] = "blank" => \A i \in 1..Size(w) : seg[i].node # node[w]
        /\ pc[w] = "copy" => \A i \in 1..AllPlaces : i # idx[w] => seg[i].node # node[w]

\* Calls that do not overlap fill the places in order.
OrderInv ==
    /\ \A i, j \in 1..AllPlaces : i < j /\ seg[i] = Zero => seg[j] = Zero
    /\ \A w \in Threads : pc[w] \in {"blank", "copy", "copyKey"} =>
         \A i \in 1..AllPlaces : i < idx[w] => seg[i] # Zero

\* The only writer has filled no place beyond its own.
ReachInv == \A w \in Writers : \A i \in 1..AllPlaces : i > Size(w) => seg[i].node = NoNode

TableInv ==
    /\ OnePlacePerNode
    /\ \A w \in Threads : ScanOk(w)
    /\ Serial => OrderInv
    /\ ~Serial => ReachInv

LEMMA WriterAlone ==
  ASSUME OneWriter, CallInv, Serial => FreshInv,
         NEW t \in Threads, NEW u \in Threads, op[t] = "write", op[u] = "write"
  PROVE  t = u
<1>1. t \in Writers /\ u \in Writers /\ pc[t] # "idle" /\ pc[u] # "idle"
  BY DEF CallInv, CallOk
<1>2. QED
  BY <1>1 DEF OneWriter, FreshInv

\* Only a constructor and the copies of a write change the segment.
LEMMA SegOf ==
  ASSUME NEW t \in Threads, Runs(t) PROVE UNCHANGED seg \/ Copy(t) \/ CopyKey(t)
BY DEF Runs, WriteCall, ReadCall, Call, CallFails, MapReturns, Scan, ScanBlank, Fetch, FetchKey, Unmap

\* What the two halves of a copy do to the place.
LEMMA CopyOf ==
  ASSUME TypeOK, NEW t \in Threads, Copy(t) \/ CopyKey(t)
  PROVE  /\ \A i \in 1..AllPlaces : i # idx[t] => seg'[i] = seg[i]
         /\ pc[t] = "copy" => seg'[idx[t]] = [node |-> node[t], info |-> seg[idx[t]].info]
         /\ pc[t] = "copyKey" => seg'[idx[t]] = [node |-> seg[idx[t]].node, info |-> key[t]]
<1>1. idx[t] \in 1..AllPlaces /\ seg[idx[t]] \in Places /\ seg \in [1..AllPlaces -> Places]
  BY DEF TypeOK
<1>2. /\ pc[t] = "copy" => seg' = [seg EXCEPT ![idx[t]] = [@ EXCEPT !.node = node[t]]]
      /\ pc[t] = "copyKey" => seg' = [seg EXCEPT ![idx[t]] = [@ EXCEPT !.info = key[t]]]
      /\ pc[t] \in {"copy", "copyKey"}
  BY DEF Copy, CopyKey
<1>3. /\ [seg[idx[t]] EXCEPT !.node = node[t]] = [node |-> node[t], info |-> seg[idx[t]].info]
      /\ [seg[idx[t]] EXCEPT !.info = key[t]] = [node |-> seg[idx[t]].node, info |-> key[t]]
  BY <1>1 DEF Places
<1>4. QED
  BY <1>1, <1>2, <1>3

LEMMA CopyFields ==
  ASSUME TypeOK, NEW t \in Threads, Copy(t) \/ CopyKey(t)
  PROVE  /\ pc[t] = "copy" => seg'[idx[t]].node = node[t] /\ seg'[idx[t]].info = seg[idx[t]].info
         /\ pc[t] = "copyKey" => seg'[idx[t]].node = seg[idx[t]].node /\ seg'[idx[t]].info = key[t]
<1>1. CASE pc[t] = "copy"
  <2>1. seg'[idx[t]] = [node |-> node[t], info |-> seg[idx[t]].info]
    BY <1>1, CopyOf
  <2>2. QED
    BY <1>1, <2>1
<1>2. CASE pc[t] = "copyKey"
  <2>1. seg'[idx[t]] = [node |-> seg[idx[t]].node, info |-> key[t]]
    BY <1>2, CopyOf
  <2>2. QED
    BY <1>2, <2>1
<1>3. QED
  BY <1>1, <1>2

LEMMA InitTable == Init => TableInv
<1>1. Init => \A i \in 1..AllPlaces : seg[i] = Zero /\ seg[i].node = NoNode
  BY ZeroOk DEF Init
<1>2. Init => \A w \in Threads : op[w] = "read" /\ pc[w] = "idle"
  BY DEF Init
<1>3. QED
  BY <1>1, <1>2 DEF TableInv, OnePlacePerNode, ScanOk, OrderInv, ReachInv

LEMMA TableStep ==
  ASSUME OneWriter
  PROVE  TypeOK /\ CallInv /\ (Serial => FreshInv) /\ TableInv /\ [Next]_vars => TableInv'
<1> SUFFICES ASSUME TypeOK, CallInv, Serial => FreshInv, TableInv, [Next]_vars PROVE TableInv'
  OBVIOUS
<1>a. /\ \A i \in 1..AllPlaces : seg[i] \in Places
      /\ AllPlaces \in Nat /\ \A w \in Threads : Size(w) \in 1..AllPlaces /\ idx[w] \in 1..AllPlaces
      /\ NoNode \notin Nodes /\ NoKey \notin Keys
  BY SizeOk, SecKeyShmAssumption DEF TypeOK
\* Nothing is written, and each thread stays where it is or is gone.
<1>1. ASSUME \A i \in 1..AllPlaces : seg'[i] = seg[i], \A w \in Threads : Same(w) \/ Gone(w)
      PROVE  TableInv'
  <2>1. OnePlacePerNode'
    BY <1>1 DEF TableInv, OnePlacePerNode
  <2>2. ASSUME NEW w \in Threads PROVE ScanOk(w)'
    BY <1>1, <1>a DEF TableInv, ScanOk, Same, Gone, Size
  <2>3. ASSUME Serial PROVE OrderInv'
    <3>1. ASSUME NEW w \in Threads, pc'[w] \in {"blank", "copy", "copyKey"}, NEW i \in 1..AllPlaces,
                 i < idx'[w]
          PROVE  seg'[i] # Zero
      BY <1>1, <2>3, <3>1 DEF TableInv, OrderInv, Same, Gone
    <3>2. QED
      BY <1>1, <2>3, <3>1 DEF TableInv, OrderInv
  <2>4. ASSUME ~Serial PROVE ReachInv'
    BY <1>1, <2>4 DEF TableInv, ReachInv, Size
  <2>5. QED
    BY <2>1, <2>2, <2>3, <2>4 DEF TableInv
<1>2. ASSUME NEW p \in Procs, ObjClear(p) PROVE TableInv'
  <2>1. \A w \in Threads : Same(w)
    BY <1>2, ConstructsKeeps DEF Constructs
  <2>2. \A i \in 1..AllPlaces : seg'[i] = seg[i] \/ seg'[i] = Zero
    BY <1>2 DEF ObjClear
  <2>3. CASE Serial
    <3>1. \A i \in 1..AllPlaces : seg[i] = Zero
      BY <1>2, <2>3 DEF FreshInv, ObjClear, AllBlank
    <3>2. QED
      BY <1>1, <2>1, <2>2, <3>1
  <2>4. CASE ~Serial
    <3>1. \A i \in 1..AllPlaces : seg'[i].node = seg[i].node \/ seg'[i].node = NoNode
      BY <2>2, ZeroOk
    <3>2. OnePlacePerNode'
      BY <3>1 DEF TableInv, OnePlacePerNode
    <3>3. ASSUME NEW w \in Threads PROVE ScanOk(w)'
      <4>1. op[w] = "write" => node[w] \in Nodes
        BY DEF CallInv, CallOk
      <4>2. QED
        BY <1>a, <2>1, <3>1, <4>1 DEF TableInv, ScanOk, Same, Size
    <3>4. ReachInv'
      BY <2>4, <3>1 DEF TableInv, ReachInv, Size
    <3>5. QED
      BY <2>4, <3>2, <3>3, <3>4 DEF TableInv
  <2>5. QED
    BY <2>3, <2>4
<1>3. ASSUME NEW t \in Threads, Runs(t), UNCHANGED seg PROVE TableInv'
  <2>1. \A w \in Threads : w # t => Same(w)
    BY <1>3, OthersStay
  <2>2. CallOk(t) /\ ScanOk(t)
    BY DEF CallInv, TableInv
  <2>3. /\ ScanOk(t)'
        /\ Serial /\ pc'[t] \in {"blank", "copy", "copyKey"} =>
             \A i \in 1..AllPlaces : i < idx'[t] => seg[i] # Zero
    <3> USE <1>a, <2>2 DEF TypeOK
    <3>1. CASE WriteCall(t) \/ ReadCall(t)
      BY <1>3, <3>1 DEF WriteCall, ReadCall, Call, Goto, ScanOk
    <3>2. CASE CallFails(t)
      BY <1>3, <3>2 DEF CallFails, MayCall, threadVars, argVars, ScanOk, CallOk
    <3>3. CASE MapReturns(t)
      BY <1>3, <3>3 DEF MapReturns, Returns, Goto, argVars, ScanOk, CallOk
    <3>4. CASE Scan(t)
      <4>1. CASE seg[idx[t]].node = node[t]
        <5>1. node[t] # NoNode /\ \A i \in 1..AllPlaces : i # idx[t] => seg[i].node # node[t]
          BY <3>4, <4>1 DEF Scan, CallOk, TableInv, OnePlacePerNode
        <5>2. seg[idx[t]] # Zero
          BY <4>1, <5>1, ZeroOk
        <5>3. Serial => \A i \in 1..AllPlaces : i < idx[t] => seg[i] # Zero
          BY <5>2 DEF TableInv, OrderInv
        <5>4. /\ pc'[t] \in {"copy", "fetch"} /\ idx'[t] = idx[t]
              /\ node'[t] = node[t] /\ op'[t] = op[t]
          BY <3>4, <4>1 DEF Scan, Goto, argVars
        <5>5. QED
          BY <1>3, <5>1, <5>3, <5>4 DEF ScanOk
      <4>2. CASE seg[idx[t]].node # node[t] /\ idx[t] < Size(t)
        <5>1. pc[t] = "scan" /\ pc'[t] = "scan" /\ idx'[t] = idx[t] + 1
              /\ node'[t] = node[t] /\ op'[t] = op[t]
          BY <3>4, <4>2 DEF Scan, argVars
        <5>2. QED
          BY <1>3, <4>2, <5>1 DEF ScanOk
      <4>3. CASE seg[idx[t]].node # node[t] /\ idx[t] = Size(t)
        <5>1. pc[t] = "scan" /\ pc'[t] \in {"blank", "unmap"} /\ idx'[t] = 1
              /\ node'[t] = node[t] /\ op'[t] = op[t]
          BY <3>4, <4>3 DEF Scan, Goto, argVars
        <5>2. \A i \in 1..Size(t) : i \in 1..AllPlaces /\ (i < idx[t] \/ i = idx[t])
          BY <4>3
        <5>3. QED
          BY <1>3, <4>3, <5>1, <5>2 DEF ScanOk, Size
      <4>4. QED
        BY <3>4, <4>1, <4>2, <4>3 DEF Scan
    <3>5. CASE ScanBlank(t)
      <4>0. pc[t] = "blank" /\ node'[t] = node[t] /\ op'[t] = op[t] /\ op[t] = "write" /\ node[t] \in Nodes
        BY <3>5 DEF ScanBlank, argVars, CallOk
      <4>1. CASE seg[idx[t]] = Zero
        <5>1. pc'[t] = "copy" /\ idx'[t] = idx[t]
          BY <3>5, <4>1 DEF ScanBlank, Goto
        <5>2. idx[t] <= Size(t)
          BY <4>0 DEF CallOk, InUse
        <5>3. ASSUME NEW i \in 1..AllPlaces, i > Size(t) PROVE seg[i].node = NoNode
          <6>1. CASE Serial
            BY <4>1, <5>2, <5>3, <6>1, ZeroOk DEF TableInv, OrderInv
          <6>2. CASE ~Serial
            BY <4>0, <5>3, <6>2 DEF TableInv, ReachInv, CallOk
          <6>3. QED
            BY <6>1, <6>2
        <5>4. \A i \in 1..AllPlaces : seg[i].node # node[t]
          BY <4>0, <5>3, SMTT(30) DEF ScanOk
        <5>5. Serial => \A i \in 1..AllPlaces : i < idx[t] => seg[i] # Zero
          BY <4>0 DEF TableInv, OrderInv
        <5>6. QED
          BY <1>3, <4>0, <5>1, <5>4, <5>5 DEF ScanOk
      <4>2. CASE seg[idx[t]] # Zero
        <5>1. \/ pc'[t] = "blank" /\ idx'[t] = idx[t] + 1
              \/ pc'[t] = "unmap"
          BY <3>5, <4>2 DEF ScanBlank, Goto
        <5>2. Serial => \A i \in 1..AllPlaces : i < idx[t] + 1 => seg[i] # Zero
          BY <4>0, <4>2 DEF TableInv, OrderInv
        <5>3. QED
          BY <1>3, <4>0, <5>1, <5>2 DEF ScanOk, Size
      <4>3. QED
        BY <4>1, <4>2
    <3>6. CASE Copy(t) \/ CopyKey(t) \/ Fetch(t) \/ FetchKey(t)
      <4>1. pc'[t] \in {"copyKey", "fetchKey", "unmap"} /\ idx'[t] = idx[t]
        BY <3>6 DEF Copy, CopyKey, Fetch, FetchKey, Goto
      <4>2. pc'[t] = "copyKey" => pc[t] = "copy"
        BY <3>6 DEF Copy, CopyKey, Fetch, FetchKey, Goto
      <4>3. QED
        BY <4>1, <4>2 DEF ScanOk, TableInv, OrderInv
    <3>7. CASE Unmap(t)
      BY <1>3, <3>7 DEF Unmap, Returns, Goto, ScanOk
    <3>8. QED
      BY <1>3, <3>1, <3>2, <3>3, <3>4, <3>5, <3>6, <3>7 DEF Runs
  <2>4. ASSUME NEW w \in Threads PROVE ScanOk(w)'
    BY <1>3, <2>1, <2>3 DEF TableInv, ScanOk, Same, Size
  <2>5. ASSUME Serial PROVE OrderInv'
    BY <1>3, <2>1, <2>3, <2>5 DEF TableInv, OrderInv, Same
  <2>6. QED
    BY <1>3, <2>4, <2>5 DEF TableInv, OnePlacePerNode, ReachInv, Size
<1>4. ASSUME NEW t \in Threads, Copy(t) \/ CopyKey(t) PROVE TableInv'
  <2>1. /\ op[t] = "write" /\ t \in Writers /\ node[t] \in Nodes /\ key[t] \in Keys
        /\ idx[t] <= Size(t) /\ pc[t] \in {"copy", "copyKey"} /\ ScanOk(t)
    BY <1>4 DEF Copy, CopyKey, CallInv, CallOk, InUse, TableInv
  <2>2. /\ pc'[t] = IF pc[t] = "copy" THEN "copyKey" ELSE "unmap"
        /\ idx'[t] = idx[t] /\ op'[t] = "write"
    BY <1>4, <2>1 DEF Copy, CopyKey, Goto, argVars, TypeOK
  <2>3. \A w \in Threads : w # t => Same(w) /\ op[w] # "write"
    BY <1>4, <2>1, OthersStay, WriterAlone DEF Runs
  <2>4. /\ \A i \in 1..AllPlaces : i # idx[t] => seg'[i] = seg[i]
        /\ pc[t] = "copy" => seg'[idx[t]].node = node[t]
        /\ pc[t] = "copyKey" => seg'[idx[t]].node = seg[idx[t]].node /\ seg'[idx[t]].info = key[t]
    BY <1>4, CopyOf, CopyFields
  <2>5. seg'[idx[t]] # Zero
    BY <1>a, <2>1, <2>4, ZeroOk
  <2>6. OnePlacePerNode'
    BY <2>1, <2>4 DEF TableInv, OnePlacePerNode, ScanOk
  <2>7. ASSUME NEW w \in Threads PROVE ScanOk(w)'
    BY <2>2, <2>3 DEF ScanOk, Same
  <2>8. ASSUME Serial PROVE OrderInv'
    <3>1. \A i \in 1..AllPlaces : i < idx[t] => seg[i] # Zero
      BY <2>1, <2>8 DEF TableInv, OrderInv
    <3>2. ASSUME NEW i \in 1..AllPlaces, NEW j \in 1..AllPlaces, i < j, seg'[i] = Zero
          PROVE  seg'[j] = Zero
      <4>1. i # idx[t] /\ seg[i] = Zero /\ seg[j] = Zero
        BY <2>4, <2>5, <2>8, <3>2 DEF TableInv, OrderInv
      <4>2. ~(i < idx[t])
        BY <3>1, <4>1
      <4>3. j # idx[t]
        BY <1>a, <3>2, <4>1, <4>2
      <4>4. QED
        BY <2>4, <4>1, <4>3
    <3>3. ASSUME NEW w \in Threads, pc'[w] \in {"blank", "copy", "copyKey"} PROVE w = t
      <4>1. pc[t] # "idle" /\ (w # t => pc[w] # "idle")
        BY <2>1, <2>3, <3>3 DEF Same
      <4>2. QED
        BY <2>8, <4>1 DEF FreshInv
    <3>4. \A i \in 1..AllPlaces : i < idx[t] => seg'[i] # Zero
      BY <1>a, <2>4, <3>1
    <3>5. QED
      BY <2>2, <3>2, <3>3, <3>4 DEF OrderInv
  <2>9. ASSUME ~Serial PROVE ReachInv'
    <3>1. \A w \in Writers : w = t
      BY <2>1, <2>9 DEF OneWriter
    <3>2. \A i \in 1..AllPlaces : i > Size(t) => seg'[i] = seg[i]
      BY <1>a, <2>1, <2>4
    <3>3. QED
      BY <2>9, <3>1, <3>2 DEF TableInv, ReachInv, Size
  <2>10. QED
    BY <2>6, <2>7, <2>8, <2>9 DEF TableInv
<1>5. CASE UNCHANGED vars
  BY <1>1, <1>5 DEF vars, argVars, Same
<1>6. ASSUME NEW p \in Procs, Constructs(p), UNCHANGED seg PROVE TableInv'
  BY <1>1, <1>6, ConstructsKeeps
<1>7. ASSUME NEW p \in Procs, Ends(p) PROVE TableInv'
  <2>1. UNCHANGED seg
    BY <1>7 DEF Ends
  <2>2. QED
    BY <1>1, <1>7, <2>1, EndsKeeps
<1>8. ASSUME NEW p \in Procs, Constructs(p) PROVE TableInv'
  BY <1>2, <1>6, <1>8, ConstructsKeeps
<1>9. ASSUME NEW t \in Threads, Runs(t) PROVE TableInv'
  BY <1>3, <1>4, <1>9, SegOf
<1>10. QED
  BY <1>5, <1>7, <1>8, <1>9, StepOf

-----------------------------------------------------------------------------
(* What a read finds.                                                         *)

\* A read copies from a place of its node, a write to a blank place or one of its node.
ReadOk(t) ==
    /\ pc[t] \in {"fetch", "fetchKey"} => seg[idx[t]].node = node[t]
    /\ pc[t] = "fetchKey" => half[t] = node[t]
    /\ pc[t] = "copy" => seg[idx[t]].node \in {NoNode, node[t]}

ReadInv == \A t \in Threads : ReadOk(t)

LEMMA InitRead == Init => ReadInv
BY DEF Init, ReadInv, ReadOk

LEMMA ClearsNothing ==
  ASSUME TypeOK, FreshInv, NEW p \in Procs, ObjClear(p) PROVE UNCHANGED seg
<1>1. seg = [i \in 1..AllPlaces |-> Zero]
  BY DEF FreshInv, AllBlank, ObjClear
<1>2. QED
  BY <1>1 DEF ObjClear

LEMMA ReadStep ==
  ASSUME OneWriter, NoLateClear
  PROVE  TypeOK /\ CallInv /\ FreshInv /\ ReadInv /\ [Next]_vars => ReadInv'
<1> SUFFICES ASSUME TypeOK, CallInv, FreshInv, ReadInv, [Next]_vars, NEW u \in Threads PROVE ReadOk(u)'
  BY DEF ReadInv
<1>0. CallOk(u) /\ ReadOk(u) /\ idx[u] \in 1..AllPlaces /\ NoNode \notin Nodes
  BY SecKeyShmAssumption DEF CallInv, ReadInv, TypeOK
<1>1. ASSUME UNCHANGED seg, Same(u) PROVE ReadOk(u)'
  BY <1>0, <1>1 DEF Same, ReadOk
<1>2. ASSUME Gone(u) PROVE ReadOk(u)'
  BY <1>2 DEF Gone, ReadOk
<1>3. ASSUME NEW p \in Procs, Constructs(p) PROVE ReadOk(u)'
  BY <1>1, <1>3, ConstructsKeeps, ClearsNothing
<1>4. ASSUME NEW t \in Threads, Runs(t), t # u PROVE ReadOk(u)'
  <2>1. Same(u)
    BY <1>4, OthersStay
  <2>2. CASE Copy(t) \/ CopyKey(t)
    <3>1. op[t] = "write" /\ ReadOk(t) /\ pc[t] \in {"copy", "copyKey"} /\ op[u] # "write"
      BY <1>4, <2>2, WriterAlone DEF CallInv, CallOk, ReadInv, Copy, CopyKey
    <3>2. pc'[u] # "copy"
      BY <1>0, <2>1, <3>1 DEF Same, CallOk
    <3>3. pc[u] \in {"fetch", "fetchKey"} => seg'[idx[u]].node = node[u]
      <4>1. pc[u] \in {"fetch", "fetchKey"} => seg[idx[u]].node = node[u] /\ node[u] \in Nodes
        BY <1>0 DEF ReadOk, CallOk
      <4>2. pc[t] = "copy" => seg[idx[t]].node \in {NoNode, node[t]}
        BY <3>1 DEF ReadOk
      <4>3. idx[u] # idx[t] => seg'[idx[u]] = seg[idx[u]]
        BY <1>0, <2>2, CopyOf
      <4>4. \/ pc[t] = "copy" /\ seg'[idx[t]].node = node[t]
            \/ seg'[idx[t]].node = seg[idx[t]].node
        BY <2>2, <3>1, CopyFields
      <4>5. QED
        BY <1>0, <4>1, <4>2, <4>3, <4>4
    <3>4. QED
      BY <1>0, <2>1, <3>2, <3>3 DEF Same, ReadOk
  <2>3. QED
    BY <1>1, <1>4, <2>1, <2>2, SegOf
<1>5. ASSUME Runs(u) PROVE ReadOk(u)'
  <2> USE <1>0 DEF TypeOK
  <2>1. CASE WriteCall(u) \/ ReadCall(u)
    BY <2>1 DEF WriteCall, ReadCall, Call, Goto, ReadOk
  <2>2. CASE CallFails(u) \/ Unmap(u)
    BY <2>2 DEF CallFails, MayCall, Unmap, Returns, Goto, threadVars, ReadOk
  <2>3. CASE MapReturns(u)
    BY <2>3 DEF MapReturns, Returns, Goto, ReadOk
  <2>4. CASE Scan(u)
    BY <2>4 DEF Scan, Goto, argVars, ReadOk
  <2>5. CASE ScanBlank(u)
    BY <2>5, ZeroOk DEF ScanBlank, Goto, argVars, ReadOk
  <2>6. CASE Copy(u) \/ CopyKey(u)
    BY <2>6 DEF Copy, CopyKey, Goto, ReadOk
  <2>7. CASE Fetch(u) \/ FetchKey(u)
    BY <2>7 DEF Fetch, FetchKey, Goto, argVars, ReadOk
  <2>8. QED
    BY <1>5, <2>1, <2>2, <2>3, <2>4, <2>5, <2>6, <2>7 DEF Runs
<1>6. CASE UNCHANGED vars
  BY <1>1, <1>6 DEF vars, argVars, Same
<1>7. ASSUME NEW p \in Procs, Ends(p) PROVE ReadOk(u)'
  <2>1. UNCHANGED seg
    BY <1>7 DEF Ends
  <2>2. QED
    BY <1>1, <1>2, <1>7, <2>1, EndsKeeps
<1>8. QED
  BY <1>3, <1>4, <1>5, <1>6, <1>7, StepOf

-----------------------------------------------------------------------------
(* The theorems.                                                              *)

\* The variables keep their types, with any number of processes and threads, sizes
\* of segments, kills and restarts; needs no hypothesis.
THEOREM TypesKept == Spec => []TypeOK
BY InitTypes, TypeStep, PTL DEF Spec

LEMMA CallsKept == Spec => []CallInv
BY InitCalls, CallStep, TypesKept, PTL DEF Spec

LEMMA FreshKept == ASSUME NoLateClear PROVE Spec => []FreshInv
BY InitFresh, FreshStep, TypesKept, CallsKept, PTL DEF Spec

LEMMA UsedKept == ASSUME Serial \/ OneThreadEach PROVE Spec => []UsedInv
<1>1. CASE NoLateClear
  <2>1. TypeOK /\ CallInv /\ FreshInv /\ UsedInv /\ [Next]_vars => UsedInv'
    BY <1>1, UsedStep
  <2>2. Spec => []FreshInv
    BY <1>1, FreshKept
  <2>3. QED
    BY <2>1, <2>2, InitUsed, TypesKept, CallsKept, PTL DEF Spec
<1>2. CASE ~NoLateClear
  <2>1. TypeOK /\ CallInv /\ UsedInv /\ [Next]_vars => UsedInv'
    BY <1>2, UsedStep DEF NoLateClear
  <2>2. QED
    BY <2>1, InitUsed, TypesKept, CallsKept, PTL DEF Spec
<1>3. QED
  BY <1>1, <1>2

\* When each process has one thread, a call has exactly one mapping and leaves none
\* behind, though processes construct, are killed and restart meanwhile.
THEOREM MappingsBalanced == ASSUME OneThreadEach PROVE Spec => []MappingBalanced
<1>1. Spec => []UsedInv
  BY UsedKept
<1>2. TypeOK /\ CallInv /\ UsedInv /\ BalancedInv /\ [Next]_vars => BalancedInv'
  BY BalancedStep
<1>3. UsedInv /\ BalancedInv => MappingBalanced
  BY DEF UsedInv, UsedOk, BalancedInv, MappingBalanced
<1>4. QED
  BY <1>1, <1>2, <1>3, InitBalanced, TypesKept, CallsKept, PTL DEF Spec

\* What the detached mapping needs: two threads of one process whose calls overlap.
\* Without them a thread can use the segment from mapShm to unMapShm.
THEOREM MappedInUse == ASSUME Serial \/ OneThreadEach PROVE Spec => []MappedWhileUsed
<1>1. UsedInv => MappedWhileUsed
  BY DEF UsedInv, UsedOk, MappedWhileUsed, Mapped, InUse
<1>2. Spec => []UsedInv
  BY UsedKept
<1>3. QED
  BY <1>1, <1>2, PTL

\* No node has two places, whatever the sizes of the processes, if no two calls overlap;
\* and whatever overlaps, if only one thread writes.
THEOREM PlacesUnique == ASSUME OneWriter PROVE Spec => []OnePlacePerNode
<1>1. TableInv => OnePlacePerNode
  BY DEF TableInv
<1>2. CASE Serial
  <2>1. TypeOK /\ CallInv /\ FreshInv /\ TableInv /\ [Next]_vars => TableInv'
    BY TableStep
  <2>2. Spec => []FreshInv
    BY <1>2, FreshKept DEF NoLateClear
  <2>3. QED
    BY <1>1, <2>1, <2>2, InitTable, TypesKept, CallsKept, PTL DEF Spec
<1>3. CASE ~Serial
  <2>1. TypeOK /\ CallInv /\ TableInv /\ [Next]_vars => TableInv'
    BY <1>3, TableStep
  <2>2. QED
    BY <1>1, <2>1, InitTable, TypesKept, CallsKept, PTL DEF Spec
<1>4. QED
  BY <1>2, <1>3

\* An entry is never blanked, though processes crash and construct their objects anew:
\* only who created the segment clears it, and finds it blank.
THEOREM EntriesKept == ASSUME NoLateClear PROVE Spec => EntriesStay
<1> DEFINE A == \A i \in 1..AllPlaces : seg[i] # Zero => seg'[i] # Zero
<1>1. ASSUME TypeOK, CallInv, FreshInv, [Next]_vars PROVE A
  <2>1. ASSUME NEW t \in Threads, Copy(t) \/ CopyKey(t) PROVE A
    <3>1. pc[t] \in {"copy", "copyKey"} /\ NoNode \notin Nodes /\ NoKey \notin Keys
      BY <2>1, SecKeyShmAssumption DEF Copy, CopyKey
    <3>2. node[t] \in Nodes /\ key[t] \in Keys
      BY <1>1, <3>1 DEF CallInv, CallOk
    <3>3. seg'[idx[t]].node = node[t] \/ seg'[idx[t]].info = key[t]
      BY <1>1, <2>1, <3>1, CopyFields
    <3>4. seg'[idx[t]] # Zero
      BY <3>1, <3>2, <3>3, ZeroOk
    <3>5. QED
      BY <1>1, <2>1, <3>4, CopyOf
  <2>2. ASSUME UNCHANGED seg PROVE A
    BY <2>2
  <2>3. ASSUME NEW p \in Procs, Constructs(p) PROVE UNCHANGED seg
    BY <1>1, <2>3, ConstructsKeeps, ClearsNothing
  <2>4. ASSUME NEW p \in Procs, Ends(p) PROVE UNCHANGED seg
    BY <2>4 DEF Ends
  <2>5. QED
    BY <1>1, <2>1, <2>2, <2>3, <2>4, StepOf, SegOf DEF vars
<1>2. Spec => []FreshInv
  BY FreshKept
<1>3. Spec => [][A]_vars
  BY <1>1, <1>2, TypesKept, CallsKept, PTL DEF Spec
<1>4. QED
  BY <1>3 DEF EntriesStay

\* With a single writing thread, or calls that do not overlap, a read gets the entry of
\* the node it asked for.
THEOREM ReadsTheNode == ASSUME OneWriter, NoLateClear PROVE Spec => ReadsOwnNode
<1> DEFINE A == \A t \in Threads : out'[t] # out[t] =>
                    out'[t].node = node[t] \/ pPc'[ProcOf[t]] = "dead"
<1>1. ASSUME TypeOK, ReadInv, [Next]_vars, NEW u \in Threads, out'[u] # out[u]
      PROVE  out'[u].node = node[u] \/ pPc'[ProcOf[u]] = "dead"
  <2>1. ASSUME NEW p \in Procs, Ends(p) PROVE pPc'[ProcOf[u]] = "dead"
    BY <1>1, <2>1, EndsKeeps, SizeOk DEF Same, Ends, TypeOK
  <2>2. ASSUME NEW t \in Threads, Runs(t) PROVE out'[u].node = node[u]
    <3>1. t = u
      BY <1>1, <2>2, OthersStay DEF Same
    <3>2. FetchKey(u)
      BY <1>1, <2>2, <3>1 DEF Runs, WriteCall, ReadCall, Call, CallFails, MapReturns, Scan, ScanBlank,
                              Copy, CopyKey, Fetch, Unmap, threadVars
    <3>3. QED
      BY <1>1, <3>2 DEF FetchKey, ReadInv, ReadOk, TypeOK
  <2>3. ASSUME NEW p \in Procs, Constructs(p) PROVE FALSE
    BY <1>1, <2>3, ConstructsKeeps DEF Same
  <2>4. QED
    BY <1>1, <2>1, <2>2, <2>3, StepOf DEF vars
<1>2. TypeOK /\ ReadInv /\ [Next]_vars => A
  BY <1>1
<1>3. Spec => []FreshInv
  BY FreshKept
<1>4. TypeOK /\ CallInv /\ FreshInv /\ ReadInv /\ [Next]_vars => ReadInv'
  BY ReadStep
<1>5. Spec => [][A]_vars
  <2> HIDE DEF A
  <2>1. QED
    BY <1>2, <1>3, <1>4, InitRead, TypesKept, CallsKept, PTL DEF Spec
<1>6. QED
  BY <1>5 DEF ReadsOwnNode


-----------------------------------------------------------------------------
(* The refinement of KeyTable, for calls that do not overlap and processes    *)
(* that are not killed.                                                       *)

\* Nobody dies, and only the write that is copying has a place without a key.
WholeInv ==
    /\ \A p \in Procs : pPc[p] # "dead"
    /\ \A i \in 1..AllPlaces : seg[i].node = NoNode => seg[i] = Zero
    /\ \A i \in 1..AllPlaces : seg[i].info = NoKey /\ seg[i] # Zero =>
         \E t \in Threads : pc[t] = "copyKey" /\ idx[t] = i
    /\ \A t \in Threads : pc[t] = "copyKey" => seg[idx[t]].node = node[t]

LEMMA InitWhole == Init => WholeInv
BY DEF Init, WholeInv

LEMMA NobodyEnds ==
  ASSUME Killable = {}, TypeOK, UsedInv, NEW p \in Procs,
         Ends(p), p \in Killable \/ \E t \in Threads : Faults(t) /\ ProcOf[t] = p
  PROVE  FALSE
BY DEF Faults, UsedInv, UsedOk, Mapped, InUse

LEMMA WholeStep ==
  ASSUME Serial, Killable = {}
  PROVE  TypeOK /\ CallInv /\ FreshInv /\ UsedInv /\ WholeInv /\ [Next]_vars => WholeInv'
<1> SUFFICES ASSUME TypeOK, CallInv, FreshInv, UsedInv, WholeInv, [Next]_vars PROVE WholeInv'
  OBVIOUS
<1>a. NoNode \notin Nodes /\ NoKey \notin Keys /\ \A t \in Threads : idx[t] \in 1..AllPlaces
  BY SecKeyShmAssumption DEF TypeOK
<1>1. \A p \in Procs : pPc'[p] # "dead"
  <2>1. ASSUME NEW p \in Procs, Constructs(p) PROVE \A q \in Procs : pPc'[q] # "dead"
    BY <2>1 DEF Constructs, ObjOpen, ObjOpenOnly, ObjCreate, ObjClear, Restarts, WholeInv, TypeOK
  <2>2. ASSUME NEW t \in Threads, Runs(t) PROVE \A q \in Procs : pPc'[q] # "dead"
    BY <2>2, RunsKeepsProcs DEF WholeInv, procVars
  <2>3. QED
    BY <2>1, <2>2, StepOf, NobodyEnds DEF WholeInv, vars, procVars
<1>2. ASSUME UNCHANGED seg,
             \A t \in Threads : Same(t) \/ (pc[t] # "copyKey" /\ pc'[t] # "copyKey")
      PROVE  WholeInv'
  <2>1. ASSUME NEW i \in 1..AllPlaces, seg'[i].info = NoKey, seg'[i] # Zero
        PROVE  \E t \in Threads : pc'[t] = "copyKey" /\ idx'[t] = i
    <3>1. PICK t \in Threads : pc[t] = "copyKey" /\ idx[t] = i
      BY <1>2, <2>1 DEF WholeInv
    <3>2. QED
      BY <1>2, <3>1 DEF Same
  <2>2. ASSUME NEW t \in Threads, pc'[t] = "copyKey" PROVE seg'[idx'[t]].node = node'[t]
    BY <1>2, <2>2 DEF WholeInv, Same
  <2>3. QED
    BY <1>1, <1>2, <2>1, <2>2 DEF WholeInv
<1>3. ASSUME NEW t \in Threads, Copy(t) \/ CopyKey(t) PROVE WholeInv'
  <2>1. /\ node[t] \in Nodes /\ key[t] \in Keys /\ pc[t] \in {"copy", "copyKey"}
        /\ pc[t] = "copyKey" => seg[idx[t]].node = node[t]
    BY <1>3 DEF Copy, CopyKey, CallInv, CallOk, WholeInv
  <2>2. /\ pc'[t] = IF pc[t] = "copy" THEN "copyKey" ELSE "unmap"
        /\ idx'[t] = idx[t] /\ node'[t] = node[t]
    BY <1>3 DEF Copy, CopyKey, Goto, argVars, TypeOK
  <2>3. \A u \in Threads : u # t => Same(u)
    BY <1>3, OthersStay DEF Runs
  <2>4. seg'[idx[t]].node = node[t] /\ (pc[t] = "copyKey" => seg'[idx[t]].info = key[t])
    BY <1>3, <2>1, CopyFields
  <2>5. \A i \in 1..AllPlaces : i # idx[t] => seg'[i] = seg[i]
    BY <1>3, CopyOf
  <2>6. \A i \in 1..AllPlaces : seg'[i].node = NoNode => seg'[i] = Zero
    BY <1>a, <2>1, <2>4, <2>5 DEF WholeInv
  <2>7. ASSUME NEW i \in 1..AllPlaces, seg'[i].info = NoKey, seg'[i] # Zero
        PROVE  \E u \in Threads : pc'[u] = "copyKey" /\ idx'[u] = i
    <3>1. CASE i = idx[t]
      BY <1>a, <2>1, <2>2, <2>4, <2>7, <3>1
    <3>2. CASE i # idx[t]
      <4>1. PICK u \in Threads : pc[u] = "copyKey" /\ idx[u] = i
        BY <2>5, <2>7, <3>2 DEF WholeInv
      <4>2. QED
        BY <2>3, <3>2, <4>1 DEF Same
    <3>3. QED
      BY <3>1, <3>2
  <2>8. ASSUME NEW u \in Threads, pc'[u] = "copyKey" PROVE seg'[idx'[u]].node = node'[u]
    <3>1. CASE u = t
      BY <2>2, <2>4, <3>1
    <3>2. CASE u # t
      BY <2>1, <2>3, <2>8, <3>2 DEF Same, FreshInv
    <3>3. QED
      BY <3>1, <3>2
  <2>9. QED
    BY <1>1, <2>6, <2>7, <2>8 DEF WholeInv
<1>4. ASSUME NEW t \in Threads, Runs(t), ~(Copy(t) \/ CopyKey(t)) PROVE WholeInv'
  <2>1. UNCHANGED seg /\ \A u \in Threads : u # t => Same(u)
    BY <1>4, OthersStay, SegOf
  <2>2. pc[t] # "copyKey" /\ pc'[t] # "copyKey"
    BY <1>4 DEF Runs, WriteCall, ReadCall, Call, CallFails, MayCall, MapReturns, Scan, ScanBlank,
                Fetch, FetchKey, Unmap, Returns, Goto, threadVars, TypeOK
  <2>3. QED
    BY <1>2, <2>1, <2>2
<1>5. ASSUME NEW p \in Procs, Constructs(p) PROVE WholeInv'
  BY <1>2, <1>5, ConstructsKeeps, ClearsNothing
<1>6. CASE UNCHANGED vars
  BY <1>2, <1>6 DEF vars, argVars, Same
<1>7. QED
  BY <1>3, <1>4, <1>5, <1>6, StepOf, NobodyEnds

\* The table's places, and those that thread t looks at.
At(i) == IF seg[i].info = NoKey THEN Zero ELSE seg[i]

LEMMA SeenOk ==
  ASSUME NEW t \in Threads
  PROVE  Table!Seen(t) = [i \in 1..Size(t) |-> At(i)]
BY SizeOk DEF Table!Seen, At

\* Where a write copies to is where the table puts the entry.
LEMMA WriteTarget ==
  ASSUME TypeOK, CallInv, FreshInv, Serial, TableInv, WholeInv,
         NEW t \in Threads, pc[t] = "copyKey"
  PROVE  idx[t] \in Table!Targets(Table!Seen(t), node[t])
<1> DEFINE S == [i \in 1..Size(t) |-> At(i)]
<1>1. /\ node[t] \in Nodes /\ node[t] # NoNode /\ idx[t] \in 1..Size(t)
      /\ Size(t) \in 1..AllPlaces /\ AllPlaces \in Nat
  BY SizeOk, SecKeyShmAssumption DEF CallInv, CallOk, InUse, TypeOK
<1>2. seg[idx[t]].node = node[t] /\ \A i \in 1..AllPlaces : seg[i].node = node[t] => i = idx[t]
  BY <1>1 DEF WholeInv, TableInv, OnePlacePerNode
<1>3. \A u \in Threads : pc[u] = "copyKey" => u = t
  BY DEF FreshInv
<1>4. \A i \in 1..Size(t) : S[i] = At(i) /\ i \in 1..AllPlaces
  BY <1>1
<1>5. DOMAIN S = 1..Size(t)
  OBVIOUS
<1> HIDE DEF S
<1>6. CASE seg[idx[t]].info # NoKey
  <2>1. Table!PlacesOf(S, node[t]) = {idx[t]}
    <3>1. S[idx[t]] = seg[idx[t]] /\ seg[idx[t]] # Zero
      BY <1>1, <1>2, <1>4, <1>6, ZeroOk DEF At
    <3>2. ASSUME NEW i \in 1..Size(t), S[i] # Zero, S[i].node = node[t] PROVE i = idx[t]
      BY <1>2, <1>4, <3>2 DEF At
    <3>3. QED
      BY <1>1, <1>2, <1>5, <3>1, <3>2 DEF Table!PlacesOf
  <2>2. idx[t] \in Table!FirstOf({idx[t]})
    BY <1>1 DEF Table!FirstOf
  <2>3. QED
    BY <2>1, <2>2, SeenOk DEF Table!Targets, S
<1>7. CASE seg[idx[t]].info = NoKey
  <2>1. Table!PlacesOf(S, node[t]) = {}
    <3>1. ASSUME NEW i \in 1..Size(t), S[i] # Zero PROVE S[i].node # node[t]
      BY <1>2, <1>4, <1>7, <3>1 DEF At
    <3>2. QED
      BY <1>5, <3>1 DEF Table!PlacesOf
  <2>2. idx[t] \in Table!BlankPlaces(S)
    BY <1>1, <1>4, <1>5, <1>7 DEF Table!BlankPlaces, At
  <2>3. ASSUME NEW i \in Table!BlankPlaces(S) PROVE idx[t] <= i
    <3>1. i \in 1..Size(t) /\ i \in 1..AllPlaces /\ At(i) = Zero
      BY <1>4, <1>5, <2>3 DEF Table!BlankPlaces
    <3>2. seg[i] = Zero \/ i = idx[t]
      BY <1>3, <3>1 DEF At, WholeInv
    <3>3. i < idx[t] => seg[i] # Zero
      BY <3>1 DEF TableInv, OrderInv
    <3>4. QED
      BY <1>1, <3>1, <3>2, <3>3
  <2>4. idx[t] \in Table!FirstOf(Table!BlankPlaces(S))
    BY <2>2, <2>3 DEF Table!FirstOf
  <2>5. QED
    BY <2>1, <2>2, <2>4, SeenOk DEF Table!Targets, S
<1>8. QED
  BY <1>6, <1>7

\* What a read copies is what the table holds for the node.
LEMMA ReadSource ==
  ASSUME TypeOK, CallInv, FreshInv, Serial, TableInv, WholeInv, ReadInv,
         NEW t \in Threads, pc[t] = "fetchKey"
  PROVE  seg[idx[t]].info \in Table!Lookup(Table!Seen(t), node[t])
<1> DEFINE S == [i \in 1..Size(t) |-> At(i)]
<1>1. /\ node[t] \in Nodes /\ node[t] # NoNode /\ idx[t] \in 1..Size(t)
      /\ Size(t) \in 1..AllPlaces /\ AllPlaces \in Nat
  BY SizeOk, SecKeyShmAssumption DEF CallInv, CallOk, InUse, TypeOK
<1>2. seg[idx[t]].node = node[t] /\ \A i \in 1..AllPlaces : seg[i].node = node[t] => i = idx[t]
  BY <1>1 DEF ReadInv, ReadOk, TableInv, OnePlacePerNode
<1>3. \A u \in Threads : pc[u] # "copyKey"
  BY DEF FreshInv
<1>4. seg[idx[t]] # Zero /\ seg[idx[t]].info # NoKey
  BY <1>1, <1>2, <1>3, ZeroOk DEF WholeInv
<1>5. \A i \in 1..Size(t) : S[i] = At(i) /\ i \in 1..AllPlaces
  BY <1>1
<1>6. DOMAIN S = 1..Size(t)
  OBVIOUS
<1> HIDE DEF S
<1>7. S[idx[t]] = seg[idx[t]]
  BY <1>1, <1>4, <1>5 DEF At
<1>8. ASSUME NEW i \in 1..Size(t), S[i] # Zero, S[i].node = node[t] PROVE i = idx[t]
  BY <1>2, <1>5, <1>8 DEF At
<1>9. Table!PlacesOf(S, node[t]) = {idx[t]}
  BY <1>1, <1>2, <1>4, <1>6, <1>7, <1>8 DEF Table!PlacesOf
<1>10. idx[t] \in Table!FirstOf({idx[t]})
  BY <1>1 DEF Table!FirstOf
<1>11. QED
  BY <1>7, <1>9, <1>10, SeenOk DEF Table!Lookup, S

\* The table's segment, and the step of the table that a step of the code makes.
TableSeg == [i \in 1..AllPlaces |-> At(i)]

LEMMA MapsStep ==
  ASSUME Serial, Killable = {},
         TypeOK, CallInv, FreshInv, UsedInv, TableInv, WholeInv, ReadInv, [Next]_vars
  PROVE  Table!Next \/ (TableSeg' = TableSeg /\ out' = out)
<1>1. ASSUME \A i \in 1..AllPlaces : seg'[i] = seg[i] PROVE TableSeg' = TableSeg
  BY <1>1 DEF TableSeg, At
<1>2. ASSUME NEW t \in Threads, Copy(t) PROVE TableSeg' = TableSeg /\ out' = out
  <2>1. pc[t] = "copy" /\ idx[t] \in 1..AllPlaces /\ seg[idx[t]].node \in {NoNode, node[t]}
    BY <1>2 DEF Copy, ReadInv, ReadOk, TypeOK
  <2>2. /\ seg'[idx[t]] = [node |-> node[t], info |-> seg[idx[t]].info]
        /\ \A i \in 1..AllPlaces : i # idx[t] => seg'[i] = seg[i]
    BY <1>2, <2>1, CopyOf
  <2>3. At(idx[t])' = At(idx[t])
    <3>0. idx' = idx /\ seg'[idx[t]].info = seg[idx[t]].info
      BY <1>2, <2>1, CopyFields DEF Copy
    <3>1. CASE seg[idx[t]].info = NoKey
      BY <3>0, <3>1 DEF At
    <3>2. CASE seg[idx[t]].info # NoKey
      <4>1. seg[idx[t]].node = node[t] /\ seg[idx[t]] \in Places
        BY <2>1, <3>2, ZeroOk DEF WholeInv, TypeOK
      <4>2. seg'[idx[t]] = seg[idx[t]]
        BY <2>2, <4>1 DEF Places
      <4>3. QED
        BY <1>2, <4>2 DEF At, Copy
    <3>3. QED
      BY <3>1, <3>2
  <2>4. QED
    BY <1>2, <2>2, <2>3 DEF TableSeg, At, Copy
<1>3. ASSUME NEW t \in Threads, CopyKey(t) PROVE Table!Next
  <2>1. /\ pc[t] = "copyKey" /\ idx[t] \in 1..AllPlaces /\ key[t] \in Keys /\ node[t] \in Nodes
        /\ key[t] # NoKey /\ idx[t] # 0
    BY <1>3, SecKeyShmAssumption DEF CopyKey, CallInv, CallOk, TypeOK
  <2>2. /\ seg'[idx[t]] = [node |-> node[t], info |-> key[t]]
        /\ \A i \in 1..AllPlaces : i # idx[t] => seg'[i] = seg[i]
    BY <1>3, <2>1, CopyOf DEF WholeInv
  <2>3. TableSeg' = [TableSeg EXCEPT ![idx[t]] = [node |-> node[t], info |-> key[t]]]
    <3>1. At(idx[t])' = [node |-> node[t], info |-> key[t]]
      BY <1>3, <2>1, <2>2 DEF At, CopyKey
    <3>2. \A i \in 1..AllPlaces : i # idx[t] => At(i)' = At(i)
      BY <2>2 DEF At
    <3>3. TableSeg' = [i \in 1..AllPlaces |-> IF i = idx[t] THEN [node |-> node[t], info |-> key[t]]
                                             ELSE At(i)]
      BY <1>3, <2>1, <3>1, <3>2 DEF TableSeg, CopyKey
    <3>4. QED
      BY <2>1, <3>3 DEF TableSeg
  <2>4. idx[t] \in Table!Targets(Table!Seen(t), node[t])
    BY <2>1, WriteTarget
  <2>5. PICK n \in Nodes, k \in Keys : n = node[t] /\ k = key[t]
    BY <2>1
  <2>6. Table!Write(t, n, k)
    <3>1. idx[t] \in Table!Targets(Table!Seen(t), n)
      BY <2>4, <2>5
    <3>2. TableSeg' = Table!Put(TableSeg, idx[t], n, k)
      BY <2>1, <2>3, <2>5 DEF Table!Put
    <3>3. out' = out
      BY <1>3 DEF CopyKey
    <3>4. QED
      BY <3>1, <3>2, <3>3 DEF Table!Write, TableSeg, At
  <2>7. QED
    BY <2>6 DEF Table!Next
<1>4. ASSUME NEW t \in Threads, FetchKey(t) PROVE Table!Next
  <2>1. pc[t] = "fetchKey" /\ half[t] = node[t] /\ node[t] \in Nodes
    BY <1>4 DEF FetchKey, ReadInv, ReadOk, CallInv, CallOk
  <2>2. out' = [out EXCEPT ![t] = [node |-> node[t], info |-> seg[idx[t]].info]]
    BY <1>4, <2>1 DEF FetchKey
  <2>3. seg[idx[t]].info \in Table!Lookup(Table!Seen(t), node[t])
    BY <2>1, ReadSource
  <2>4. TableSeg' = TableSeg
    BY <1>1, <1>4 DEF FetchKey
  <2>5. Table!Read(t, node[t])
    BY <2>2, <2>3, <2>4 DEF Table!Read, TableSeg, At
  <2>6. QED
    BY <2>1, <2>5 DEF Table!Next
<1>5. ASSUME NEW t \in Threads, Runs(t), ~Copy(t), ~CopyKey(t), ~FetchKey(t)
      PROVE  TableSeg' = TableSeg /\ out' = out
  <2>1. UNCHANGED seg
    BY <1>5, SegOf
  <2>2. UNCHANGED out
    BY <1>5 DEF Runs, WriteCall, ReadCall, Call, CallFails, MapReturns, Scan, ScanBlank, Fetch,
                Unmap, threadVars
  <2>3. QED
    BY <1>1, <2>1, <2>2
<1>6. ASSUME NEW p \in Procs, Constructs(p) PROVE TableSeg' = TableSeg /\ out' = out
  BY <1>1, <1>6, ConstructsKeeps, ClearsNothing
<1>7. CASE UNCHANGED vars
  BY <1>1, <1>7 DEF vars
<1>8. QED
  BY <1>2, <1>3, <1>4, <1>5, <1>6, <1>7, StepOf, NobodyEnds

\* Processes whose calls do not overlap and which are not killed, whatever the maxNode of
\* each and whichever creates the segment, see one table that is written and read in
\* single steps: the scans and the half copies of shmWrite and shmRead cannot be told.
THEOREM TableImplemented == ASSUME Serial, Killable = {} PROVE Spec => ImplementsTable
<1>1. Init => Table!Init
  <2> SUFFICES ASSUME Init PROVE Table!Init
    OBVIOUS
  <2>1. \A i \in 1..AllPlaces : At(i) = Zero
    BY DEF Init, At
  <2>2. TableSeg = [i \in 1..AllPlaces |-> Zero] /\ out = [t \in Threads |-> Zero]
    BY <2>1 DEF TableSeg, Init
  <2>3. QED
    BY <2>2 DEF Table!Init, Table!EmptySegment, TableSeg, At
<1>2. ASSUME TypeOK, CallInv, FreshInv, UsedInv, TableInv, WholeInv, ReadInv, [Next]_vars
      PROVE  [Table!Next]_<<[i \in 1..AllPlaces |-> IF seg[i].info = NoKey THEN Zero ELSE seg[i]], out>>
  BY <1>2, MapsStep DEF TableSeg, At
<1>3. OneWriter /\ NoLateClear
  BY DEF OneWriter, NoLateClear
<1>4. Spec => []FreshInv
  BY <1>3, FreshKept
<1>5. Spec => []UsedInv
  BY UsedKept
<1>6. TypeOK /\ CallInv /\ FreshInv /\ TableInv /\ [Next]_vars => TableInv'
  BY <1>3, TableStep
<1>7. TypeOK /\ CallInv /\ FreshInv /\ ReadInv /\ [Next]_vars => ReadInv'
  BY <1>3, ReadStep
<1>8. TypeOK /\ CallInv /\ FreshInv /\ UsedInv /\ WholeInv /\ [Next]_vars => WholeInv'
  BY WholeStep
<1>9. QED
  BY <1>1, <1>2, <1>4, <1>5, <1>6, <1>7, <1>8, InitTable, InitRead, InitWhole, TypesKept, CallsKept, PTL
     DEF Spec, ImplementsTable, Table!Spec
=============================================================================
