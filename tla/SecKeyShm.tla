------------------------------ MODULE SecKeyShm ------------------------------
(* ShareMem/: ShareMemory and SecKeyShm, step by step.  The segment belongs to *)
(* all processes; an object, with its mShmAddr, to one process, whose threads  *)
(* share it; nothing is locked.  A NodeShmInfo is copied in two halves, first  *)
(* the ids, then the key, so that a copy can be seen half done.                *)
EXTENDS Integers

CONSTANTS Procs,         \* processes; each constructs one SecKeyShm
          Creators,      \* those that give a maxNode; the others only open
          Threads,       \* threads that call shmWrite and shmRead
          ProcOf,        \* the process of a thread
          Writers,       \* the threads that call shmWrite
          Readers,       \* the threads that call shmRead
          Nodes,         \* (clientID, serverID) pairs
          Keys,          \* key material
          MaxNode,       \* mMaxNode of each process: its maxNode, or 10
          AllPlaces,     \* places that lie in the pages of the segment
          Addrs,         \* addresses shmat may choose in a process
          ExistsAtStart, \* whether the segment is there at the start
          Killable,      \* processes that may be killed
          Serial,        \* whether a call overlaps no other call or constructor
          NoNode, NoKey, NoAddr

ASSUME SecKeyShmAssumption ==
    /\ ProcOf \in [Threads -> Procs]
    /\ Writers \subseteq Threads /\ Readers \subseteq Threads
    /\ Creators \subseteq Procs
    /\ AllPlaces \in Nat \ {0}
    /\ MaxNode \in [Procs -> 1..AllPlaces]
    /\ ExistsAtStart \in BOOLEAN /\ Serial \in BOOLEAN
    /\ Killable \subseteq Procs
    /\ NoNode \notin Nodes /\ NoKey \notin Keys /\ NoAddr \notin Addrs

Places == [node : Nodes \cup {NoNode}, info : Keys \cup {NoKey}]
Zero   == [node |-> NoNode, info |-> NoKey]

VARIABLES
    size,      \* the places asked for when the segment was created; 0: no segment
    seg,       \* its places
    pPc,       \* where each process is; "noId": with mShmId == -1
    attached,  \* the addresses at which each process has the segment mapped
    mShmAddr,  \* ShareMemory::mShmAddr of each process
    pc,        \* where each thread is in shmWrite or shmRead
    op,        \* which of the two
    node,      \* the node asked for
    key,       \* pNodeInfo->secKey of a shmWrite
    addr,      \* the local variable addr
    idx,       \* the local variable i, from 1
    half,      \* the ids that a shmRead has copied so far
    out        \* *pNodeInfo after a shmRead

procVars == <<size, pPc>>
mapVars  == <<attached, mShmAddr>>
argVars  == <<op, node, key>>
vars == <<procVars, seg, mapVars, pc, argVars, addr, idx, half, out>>

InUse == {"scan", "blank", "copy", "copyKey", "fetch", "fetchKey"}

TypeOK ==
    /\ size \in 0..AllPlaces
    /\ seg \in [1..AllPlaces -> Places]
    /\ pPc \in [Procs -> {"new", "create", "clear", "ready", "noId", "dead"}]
    /\ attached \in [Procs -> SUBSET Addrs]
    /\ mShmAddr \in [Procs -> Addrs \cup {NoAddr}]
    /\ pc \in [Threads -> {"idle", "map", "unmap"} \cup InUse]
    /\ op \in [Threads -> {"write", "read"}]
    /\ node \in [Threads -> Nodes \cup {NoNode}]
    /\ key \in [Threads -> Keys \cup {NoKey}]
    /\ addr \in [Threads -> Addrs \cup {NoAddr}]
    /\ idx \in [Threads -> 1..AllPlaces]
    /\ half \in [Threads -> Nodes \cup {NoNode}]
    /\ out \in [Threads -> Places]

Init ==
    /\ size = IF ExistsAtStart THEN AllPlaces ELSE 0
    /\ seg = [i \in 1..AllPlaces |-> Zero]
    /\ pPc = [p \in Procs |-> "new"]
    /\ attached = [p \in Procs |-> {}]
    /\ mShmAddr = [p \in Procs |-> NoAddr]
    /\ pc = [t \in Threads |-> "idle"]
    /\ op = [t \in Threads |-> "read"]
    /\ node = [t \in Threads |-> NoNode]
    /\ key = [t \in Threads |-> NoKey]
    /\ addr = [t \in Threads |-> NoAddr]
    /\ idx = [t \in Threads |-> 1]
    /\ half = [t \in Threads |-> NoNode]
    /\ out = [t \in Threads |-> Zero]

threadVars == <<pc, argVars, addr, idx, half, out>>

-----------------------------------------------------------------------------
(* The constructors ShareMemory(key) and ShareMemory(key, shmSize).            *)

\* shmat, at an address of the kernel's choice, and the assignment to mShmAddr.
Attach(p) ==
    \E a \in Addrs \ attached[p] :
        /\ attached' = [attached EXCEPT ![p] = @ \cup {a}]
        /\ mShmAddr' = [mShmAddr EXCEPT ![p] = a]

\* shmdt(mShmAddr), which fails unnoticed when nothing is mapped there.
Detach(p) ==
    /\ attached' = [attached EXCEPT ![p] = @ \ {mShmAddr[p]}]
    /\ UNCHANGED mShmAddr

AllIdle == \A t \in Threads : pc[t] = "idle"

\* Variant: the segment is created, and cleared, whether it is there or not.
ObjOpenCreates(p) ==
    /\ p \in Creators /\ pPc[p] = "new" /\ (Serial => AllIdle)
    /\ pPc' = [pPc EXCEPT ![p] = "create"]
    /\ UNCHANGED <<size, seg, mapVars, threadVars>>

\* The creating constructor's shmget(key, 0, 0): open the segment if it is there.
ObjOpen(p) ==
    /\ p \in Creators /\ pPc[p] = "new" /\ (Serial => AllIdle)
    /\ pPc' = [pPc EXCEPT ![p] = IF size > 0 THEN "ready" ELSE "create"]
    /\ UNCHANGED <<size, seg, mapVars, threadVars>>

\* The opening constructor: without a segment mShmId stays -1 for good.
ObjOpenOnly(p) ==
    /\ p \notin Creators /\ pPc[p] = "new" /\ (Serial => AllIdle)
    /\ pPc' = [pPc EXCEPT ![p] = IF size > 0 THEN "ready" ELSE "noId"]
    /\ UNCHANGED <<size, seg, mapVars, threadVars>>

\* shmget(key, shmSize, IPC_CREAT | 0644) also opens a segment that another process
\* has created meanwhile, unless that one is smaller (EINVAL); then mapShm, without
\* which nothing is cleared.
ObjCreate(p) ==
    /\ pPc[p] = "create"
    /\ \/ /\ size = 0 \/ MaxNode[p] <= size
          /\ size' = IF size = 0 THEN MaxNode[p] ELSE size
          /\ \/ /\ Attach(p)
                /\ pPc' = [pPc EXCEPT ![p] = "clear"]
             \/ /\ pPc' = [pPc EXCEPT ![p] = "ready"]
                /\ UNCHANGED mapVars
       \/ /\ 0 < size /\ size < MaxNode[p]
          /\ pPc' = [pPc EXCEPT ![p] = "noId"]
          /\ UNCHANGED <<size, mapVars>>
    /\ UNCHANGED <<seg, threadVars>>

\* memset of shmSize bytes and unMapShm.
ObjClear(p) ==
    /\ pPc[p] = "clear"
    /\ seg' = [i \in 1..AllPlaces |-> IF i <= MaxNode[p] THEN Zero ELSE seg[i]]
    /\ Detach(p)
    /\ pPc' = [pPc EXCEPT ![p] = "ready"]
    /\ UNCHANGED <<size, threadVars>>

-----------------------------------------------------------------------------
(* shmWrite and shmRead.                                                      *)

Goto(t, l) == pc' = [pc EXCEPT ![t] = l]

\* The call returns: its arguments and local variables are gone.
Returns(t) ==
    /\ Goto(t, "idle")
    /\ op' = [op EXCEPT ![t] = "read"]
    /\ node' = [node EXCEPT ![t] = NoNode]
    /\ key' = [key EXCEPT ![t] = NoKey]
    /\ addr' = [addr EXCEPT ![t] = NoAddr]
    /\ idx' = [idx EXCEPT ![t] = 1]
    /\ half' = [half EXCEPT ![t] = NoNode]

\* The thread can use the mapping it found in mShmAddr.
Mapped(t) == addr[t] \in attached[ProcOf[t]]

\* mMaxNode of the thread's object.
Size(t) == MaxNode[ProcOf[t]]

\* The thread may start a call.
MayCall(t) ==
    /\ pc[t] = "idle"
    /\ Serial => AllIdle /\ \A p \in Procs : pPc[p] \notin {"create", "clear"}

\* A call, up to shmat and the assignment to mShmAddr in mapShm.
Call(t, o) ==
    /\ MayCall(t) /\ pPc[ProcOf[t]] = "ready"
    /\ op' = [op EXCEPT ![t] = o]
    /\ \E n \in Nodes : node' = [node EXCEPT ![t] = n]
    /\ Attach(ProcOf[t])
    /\ Goto(t, "map")
    /\ UNCHANGED <<procVars, seg, addr, idx, half, out>>

\* shmat fails, as it always does without an id: the call returns -1.
CallFails(t) ==
    /\ MayCall(t) /\ pPc[ProcOf[t]] \in {"ready", "noId"}
    /\ mShmAddr' = [mShmAddr EXCEPT ![ProcOf[t]] = NoAddr]
    /\ UNCHANGED <<procVars, seg, attached, threadVars>>

WriteCall(t) ==
    /\ t \in Writers
    /\ Call(t, "write")
    /\ \E k \in Keys : key' = [key EXCEPT ![t] = k]

ReadCall(t) ==
    /\ t \in Readers
    /\ Call(t, "read")
    /\ UNCHANGED key

\* mapShm returns mShmAddr, which is read once more; if the shmat of another thread
\* has failed meanwhile the call returns -1.
MapReturns(t) ==
    /\ pc[t] = "map"
    /\ LET a == mShmAddr[ProcOf[t]]
       IN  \/ a = NoAddr /\ Returns(t)
           \/ /\ a # NoAddr
              /\ addr' = [addr EXCEPT ![t] = a]
              /\ Goto(t, "scan")
              /\ UNCHANGED <<argVars, idx, half>>
    /\ UNCHANGED <<procVars, seg, mapVars, out>>

\* Variant: the scan leaves out the first place.
ScanLate(t) ==
    LET found == seg[idx[t]].node = node[t] /\ idx[t] > 1
    IN  /\ pc[t] = "scan" /\ Mapped(t)
        /\ idx' = [idx EXCEPT ![t] = IF found THEN @ ELSE IF @ < Size(t) THEN @ + 1 ELSE 1]
        /\ pc' = [pc EXCEPT ![t] =
                     IF found THEN (IF op[t] = "write" THEN "copy" ELSE "fetch")
                     ELSE IF idx[t] < Size(t) THEN @
                     ELSE IF op[t] = "write" THEN "blank" ELSE "unmap"]
        /\ UNCHANGED <<procVars, seg, mapVars, argVars, addr, half, out>>

\* The first loop: does place i hold the node?
Scan(t) ==
    /\ pc[t] = "scan" /\ Mapped(t)
    /\ \/ /\ seg[idx[t]].node = node[t]
          /\ Goto(t, IF op[t] = "write" THEN "copy" ELSE "fetch")
          /\ UNCHANGED idx
       \/ /\ seg[idx[t]].node # node[t] /\ idx[t] < Size(t)
          /\ idx' = [idx EXCEPT ![t] = @ + 1]
          /\ UNCHANGED pc
       \/ /\ seg[idx[t]].node # node[t] /\ idx[t] = Size(t)
          /\ idx' = [idx EXCEPT ![t] = 1]
          /\ Goto(t, IF op[t] = "write" THEN "blank" ELSE "unmap")
    /\ UNCHANGED <<procVars, seg, mapVars, argVars, addr, half, out>>

\* Variant: the loop goes on to i == mMaxNode.
ScanBlankPast(t) ==
    /\ pc[t] = "blank" /\ Mapped(t)
    /\ \/ seg[idx[t]] = Zero /\ Goto(t, "copy") /\ UNCHANGED idx
       \/ seg[idx[t]] # Zero /\ idx' = [idx EXCEPT ![t] = @ + 1] /\ UNCHANGED pc
    /\ UNCHANGED <<procVars, seg, mapVars, argVars, addr, half, out>>

\* Variant: without a blank place the last one is taken.
ScanBlankLast(t) ==
    /\ pc[t] = "blank" /\ Mapped(t)
    /\ \/ /\ seg[idx[t]] = Zero \/ idx[t] = Size(t)
          /\ Goto(t, "copy")
          /\ UNCHANGED idx
       \/ /\ seg[idx[t]] # Zero /\ idx[t] < Size(t)
          /\ idx' = [idx EXCEPT ![t] = @ + 1]
          /\ UNCHANGED pc
    /\ UNCHANGED <<procVars, seg, mapVars, argVars, addr, half, out>>

\* The second loop of shmWrite: is place i blank?  Without a blank place nothing
\* is written and shmWrite returns 0.
ScanBlank(t) ==
    /\ pc[t] = "blank" /\ Mapped(t)
    /\ \/ /\ seg[idx[t]] = Zero
          /\ Goto(t, "copy")
          /\ UNCHANGED idx
       \/ /\ seg[idx[t]] # Zero /\ idx[t] < Size(t)
          /\ idx' = [idx EXCEPT ![t] = @ + 1]
          /\ UNCHANGED pc
       \/ /\ seg[idx[t]] # Zero /\ idx[t] = Size(t)
          /\ Goto(t, "unmap")
          /\ UNCHANGED idx
    /\ UNCHANGED <<procVars, seg, mapVars, argVars, addr, half, out>>

\* memcpy(tmp, pNodeInfo, sizeof(NodeShmInfo)), the ids and then the key.
Copy(t) ==
    /\ pc[t] = "copy" /\ Mapped(t)
    /\ seg' = [seg EXCEPT ![idx[t]].node = node[t]]
    /\ Goto(t, "copyKey")
    /\ UNCHANGED <<procVars, mapVars, argVars, addr, idx, half, out>>

CopyKey(t) ==
    /\ pc[t] = "copyKey" /\ Mapped(t)
    /\ seg' = [seg EXCEPT ![idx[t]].info = key[t]]
    /\ Goto(t, "unmap")
    /\ UNCHANGED <<procVars, mapVars, argVars, addr, idx, half, out>>

\* memcpy(pNodeInfo, tmp, sizeof(NodeShmInfo)), the ids and then the key.
Fetch(t) ==
    /\ pc[t] = "fetch" /\ Mapped(t)
    /\ half' = [half EXCEPT ![t] = seg[idx[t]].node]
    /\ Goto(t, "fetchKey")
    /\ UNCHANGED <<procVars, seg, mapVars, argVars, addr, idx, out>>

FetchKey(t) ==
    /\ pc[t] = "fetchKey" /\ Mapped(t)
    /\ out' = [out EXCEPT ![t] = [node |-> half[t], info |-> seg[idx[t]].info]]
    /\ Goto(t, "unmap")
    /\ UNCHANGED <<procVars, seg, mapVars, argVars, addr, idx, half>>

\* Variant: a call leaves its mapping to the next one.
UnmapNot(t) ==
    /\ pc[t] = "unmap"
    /\ Returns(t)
    /\ UNCHANGED <<procVars, seg, mapVars, out>>

\* unMapShm, and the call returns.
Unmap(t) ==
    /\ pc[t] = "unmap"
    /\ Detach(ProcOf[t])
    /\ Returns(t)
    /\ UNCHANGED <<procVars, seg, out>>

\* Process p ends: its threads and its mappings are gone.
Ends(p) ==
    /\ pPc' = [pPc EXCEPT ![p] = "dead"]
    /\ attached' = [attached EXCEPT ![p] = {}]
    /\ mShmAddr' = [mShmAddr EXCEPT ![p] = NoAddr]
    /\ LET gone(f, none) == [t \in Threads |-> IF ProcOf[t] = p THEN none ELSE f[t]]
       IN  /\ pc' = gone(pc, "idle")
           /\ op' = gone(op, "read")
           /\ node' = gone(node, NoNode)
           /\ key' = gone(key, NoKey)
           /\ addr' = gone(addr, NoAddr)
           /\ idx' = gone(idx, 1)
           /\ half' = gone(half, NoNode)
           /\ out' = gone(out, Zero)
    /\ UNCHANGED <<size, seg>>

\* SIGSEGV: the thread uses a mapping that another thread has detached.
Faults(t) ==
    /\ pc[t] \in InUse /\ ~Mapped(t)
    /\ Ends(ProcOf[t])

Killed(p) ==
    /\ p \in Killable /\ pPc[p] # "dead"
    /\ Ends(p)

Restarts(p) ==
    /\ pPc[p] = "dead"
    /\ pPc' = [pPc EXCEPT ![p] = "new"]
    /\ UNCHANGED <<size, seg, mapVars, threadVars>>

ProcStep(p) ==
    \/ ObjOpen(p) \/ ObjOpenOnly(p) \/ ObjCreate(p) \/ ObjClear(p)
    \/ Killed(p) \/ Restarts(p)

ThreadStep(t) ==
    \/ WriteCall(t) \/ ReadCall(t) \/ CallFails(t) \/ MapReturns(t) \/ Scan(t)
    \/ ScanBlank(t) \/ Copy(t) \/ CopyKey(t) \/ Fetch(t) \/ FetchKey(t) \/ Unmap(t) \/ Faults(t)

Next == (\E p \in Procs : ProcStep(p)) \/ (\E t \in Threads : ThreadStep(t))

Spec == Init /\ [][Next]_vars
-----------------------------------------------------------------------------
(* Properties.                                                                *)

\* A place whose key is not yet copied is blank to the table.
Table == INSTANCE KeyTable WITH
           Blank <- Zero, MaxNode <- AllPlaces, Users <- Threads, SizeOf <- [t \in Threads |-> Size(t)],
           seg <- [i \in 1..AllPlaces |-> IF seg[i].info = NoKey THEN Zero ELSE seg[i]]

\* Processes whose calls do not overlap, whatever the maxNode of each, whichever of
\* them creates the segment and however they scan and copy, see one table of entries
\* in which a write replaces, adds or finds no place among the places of its process
\* and a read delivers the node's entry.
ImplementsTable == Table!Spec

\* No node has two places, so that nobody can meet a stale entry behind a new one.
\* Processes of different maxNode keep it, because places are filled in order and
\* never blanked: a place beyond the smaller one's is taken when its own are full.
\* Needs calls that do not overlap, as with a single writing thread.
OnePlacePerNode ==
    \A i, j \in 1..AllPlaces :
        seg[i].node = seg[j].node /\ seg[i].node # NoNode => i = j

\* With a single writing thread a reader, in whatever process or thread, gets the entry of
\* the node it asked for: the place found in the scan is not given to another node
\* before the copy ends.
ReadsOwnNode ==
    [][\A t \in Threads : out'[t] # out[t] =>
           out'[t].node = node[t] \/ pPc'[ProcOf[t]] = "dead"]_vars

\* When each process has one thread, a call has exactly one mapping from mapShm to
\* unMapShm and leaves none behind.
MappingBalanced ==
    \A t \in Threads : pPc[ProcOf[t]] = "ready" =>
        attached[ProcOf[t]] =
            CASE pc[t] = "idle" -> {}
              [] pc[t] = "map"  -> {mShmAddr[ProcOf[t]]}
              [] OTHER          -> {addr[t]}

\* An entry once in the segment is never blanked again: processes that crash, even
\* on one another's mappings, and construct their objects anew find it there.
EntriesStay == [][\A i \in 1..AllPlaces : seg[i] # Zero => seg'[i] # Zero]_vars

(* What the sources say and the code does not do.                             *)

\* SecKeyShm.cpp:52 and :94: shmWrite and shmRead map the segment first and detach
\* it last.  Between the two the calling thread can use its mapping.
MappedWhileUsed == \A t \in Threads : pc[t] \in InUse => Mapped(t)
=============================================================================
