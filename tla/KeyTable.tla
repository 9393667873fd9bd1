------------------------------- MODULE KeyTable -------------------------------
(* What SecKeyShm promises programs whose calls do not overlap: one table of   *)
(* entries, of which each program uses as many places as its maxNode.          *)
(* shmWrite replaces a node's entry or adds one while there is a blank place,  *)
(* shmRead delivers a node's entry, each in one step.                          *)
EXTENDS NodeTable

CONSTANTS Keys,      \* key material
          MaxNode,   \* places in the segment
          Users,     \* who calls shmWrite and shmRead
          SizeOf     \* how many places each of them uses

VARIABLES seg,       \* the segment
          out        \* what each user's last successful shmRead delivered

Init ==
    /\ seg = EmptySegment(MaxNode)
    /\ out = [u \in Users |-> Blank]

\* The places that user u looks at.
Seen(u) == [i \in 1..SizeOf[u] |-> seg[i]]

Write(u, n, k) ==
    /\ \E i \in Targets(Seen(u), n) : seg' = Put(seg, i, n, k)
    /\ UNCHANGED out

Read(u, n) ==
    /\ \E k \in Lookup(Seen(u), n) : out' = [out EXCEPT ![u] = [node |-> n, info |-> k]]
    /\ UNCHANGED seg

Next ==
    \/ \E u \in Users, n \in Nodes, k \in Keys : Write(u, n, k)
    \/ \E u \in Users, n \in Nodes : Read(u, n)

Spec == Init /\ [][Next]_<<seg, out>>
=============================================================================
