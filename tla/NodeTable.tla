------------------------------ MODULE NodeTable ------------------------------
(* The segment of SecKeyShm: max places, each blank (all zero) or holding the  *)
(* entry of a node, a (clientID, serverID) pair.  Pure operators: the place    *)
(* shmWrite takes, the segment after it has copied an entry there, and what    *)
(* shmRead finds.                                                              *)
EXTENDS FiniteSets, Integers

CONSTANTS Nodes,    \* the (clientID, serverID) pairs
          Blank     \* what a blank place holds

\* A segment fresh from the creating constructor's memset.
EmptySegment(max) == [i \in 1..max |-> Blank]

\* The segments of max places with entries in S.
Segments(max, S) == [1..max -> [node : Nodes, info : S] \cup {Blank}]

PlacesOf(seg, n)  == {i \in DOMAIN seg : seg[i] # Blank /\ seg[i].node = n}
BlankPlaces(seg)  == {i \in DOMAIN seg : seg[i] = Blank}

\* The place a scan for members of S stops at.
FirstOf(S) == {i \in S : \A j \in S : i <= j}

\* Where shmWrite puts the entry of node n: over the node's entry if it has one,
\* else in the first blank place; 0 when there is none.
Targets(seg, n) ==
    IF PlacesOf(seg, n) # {} THEN FirstOf(PlacesOf(seg, n))
    ELSE IF BlankPlaces(seg) # {} THEN FirstOf(BlankPlaces(seg))
    ELSE {0}

\* The segment after the copy to place i; without a place nothing is written,
\* and shmWrite returns 0 all the same.
Put(seg, i, n, e) ==
    IF i = 0 THEN seg ELSE [seg EXCEPT ![i] = [node |-> n, info |-> e]]

\* The same copy in two halves: the node's identifiers, behind which a place that was
\* blank has nothing yet (none), and the rest.
PutNode(seg, i, n, none) ==
    IF i = 0 THEN seg
    ELSE [seg EXCEPT ![i] = [node |-> n, info |-> IF @ = Blank THEN none ELSE @.info]]

PutInfo(seg, i, e) ==
    IF i = 0 THEN seg ELSE [seg EXCEPT ![i].info = e]

\* What shmRead finds for node n: one entry or none.
Lookup(seg, n) == {seg[i].info : i \in FirstOf(PlacesOf(seg, n))}
=============================================================================
