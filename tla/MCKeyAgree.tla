----------------------------- MODULE MCKeyAgree -----------------------------
(* Instances of KeyAgree for TLC.                                             *)
EXTENDS KeyAgreeInv, TLC

CONSTANTS c1, c2, n1, n2, ra, rb

\* Each client has a node of its own.
MCNodeOf == [c \in Clients |-> IF c = c1 THEN n1 ELSE n2]

\* Connections and threads are alike; the clients are not, for MCNodeOf tells
\* them apart.
MCSymmetry == Permutations(Conns) \cup Permutations(Workers)

\* KEYSN starts at 1, or has no row.
MCFirst     == {1}
MCFirstAny  == {1, NoRow}

\* The requests of other programs: one the server refuses, as it does one with a command
\* it does not know, and one of the two, Check and Revoke, it answers with nothing.
MCPeerRequests ==
    {[node |-> n1, cmd |-> NewOrUpdate, r1 |-> ra, auth |-> "bad"],
     [node |-> n1, cmd |-> Check, r1 |-> ra, auth |-> "good"]}
=============================================================================
