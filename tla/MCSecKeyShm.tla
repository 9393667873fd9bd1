----------------------------- MODULE MCSecKeyShm -----------------------------
(* Instances of SecKeyShm for TLC.                                            *)
EXTENDS SecKeyShm, TLC

CONSTANTS p1, p2, p3, t1, t2, t3

\* One process, or a process for each thread.
MCShared == [t \in Threads |-> p1]
MCOwn    == (t1 :> p1) @@ (t2 :> p2) @@ (t3 :> p3)

\* Processes of one size, or of three.
MCTwo    == [p \in Procs |-> 2]
MCSizes  == (p1 :> 1) @@ (p2 :> 2) @@ (p3 :> 3)

MCSymmetry == Permutations(Nodes) \cup Permutations(Keys) \cup Permutations(Addrs)
=============================================================================
