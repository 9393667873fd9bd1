---------------------------- MODULE MCKeyDatabase ----------------------------
(* An instance of KeyDatabase for TLC: the server with two threads and two    *)
(* programs with one.                                                         *)
EXTENDS KeyDatabase

CONSTANTS s1, s2, s3, t1, t2, t3, t4

MCSessionOf == [t \in Threads |-> CASE t \in {t1, t2} -> s1 [] t = t3 -> s2 [] t = t4 -> s3]

\* KEYSN starts at 1, or has no row.
MCFirst == {1, NoRow}
=============================================================================
