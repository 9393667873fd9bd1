---------------------------- MODULE MCTcpConnect -----------------------------
(* An instance of TcpConnect for TLC.                                         *)
EXTENDS TcpConnect

CONSTANTS k1, k2, k3
=============================================================================
