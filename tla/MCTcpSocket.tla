----------------------------- MODULE MCTcpSocket -----------------------------
(* Instances of TcpSocket for TLC.                                            *)
EXTENDS TcpSocket

\* Messages that look like the header of a message, and a longer one.
MCMsgs == {<<1>>, <<0, 2>>, <<0, 0, 0, 1, 1>>}
=============================================================================
