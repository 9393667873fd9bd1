------------------------------ MODULE MsgChannel ------------------------------
(* What TcpSocket promises its users: messages arrive whole, in order and at   *)
(* most once; an error or a closed peer may cut the sequence short.            *)
EXTENDS Integers, Sequences

CONSTANT Msgs

VARIABLES sent,  \* the messages handed to sendMsg, in order
          rcvd   \* the messages recvMsg has delivered

Init == sent = <<>> /\ rcvd = <<>>

Send == \E m \in Msgs : sent' = Append(sent, m) /\ UNCHANGED rcvd

Deliver ==
    /\ Len(rcvd) < Len(sent)
    /\ rcvd' = Append(rcvd, sent[Len(rcvd) + 1])
    /\ UNCHANGED sent

Next == Send \/ Deliver

Spec == Init /\ [][Next]_<<sent, rcvd>>
=============================================================================
