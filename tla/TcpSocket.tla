------------------------------ MODULE TcpSocket ------------------------------
(* ClassSocket/TcpSocket: sendMsg on one end of a connection and recvMsg on    *)
(* the other.  A message is framed by its length in four bytes.  The stream    *)
(* between them is cut into arbitrary pieces by write and read, the kernel's   *)
(* buffers are finite, the sender may close or die in the middle of a message, *)
(* and the connection may be reset.  Interrupted calls (EINTR) are repeated    *)
(* and leave no trace.                                                         *)
EXTENDS Integers, Sequences, SequencesExt

CONSTANTS Msgs,     \* messages: sequences of bytes, none empty
          MaxSent,  \* bound on the messages sent
          Buffer    \* bytes the kernel keeps for the connection

Bytes   == 0..255
\* dataLen is positive, and dataLen + 4 is an int of 32 bits.
Lengths == {n \in Nat : 0 < n /\ (n + 4) \div 65536 < 32768}

ASSUME TcpSocketAssumption ==
    /\ Msgs \subseteq Seq(Bytes)
    /\ \A m \in Msgs : Len(m) \in Lengths
    /\ Buffer \in Nat \ {0}
    /\ MaxSent \in Nat

VARIABLES
    sPc,    \* the sender: out of sendMsg, in writen, closed or dead
    rest,   \* the bytes writen has still to write
    wire,   \* the bytes written and not yet read
    reset,  \* whether the connection is reset
    rPc,    \* the receiver: out of recvMsg, in select, in a readn, or failed
    got,    \* the bytes the current readn has read
    want,   \* the count of the current readn
    sent,   \* history: the messages handed to sendMsg
    rcvd    \* history: the messages delivered by recvMsg

vars == <<sPc, rest, wire, reset, rPc, got, want, sent, rcvd>>

TypeOK ==
    /\ sPc \in {"idle", "writing", "closed", "dead"}
    /\ rest \in Seq(Bytes) /\ wire \in Seq(Bytes) /\ got \in Seq(Bytes)
    /\ Len(wire) <= Buffer
    /\ reset \in BOOLEAN
    /\ rPc \in {"idle", "select", "header", "payload", "failed"}
    /\ want \in Nat /\ Len(got) <= want
    /\ sent \in Seq(Msgs) /\ Len(sent) <= MaxSent
    /\ rcvd \in Seq(Seq(Bytes))

Init ==
    /\ sPc = "idle" /\ rest = <<>>
    /\ wire = <<>> /\ reset = FALSE
    /\ rPc = "idle" /\ got = <<>> /\ want = 0
    /\ sent = <<>> /\ rcvd = <<>>

-----------------------------------------------------------------------------
(* The sender.                                                                *)

Sending == sPc \in {"idle", "writing"}

\* htonl and ntohl.
Header(n) ==
    <<(n \div 65536) \div 256, (n \div 65536) % 256, (n \div 256) % 256, n % 256>>
Length(h) == ((h[1] * 256 + h[2]) * 256 + h[3]) * 256 + h[4]

\* What sendMsg hands to writen: the length and the data in one buffer.
Frame(m) == Header(Len(m)) \o m

\* sendMsg up to writen: wait until the socket is writable, copy length and data.
Send ==
    /\ sPc = "idle" /\ Len(sent) < MaxSent
    /\ reset \/ Len(wire) < Buffer
    /\ \E m \in Msgs :
         /\ rest' = Frame(m)
         /\ sent' = Append(sent, m)
    /\ sPc' = "writing"
    /\ UNCHANGED <<wire, reset, rPc, got, want, rcvd>>

\* Variant: one write, the rest of which is forgotten.
WriteOnce ==
    /\ sPc = "writing" /\ ~reset
    /\ \E n \in 1..Len(rest) :
         /\ Len(wire) + n <= Buffer
         /\ wire' = wire \o SubSeq(rest, 1, n)
    /\ rest' = <<>>
    /\ sPc' = "idle"
    /\ UNCHANGED <<reset, rPc, got, want, sent, rcvd>>

\* One write in writen, of as many bytes as the kernel takes.
Write ==
    /\ sPc = "writing" /\ ~reset
    /\ \E n \in 1..Len(rest) :
         /\ Len(wire) + n <= Buffer
         /\ wire' = wire \o SubSeq(rest, 1, n)
         /\ rest' = SubSeq(rest, n + 1, Len(rest))
    /\ sPc' = IF rest' = <<>> THEN "idle" ELSE "writing"
    /\ UNCHANGED <<reset, rPc, got, want, sent, rcvd>>

\* A write to a connection that is reset fails: with ECONNRESET sendMsg returns -1 and the
\* sender goes on, with EPIPE SIGPIPE ends it.
WriteFails ==
    /\ sPc = "writing" /\ reset
    /\ sPc' \in {"idle", "dead"} /\ rest' = <<>>
    /\ UNCHANGED <<wire, reset, rPc, got, want, sent, rcvd>>

\* disConnect after sendMsg, or the end of the process in the middle of it: what
\* is written still arrives, then the stream ends.
SenderGone ==
    /\ Sending
    /\ sPc' = IF sPc = "idle" THEN "closed" ELSE "dead"
    /\ rest' = <<>>
    /\ UNCHANGED <<wire, reset, rPc, got, want, sent, rcvd>>

\* The connection is reset: what is under way is lost.
Reset ==
    /\ ~reset
    /\ reset' = TRUE /\ wire' = <<>>
    /\ UNCHANGED <<sPc, rest, rPc, got, want, sent, rcvd>>

-----------------------------------------------------------------------------
(* The receiver.                                                              *)

AtEnd == wire = <<>> /\ ~Sending

Recv ==
    /\ rPc = "idle"
    /\ rPc' = "select"
    /\ UNCHANGED <<sPc, rest, wire, reset, got, want, sent, rcvd>>

\* readTimeout returns 0: there is something to read, the end or an error.
Readable ==
    /\ rPc = "select"
    /\ wire # <<>> \/ AtEnd \/ reset
    /\ rPc' = "header" /\ got' = <<>> /\ want' = 4
    /\ UNCHANGED <<sPc, rest, wire, reset, sent, rcvd>>

\* readTimeout returns -1: nothing came in time, and nothing was read.
RecvTimeout ==
    /\ rPc = "select"
    /\ wire = <<>> /\ ~AtEnd /\ ~reset
    /\ rPc' = "idle"
    /\ UNCHANGED <<sPc, rest, wire, reset, got, want, sent, rcvd>>

\* Variant: the read takes all there is and drops what is more than count.
ReadGreedy ==
    /\ rPc \in {"header", "payload"} /\ ~reset
    /\ wire # <<>> /\ Len(got) < want
    /\ LET all == got \o wire
       IN  got' = SubSeq(all, 1, IF Len(all) < want THEN Len(all) ELSE want)
    /\ wire' = <<>>
    /\ UNCHANGED <<sPc, rest, reset, rPc, want, sent, rcvd>>

\* Variant: each read asks for the whole count, not for what is left of it.
ReadCount ==
    /\ rPc \in {"header", "payload"} /\ ~reset
    /\ \E n \in 1..want :
         /\ n <= Len(wire)
         /\ got' = got \o SubSeq(wire, 1, n)
         /\ wire' = SubSeq(wire, n + 1, Len(wire))
    /\ UNCHANGED <<sPc, rest, reset, rPc, want, sent, rcvd>>

\* One read in readn, of as many bytes as there are, want at most.
Read ==
    /\ rPc \in {"header", "payload"} /\ ~reset
    /\ \E n \in 1..(want - Len(got)) :
         /\ n <= Len(wire)
         /\ got' = got \o SubSeq(wire, 1, n)
         /\ wire' = SubSeq(wire, n + 1, Len(wire))
    /\ UNCHANGED <<sPc, rest, reset, rPc, want, sent, rcvd>>

\* The header is complete: read as many bytes as it says.
HeaderRead ==
    /\ rPc = "header" /\ Len(got) = want
    /\ rPc' = "payload" /\ got' = <<>> /\ want' = Length(got)
    /\ UNCHANGED <<sPc, rest, wire, reset, sent, rcvd>>

\* The data are complete: recvMsg returns 0.
PayloadRead ==
    /\ rPc = "payload" /\ Len(got) = want
    /\ rcvd' = Append(rcvd, got)
    /\ rPc' = "idle" /\ got' = <<>> /\ want' = 0
    /\ UNCHANGED <<sPc, rest, wire, reset, sent>>

\* Variant: readn gives up when there is nothing to read yet.
ReadFailsEarly ==
    /\ rPc \in {"header", "payload"} /\ Len(got) < want
    /\ wire = <<>>
    /\ rPc' = "failed" /\ got' = <<>> /\ want' = 0
    /\ UNCHANGED <<sPc, rest, wire, reset, sent, rcvd>>

\* read returns 0 or -1: recvMsg returns PeerCloseError or -1.
ReadFails ==
    /\ rPc \in {"header", "payload"} /\ Len(got) < want
    /\ AtEnd \/ reset
    /\ rPc' = "failed" /\ got' = <<>> /\ want' = 0
    /\ UNCHANGED <<sPc, rest, wire, reset, sent, rcvd>>

Sender   == Send \/ Write \/ WriteFails
Receiver == Recv \/ Readable \/ RecvTimeout \/ Read \/ HeaderRead \/ PayloadRead \/ ReadFails

Next == Sender \/ SenderGone \/ Reset \/ Receiver

\* A writen that was begun goes on, and the receiver calls recvMsg again and again.
Fairness == WF_vars(Write) /\ WF_vars(WriteFails) /\ WF_vars(Receiver)

Spec     == Init /\ [][Next]_vars
FairSpec == Spec /\ Fairness
-----------------------------------------------------------------------------
(* Properties.                                                                *)

\* However the stream is cut into pieces, and wherever it ends, recvMsg delivers
\* the messages handed to sendMsg, whole, in order and at most once.
Channel == INSTANCE MsgChannel
ImplementsChannel == Channel!Spec

\* The frames of the messages of s after the k-th.
Stream(s, k) == FlattenSeq([i \in 1..(Len(s) - k) |-> Frame(s[k + i])])

\* The bytes recvMsg has read of a message it has not delivered.
Taken ==
    CASE rPc = "header"  -> got
      [] rPc = "payload" -> Header(want) \o got
      [] OTHER           -> <<>>

\* The bytes of messages on their way: the frames of the messages not delivered,
\* less what was read of the first and what is not yet written of the last.
\* Timeouts, which return before anything is read, leave the framing intact.
Aligned ==
    Sending /\ ~reset => Taken \o wire \o rest = Stream(sent, Len(rcvd))

\* A message handed to sendMsg is delivered, though the kernel takes only a part
\* of it at a time, even when the sender closes as soon as sendMsg has returned;
\* only a message the sender dies in, and a reset connection, are lost.
Delivered ==
    \A i \in 1..MaxSent :
        (Len(sent) >= i) ~>
            (Len(rcvd) >= i \/ reset \/ (sPc = "dead" /\ i = Len(sent)))
=============================================================================
