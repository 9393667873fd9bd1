------------------------------ MODULE MCMsgCodec ------------------------------
(* Instances of MsgCodec for TLC.                                             *)
EXTENDS MsgCodec

\* n characters, of a kind of its own for each member.
Chars(n, c) == [i \in 1..n |-> c]

Request(id, auth, r1) ==
    [kind |-> "request",
     mem  |-> Stored(Stored(Stored(Stored(Stored(Zeroed("request"), 0, <<1>>),
                  4, Chars(id, 49)), 16, Chars(auth, 97)), 81, Chars(11, 50)), 93, Chars(r1, 90))]

\* The struct of a response with a random string of r2 characters and a key number
\* of the given bytes, lowest first.
Respond(r2, number) ==
    [kind |-> "respond",
     mem  |-> Stored(Stored(Stored(Stored(Zeroed("respond"),
                  4, Chars(4, 49)), 16, Chars(11, 50)), 28, Chars(r2, 90)), 92, number)]

\* Requests whose items have 127 and 128 bytes, and those of the programs; without a
\* client number nothing is encoded.  Responses with the key numbers at which the
\* coding of a number or the tail of r2 changes; -1 is not encoded.
MCMessages ==
    {Request(4, 43, 58), Request(4, 44, 58), Request(11, 64, 64), Request(0, 64, 64)}
    \cup {Respond(64, n) : n \in {<<0>>, <<127>>, <<128>>, <<1, 1>>, <<0, 128>>, <<1, 2, 3>>,
                                  <<0, 0, 0, 1>>, <<255, 255, 255, 255>>}}

\* Texts with the lengths at which the coding of a length changes in one of the items,
\* beginning with a byte that is not zero, zero, or has its top bit set.
MCTexts ==
    {Chars(n, 65) : n \in {0, 1, 8, 126, 127, 128, 254, 255, 256, 65533, 65534, 65535, 65536}}
    \cup {<<0, 200, 1>>, <<200, 0>>}
=============================================================================
