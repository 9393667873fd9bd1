------------------------------ MODULE KeyService ------------------------------
(* What the key agreement promises: each call asks at most once and is        *)
(* recorded at most once, for the node and with the random string it asked    *)
(* with, and a client gets a key only from the record of the call it is in.   *)
(* Threads, connections, the server's segment, crashes and restarts are left  *)
(* out: a call that is disturbed is given up, recorded or not.                *)
CONSTANTS Clients,   \* the clients of the service
          NodeOf,    \* the node of each client
          Calls,     \* the calls, each one made by a client or by a peer
          Requests,  \* what a call may ask with: a node and a random string
          Keys,      \* the keys, each made of the random strings of both sides
          NoCall, NoRequest, NoKey

VARIABLES call,      \* the call each client is in
          asked,     \* the request of each call
          recorded,  \* the records: of which call, for which node, which key
          held       \* the key each client got last

Init ==
    /\ call = [c \in Clients |-> NoCall]
    /\ asked = [k \in Calls |-> NoRequest]
    /\ recorded = {}
    /\ held = [c \in Clients |-> NoKey]

Begin(c, k) ==
    /\ call[c] = NoCall /\ asked[k] = NoRequest
    /\ \A d \in Clients : call[d] # k
    /\ call' = [call EXCEPT ![c] = k]
    /\ UNCHANGED <<asked, recorded, held>>

\* A client asks for its own node; whoever else makes a call, for any.
Ask(k, m) ==
    /\ asked[k] = NoRequest
    /\ \A c \in Clients : call[c] = k => m.node = NodeOf[c]
    /\ asked' = [asked EXCEPT ![k] = m]
    /\ UNCHANGED <<call, recorded, held>>

Record(k, key) ==
    /\ asked[k] # NoRequest /\ key.r1 = asked[k].r1
    /\ \A r \in recorded : r.conn # k
    /\ recorded' = recorded \cup {[conn |-> k, node |-> asked[k].node, seckey |-> key]}
    /\ UNCHANGED <<call, asked, held>>

Deliver(c, r) ==
    /\ r.conn = call[c] /\ r.node = NodeOf[c]
    /\ held' = [held EXCEPT ![c] = r.seckey]
    /\ call' = [call EXCEPT ![c] = NoCall]
    /\ UNCHANGED <<asked, recorded>>

GiveUp(c) ==
    /\ call' = [call EXCEPT ![c] = NoCall]
    /\ UNCHANGED <<asked, recorded, held>>

Next ==
    \/ \E c \in Clients, k \in Calls : Begin(c, k)
    \/ \E k \in Calls, m \in Requests : Ask(k, m)
    \/ \E k \in Calls, key \in Keys : Record(k, key)
    \/ \E c \in Clients, r \in recorded : Deliver(c, r)
    \/ \E c \in Clients : GiveUp(c)

vars == <<call, asked, recorded, held>>

Spec == Init /\ [][Next]_vars
===============================================================================
