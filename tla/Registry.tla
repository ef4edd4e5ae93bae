------------------------------ MODULE Registry ------------------------------
(***************************************************************************)
(* What the session layer promises to those who use its two maps: a key    *)
(* and a Sender per peer.  A Sender is entered only once there is a key,   *)
(* for a connection that starts being served at that moment; an entry may  *)
(* vanish at any time; and when a connection is no longer served, no entry *)
(* for it is left.  Discovery, handshakes, queues and failures are gone.   *)
(* Sessions implements this specification.                                 *)
(***************************************************************************)
CONSTANTS Node, Conn, NoConn

VARIABLES
    key,       \* key[n][p]: the key n and p have agreed on, at n
    sender,    \* sender[n][p]: the connection n sends to p on
    serving    \* <<n, p, c>>: n reads what p sends on c

registry == <<key, sender, serving>>

Init ==
    /\ key = [n \in Node |-> [p \in Node |-> NoConn]]
    /\ sender = [n \in Node |-> [p \in Node |-> NoConn]]
    /\ serving = {}

Agree(n, p, k) ==
    /\ key' = [key EXCEPT ![n][p] = k]
    /\ UNCHANGED <<sender, serving>>

Open(n, p, c) ==
    /\ key[n][p] # NoConn
    /\ \A q \in Node : <<n, q, c>> \notin serving
    /\ sender' = [sender EXCEPT ![n][p] = c]
    /\ serving' = serving \cup {<<n, p, c>>}
    /\ UNCHANGED key

\* The entry is dropped while its connection goes on being served.
Forget(n, p) ==
    /\ sender' = [sender EXCEPT ![n][p] = NoConn]
    /\ UNCHANGED <<key, serving>>

\* The entry of another connection may go with it or stay.
End(n, p, c) ==
    /\ <<n, p, c>> \in serving
    /\ serving' = serving \ {<<n, p, c>>}
    /\ \/ sender' = [sender EXCEPT ![n][p] = NoConn]
       \/ sender[n][p] # c /\ UNCHANGED sender
    /\ UNCHANGED key

\* A node goes with everything it knows.
Vanish(n) ==
    /\ key' = [key EXCEPT ![n] = [p \in Node |-> NoConn]]
    /\ sender' = [sender EXCEPT ![n] = [p \in Node |-> NoConn]]
    /\ serving' = {s \in serving : s[1] # n}

Next ==
    \/ \E n, p \in Node : \/ Forget(n, p)
                          \/ \E c \in Conn : Agree(n, p, c) \/ Open(n, p, c) \/ End(n, p, c)
    \/ \E n \in Node : Vanish(n)

Spec == Init /\ [][Next]_registry
=============================================================================
