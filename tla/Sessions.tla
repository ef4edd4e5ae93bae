------------------------------ MODULE Sessions ------------------------------
(***************************************************************************)
(* Peer sessions of the mesh: discovery by Hello, the dialled and the      *)
(* accepted handshake, the per-peer maps `ciphers` and `conns`, the read   *)
(* and write loops of every connection, the stale-peer reaper, file tasks  *)
(* that keep a Sender alive, broken connections and nodes that exit        *)
(* (src/src/network/mesh.rs, discovery.rs).                                *)
(*                                                                         *)
(* A connection stands for one TCP connection between two nodes, and also  *)
(* for the one session key its Diffie-Hellman exchange can produce.        *)
(* `wire[c][n]` is everything n has handed to connection c and its peer    *)
(* has not read: the mpsc queue, the write loop and the socket in one.     *)
(***************************************************************************)
EXTENDS Naturals, Sequences, FiniteSets

CONSTANTS
    Node,          \* the nodes, each a process with its own uuid
    Conn,          \* connection slots; a slot is reused once nothing refers to it
    NoConn,        \* the absence of an entry in a map
    Hears,         \* <<n, p>> : the Hello broadcasts of p reach n
    Leavers,       \* the nodes that may exit
    MaxFaults,     \* bound on the failures of the network between running nodes
    Transfers,     \* may file tasks hold a clone of a Sender?
    MaxInFlight    \* bound on the unread packets per direction when one is sent

ASSUME SessionsAssumption ==
    /\ NoConn \notin Conn
    /\ Hears \subseteq Node \X Node
    /\ Leavers \subseteq Node
    /\ Transfers \in BOOLEAN
    /\ MaxFaults \in Nat /\ MaxInFlight \in Nat

VARIABLES
    alive,     \* the nodes still running
    late,      \* Hellos of exited nodes not yet taken from the discovery queue
    peers,     \* peers[n]: keys of AppState.peers at n
    ciphers,   \* ciphers[n][p]: the key n encrypts for p and decrypts from p with
    conns,     \* conns[n][p]: the connection whose Sender n has registered for p
    held,      \* held[n]: connections whose Sender a file task of n has cloned
    link,      \* link[c]: the two ends of connection c
    task,      \* task[c][n]: where the task of n that serves c stands
    wire,      \* wire[c][n]: packets sent by n on c and not read yet
    broken,    \* connections on which every further read and write fails
    reap,      \* reap[n][p]: where the reaper of n stands with the stale peer p
    faults     \* how often the network has failed two running nodes

vars == <<alive, late, peers, ciphers, conns, held, link, task, wire, broken, reap, faults>>
maps == <<peers, ciphers, conns, held, reap>>
env == <<alive, late, faults>>

TaskState == {"none", "connecting", "kexSent", "listening", "acked", "keyed",
              "open", "leaving", "done"}

\* The task has stored its key; it has joined the handshake.
Keyed == {"keyed", "open", "leaving", "done"}
Answered == {"kexSent", "acked"} \cup Keyed

\* A chunk of a file is sent as it is, without a key.
Packet == [type : {"KeyExchange", "KeyExchangeAck", "Encrypted"}, key : Conn]
          \cup [type : {"FileChunk"}, key : {NoConn}]

(***************************************************************************)
(* Connections                                                             *)
(***************************************************************************)
Between(c, n, p) == n # p /\ link[c] = {n, p}

\* The Sender of n for c is dropped, so its write loop has ended and the write
\* half is shut: p reads end-of-file after the packets still on the wire.
Shut(c, n, p) ==
    /\ task[c][n] \in {"open", "leaving", "done"}
    /\ conns[n][p] # c
    /\ c \notin held[n]

EofOnError(c, n, p) == c \in broken           \* variant: end-of-file is no reason to end
EofOnSilence(c, n, p) == c \in broken \/ wire[c][p] = <<>>   \* variant: silence is the end
\* What a read of n on c returns an error for.
Eof(c, n, p) == c \in broken \/ (wire[c][p] = <<>> /\ Shut(c, p, n))

Arrived(c, n, p, type) ==
    c \notin broken /\ wire[c][p] # <<>> /\ Head(wire[c][p]).type = type

\* The wires after n has read the packet at the head of c.
Popped(c, p) == [wire EXCEPT ![c][p] = Tail(@)]

\* The wires w after n has written a packet: nobody reads it at a finished end.
Posted(w, c, n, p, type, key) ==
    IF task[c][p] = "done" \/ c \in broken
    THEN w
    ELSE [w EXCEPT ![c][n] = Append(@, [type |-> type, key |-> key])]

\* No task, map entry, file task or packet refers to slot c.
Unused(c) ==
    \A n \in Node :
        /\ task[c][n] \in {"none", "done"}
        /\ c \notin held[n]
        /\ \A p \in Node : ciphers[n][p] # c /\ conns[n][p] # c
        /\ \A d \in Conn : \A i \in DOMAIN wire[d][n] : wire[d][n][i].key # c

\* The task of n on c ends and drops its read half: unread packets are gone.
Finish(c, n, p) ==
    /\ task' = [task EXCEPT ![c][n] = "done"]
    /\ wire' = [wire EXCEPT ![c][p] = <<>>]
    /\ broken' = IF task[c][p] \in {"none", "done"} THEN broken \ {c} ELSE broken

(***************************************************************************)
(* Initially every node runs and knows nobody.                             *)
(***************************************************************************)
Init ==
    /\ alive = Node
    /\ late = {}
    /\ peers = [n \in Node |-> {}]
    /\ ciphers = [n \in Node |-> [p \in Node |-> NoConn]]
    /\ conns = [n \in Node |-> [p \in Node |-> NoConn]]
    /\ held = [n \in Node |-> {}]
    /\ link = [c \in Conn |-> {}]
    /\ task = [c \in Conn |-> [n \in Node |-> "none"]]
    /\ wire = [c \in Conn |-> [n \in Node |-> <<>>]]
    /\ broken = {}
    /\ reap = [n \in Node |-> [p \in Node |-> "no"]]
    /\ faults = 0

\* A failure involving an exited node is certain to be possible; one between
\* running nodes is a fault of the network.
MayFail(nodes) ==
    IF nodes \subseteq alive
    THEN faults < MaxFaults /\ faults' = faults + 1
    ELSE UNCHANGED faults

(***************************************************************************)
(* Discovery.  A running node repeats its Hello every 3 s, so one can      *)
(* always be on its way; the node's own broadcast comes back as well.      *)
(***************************************************************************)
NotOwnHelloUnchecked(n, p) == TRUE            \* variant: the id is not compared
NotOwnHello(n, p) == p # n

UnknownOrNot(n, p) == TRUE                    \* variant: every Hello is a new peer
Unknown(n, p) == p \notin peers[n]

HelloPending(n, p) ==
    /\ n \in alive /\ <<n, p>> \in Hears
    /\ p \in alive \/ <<n, p>> \in late

\* An unknown peer is recorded and a task is spawned that dials it.
HearHello(n, p, c) ==
    /\ HelloPending(n, p)
    /\ NotOwnHello(n, p)
    /\ Unknown(n, p)
    /\ Unused(c)
    /\ peers' = [peers EXCEPT ![n] = @ \cup {p}]
    /\ link' = [link EXCEPT ![c] = {n, p}]
    /\ task' = [task EXCEPT ![c] = [m \in Node |-> IF m = n THEN "connecting" ELSE "none"]]
    /\ wire' = [wire EXCEPT ![c] = [m \in Node |-> <<>>]]
    /\ broken' = broken \ {c}
    /\ late' = late \ {<<n, p>>}
    /\ UNCHANGED <<alive, faults, ciphers, conns, held, reap>>

\* The last Hello of an exited node is lost, or is only a refresh for a node
\* that still knows the sender.
DropHello(n, p) ==
    /\ n \in alive /\ <<n, p>> \in late
    /\ late' = late \ {<<n, p>>}
    /\ UNCHANGED <<alive, faults, maps, link, task, wire, broken>>

(***************************************************************************)
(* The dialling side: connect_to_peer and ecdh_initiator.                  *)
(***************************************************************************)
\* The connection is established: the peer's accept loop spawns handle_incoming
\* and the dialler writes its KeyExchange.
Connect(n, p, c) ==
    /\ Between(c, n, p)
    /\ task[c][n] = "connecting"
    /\ p \in alive
    /\ task' = [task EXCEPT ![c][n] = "kexSent", ![c][p] = "listening"]
    /\ wire' = [wire EXCEPT ![c][n] = <<[type |-> "KeyExchange", key |-> c]>>]
    /\ UNCHANGED <<env, maps, link, broken>>

\* A failed dial returns from connect_to_peer: the peer stays in `peers`.
ConnectFail(n, p, c) ==
    /\ Between(c, n, p)
    /\ task[c][n] = "connecting"
    /\ MayFail({n, p})
    /\ Finish(c, n, p)
    /\ UNCHANGED <<alive, late, maps, link>>

\* Variant: the key is stored as soon as the KeyExchange is written.
DialKeyEarly(n, p, c) ==
    /\ Between(c, n, p)
    /\ task[c][n] = "kexSent"
    /\ ciphers' = [ciphers EXCEPT ![n][p] = c]
    /\ task' = [task EXCEPT ![c][n] = "keyed"]
    /\ UNCHANGED <<env, peers, conns, held, reap, link, wire, broken>>

\* The dialler reads the answer and stores the key under the peer's id.
DialKey(n, p, c) ==
    /\ Between(c, n, p)
    /\ task[c][n] = "kexSent"
    /\ Arrived(c, n, p, "KeyExchangeAck")
    /\ ciphers' = [ciphers EXCEPT ![n][p] = c]
    /\ task' = [task EXCEPT ![c][n] = "keyed"]
    /\ wire' = Popped(c, p)
    /\ UNCHANGED <<env, peers, conns, held, reap, link, broken>>

(***************************************************************************)
(* The accepting side: handle_incoming and ecdh_responder.                 *)
(***************************************************************************)
\* The acceptor reads the KeyExchange, which names the dialler, and answers it.
AcceptKex(n, p, c) ==
    /\ Between(c, n, p)
    /\ task[c][n] = "listening"
    /\ Arrived(c, n, p, "KeyExchange")
    /\ task' = [task EXCEPT ![c][n] = "acked"]
    /\ wire' = Posted(Popped(c, p), c, n, p, "KeyExchangeAck", c)
    /\ UNCHANGED <<env, maps, link, broken>>

\* The acceptor stores the key once it gets the lock of `ciphers`, by which time
\* the dialler may have read the answer.
AcceptKey(n, p, c) ==
    /\ Between(c, n, p)
    /\ task[c][n] = "acked"
    /\ ciphers' = [ciphers EXCEPT ![n][p] = c]
    /\ task' = [task EXCEPT ![c][n] = "keyed"]
    /\ UNCHANGED <<env, peers, conns, held, reap, link, wire, broken>>

\* Either side gives up when the exchange cannot be read or written.
HandshakeFail(n, p, c) ==
    /\ Between(c, n, p)
    /\ task[c][n] \in {"kexSent", "listening"}
    /\ Eof(c, n, p)
    /\ Finish(c, n, p)
    /\ UNCHANGED <<env, maps, link>>

HandshakeAnswered(c, n) == task[c][n] \in {"acked", "keyed"}   \* variant: no key yet
HandshakeDone(c, n) == task[c][n] = "keyed"

\* Both sides: the Sender replaces whatever is registered for the peer, and the
\* read and the write loop start.
Register(n, p, c) ==
    /\ Between(c, n, p)
    /\ HandshakeDone(c, n)
    /\ conns' = [conns EXCEPT ![n][p] = c]
    /\ task' = [task EXCEPT ![c][n] = "open"]
    /\ UNCHANGED <<env, peers, ciphers, held, reap, link, wire, broken>>

(***************************************************************************)
(* Traffic                                                                 *)
(***************************************************************************)
Reachable(n, p) == n # p /\ conns[n][p] \in Conn /\ ciphers[n][p] \in Conn

HasRoom(n, p) == Len(wire[conns[n][p]][n]) < MaxInFlight

\* One peer of a broadcast, or a message to one peer: the registered Sender gets
\* a packet encrypted with the key in `ciphers`, both read under their locks.
Send(n, p) ==
    /\ Reachable(n, p) /\ HasRoom(n, p)
    /\ wire' = Posted(wire, conns[n][p], n, p, "Encrypted", ciphers[n][p])
    /\ UNCHANGED <<env, maps, link, task, broken>>

\* SendFile sends its offer and leaves a task that keeps a clone of the Sender.
SendFile(n, p) ==
    /\ Transfers
    /\ Reachable(n, p) /\ HasRoom(n, p)
    /\ held' = [held EXCEPT ![n] = @ \cup {conns[n][p]}]
    /\ wire' = Posted(wire, conns[n][p], n, p, "Encrypted", ciphers[n][p])
    /\ UNCHANGED <<env, peers, ciphers, conns, reap, link, task, broken>>

\* The file task streams one chunk over the Sender it holds, which by then may be
\* registered no longer.
SendChunk(n, p, c) ==
    /\ Between(c, n, p)
    /\ c \in held[n] /\ Len(wire[c][n]) < MaxInFlight
    /\ wire' = Posted(wire, c, n, p, "FileChunk", NoConn)
    /\ UNCHANGED <<env, maps, link, task, broken>>

\* The file task ends: offer timed out, or the file is streamed.
ReleaseTx(n, c) ==
    /\ c \in held[n]
    /\ held' = [held EXCEPT ![n] = @ \ {c}]
    /\ UNCHANGED <<env, peers, ciphers, conns, reap, link, task, wire, broken>>

\* The read loop takes a chunk as it is, or a packet that it decrypts with the key
\* stored for the sender; one that fails to decrypt is skipped without a trace.
Read(n, p, c) ==
    /\ Between(c, n, p)
    /\ task[c][n] = "open"
    /\ Arrived(c, n, p, "Encrypted") \/ Arrived(c, n, p, "FileChunk")
    /\ wire' = Popped(c, p)
    /\ UNCHANGED <<env, maps, link, task, broken>>

(***************************************************************************)
(* Teardown of a read loop: remove_peer, then conns.remove, two locks.     *)
(***************************************************************************)
RemovePeerNever(n, p) == peers                \* variant: the peer stays known
RemovePeer(n, p) == [peers EXCEPT ![n] = @ \ {p}]

UnregisterNever(n, p) == conns                \* variant: the Sender stays registered
Unregister(n, p) == [conns EXCEPT ![n][p] = NoConn]

ReadEof(n, p, c) ==
    /\ Between(c, n, p)
    /\ task[c][n] = "open"
    /\ Eof(c, n, p)
    /\ task' = [task EXCEPT ![c][n] = "leaving"]
    /\ peers' = RemovePeer(n, p)
    /\ UNCHANGED <<env, ciphers, conns, held, reap, link, wire, broken>>

\* Variant: the key of the connection goes with its entry.
LeaveForgettingKey(n, p, c) ==
    /\ Between(c, n, p)
    /\ task[c][n] = "leaving"
    /\ Finish(c, n, p)
    /\ conns' = Unregister(n, p)
    /\ ciphers' = [ciphers EXCEPT ![n][p] = NoConn]
    /\ UNCHANGED <<env, peers, held, reap, link>>

\* The entry is removed whichever connection it belongs to by now.
Leave(n, p, c) ==
    /\ Between(c, n, p)
    /\ task[c][n] = "leaving"
    /\ Finish(c, n, p)
    /\ conns' = Unregister(n, p)
    /\ UNCHANGED <<env, peers, ciphers, held, reap, link>>

(***************************************************************************)
(* The stale-peer reaper: it lists the peers not heard of for 15 s, then   *)
(* removes each from `peers` and from `conns` without looking again.  A     *)
(* running peer is stale only when the network has lost its Hellos.        *)
(***************************************************************************)
StaleNever(n, p) == FALSE                     \* variant: the age is never above 15 s
Stale(n, p) == MayFail({n, p})

ReapCollect(n, p) ==
    /\ p \in peers[n] /\ reap[n][p] = "no"
    /\ Stale(n, p)
    /\ reap' = [reap EXCEPT ![n][p] = "listed"]
    /\ UNCHANGED <<alive, late, peers, ciphers, conns, held, link, task, wire, broken>>

ReapPeer(n, p) ==
    /\ reap[n][p] = "listed"
    /\ peers' = RemovePeer(n, p)
    /\ reap' = [reap EXCEPT ![n][p] = "gone"]
    /\ UNCHANGED <<env, ciphers, conns, held, link, task, wire, broken>>

ReapConn(n, p) ==
    /\ reap[n][p] = "gone"
    /\ conns' = Unregister(n, p)
    /\ reap' = [reap EXCEPT ![n][p] = "no"]
    /\ UNCHANGED <<env, peers, ciphers, held, link, task, wire, broken>>

(***************************************************************************)
(* The environment: connections that break and nodes that exit.            *)
(***************************************************************************)
\* Reads and writes fail from now on and unread packets are lost: a network
\* failure, or the reset a peer's exit causes.
Break(c) ==
    /\ c \notin broken
    /\ MayFail(link[c])
    /\ \E n \in Node : task[c][n] \notin {"none", "connecting", "done"}
    /\ broken' = broken \cup {c}
    /\ wire' = [wire EXCEPT ![c] = [n \in Node |-> <<>>]]
    /\ UNCHANGED <<alive, late, maps, link, task>>

\* The process ends: its maps and tasks vanish, what it has sent may still be
\* read, and its last Hello may still be queued at the others.
Exit(n) ==
    /\ n \in Leavers \cap alive
    /\ alive' = alive \ {n}
    /\ late' = {h \in late \cup {<<m, n>> : m \in Node} :
                    h \in Hears /\ h[1] \in alive /\ h[1] # n}
    /\ peers' = [peers EXCEPT ![n] = {}]
    /\ ciphers' = [ciphers EXCEPT ![n] = [p \in Node |-> NoConn]]
    /\ conns' = [conns EXCEPT ![n] = [p \in Node |-> NoConn]]
    /\ held' = [held EXCEPT ![n] = {}]
    /\ reap' = [reap EXCEPT ![n] = [p \in Node |-> "no"]]
    /\ task' = [c \in Conn |->
                   [task[c] EXCEPT ![n] = IF @ = "none" THEN @ ELSE "done"]]
    /\ wire' = [c \in Conn |->
                   [m \in Node |-> IF n \in link[c] /\ m # n THEN <<>> ELSE wire[c][m]]]
    /\ UNCHANGED <<link, broken, faults>>

(***************************************************************************)
(* The specification                                                       *)
(***************************************************************************)
\* The steps of the task that serves connection c at n.
TaskStep(n, p, c) ==
    \/ Connect(n, p, c)   \/ ConnectFail(n, p, c) \/ DialKey(n, p, c)
    \/ AcceptKex(n, p, c) \/ AcceptKey(n, p, c)   \/ HandshakeFail(n, p, c)
    \/ Register(n, p, c)  \/ Read(n, p, c)
    \/ ReadEof(n, p, c)   \/ Leave(n, p, c)

\* The select loop of n takes a Hello of p.
Discover(n, p) == DropHello(n, p) \/ \E c \in Conn : HearHello(n, p, c)

ReapStep(n, p) == ReapCollect(n, p) \/ ReapPeer(n, p) \/ ReapConn(n, p)

Next ==
    \/ \E n, p \in Node, c \in Conn : TaskStep(n, p, c)
    \/ \E n, p \in Node : \/ Discover(n, p) \/ ReapStep(n, p)
                          \/ Send(n, p) \/ SendFile(n, p)
                          \/ \E c \in Conn : SendChunk(n, p, c)
    \/ \E n \in Node, c \in Conn : ReleaseTx(n, c)
    \/ \E c \in Conn : Break(c)
    \/ \E n \in Node : Exit(n)

Spec == Init /\ [][Next]_vars

\* The runtime polls every task that can move; Hellos are repeated and arrive;
\* a file task ends; the reaper ticks every 5 s.  Nothing makes a node send,
\* exit or lose a connection.
Fairness ==
    \A n \in Node :
        /\ \A p \in Node \ {n} :
             /\ WF_vars(Discover(n, p))
             /\ WF_vars(ReapStep(n, p))
             /\ \A c \in Conn : WF_vars(TaskStep(n, p, c))
        /\ \A c \in Conn : WF_vars(ReleaseTx(n, c))

FairSpec == Spec /\ Fairness

(***************************************************************************)
(* Safety                                                                  *)
(***************************************************************************)
\* Every variable has its type; in particular a node is never its own peer,
\* although its own broadcast reaches it.
TypeOK ==
    /\ alive \subseteq Node
    /\ late \subseteq Node \X Node
    /\ peers \in [Node -> SUBSET Node]
    /\ ciphers \in [Node -> [Node -> Conn \cup {NoConn}]]
    /\ conns \in [Node -> [Node -> Conn \cup {NoConn}]]
    /\ held \in [Node -> SUBSET Conn]
    /\ link \in [Conn -> SUBSET Node]
    /\ task \in [Conn -> [Node -> TaskState]]
    /\ wire \in [Conn -> [Node -> Seq(Packet)]]
    /\ broken \subseteq Conn
    /\ reap \in [Node -> [Node -> {"no", "listed", "gone"}]]
    /\ faults \in 0..MaxFaults
    /\ \A n \in Node : n \notin peers[n]

\* Whoever finds a Sender for a peer also finds a key: broadcast never passes
\* over a registered peer, whatever was torn down and redialled in between.
KeyBeforeConn ==
    \A n, p \in Node : conns[n][p] \in Conn => ciphers[n][p] \in Conn

\* A registered Sender always belongs to a connection with that peer whose read
\* loop still runs, so the entry will be removed when the connection ends: no
\* overlap of teardown, reaper, replacement and exit leaves a dead Sender behind.
NoDeadSender ==
    \A n, p \in Node, c \in Conn : conns[n][p] = c =>
        Between(c, n, p) /\ task[c][n] \in {"open", "leaving"}

\* A key stored for p comes from a connection with p whose handshake p has
\* joined, on the side it is on: a dialled key has been acknowledged.
KeyAgreed ==
    \A n, p \in Node, k \in Conn : ciphers[n][p] = k =>
        /\ Between(k, n, p)
        /\ task[k][n] \in Keyed
        /\ task[k][p] \in Answered

\* What is encrypted on a connection is encrypted with that connection's own key.
PerConnectionKey ==
    \A c \in Conn, n \in Node : \A i \in DOMAIN wire[c][n] :
        wire[c][n][i].type = "Encrypted" => wire[c][n][i].key = c

\* Whatever encrypted packet a running read loop takes next can be decrypted, while
\* chunks of files, in the clear, come in between on the same connection.
HeadDecrypts ==
    \A c \in Conn, n, p \in Node :
        Between(c, n, p) /\ task[c][n] = "open" /\ Arrived(c, n, p, "Encrypted")
            => Head(wire[c][p]).key = ciphers[n][p]

\* The connections n serves: its read loop runs or has not removed its entry yet.
Serving == {s \in Node \X Node \X Conn :
               /\ Between(s[3], s[1], s[2])
               /\ task[s[3]][s[1]] \in {"open", "leaving"}}

Promise == INSTANCE Registry WITH key <- ciphers, sender <- conns, serving <- Serving

\* Discovery, crossing handshakes, teardowns, the reaper, failures and exits
\* together do nothing to the two maps that Registry does not allow.
ImplementsRegistry == Promise!Spec

(***************************************************************************)
(* Liveness                                                                *)
(***************************************************************************)
Discoverable(n, p) == n # p /\ (<<n, p>> \in Hears \/ <<p, n>> \in Hears)

Connected(n, p) == conns[n][p] \in Conn /\ conns[p][n] \in Conn

\* Of two running nodes of which one hears the other, each has a Sender for the
\* other again and again, however often crossing dials tear connections down.
Reconnects ==
    \A n, p \in Node : Discoverable(n, p) =>
        []<>(~({n, p} \subseteq alive) \/ conns[n][p] \in Conn)

\* Two running nodes of which one hears the other end up connected for good.
StaysConnected ==
    \A n, p \in Node : Discoverable(n, p) =>
        <>[](~({n, p} \subseteq alive) \/ Connected(n, p))

Orphan(n, p, c) ==
    /\ Between(c, n, p) /\ task[c][n] = "open"
    /\ task[c][p] \in {"open", "leaving", "done"} /\ conns[p][n] # c

\* A connection that its peer has no longer registered is closed in the end, when
\* the peer's file tasks have let go of it: no read loop waits for ever on a
\* connection that no message can come on.
OrphansClose ==
    \A n, p \in Node, c \in Conn : []<>~Orphan(n, p, c)

\* A node that exits is forgotten for good by the others, both in `peers` and in
\* `conns`, although its last Hello may still be taken from a queue later.
DepartedForgotten ==
    \A n, p \in Node : <>(p \notin alive) =>
        <>[](p \notin peers[n] /\ conns[n][p] = NoConn)
=============================================================================
