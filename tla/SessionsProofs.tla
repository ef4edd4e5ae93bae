--------------------------- MODULE SessionsProofs ---------------------------
(***************************************************************************)
(* Proofs about Sessions for every set of nodes and connection slots.      *)
(***************************************************************************)
EXTENDS Sessions, TLAPS

\* A packet put on a well-typed wire leaves it well typed.
LEMMA PostedType ==
    ASSUME NEW w \in [Conn -> [Node -> Seq(Packet)]],
           NEW c \in Conn, NEW n \in Node, NEW p \in Node,
           NEW type, NEW key, [type |-> type, key |-> key] \in Packet
    PROVE  Posted(w, c, n, p, type, key) \in [Conn -> [Node -> Seq(Packet)]]
<1>1. Append(w[c][n], [type |-> type, key |-> key]) \in Seq(Packet)
  OBVIOUS
<1>2. QED
  BY <1>1 DEF Posted

\* Every step preserves the types, and no node becomes its own peer.
LEMMA TypeStep == TypeOK /\ [Next]_vars => TypeOK'
<1> SUFFICES ASSUME TypeOK, [Next]_vars PROVE TypeOK'
  OBVIOUS
<1> USE SessionsAssumption DEF TypeOK, TaskState, Packet
<1>1. ASSUME NEW n \in Node, NEW p \in Node, NEW c \in Conn, HearHello(n, p, c)
      PROVE  TypeOK'
  <2>1. /\ peers' \in [Node -> SUBSET Node]
        /\ \A m \in Node : m \notin peers'[m]
    BY <1>1 DEF HearHello, NotOwnHello
  <2>2. link' \in [Conn -> SUBSET Node] /\ task' \in [Conn -> [Node -> TaskState]]
    BY <1>1 DEF HearHello
  <2>3. wire' \in [Conn -> [Node -> Seq(Packet)]]
    <3>1. <<>> \in Seq(Packet)
      OBVIOUS
    <3>2. QED
      BY <1>1, <3>1 DEF HearHello
  <2>4. QED
    BY <1>1, <2>1, <2>2, <2>3 DEF HearHello
<1>2. ASSUME NEW n \in Node, NEW p \in Node, NEW c \in Conn, Connect(n, p, c)
      PROVE  TypeOK'
  <2>1. task' \in [Conn -> [Node -> TaskState]]
    BY <1>2 DEF Connect
  <2>2. <<[type |-> "KeyExchange", key |-> c]>> \in Seq(Packet)
    OBVIOUS
  <2>3. wire' \in [Conn -> [Node -> Seq(Packet)]]
    BY <1>2, <2>2 DEF Connect
  <2>4. QED
    BY <1>2, <2>1, <2>3 DEF Connect, env, maps
<1>3. ASSUME NEW n \in Node, NEW p \in Node, NEW c \in Conn, ConnectFail(n, p, c)
      PROVE  TypeOK'
  <2>1. faults' \in 0..MaxFaults
    BY <1>3 DEF ConnectFail, MayFail
  <2>2. QED
    BY <1>3, <2>1 DEF ConnectFail, Finish, maps
<1>4. ASSUME NEW n \in Node, NEW p \in Node, NEW c \in Conn, DialKey(n, p, c)
      PROVE  TypeOK'
  BY <1>4 DEF DialKey, Arrived, Popped, env
<1>5. ASSUME NEW n \in Node, NEW p \in Node, NEW c \in Conn, AcceptKex(n, p, c)
      PROVE  TypeOK'
  BY <1>5 DEF AcceptKex, Arrived, Popped, Posted, env, maps
<1>6. ASSUME NEW n \in Node, NEW p \in Node, NEW c \in Conn, AcceptKey(n, p, c)
      PROVE  TypeOK'
  BY <1>6 DEF AcceptKey, env
<1>7. ASSUME NEW n \in Node, NEW p \in Node, NEW c \in Conn, HandshakeFail(n, p, c)
      PROVE  TypeOK'
  BY <1>7 DEF HandshakeFail, Finish, env, maps
<1>8. ASSUME NEW n \in Node, NEW p \in Node, NEW c \in Conn, Register(n, p, c)
      PROVE  TypeOK'
  BY <1>8 DEF Register, env
<1>9. ASSUME NEW n \in Node, NEW p \in Node, NEW c \in Conn, Read(n, p, c)
      PROVE  TypeOK'
  BY <1>9 DEF Read, Arrived, Popped, env, maps
<1>10. ASSUME NEW n \in Node, NEW p \in Node, NEW c \in Conn, ReadEof(n, p, c)
       PROVE  TypeOK'
  BY <1>10 DEF ReadEof, RemovePeer, env
<1>11. ASSUME NEW n \in Node, NEW p \in Node, NEW c \in Conn, Leave(n, p, c)
       PROVE  TypeOK'
  BY <1>11 DEF Leave, Finish, Unregister, env
<1>12. ASSUME NEW n \in Node, NEW p \in Node, DropHello(n, p)
       PROVE  TypeOK'
  BY <1>12 DEF DropHello, maps
<1>13. ASSUME NEW n \in Node, NEW p \in Node, Send(n, p)
       PROVE  TypeOK'
  <2>1. wire' \in [Conn -> [Node -> Seq(Packet)]]
    <3>1. [type |-> "Encrypted", key |-> ciphers[n][p]] \in Packet /\ conns[n][p] \in Conn
      BY <1>13 DEF Send, Reachable
    <3>2. QED
      BY <1>13, <3>1, PostedType DEF Send
  <2>2. QED
    BY <1>13, <2>1 DEF Send, env, maps
<1>14. ASSUME NEW n \in Node, NEW p \in Node, SendFile(n, p)
       PROVE  TypeOK'
  <2>1. wire' \in [Conn -> [Node -> Seq(Packet)]]
    <3>1. [type |-> "Encrypted", key |-> ciphers[n][p]] \in Packet /\ conns[n][p] \in Conn
      BY <1>14 DEF SendFile, Reachable
    <3>2. QED
      BY <1>14, <3>1, PostedType DEF SendFile
  <2>2. QED
    BY <1>14, <2>1 DEF SendFile, Reachable, env
<1>15. ASSUME NEW n \in Node, NEW p \in Node, ReapStep(n, p)
       PROVE  TypeOK'
  <2>1. CASE ReapCollect(n, p)
    <3>1. faults' \in 0..MaxFaults
      BY <2>1 DEF ReapCollect, Stale, MayFail
    <3>2. QED
      BY <2>1, <3>1 DEF ReapCollect
  <2>2. CASE ReapPeer(n, p)
    BY <2>2 DEF ReapPeer, RemovePeer, env
  <2>3. CASE ReapConn(n, p)
    BY <2>3 DEF ReapConn, Unregister, env
  <2>4. QED
    BY <1>15, <2>1, <2>2, <2>3 DEF ReapStep
<1>16. ASSUME NEW n \in Node, NEW c \in Conn, ReleaseTx(n, c)
       PROVE  TypeOK'
  BY <1>16 DEF ReleaseTx, env
<1>17. ASSUME NEW c \in Conn, Break(c)
       PROVE  TypeOK'
  BY <1>17 DEF Break, MayFail, maps
<1>18. ASSUME NEW n \in Node, Exit(n)
       PROVE  TypeOK'
  <2>1. late' \subseteq Node \X Node
    BY <1>18 DEF Exit
  <2>2. task' \in [Conn -> [Node -> TaskState]]
    BY <1>18 DEF Exit
  <2>3. wire' \in [Conn -> [Node -> Seq(Packet)]]
    <3>1. <<>> \in Seq(Packet)
      OBVIOUS
    <3>2. QED
      BY <1>18, <3>1 DEF Exit
  <2>4. /\ peers' \in [Node -> SUBSET Node]
        /\ \A m \in Node : m \notin peers'[m]
    BY <1>18 DEF Exit
  <2>5. /\ ciphers' \in [Node -> [Node -> Conn \cup {NoConn}]]
        /\ conns' \in [Node -> [Node -> Conn \cup {NoConn}]]
    BY <1>18 DEF Exit
  <2>6. /\ held' \in [Node -> SUBSET Conn]
        /\ reap' \in [Node -> [Node -> {"no", "listed", "gone"}]]
    BY <1>18 DEF Exit
  <2>7. /\ alive' \subseteq Node /\ link' \in [Conn -> SUBSET Node]
        /\ broken' \subseteq Conn /\ faults' \in 0..MaxFaults
    BY <1>18 DEF Exit
  <2>8. QED
    BY <2>1, <2>2, <2>3, <2>4, <2>5, <2>6, <2>7
<1>19. ASSUME NEW n \in Node, NEW p \in Node, NEW c \in Conn, SendChunk(n, p, c)
       PROVE  TypeOK'
  <2>1. wire' \in [Conn -> [Node -> Seq(Packet)]]
    <3>1. [type |-> "FileChunk", key |-> NoConn] \in Packet
      OBVIOUS
    <3>2. QED
      BY <1>19, <3>1, PostedType DEF SendChunk
  <2>2. QED
    BY <1>19, <2>1 DEF SendChunk, env, maps
<1>20. CASE UNCHANGED vars
  BY <1>20 DEF vars
<1>21. QED
  BY <1>1, <1>2, <1>3, <1>4, <1>5, <1>6, <1>7, <1>8, <1>9, <1>10, <1>11, <1>12,
     <1>13, <1>14, <1>15, <1>16, <1>17, <1>18, <1>19, <1>20
     DEF Next, Discover, TaskStep

-----------------------------------------------------------------------------
(***************************************************************************)
(* The inductive invariant.  The properties alone are not inductive: what  *)
(* a step may do at one end of a connection depends on how far the other   *)
(* end has come, and on what is still on the wire.                         *)
(***************************************************************************)
\* The two ends of a handshake stay in step.
InStep ==
    \A c \in Conn, n, p \in Node : Between(c, n, p) =>
        /\ task[c][n] = "connecting" => task[c][p] = "none"
        /\ task[c][n] \in {"listening", "acked"} => task[c][p] \in Answered

\* An end about to register its Sender has stored a key.
KeyedHasKey ==
    \A c \in Conn, n, p \in Node :
        Between(c, n, p) /\ task[c][n] = "keyed" => ciphers[n][p] \in Conn

\* Whoever has put anything but its KeyExchange on a wire has answered.
AnswersOnly ==
    \A c \in Conn, n \in Node : task[c][n] \notin Answered =>
        \A i \in 1..Len(wire[c][n]) : wire[c][n][i].type = "KeyExchange"

\* A file task holds the Sender of a connection whose handshake is over.
HeldKeyed ==
    \A n \in Node : \A c \in held[n] : task[c][n] \in Keyed

IInv == /\ TypeOK /\ NoDeadSender /\ KeyBeforeConn /\ KeyAgreed
        /\ InStep /\ KeyedHasKey /\ HeldKeyed /\ AnswersOnly

\* Which steps change `link` and `task`.
LEMMA TaskSteps ==
    ASSUME [Next]_vars
    PROVE  \/ UNCHANGED <<link, task>>
           \/ \E n, p \in Node, c \in Conn : \/ HearHello(n, p, c) \/ Connect(n, p, c)
                \/ ConnectFail(n, p, c) \/ HandshakeFail(n, p, c) \/ DialKey(n, p, c)
                \/ AcceptKex(n, p, c) \/ AcceptKey(n, p, c) \/ Register(n, p, c)
                \/ ReadEof(n, p, c) \/ Leave(n, p, c)
           \/ \E n \in Node : Exit(n)
<1>1. ASSUME NEW n \in Node, NEW p \in Node, NEW c \in Conn, TaskStep(n, p, c),
             ~Read(n, p, c)
      PROVE  \/ Connect(n, p, c) \/ ConnectFail(n, p, c) \/ HandshakeFail(n, p, c)
             \/ DialKey(n, p, c) \/ AcceptKex(n, p, c) \/ AcceptKey(n, p, c)
             \/ Register(n, p, c) \/ ReadEof(n, p, c) \/ Leave(n, p, c)
  BY <1>1 DEF TaskStep
<1>2. ASSUME NEW n \in Node, NEW p \in Node, NEW c \in Conn, Read(n, p, c)
      PROVE  UNCHANGED <<link, task>>
  BY <1>2 DEF Read
<1>3. ASSUME NEW n \in Node, NEW p \in Node,
             \/ DropHello(n, p) \/ Send(n, p) \/ SendFile(n, p)
             \/ \E c \in Conn : SendChunk(n, p, c)
      PROVE  UNCHANGED <<link, task>>
  BY <1>3 DEF DropHello, Send, SendFile, SendChunk
<1>4. ASSUME NEW n \in Node, NEW p \in Node, ReapStep(n, p)
      PROVE  UNCHANGED <<link, task>>
  BY <1>4 DEF ReapStep, ReapCollect, ReapPeer, ReapConn
<1>5. ASSUME NEW n \in Node, NEW c \in Conn, ReleaseTx(n, c)
      PROVE  UNCHANGED <<link, task>>
  BY <1>5 DEF ReleaseTx
<1>6. ASSUME NEW c \in Conn, Break(c)
      PROVE  UNCHANGED <<link, task>>
  BY <1>6 DEF Break
<1>7. CASE UNCHANGED vars
  BY <1>7 DEF vars
<1>8. QED
  BY <1>1, <1>2, <1>3, <1>4, <1>5, <1>6, <1>7 DEF Next, Discover

\* A connection has one other end.
LEMMA OneOtherEnd ==
    ASSUME NEW c, NEW n, NEW p, NEW q, Between(c, n, p), Between(c, n, q)
    PROVE  p = q
BY DEF Between

\* Every step keeps the two ends of a handshake in step.
LEMMA InStepStep == IInv /\ [Next]_vars => InStep'
<1> SUFFICES ASSUME IInv, [Next]_vars PROVE InStep'
  OBVIOUS
<1> USE DEF IInv, TypeOK, InStep, Between, Answered, Keyed
<1>1. ASSUME NEW n \in Node, NEW p \in Node, NEW c \in Conn, HearHello(n, p, c)
      PROVE  InStep'
  <2>1. \A m \in Node : task'[c][m] = IF m = n THEN "connecting" ELSE "none"
    BY <1>1 DEF HearHello
  <2>2. ASSUME NEW d \in Conn \ {c}
        PROVE  task'[d] = task[d] /\ link'[d] = link[d]
    BY <1>1 DEF HearHello
  <2> SUFFICES ASSUME NEW d \in Conn, NEW a \in Node, NEW b \in Node, Between(d, a, b)'
               PROVE  /\ task'[d][a] = "connecting" => task'[d][b] = "none"
                      /\ task'[d][a] \in {"listening", "acked"} => task'[d][b] \in Answered
    OBVIOUS
  <2>3. CASE d = c
    BY <1>1, <2>1, <2>3 DEF HearHello
  <2>4. CASE d # c
    <3>1. Between(d, a, b) /\ task'[d] = task[d]
      BY <2>2, <2>4
    <3>2. InStep
      OBVIOUS
    <3>3. QED
      BY ONLY <3>1, <3>2 DEF InStep, Between
  <2>5. QED
    BY <2>3, <2>4
<1>2. ASSUME NEW n \in Node, NEW p \in Node, NEW c \in Conn, Connect(n, p, c)
      PROVE  InStep'
  <2>1. task'[c][n] = "kexSent" /\ task'[c][p] = "listening" /\ link'[c] = {n, p} /\ n # p
    BY <1>2 DEF Connect
  <2>2. ASSUME NEW d \in Conn \ {c}
        PROVE  task'[d] = task[d] /\ link'[d] = link[d]
    BY <1>2 DEF Connect
  <2> SUFFICES ASSUME NEW d \in Conn, NEW a \in Node, NEW b \in Node, Between(d, a, b)'
               PROVE  /\ task'[d][a] = "connecting" => task'[d][b] = "none"
                      /\ task'[d][a] \in {"listening", "acked"} => task'[d][b] \in Answered
    OBVIOUS
  <2>3. CASE d = c
    BY <2>1, <2>3
  <2>4. CASE d # c
    <3>1. Between(d, a, b) /\ task'[d] = task[d]
      BY <2>2, <2>4
    <3>2. InStep
      OBVIOUS
    <3>3. QED
      BY ONLY <3>1, <3>2 DEF InStep, Between
  <2>5. QED
    BY <2>3, <2>4
<1>3. ASSUME NEW n \in Node, NEW p \in Node, NEW c \in Conn, ConnectFail(n, p, c)
      PROVE  InStep'
  BY <1>3 DEF ConnectFail, Finish
<1>4. ASSUME NEW n \in Node, NEW p \in Node, NEW c \in Conn, DialKey(n, p, c)
      PROVE  InStep'
  BY <1>4 DEF DialKey
<1>5. ASSUME NEW n \in Node, NEW p \in Node, NEW c \in Conn, AcceptKex(n, p, c)
      PROVE  InStep'
  BY <1>5 DEF AcceptKex
<1>6. ASSUME NEW n \in Node, NEW p \in Node, NEW c \in Conn, AcceptKey(n, p, c)
      PROVE  InStep'
  BY <1>6 DEF AcceptKey
<1>7. ASSUME NEW n \in Node, NEW p \in Node, NEW c \in Conn, HandshakeFail(n, p, c)
      PROVE  InStep'
  BY <1>7 DEF HandshakeFail, Finish
<1>8. ASSUME NEW n \in Node, NEW p \in Node, NEW c \in Conn, Register(n, p, c)
      PROVE  InStep'
  BY <1>8 DEF Register, HandshakeDone
<1>9. ASSUME NEW n \in Node, NEW p \in Node, NEW c \in Conn, ReadEof(n, p, c)
      PROVE  InStep'
  BY <1>9 DEF ReadEof
<1>10. ASSUME NEW n \in Node, NEW p \in Node, NEW c \in Conn, Leave(n, p, c)
       PROVE  InStep'
  BY <1>10 DEF Leave, Finish
<1>11. ASSUME NEW n \in Node, Exit(n)
       PROVE  InStep'
  BY <1>11 DEF Exit
<1>12. CASE UNCHANGED <<link, task>>
  BY <1>12
<1>13. QED
  BY <1>1, <1>2, <1>3, <1>4, <1>5, <1>6, <1>7, <1>8, <1>9, <1>10, <1>11, <1>12, TaskSteps

\* Which steps change `conns` and `ciphers`.
LEMMA MapSteps ==
    ASSUME [Next]_vars
    PROVE  \/ UNCHANGED <<conns, ciphers>>
           \/ \E n, p \in Node, c \in Conn : \/ DialKey(n, p, c) \/ AcceptKey(n, p, c)
                                            \/ Register(n, p, c) \/ Leave(n, p, c)
           \/ \E n, p \in Node : ReapConn(n, p)
           \/ \E n \in Node : Exit(n)
<1> USE DEF env, maps
<1>1. ASSUME NEW n \in Node, NEW p \in Node, NEW c \in Conn, TaskStep(n, p, c),
             ~DialKey(n, p, c), ~AcceptKey(n, p, c), ~Register(n, p, c), ~Leave(n, p, c)
      PROVE  UNCHANGED <<conns, ciphers>>
  BY <1>1 DEF TaskStep, Connect, ConnectFail, AcceptKex, HandshakeFail, Read, ReadEof
<1>2. ASSUME NEW n \in Node, NEW p \in Node, Discover(n, p)
      PROVE  UNCHANGED <<conns, ciphers>>
  BY <1>2 DEF Discover, DropHello, HearHello
<1>3. ASSUME NEW n \in Node, NEW p \in Node, ReapStep(n, p), ~ReapConn(n, p)
      PROVE  UNCHANGED <<conns, ciphers>>
  BY <1>3 DEF ReapStep, ReapCollect, ReapPeer
<1>4. ASSUME NEW n \in Node, NEW p \in Node,
             Send(n, p) \/ SendFile(n, p) \/ \E c \in Conn : SendChunk(n, p, c)
      PROVE  UNCHANGED <<conns, ciphers>>
  BY <1>4 DEF Send, SendFile, SendChunk
<1>5. ASSUME NEW n \in Node, NEW c \in Conn, ReleaseTx(n, c)
      PROVE  UNCHANGED <<conns, ciphers>>
  BY <1>5 DEF ReleaseTx
<1>6. ASSUME NEW c \in Conn, Break(c)
      PROVE  UNCHANGED <<conns, ciphers>>
  BY <1>6 DEF Break
<1>7. CASE UNCHANGED vars
  BY <1>7 DEF vars
<1>8. QED
  BY <1>1, <1>2, <1>3, <1>4, <1>5, <1>6, <1>7 DEF Next

\* A slot in use keeps its ends, and each end only moves forward: a stored key
\* and a joined handshake are never taken back, and a read loop stops running
\* only in its own last step or when its node exits.
LEMMA Onward ==
    ASSUME IInv, [Next]_vars, NEW k \in Conn, NEW a \in Node, ~Unused(k)
    PROVE  /\ link'[k] = link[k]
           /\ task[k][a] \in Keyed => task'[k][a] \in Keyed
           /\ task[k][a] \in Answered => task'[k][a] \in Answered
           /\ task[k][a] \in {"open", "leaving"} =>
                 \/ task'[k][a] \in {"open", "leaving"}
                 \/ \E p \in Node : Leave(a, p, k)
                 \/ Exit(a)
<1> DEFINE Kept == /\ link'[k] = link[k]
                   /\ task[k][a] \in Keyed => task'[k][a] \in Keyed
                   /\ task[k][a] \in Answered => task'[k][a] \in Answered
                   /\ task[k][a] \in {"open", "leaving"} =>
                         \/ task'[k][a] \in {"open", "leaving"}
                         \/ \E p \in Node : Leave(a, p, k)
                         \/ Exit(a)
<1> USE DEF Keyed, Answered
<1>1. /\ task \in [Conn -> [Node -> TaskState]] /\ link \in [Conn -> SUBSET Node]
      /\ InStep
  BY DEF IInv, TypeOK
<1>2. ASSUME NEW n \in Node, NEW p \in Node, NEW c \in Conn, HearHello(n, p, c)
      PROVE  Kept
  BY <1>1, <1>2 DEF HearHello
<1>3. ASSUME NEW n \in Node, NEW p \in Node, NEW c \in Conn, Connect(n, p, c)
      PROVE  Kept
  BY <1>1, <1>3 DEF Connect, TypeOK, InStep
<1>4. ASSUME NEW n \in Node, NEW p \in Node, NEW c \in Conn,
             ConnectFail(n, p, c) \/ HandshakeFail(n, p, c)
      PROVE  Kept
  BY <1>1, <1>4 DEF ConnectFail, HandshakeFail, Finish
<1>5. ASSUME NEW n \in Node, NEW p \in Node, NEW c \in Conn,
             DialKey(n, p, c) \/ AcceptKex(n, p, c) \/ AcceptKey(n, p, c)
      PROVE  Kept
  BY <1>1, <1>5 DEF DialKey, AcceptKex, AcceptKey
<1>6. ASSUME NEW n \in Node, NEW p \in Node, NEW c \in Conn,
             Register(n, p, c) \/ ReadEof(n, p, c)
      PROVE  Kept
  BY <1>1, <1>6 DEF Register, ReadEof, HandshakeDone
<1>7. ASSUME NEW n \in Node, NEW p \in Node, NEW c \in Conn, Leave(n, p, c)
      PROVE  Kept
  <2>1. CASE k = c /\ a = n
    BY <1>1, <1>7, <2>1 DEF Leave, Finish
  <2>2. CASE ~(k = c /\ a = n)
    BY <1>1, <1>7, <2>2 DEF Leave, Finish
  <2>3. QED
    BY <2>1, <2>2
<1>8. ASSUME NEW n \in Node, Exit(n)
      PROVE  Kept
  <2>1. CASE a = n
    BY <1>1, <1>8, <2>1 DEF Exit
  <2>2. CASE a # n
    BY <1>1, <1>8, <2>2 DEF Exit
  <2>3. QED
    BY <2>1, <2>2
<1>9. CASE UNCHANGED <<link, task>>
  BY <1>9
<1>10. QED
  BY <1>2, <1>3, <1>4, <1>5, <1>6, <1>7, <1>8, <1>9, TaskSteps

\* Every step keeps registered Senders on connections with a running read loop.
LEMMA NoDeadSenderStep == IInv /\ [Next]_vars => NoDeadSender'
<1> SUFFICES ASSUME IInv, [Next]_vars,
                    NEW a \in Node, NEW b \in Node, NEW d \in Conn, conns'[a][b] = d
             PROVE  Between(d, a, b)' /\ task'[d][a] \in {"open", "leaving"}
  BY DEF NoDeadSender
<1> USE SessionsAssumption
<1>1. TypeOK
  BY DEF IInv
<1>2. CASE conns[a][b] = d
  <2>1. Between(d, a, b) /\ task[d][a] \in {"open", "leaving"}
    BY <1>2 DEF IInv, NoDeadSender
  <2>2. ~Unused(d)
    BY <1>2 DEF Unused
  <2>3. ASSUME NEW p \in Node, Leave(a, p, d)
        PROVE  FALSE
    <3>1. p = b
      BY <2>1, <2>3, OneOtherEnd DEF Leave
    <3>2. conns'[a][b] = NoConn
      BY <1>1, <2>3, <3>1 DEF Leave, Unregister, TypeOK
    <3>3. QED
      BY <3>2
  <2>4. ASSUME Exit(a)
        PROVE  FALSE
    BY <1>1, <2>4 DEF Exit, TypeOK
  <2>5. QED
    BY <2>1, <2>2, <2>3, <2>4, Onward DEF Between
<1>3. CASE conns[a][b] # d
  <2>1. PICK n \in Node, p \in Node, c \in Conn : Register(n, p, c)
    <3>1. ASSUME NEW n \in Node, NEW p \in Node, NEW c \in Conn,
                 DialKey(n, p, c) \/ AcceptKey(n, p, c) \/ Leave(n, p, c)
          PROVE  FALSE
      <4>1. conns' = conns \/ conns' = [conns EXCEPT ![n][p] = NoConn]
        BY <3>1 DEF DialKey, AcceptKey, Leave, Unregister
      <4>2. conns \in [Node -> [Node -> Conn \cup {NoConn}]]
        BY <1>1 DEF TypeOK
      <4>3. CASE conns' = conns
        BY <1>3, <4>3
      <4>4. CASE conns' = [conns EXCEPT ![n][p] = NoConn]
        BY <1>3, <4>2, <4>4
      <4>5. QED
        BY <4>1, <4>3, <4>4
    <3>2. ASSUME NEW n \in Node, NEW p \in Node, ReapConn(n, p)
          PROVE  FALSE
      BY <1>1, <1>3, <3>2 DEF ReapConn, Unregister, TypeOK
    <3>3. ASSUME NEW n \in Node, Exit(n)
          PROVE  FALSE
      BY <1>1, <1>3, <3>3 DEF Exit, TypeOK
    <3>4. QED
      BY <1>3, <3>1, <3>2, <3>3, MapSteps
  <2>2. a = n /\ b = p /\ c = d
    BY <1>1, <1>3, <2>1 DEF Register, TypeOK
  <2>3. QED
    BY <1>1, <2>1, <2>2 DEF Register, Between, TypeOK
<1>4. QED
  BY <1>2, <1>3

\* Every step keeps a key for each registered peer.
LEMMA KeyBeforeConnStep == IInv /\ [Next]_vars => KeyBeforeConn'
<1> SUFFICES ASSUME IInv, [Next]_vars,
                    NEW a \in Node, NEW b \in Node, conns'[a][b] \in Conn
             PROVE  ciphers'[a][b] \in Conn
  BY DEF KeyBeforeConn
<1> USE SessionsAssumption DEF TypeOK
<1>1. TypeOK /\ (conns[a][b] \in Conn => ciphers[a][b] \in Conn)
  BY DEF IInv, KeyBeforeConn
<1>2. ASSUME NEW n \in Node, NEW p \in Node, NEW c \in Conn,
             DialKey(n, p, c) \/ AcceptKey(n, p, c)
      PROVE  ciphers'[a][b] \in Conn
  <2>1. conns' = conns /\ ciphers' = [ciphers EXCEPT ![n][p] = c]
    BY <1>2 DEF DialKey, AcceptKey
  <2>2. QED
    BY <1>1, <2>1
<1>3. ASSUME NEW n \in Node, NEW p \in Node, NEW c \in Conn, Register(n, p, c)
      PROVE  ciphers'[a][b] \in Conn
  <2>1. ciphers[n][p] \in Conn
    BY <1>3 DEF IInv, KeyedHasKey, Register, HandshakeDone
  <2>2. QED
    BY <1>1, <1>3, <2>1 DEF Register
<1>4. ASSUME NEW n \in Node, NEW p \in Node, NEW c \in Conn, Leave(n, p, c)
      PROVE  ciphers'[a][b] \in Conn
  BY <1>1, <1>4 DEF Leave, Unregister
<1>5. ASSUME NEW n \in Node, NEW p \in Node, ReapConn(n, p)
      PROVE  ciphers'[a][b] \in Conn
  BY <1>1, <1>5 DEF ReapConn, Unregister
<1>6. ASSUME NEW n \in Node, Exit(n)
      PROVE  ciphers'[a][b] \in Conn
  BY <1>1, <1>6 DEF Exit
<1>7. CASE UNCHANGED <<conns, ciphers>>
  BY <1>1, <1>7
<1>8. QED
  BY <1>2, <1>3, <1>4, <1>5, <1>6, <1>7, MapSteps

\* Every step keeps stored keys agreed between both ends.
LEMMA KeyAgreedStep == IInv /\ [Next]_vars => KeyAgreed'
<1> SUFFICES ASSUME IInv, [Next]_vars,
                    NEW a \in Node, NEW b \in Node, NEW k \in Conn, ciphers'[a][b] = k
             PROVE  /\ Between(k, a, b)'
                    /\ task'[k][a] \in Keyed
                    /\ task'[k][b] \in Answered
  BY DEF KeyAgreed
<1> USE SessionsAssumption
<1>1. TypeOK
  BY DEF IInv
<1>2. CASE ciphers[a][b] = k
  <2>1. Between(k, a, b) /\ task[k][a] \in Keyed /\ task[k][b] \in Answered
    BY <1>2 DEF IInv, KeyAgreed
  <2>2. ~Unused(k)
    BY <1>2 DEF Unused
  <2>3. QED
    BY <2>1, <2>2, Onward DEF Between
<1>3. CASE ciphers[a][b] # k
  <2>1. PICK n \in Node, p \in Node, c \in Conn : DialKey(n, p, c) \/ AcceptKey(n, p, c)
    <3>1. ASSUME NEW n \in Node, NEW p \in Node, NEW c \in Conn,
                 Register(n, p, c) \/ Leave(n, p, c)
          PROVE  FALSE
      BY <1>3, <3>1 DEF Register, Leave
    <3>2. ASSUME NEW n \in Node, NEW p \in Node, ReapConn(n, p)
          PROVE  FALSE
      BY <1>3, <3>2 DEF ReapConn
    <3>3. ASSUME NEW n \in Node, Exit(n)
          PROVE  FALSE
      BY <1>1, <1>3, <3>3 DEF Exit, TypeOK
    <3>4. QED
      BY <1>3, <3>1, <3>2, <3>3, MapSteps
  <2>2. a = n /\ b = p /\ c = k
    BY <1>1, <1>3, <2>1 DEF DialKey, AcceptKey, TypeOK
  <2>3. task[c][p] \in Answered
    <3>1. CASE AcceptKey(n, p, c)
      BY <3>1 DEF AcceptKey, IInv, InStep
    <3>2. CASE DialKey(n, p, c)
      <4>1. wire[c][p] \in Seq(Packet) /\ wire[c][p] # <<>>
            /\ Head(wire[c][p]).type = "KeyExchangeAck"
        BY <1>1, <3>2 DEF DialKey, Arrived, TypeOK
      <4>2. 1 \in 1..Len(wire[c][p]) /\ wire[c][p][1].type # "KeyExchange"
        BY <4>1
      <4>3. QED
        BY <4>2 DEF IInv, AnswersOnly
    <3>3. QED
      BY <2>1, <3>1, <3>2
  <2>4. QED
    BY <1>1, <2>1, <2>2, <2>3 DEF DialKey, AcceptKey, Between, Keyed, TypeOK
<1>4. QED
  BY <1>2, <1>3

\* Every step keeps a key at an end that is about to register.
LEMMA KeyedHasKeyStep == IInv /\ [Next]_vars => KeyedHasKey'
<1> SUFFICES ASSUME IInv, [Next]_vars PROVE KeyedHasKey'
  OBVIOUS
<1> USE SessionsAssumption DEF IInv, TypeOK, KeyedHasKey, Between
<1>1. ASSUME NEW n \in Node, NEW p \in Node, NEW c \in Conn, HearHello(n, p, c)
      PROVE  KeyedHasKey'
  BY <1>1 DEF HearHello, NotOwnHello, Unused
<1>2. ASSUME NEW n \in Node, NEW p \in Node, NEW c \in Conn, Connect(n, p, c)
      PROVE  KeyedHasKey'
  BY <1>2 DEF Connect, maps
<1>3. ASSUME NEW n \in Node, NEW p \in Node, NEW c \in Conn, ConnectFail(n, p, c)
      PROVE  KeyedHasKey'
  BY <1>3 DEF ConnectFail, Finish, maps
<1>4. ASSUME NEW n \in Node, NEW p \in Node, NEW c \in Conn, DialKey(n, p, c)
      PROVE  KeyedHasKey'
  <2> SUFFICES ASSUME NEW d \in Conn, NEW a \in Node, NEW b \in Node,
                      Between(d, a, b)', task'[d][a] = "keyed"
               PROVE  ciphers'[a][b] \in Conn
    BY DEF KeyedHasKey
  <2>1. Between(d, a, b)
    BY <1>4 DEF DialKey
  <2>2. CASE d = c /\ a = n
    BY <1>4, <2>1, <2>2, OneOtherEnd DEF DialKey
  <2>3. CASE ~(d = c /\ a = n)
    BY <1>4, <2>1, <2>3 DEF DialKey
  <2>4. QED
    BY <2>2, <2>3
<1>5. ASSUME NEW n \in Node, NEW p \in Node, NEW c \in Conn, AcceptKex(n, p, c)
      PROVE  KeyedHasKey'
  BY <1>5 DEF AcceptKex, maps
<1>6. ASSUME NEW n \in Node, NEW p \in Node, NEW c \in Conn, AcceptKey(n, p, c)
      PROVE  KeyedHasKey'
  <2> SUFFICES ASSUME NEW d \in Conn, NEW a \in Node, NEW b \in Node,
                      Between(d, a, b)', task'[d][a] = "keyed"
               PROVE  ciphers'[a][b] \in Conn
    BY DEF KeyedHasKey
  <2>1. Between(d, a, b)
    BY <1>6 DEF AcceptKey
  <2>2. CASE d = c /\ a = n
    BY <1>6, <2>1, <2>2, OneOtherEnd DEF AcceptKey
  <2>3. CASE ~(d = c /\ a = n)
    BY <1>6, <2>1, <2>3 DEF AcceptKey
  <2>4. QED
    BY <2>2, <2>3
<1>7. ASSUME NEW n \in Node, NEW p \in Node, NEW c \in Conn, HandshakeFail(n, p, c)
      PROVE  KeyedHasKey'
  BY <1>7 DEF HandshakeFail, Finish, maps
<1>8. ASSUME NEW n \in Node, NEW p \in Node, NEW c \in Conn, Register(n, p, c)
      PROVE  KeyedHasKey'
  BY <1>8 DEF Register, HandshakeDone
<1>9. ASSUME NEW n \in Node, NEW p \in Node, NEW c \in Conn, ReadEof(n, p, c)
      PROVE  KeyedHasKey'
  BY <1>9 DEF ReadEof
<1>10. ASSUME NEW n \in Node, NEW p \in Node, NEW c \in Conn, Leave(n, p, c)
       PROVE  KeyedHasKey'
  BY <1>10 DEF Leave, Finish
<1>11. ASSUME NEW n \in Node, Exit(n)
       PROVE  KeyedHasKey'
  BY <1>11 DEF Exit
<1>12. CASE UNCHANGED <<ciphers, link, task>>
  BY <1>12
<1>13. QED
  <2>1. ASSUME NEW n \in Node, NEW p \in Node, ReapConn(n, p)
        PROVE  UNCHANGED ciphers
    BY <2>1 DEF ReapConn
  <2>2. CASE UNCHANGED <<link, task>>
    BY <1>4, <1>6, <1>8, <1>10, <1>11, <1>12, <2>1, <2>2, MapSteps
  <2>3. QED
    BY <1>1, <1>2, <1>3, <1>4, <1>5, <1>6, <1>7, <1>8, <1>9, <1>10, <1>11, <2>2, TaskSteps

\* Every step keeps file tasks on connections whose handshake is over.
LEMMA HeldKeyedStep == IInv /\ [Next]_vars => HeldKeyed'
<1> SUFFICES ASSUME IInv, [Next]_vars, NEW a \in Node, NEW d \in held'[a]
             PROVE  task'[d][a] \in Keyed
  BY DEF HeldKeyed
<1>1. TypeOK /\ held \in [Node -> SUBSET Conn]
  BY DEF IInv, TypeOK
<1>2. CASE d \in held[a]
  <2>1. d \in Conn /\ ~Unused(d) /\ task[d][a] \in Keyed
    BY <1>1, <1>2 DEF IInv, HeldKeyed, Unused
  <2>2. QED
    BY <2>1, Onward
<1>3. ASSUME NEW n \in Node, NEW p \in Node, SendFile(n, p), d \notin held[a]
      PROVE  task'[d][a] \in Keyed
  <2>1. a = n /\ d = conns[n][p] /\ d \in Conn /\ task' = task
    BY <1>1, <1>3 DEF SendFile, Reachable
  <2>2. QED
    BY <2>1 DEF IInv, NoDeadSender, Keyed
<1>4. ASSUME d \notin held[a], ~\E n, p \in Node : SendFile(n, p)
      PROVE  FALSE
  <2> USE DEF env, maps
  <2>1. CASE held' = held
    BY <1>4, <2>1
  <2>2. ASSUME NEW n \in Node, NEW p \in Node, NEW c \in Conn, TaskStep(n, p, c)
        PROVE  held' = held
    BY <2>2 DEF TaskStep, Connect, ConnectFail, DialKey, AcceptKex, AcceptKey, HandshakeFail,
                Register, Read, ReadEof, Leave
  <2>3. ASSUME NEW n \in Node, NEW p \in Node, Discover(n, p) \/ ReapStep(n, p)
        PROVE  held' = held
    BY <2>3 DEF Discover, DropHello, HearHello, ReapStep, ReapCollect, ReapPeer, ReapConn
  <2>4. ASSUME NEW n \in Node, NEW p \in Node,
               Send(n, p) \/ \E c \in Conn : SendChunk(n, p, c)
        PROVE  held' = held
    BY <2>4 DEF Send, SendChunk
  <2>5. ASSUME NEW n \in Node, NEW c \in Conn, ReleaseTx(n, c)
        PROVE  FALSE
    BY <1>1, <1>4, <2>5 DEF ReleaseTx
  <2>6. ASSUME NEW c \in Conn, Break(c)
        PROVE  held' = held
    BY <2>6 DEF Break
  <2>7. ASSUME NEW n \in Node, Exit(n)
        PROVE  FALSE
    BY <1>1, <1>4, <2>7 DEF Exit
  <2>8. CASE UNCHANGED vars
    BY <2>1, <2>8 DEF vars
  <2>9. QED
    BY <1>4, <2>1, <2>2, <2>3, <2>4, <2>5, <2>6, <2>7, <2>8 DEF Next
<1>5. QED
  BY <1>2, <1>3, <1>4

\* Every step leaves only KeyExchanges on the wire of an end that has not answered.
LEMMA AnswersOnlyStep == IInv /\ [Next]_vars => AnswersOnly'
<1> SUFFICES ASSUME IInv, [Next]_vars,
                    NEW d \in Conn, NEW a \in Node, task'[d][a] \notin Answered,
                    NEW i \in 1..Len(wire'[d][a])
             PROVE  wire'[d][a][i].type = "KeyExchange"
  BY DEF AnswersOnly
<1> USE DEF Answered, Keyed
<1>1. /\ task \in [Conn -> [Node -> TaskState]]
      /\ wire \in [Conn -> [Node -> Seq(Packet)]]
      /\ task[d][a] \notin Answered =>
            \A j \in 1..Len(wire[d][a]) : wire[d][a][j].type = "KeyExchange"
  BY DEF IInv, TypeOK, AnswersOnly
\* What is left of the wire is a suffix of it, and the end still has not answered.
<1>2. ASSUME task[d][a] \notin Answered,
             \/ wire'[d][a] = wire[d][a]
             \/ wire[d][a] # <<>> /\ wire'[d][a] = Tail(wire[d][a])
             \/ wire'[d][a] = <<>>
      PROVE  wire'[d][a][i].type = "KeyExchange"
  <2>1. wire[d][a] \in Seq(Packet)
    BY <1>1
  <2>2. CASE wire'[d][a] = wire[d][a]
    BY <1>1, <1>2, <2>2
  <2>3. CASE wire[d][a] # <<>> /\ wire'[d][a] = Tail(wire[d][a])
    <3>1. i + 1 \in 1..Len(wire[d][a]) /\ wire'[d][a][i] = wire[d][a][i + 1]
      BY <2>1, <2>3
    <3>2. QED
      BY <1>1, <1>2, <3>1
  <2>4. CASE wire'[d][a] = <<>>
    BY <2>4
  <2>5. QED
    BY <1>2, <2>2, <2>3, <2>4
<1>3. ASSUME NEW n \in Node, NEW p \in Node, NEW c \in Conn, HearHello(n, p, c)
      PROVE  wire'[d][a][i].type = "KeyExchange"
  <2>1. CASE d = c
    BY <1>1, <1>3, <2>1 DEF HearHello
  <2>2. CASE d # c
    BY <1>1, <1>2, <1>3, <2>2 DEF HearHello
  <2>3. QED
    BY <2>1, <2>2
<1>4. ASSUME NEW n \in Node, NEW p \in Node, NEW c \in Conn, Connect(n, p, c)
      PROVE  wire'[d][a][i].type = "KeyExchange"
  <2>1. ~(d = c /\ a = n)
    BY <1>1, <1>4 DEF Connect, Between
  <2>2. wire'[d][a] = wire[d][a]
    BY <1>1, <1>4, <2>1 DEF Connect
  <2>3. task[d][a] \notin Answered
    <3>1. CASE d = c /\ a = p
      BY <1>4, <3>1 DEF IInv, InStep, Connect
    <3>2. CASE ~(d = c /\ a = p)
      BY <1>1, <1>4, <2>1, <3>2 DEF Connect
    <3>3. QED
      BY <3>1, <3>2
  <2>4. QED
    BY <1>2, <2>2, <2>3
<1>5. ASSUME NEW n \in Node, NEW p \in Node, NEW c \in Conn,
             \/ ConnectFail(n, p, c) \/ HandshakeFail(n, p, c) \/ Leave(n, p, c)
      PROVE  wire'[d][a][i].type = "KeyExchange"
  <2>1. /\ task' = [task EXCEPT ![c][n] = "done"]
        /\ wire' = [wire EXCEPT ![c][p] = <<>>]
    BY <1>5 DEF ConnectFail, HandshakeFail, Leave, Finish
  <2>2. task[d][a] \notin Answered
    BY <1>1, <2>1
  <2>3. wire'[d][a] = wire[d][a] \/ wire'[d][a] = <<>>
    BY <1>1, <2>1
  <2>4. QED
    BY <1>2, <2>2, <2>3
<1>6. ASSUME NEW n \in Node, NEW p \in Node, NEW c \in Conn, DialKey(n, p, c) \/ Read(n, p, c)
      PROVE  wire'[d][a][i].type = "KeyExchange"
  <2>1. /\ task' = [task EXCEPT ![c][n] = "keyed"] \/ task' = task
        /\ wire' = [wire EXCEPT ![c][p] = Tail(@)] /\ wire[c][p] # <<>>
    BY <1>6 DEF DialKey, Read, Arrived, Popped
  <2>2. task[d][a] \notin Answered
    BY <1>1, <2>1
  <2>3. wire'[d][a] = wire[d][a] \/ (wire[d][a] # <<>> /\ wire'[d][a] = Tail(wire[d][a]))
    BY <1>1, <2>1
  <2>4. QED
    BY <1>2, <2>2, <2>3
<1>7. ASSUME NEW n \in Node, NEW p \in Node, NEW c \in Conn, AcceptKex(n, p, c)
      PROVE  wire'[d][a][i].type = "KeyExchange"
  <2>1. /\ task' = [task EXCEPT ![c][n] = "acked"]
        /\ wire' = Posted(Popped(c, p), c, n, p, "KeyExchangeAck", c)
        /\ wire[c][p] # <<>>
    BY <1>7 DEF AcceptKex, Arrived
  <2>2. ~(d = c /\ a = n) /\ task[d][a] \notin Answered
    BY <1>1, <2>1
  <2>3. wire'[d][a] = Popped(c, p)[d][a]
    BY <1>1, <2>1, <2>2 DEF Posted, Popped
  <2>4. wire'[d][a] = wire[d][a] \/ (wire[d][a] # <<>> /\ wire'[d][a] = Tail(wire[d][a]))
    BY <1>1, <2>1, <2>3 DEF Popped
  <2>5. QED
    BY <1>2, <2>2, <2>4
<1>8. ASSUME NEW n \in Node, NEW p \in Node, Send(n, p) \/ SendFile(n, p)
      PROVE  wire'[d][a][i].type = "KeyExchange"
  <2>1. /\ task' = task /\ conns[n][p] \in Conn
        /\ wire' = Posted(wire, conns[n][p], n, p, "Encrypted", ciphers[n][p])
    BY <1>8 DEF Send, SendFile, Reachable
  <2>2. task[conns[n][p]][n] \in Answered
    BY <2>1 DEF IInv, NoDeadSender
  <2>3. ~(d = conns[n][p] /\ a = n) /\ task[d][a] \notin Answered
    BY <2>1, <2>2
  <2>4. wire'[d][a] = wire[d][a]
    BY <1>1, <2>1, <2>3 DEF Posted
  <2>5. QED
    BY <1>2, <2>3, <2>4
<1>9. ASSUME NEW n \in Node, NEW p \in Node, NEW c \in Conn, SendChunk(n, p, c)
      PROVE  wire'[d][a][i].type = "KeyExchange"
  <2>1. task' = task /\ c \in held[n] /\ wire' = Posted(wire, c, n, p, "FileChunk", NoConn)
    BY <1>9 DEF SendChunk
  <2>2. task[c][n] \in Answered
    BY <2>1 DEF IInv, HeldKeyed
  <2>3. ~(d = c /\ a = n) /\ task[d][a] \notin Answered
    BY <2>1, <2>2
  <2>4. wire'[d][a] = wire[d][a]
    BY <1>1, <2>1, <2>3 DEF Posted
  <2>5. QED
    BY <1>2, <2>3, <2>4
<1>10. ASSUME NEW c \in Conn, Break(c)
       PROVE  wire'[d][a][i].type = "KeyExchange"
  <2>1. task' = task /\ (wire'[d][a] = wire[d][a] \/ wire'[d][a] = <<>>)
    BY <1>1, <1>10 DEF Break
  <2>2. QED
    BY <1>2, <2>1
<1>11. ASSUME NEW n \in Node, Exit(n)
       PROVE  wire'[d][a][i].type = "KeyExchange"
  <2>1. wire'[d][a] = wire[d][a] \/ wire'[d][a] = <<>>
    BY <1>11 DEF Exit
  <2>2. task[d][a] \notin Answered
    BY <1>1, <1>11 DEF Exit
  <2>3. QED
    BY <1>2, <2>1, <2>2
<1>12. ASSUME NEW n \in Node, NEW p \in Node, NEW c \in Conn,
              AcceptKey(n, p, c) \/ Register(n, p, c) \/ ReadEof(n, p, c)
       PROVE  wire'[d][a][i].type = "KeyExchange"
  <2>1. wire' = wire /\ \E t \in Answered : task' = [task EXCEPT ![c][n] = t]
    BY <1>12 DEF AcceptKey, Register, ReadEof
  <2>2. task[d][a] \notin Answered
    BY <1>1, <2>1
  <2>3. QED
    BY <1>2, <2>1, <2>2
<1>13. CASE UNCHANGED <<task, wire>>
  BY <1>2, <1>13
<1>14. QED
  <2>1. ASSUME NEW n \in Node, NEW p \in Node, DropHello(n, p) \/ ReapStep(n, p)
        PROVE  UNCHANGED <<task, wire>>
    BY <2>1 DEF DropHello, ReapStep, ReapCollect, ReapPeer, ReapConn
  <2>2. ASSUME NEW n \in Node, NEW c \in Conn, ReleaseTx(n, c)
        PROVE  UNCHANGED <<task, wire>>
    BY <2>2 DEF ReleaseTx
  <2>3. CASE UNCHANGED vars
    BY <1>13, <2>3 DEF vars
  <2>4. QED
    BY <1>3, <1>4, <1>5, <1>6, <1>7, <1>8, <1>9, <1>10, <1>11, <1>12, <1>13, <2>1, <2>2, <2>3
       DEF Next, Discover, TaskStep

-----------------------------------------------------------------------------
\* Every step preserves the inductive invariant.
LEMMA Inductive == IInv /\ [Next]_vars => IInv'
BY TypeStep, NoDeadSenderStep, KeyBeforeConnStep, KeyAgreedStep, InStepStep,
   KeyedHasKeyStep, HeldKeyedStep, AnswersOnlyStep DEF IInv

\* The inductive invariant holds initially.
LEMMA Initially == Init => IInv
<1> SUFFICES ASSUME Init PROVE IInv
  OBVIOUS
<1> USE SessionsAssumption
<1>1. TypeOK
  <2>1. <<>> \in Seq(Packet)
    OBVIOUS
  <2>2. QED
    BY <2>1 DEF Init, TypeOK, TaskState
<1>2. NoDeadSender /\ KeyBeforeConn /\ KeyAgreed
  BY DEF Init, NoDeadSender, KeyBeforeConn, KeyAgreed
<1>3. InStep /\ KeyedHasKey /\ HeldKeyed /\ AnswersOnly
  BY DEF Init, InStep, KeyedHasKey, HeldKeyed, AnswersOnly, Between
<1>4. QED
  BY <1>1, <1>2, <1>3 DEF IInv

\* The inductive invariant holds in every reachable state.
THEOREM Invariance == Spec => []IInv
<1>1. Init => IInv
  BY Initially
<1>2. IInv /\ [Next]_vars => IInv'
  BY Inductive
<1>3. QED
  BY <1>1, <1>2, PTL DEF Spec

\* The state keeps its types, and no node becomes its own peer.
THEOREM TypeCorrect == Spec => []TypeOK
<1>1. IInv => TypeOK
  BY DEF IInv
<1>2. QED
  BY <1>1, Invariance, PTL

\* Whoever finds a Sender for a peer finds a key for it, so no broadcast passes
\* over a registered peer (mesh.rs, broadcast and SendFile).
THEOREM SenderHasKey == Spec => []KeyBeforeConn
<1>1. IInv => KeyBeforeConn
  BY DEF IInv
<1>2. QED
  BY <1>1, Invariance, PTL

\* However teardown, reaper, replacement and exit overlap, every registered
\* Sender belongs to a connection whose read loop still runs.
THEOREM SenderIsServed == Spec => []NoDeadSender
<1>1. IInv => NoDeadSender
  BY DEF IInv
<1>2. QED
  BY <1>1, Invariance, PTL

\* Every stored key comes from a handshake both ends have joined.
THEOREM KeyIsShared == Spec => []KeyAgreed
<1>1. IInv => KeyAgreed
  BY DEF IInv
<1>2. QED
  BY <1>1, Invariance, PTL
-----------------------------------------------------------------------------
(***************************************************************************)
(* One-way hearing.  When of two nodes one at most hears the other and the *)
(* network does not fail, two running nodes have one connection at most,   *)
(* which stays until one of them exits: its key is the one they use.       *)
(***************************************************************************)
OneWay == \A n, p \in Node : n # p /\ <<n, p>> \in Hears => <<p, n>> \notin Hears

Both(n, p) == n \in alive /\ p \in alive

\* The tasks of an exited node are gone.
Ended == \A n \in Node \ alive, c \in Conn : task[c][n] \in {"none", "done"}

\* A connection fails, and a peer is stale, only when a node has exited.
Intact == \A c \in broken : ~(link[c] \subseteq alive)
Unlisted == \A n, p \in Node : reap[n][p] # "no" => ~Both(n, p)

\* A connection of two running nodes is being set up or served.
Pair(c, n, p) ==
    Between(c, n, p) /\ Both(n, p) =>
        /\ task[c][n] \notin {"leaving", "done"}
        /\ task[c][n] = "none" => task[c][p] = "connecting"
        /\ task[c][n] = "open" => conns[n][p] = c
        /\ <<n, p>> \in Hears => p \in peers[n]
        /\ <<n, p>> \in Hears \/ <<p, n>> \in Hears
Pairs == \A c \in Conn, n, p \in Node : Pair(c, n, p)

OnePerPair ==
    \A c, d \in Conn, n, p \in Node : Between(c, n, p) /\ Between(d, n, p) /\ Both(n, p) => c = d

\* A node serves one connection with a peer at most, even after the peer's exit,
\* and the key stored is that connection's.
Busy == {"kexSent", "listening", "acked", "keyed", "open", "leaving"}
OneBusy ==
    \A c, d \in Conn, n, p \in Node :
        Between(c, n, p) /\ task[c][n] \in Busy /\ Between(d, n, p) /\ task[d][n] \in Busy
            => c = d
BusyKey ==
    \A c \in Conn, n, p \in Node :
        Between(c, n, p) /\ task[c][n] \in {"keyed", "open", "leaving"} => ciphers[n][p] = c

Calm == /\ Ended /\ Intact /\ Unlisted /\ Pairs /\ OnePerPair /\ OneBusy /\ BusyKey
        /\ PerConnectionKey

\* Nothing fails between two running nodes.
LEMMA NoFault ==
    ASSUME MaxFaults = 0, TypeOK, NEW S, MayFail(S)
    PROVE  ~(S \subseteq alive)
BY DEF MayFail, TypeOK

\* A read returns an error only when a node has exited.
LEMMA NoEof ==
    ASSUME Intact, Pairs, NEW c \in Conn, NEW n \in Node, NEW p \in Node,
           Between(c, n, p), Eof(c, n, p)
    PROVE  ~Both(n, p)
<1>1. CASE c \in broken
  BY <1>1 DEF Intact, Between, Both
<1>2. CASE Shut(c, p, n)
  <2>1. Between(c, p, n)
    BY DEF Between
  <2>2. Pair(c, p, n)
    BY DEF Pairs
  <2>3. QED
    BY <1>2, <2>1, <2>2 DEF Shut, Pair, Both
<1>3. QED
  BY <1>1, <1>2 DEF Eof

\* Which steps change `alive`.
LEMMA AliveSteps ==
    ASSUME [Next]_vars
    PROVE  alive' = alive \/ \E n \in Node : Exit(n)
<1> USE DEF env
<1>1. ASSUME NEW n \in Node, NEW p \in Node, NEW c \in Conn, TaskStep(n, p, c)
      PROVE  alive' = alive
  BY <1>1 DEF TaskStep, Connect, ConnectFail, DialKey, AcceptKex, AcceptKey, HandshakeFail,
              Register, Read, ReadEof, Leave
<1>2. ASSUME NEW n \in Node, NEW p \in Node, Discover(n, p)
      PROVE  alive' = alive
  BY <1>2 DEF Discover, DropHello, HearHello
<1>3. ASSUME NEW n \in Node, NEW p \in Node,
             \/ ReapStep(n, p) \/ Send(n, p) \/ SendFile(n, p)
             \/ \E c \in Conn : SendChunk(n, p, c)
      PROVE  alive' = alive
  BY <1>3 DEF ReapStep, ReapCollect, ReapPeer, ReapConn, Send, SendFile, SendChunk
<1>4. ASSUME NEW n \in Node, NEW c \in Conn, ReleaseTx(n, c)
      PROVE  alive' = alive
  BY <1>4 DEF ReleaseTx
<1>5. ASSUME NEW c \in Conn, Break(c)
      PROVE  alive' = alive
  BY <1>5 DEF Break
<1>6. CASE UNCHANGED vars
  BY <1>6 DEF vars
<1>7. QED
  BY <1>1, <1>2, <1>3, <1>4, <1>5, <1>6 DEF Next

\* The steps of a task, by what they do to it: it is spawned, it goes on, or it
\* ends, the last only when its node or the peer has exited.
Dials(n, p, c) ==
    /\ n \in alive /\ <<n, p>> \in Hears /\ p # n /\ p \notin peers[n] /\ Unused(c)
    /\ peers' = [peers EXCEPT ![n] = @ \cup {p}]
    /\ link' = [link EXCEPT ![c] = {n, p}]
    /\ task' = [task EXCEPT ![c] = [m \in Node |-> IF m = n THEN "connecting" ELSE "none"]]
    /\ UNCHANGED <<alive, conns, ciphers>>
Goes(n, p, c, t) ==
    /\ Between(c, n, p)
    /\ <<task[c][n], t>> \in
          {<<"kexSent", "keyed">>, <<"listening", "acked">>, <<"acked", "keyed">>}
    /\ task' = [task EXCEPT ![c][n] = t]
    /\ ciphers' = IF t = "keyed" THEN [ciphers EXCEPT ![n][p] = c] ELSE ciphers
    /\ UNCHANGED <<alive, link, conns, peers>>
Ends(n, p, c, t) ==
    /\ Between(c, n, p) /\ ~Both(n, p)
    /\ <<task[c][n], t>> \in {<<"connecting", "done">>, <<"kexSent", "done">>,
                              <<"listening", "done">>, <<"open", "leaving">>, <<"leaving", "done">>}
    /\ task' = [task EXCEPT ![c][n] = t]
    /\ peers' \in {peers, RemovePeer(n, p)} /\ conns' \in {conns, Unregister(n, p)}
    /\ UNCHANGED <<alive, link, ciphers>>
\* Neither a connection nor a task changes, and no map but for the reaper.
Rests ==
    /\ UNCHANGED <<alive, link, task, ciphers>>
    /\ \/ UNCHANGED <<conns, peers>>
       \/ \E n, p \in Node : /\ ~Both(n, p)
                             /\ peers' \in {peers, RemovePeer(n, p)}
                             /\ conns' \in {conns, Unregister(n, p)}

\* Every step is one of these, or an exit.
LEMMA CalmSteps ==
    ASSUME MaxFaults = 0, IInv, Calm, [Next]_vars
    PROVE  \/ \E n, p \in Node, c \in Conn :
                 \/ HearHello(n, p, c) /\ Dials(n, p, c)
                 \/ Connect(n, p, c) \/ Register(n, p, c)
                 \/ \E t \in {"keyed", "acked"} : Goes(n, p, c, t)
                 \/ \E t \in {"leaving", "done"} : Ends(n, p, c, t)
           \/ \E n \in Node : Exit(n)
           \/ Rests
<1> DEFINE Goal == \/ \E n, p \in Node, c \in Conn :
                           \/ HearHello(n, p, c) /\ Dials(n, p, c)
                           \/ Connect(n, p, c) \/ Register(n, p, c)
                           \/ \E t \in {"keyed", "acked"} : Goes(n, p, c, t)
                           \/ \E t \in {"leaving", "done"} : Ends(n, p, c, t)
                   \/ \E n \in Node : Exit(n)
                   \/ Rests
<1>0. TypeOK /\ Intact /\ Unlisted /\ Pairs
  BY DEF IInv, Calm
<1>1. ASSUME NEW n \in Node, NEW p \in Node, NEW c \in Conn, TaskStep(n, p, c)
      PROVE  Goal
  <2>1. CASE Connect(n, p, c) \/ Register(n, p, c)
    BY <2>1
  <2>2. CASE DialKey(n, p, c) \/ AcceptKey(n, p, c)
    <3>1. Goes(n, p, c, "keyed")
      BY <2>2 DEF DialKey, AcceptKey, Goes, env
    <3>2. QED
      BY <3>1
  <2>3. CASE AcceptKex(n, p, c)
    <3>1. Goes(n, p, c, "acked")
      BY <2>3 DEF AcceptKex, Goes, env, maps
    <3>2. QED
      BY <3>1
  <2>4. CASE ConnectFail(n, p, c) \/ HandshakeFail(n, p, c)
    <3>1. ~Both(n, p)
      <4>1. CASE ConnectFail(n, p, c)
        BY <1>0, <4>1, NoFault DEF ConnectFail, Both
      <4>2. CASE HandshakeFail(n, p, c)
        BY <1>0, <4>2, NoEof DEF HandshakeFail
      <4>3. QED
        BY <2>4, <4>1, <4>2
    <3>2. Ends(n, p, c, "done")
      BY <2>4, <3>1 DEF ConnectFail, HandshakeFail, Finish, Ends, env, maps
    <3>3. QED
      BY <3>2
  <2>5. CASE ReadEof(n, p, c)
    <3>1. ~Both(n, p)
      BY <1>0, <2>5, NoEof DEF ReadEof
    <3>2. Ends(n, p, c, "leaving")
      BY <2>5, <3>1 DEF ReadEof, Ends, env
    <3>3. QED
      BY <3>2
  <2>6. CASE Leave(n, p, c)
    <3>1. ~Both(n, p)
      BY <1>0, <2>6 DEF Leave, Pairs, Pair
    <3>2. Ends(n, p, c, "done")
      BY <2>6, <3>1 DEF Leave, Finish, Ends, env
    <3>3. QED
      BY <3>2
  <2>7. CASE Read(n, p, c)
    BY <2>7 DEF Read, Rests, env, maps
  <2>8. QED
    BY <1>1, <2>1, <2>2, <2>3, <2>4, <2>5, <2>6, <2>7 DEF TaskStep
<1>2. ASSUME NEW n \in Node, NEW p \in Node, Discover(n, p)
      PROVE  Goal
  <2>1. CASE DropHello(n, p)
    BY <2>1 DEF DropHello, Rests, maps
  <2>2. ASSUME NEW c \in Conn, HearHello(n, p, c)
        PROVE  Goal
    <3>1. Dials(n, p, c)
      BY <2>2 DEF HearHello, Dials, HelloPending, NotOwnHello, Unknown
    <3>2. QED
      BY <2>2, <3>1
  <2>3. QED
    BY <1>2, <2>1, <2>2 DEF Discover
<1>3. ASSUME NEW n \in Node, NEW p \in Node, ReapStep(n, p)
      PROVE  Goal
  <2>1. CASE ReapCollect(n, p)
    BY <2>1 DEF ReapCollect, Rests
  <2>2. CASE ReapPeer(n, p) \/ ReapConn(n, p)
    <3>1. ~Both(n, p)
      BY <1>0, <2>2 DEF ReapPeer, ReapConn, Unlisted
    <3>2. Rests
      BY <2>2, <3>1 DEF ReapPeer, ReapConn, Rests, env
    <3>3. QED
      BY <3>2
  <2>3. QED
    BY <1>3, <2>1, <2>2 DEF ReapStep
<1>4. ASSUME NEW n \in Node, NEW p \in Node,
             Send(n, p) \/ SendFile(n, p) \/ \E c \in Conn : SendChunk(n, p, c)
      PROVE  Goal
  BY <1>4 DEF Send, SendFile, SendChunk, Rests, env, maps
<1>5. ASSUME NEW n \in Node, NEW c \in Conn, ReleaseTx(n, c)
      PROVE  Goal
  BY <1>5 DEF ReleaseTx, Rests, env
<1>6. ASSUME NEW c \in Conn, Break(c)
      PROVE  Goal
  BY <1>6 DEF Break, Rests, maps
<1>7. CASE UNCHANGED vars
  BY <1>7 DEF vars, Rests
<1>8. QED
  BY <1>1, <1>2, <1>3, <1>4, <1>5, <1>6, <1>7 DEF Next

\* What the exit of m leaves of the others.
LEMMA ExitFacts ==
    ASSUME TypeOK, NEW m \in Node, Exit(m)
    PROVE  /\ alive' = alive \ {m} /\ link' = link /\ broken' = broken
           /\ \A c \in Conn, n \in Node :
                 task'[c][n] = IF n = m /\ task[c][n] # "none" THEN "done" ELSE task[c][n]
           /\ \A n, p \in Node : n # m =>
                 /\ conns'[n][p] = conns[n][p] /\ ciphers'[n][p] = ciphers[n][p]
                 /\ peers'[n] = peers[n] /\ reap'[n][p] = reap[n][p]
           /\ \A p \in Node : reap'[m][p] = "no"
           /\ \A c \in Conn, n \in Node : wire'[c][n] \in {wire[c][n], <<>>}
BY DEF Exit, TypeOK

\* A step leaves no task at an exited node.
LEMMA EndedStep ==
    ASSUME MaxFaults = 0, IInv, Calm, [Next]_vars
    PROVE  Ended'
<1>1. TypeOK /\ Ended /\ task \in [Conn -> [Node -> TaskState]]
  BY DEF IInv, Calm, TypeOK
<1>2. ASSUME NEW n \in Node, NEW p \in Node, NEW c \in Conn, HearHello(n, p, c), Dials(n, p, c)
      PROVE  Ended'
  BY <1>1, <1>2 DEF Dials, Ended
<1>3. ASSUME NEW n \in Node, NEW p \in Node, NEW c \in Conn, Connect(n, p, c)
      PROVE  Ended'
  BY <1>1, <1>3 DEF Connect, Ended, env
<1>4. ASSUME NEW n \in Node, NEW p \in Node, NEW c \in Conn, Register(n, p, c)
      PROVE  Ended'
  BY <1>1, <1>4 DEF Register, HandshakeDone, Ended, env
<1>5. ASSUME NEW n \in Node, NEW p \in Node, NEW c \in Conn, NEW t,
             Goes(n, p, c, t) \/ Ends(n, p, c, t)
      PROVE  Ended'
  BY <1>1, <1>5 DEF Goes, Ends, Ended
<1>6. ASSUME NEW n \in Node, Exit(n)
      PROVE  Ended'
  BY <1>1, <1>6, ExitFacts DEF Ended
<1>7. CASE Rests
  BY <1>1, <1>7 DEF Rests, Ended
<1>8. QED
  BY <1>2, <1>3, <1>4, <1>5, <1>6, <1>7, CalmSteps

\* A step breaks no connection of two running nodes.
LEMMA IntactStep ==
    ASSUME MaxFaults = 0, IInv, Calm, [Next]_vars
    PROVE  Intact'
<1>1. TypeOK /\ Intact
  BY DEF IInv, Calm
<1>2. ASSUME NEW n \in Node, NEW p \in Node, NEW c \in Conn, HearHello(n, p, c)
      PROVE  Intact'
  BY <1>1, <1>2 DEF HearHello, Intact, TypeOK
<1>3. ASSUME NEW n \in Node, Exit(n)
      PROVE  Intact'
  BY <1>1, <1>3, ExitFacts DEF Intact
<1>4. ASSUME NEW c \in Conn, Break(c)
      PROVE  Intact'
  BY <1>1, <1>4, NoFault DEF Break, Intact
<1>5. CASE alive' = alive /\ link' = link /\ broken' \subseteq broken
  BY <1>1, <1>5 DEF Intact
<1>6. QED
  <2> USE DEF env, maps
  <2>1. ASSUME NEW n \in Node, NEW p \in Node, NEW c \in Conn, TaskStep(n, p, c)
        PROVE  alive' = alive /\ link' = link /\ broken' \subseteq broken
    BY <2>1 DEF TaskStep, Connect, ConnectFail, DialKey, AcceptKex, AcceptKey, HandshakeFail,
                Register, Read, ReadEof, Leave, Finish
  <2>2. ASSUME NEW n \in Node, NEW p \in Node,
               \/ DropHello(n, p) \/ ReapStep(n, p) \/ Send(n, p) \/ SendFile(n, p)
               \/ \E c \in Conn : SendChunk(n, p, c)
        PROVE  alive' = alive /\ link' = link /\ broken' \subseteq broken
    BY <2>2 DEF DropHello, ReapStep, ReapCollect, ReapPeer, ReapConn, Send, SendFile, SendChunk
  <2>3. ASSUME NEW n \in Node, NEW c \in Conn, ReleaseTx(n, c)
        PROVE  alive' = alive /\ link' = link /\ broken' \subseteq broken
    BY <2>3 DEF ReleaseTx
  <2>4. CASE UNCHANGED vars
    BY <1>5, <2>4 DEF vars
  <2>5. QED
    BY <1>2, <1>3, <1>4, <1>5, <2>1, <2>2, <2>3, <2>4 DEF Next, Discover

\* The reaper lists no running peer.
LEMMA UnlistedStep ==
    ASSUME MaxFaults = 0, IInv, Calm, [Next]_vars
    PROVE  Unlisted'
<1>1. TypeOK /\ Unlisted
  BY DEF IInv, Calm
<1>2. ASSUME NEW n \in Node, NEW p \in Node, ReapStep(n, p)
      PROVE  Unlisted'
  <2>1. CASE ReapCollect(n, p)
    <3>1. ~Both(n, p)
      BY <1>1, <2>1, NoFault DEF ReapCollect, Stale, Both
    <3>2. QED
      BY <1>1, <2>1, <3>1 DEF ReapCollect, Unlisted, Both, TypeOK
  <2>2. CASE ReapPeer(n, p) \/ ReapConn(n, p)
    <3>1. /\ alive' = alive /\ reap[n][p] # "no"
          /\ \/ reap' = [reap EXCEPT ![n][p] = "gone"]
             \/ reap' = [reap EXCEPT ![n][p] = "no"]
      BY <2>2 DEF ReapPeer, ReapConn, env
    <3>2. ASSUME NEW m \in Node, NEW q \in Node, reap'[m][q] # "no"
          PROVE  reap[m][q] # "no"
      <4>1. (m = n /\ q = p) \/ reap'[m][q] = reap[m][q]
        BY <1>1, <3>1 DEF TypeOK
      <4>2. QED
        BY <3>1, <3>2, <4>1
    <3>3. QED
      BY <1>1, <3>1, <3>2 DEF Unlisted, Both
  <2>3. QED
    BY <1>2, <2>1, <2>2 DEF ReapStep
<1>3. ASSUME NEW n \in Node, Exit(n)
      PROVE  Unlisted'
  BY <1>1, <1>3, ExitFacts DEF Unlisted, Both
<1>4. CASE alive' = alive /\ reap' = reap
  BY <1>1, <1>4 DEF Unlisted, Both
<1>5. QED
  <2> USE DEF env, maps
  <2>1. ASSUME NEW n \in Node, NEW p \in Node, NEW c \in Conn,
               TaskStep(n, p, c) \/ HearHello(n, p, c)
        PROVE  reap' = reap
    BY <2>1 DEF TaskStep, Connect, ConnectFail, DialKey, AcceptKex, AcceptKey, HandshakeFail,
                Register, Read, ReadEof, Leave, HearHello
  <2>2. ASSUME NEW n \in Node, NEW p \in Node,
               \/ DropHello(n, p) \/ Send(n, p) \/ SendFile(n, p)
               \/ \E c \in Conn : SendChunk(n, p, c)
        PROVE  reap' = reap
    BY <2>2 DEF DropHello, Send, SendFile, SendChunk
  <2>3. ASSUME NEW n \in Node, NEW c \in Conn, ReleaseTx(n, c)
        PROVE  reap' = reap
    BY <2>3 DEF ReleaseTx
  <2>4. ASSUME NEW c \in Conn, Break(c)
        PROVE  reap' = reap
    BY <2>4 DEF Break
  <2>5. CASE UNCHANGED vars
    BY <1>4, <2>5 DEF vars
  <2>6. QED
    BY <1>2, <1>3, <1>4, <2>1, <2>2, <2>3, <2>4, <2>5, AliveSteps DEF Next, Discover


\* A connection of two running nodes stays as it is when its tasks and what they
\* rely on do.
LEMMA PairStays ==
    ASSUME NEW c \in Conn, NEW n \in Node, NEW p \in Node, Pair(c, n, p),
           link'[c] = link[c], Both(n, p)' => Both(n, p),
           Both(n, p)' =>
               /\ task'[c][n] = task[c][n] /\ task'[c][p] = task[c][p]
               /\ conns'[n][p] = conns[n][p] /\ (p \in peers[n] => p \in peers'[n])
    PROVE  Pair(c, n, p)'
BY DEF Pair, Between, Both

\* A step keeps the connections of running nodes.
LEMMA PairsStep ==
    ASSUME MaxFaults = 0, OneWay, IInv, Calm, [Next]_vars
    PROVE  Pairs'
<1> SUFFICES ASSUME NEW d \in Conn, NEW a \in Node, NEW b \in Node
             PROVE  Pair(d, a, b)'
  BY DEF Pairs
<1>1. TypeOK /\ Pair(d, a, b) /\ OnePerPair
  BY DEF IInv, Calm, Pairs
<1>2. /\ task \in [Conn -> [Node -> TaskState]] /\ link \in [Conn -> SUBSET Node]
      /\ conns \in [Node -> [Node -> Conn \cup {NoConn}]] /\ peers \in [Node -> SUBSET Node]
  BY <1>1 DEF TypeOK
<1>3. ASSUME NEW n \in Node, NEW p \in Node, NEW c \in Conn, Dials(n, p, c)
      PROVE  Pair(d, a, b)'
  <2>1. CASE d = c
    <3>1. link'[d] = {n, p} /\ n # p /\ <<n, p>> \in Hears /\ <<p, n>> \notin Hears
          /\ p \in peers'[n]
      BY <1>2, <1>3, <2>1 DEF Dials, OneWay
    <3>2. task'[d][n] = "connecting" /\ task'[d][p] = "none"
      BY <1>2, <1>3, <2>1 DEF Dials
    <3>3. CASE Between(d, a, b)'
      <4>1. (a = n /\ b = p) \/ (a = p /\ b = n)
        BY <3>1, <3>3 DEF Between
      <4>2. QED
        BY <3>1, <3>2, <4>1 DEF Pair
    <3>4. QED
      BY <3>3 DEF Pair
  <2>2. CASE d # c
    <3>1. /\ link'[d] = link[d] /\ task'[d] = task[d] /\ conns' = conns /\ alive' = alive
          /\ peers[a] \subseteq peers'[a]
      BY <1>2, <1>3, <2>2 DEF Dials
    <3>2. QED
      BY <1>1, <3>1, PairStays DEF Both
  <2>3. QED
    BY <2>1, <2>2
<1>4. ASSUME NEW n \in Node, NEW p \in Node, NEW c \in Conn, Connect(n, p, c)
      PROVE  Pair(d, a, b)'
  <2>1. /\ alive' = alive /\ link' = link /\ conns' = conns /\ peers' = peers
        /\ Between(c, n, p) /\ task'[c][n] = "kexSent" /\ task'[c][p] = "listening"
        /\ \A k \in Conn \ {c} : task'[k] = task[k]
    BY <1>2, <1>4 DEF Connect, env, maps, Between
  <2>2. CASE d = c
    <3>1. CASE Between(d, a, b)
      <4>1. task'[d][a] \in {"kexSent", "listening"}
        BY <2>1, <2>2, <3>1 DEF Between
      <4>2. QED
        BY <1>1, <2>1, <3>1, <4>1 DEF Pair, Between, Both
    <3>2. CASE ~Between(d, a, b)
      BY <2>1, <3>2 DEF Pair, Between
    <3>3. QED
      BY <3>1, <3>2
  <2>3. CASE d # c
    BY <1>1, <2>1, <2>3, PairStays DEF Both
  <2>4. QED
    BY <2>2, <2>3
<1>5. ASSUME NEW n \in Node, NEW p \in Node, NEW c \in Conn, Register(n, p, c)
      PROVE  Pair(d, a, b)'
  <2>1. /\ alive' = alive /\ link' = link /\ peers' = peers
        /\ Between(c, n, p) /\ task[c][n] = "keyed"
        /\ task' = [task EXCEPT ![c][n] = "open"] /\ conns' = [conns EXCEPT ![n][p] = c]
    BY <1>5 DEF Register, HandshakeDone, env
  <2>2. CASE ~(Between(d, a, b) /\ Both(a, b))
    BY <2>1, <2>2 DEF Pair, Between, Both
  <2>3. CASE Between(d, a, b) /\ Both(a, b)
    <3>1. CASE a = n /\ b = p
      <4>1. d = c
        BY <1>1, <2>1, <2>3, <3>1 DEF OnePerPair
      <4>2. task'[d][a] = "open" /\ conns'[a][b] = d
        BY <1>2, <2>1, <3>1, <4>1
      <4>3. QED
        BY <1>1, <2>1, <2>3, <4>2 DEF Pair, Between, Both
    <3>2. CASE ~(a = n /\ b = p)
      <4>1. conns'[a][b] = conns[a][b]
        BY <1>2, <2>1, <3>2
      <4>2. ~(d = c /\ a = n)
        BY <2>1, <2>3, <3>2, OneOtherEnd
      <4>3. task'[d][a] = task[d][a] /\ (task'[d][b] = task[d][b] \/ task[d][b] = "keyed")
        BY <1>2, <2>1, <4>2
      <4>4. QED
        BY <1>1, <2>1, <2>3, <4>1, <4>3 DEF Pair, Between, Both
    <3>3. QED
      BY <3>1, <3>2
  <2>4. QED
    BY <2>2, <2>3
<1>6. ASSUME NEW n \in Node, NEW p \in Node, NEW c \in Conn, NEW t, Goes(n, p, c, t)
      PROVE  Pair(d, a, b)'
  <2>1. /\ alive' = alive /\ link' = link /\ conns' = conns /\ peers' = peers
        /\ Between(c, n, p) /\ t \in {"keyed", "acked"}
        /\ task[c][n] \in {"kexSent", "listening", "acked"}
        /\ task' = [task EXCEPT ![c][n] = t]
    BY <1>6 DEF Goes
  <2>2. \A x \in Node : \/ task'[d][x] = task[d][x]
                        \/ /\ task[d][x] \in {"kexSent", "listening", "acked"}
                           /\ task'[d][x] \in {"keyed", "acked"}
    BY <1>2, <2>1
  <2>3. QED
    BY <1>1, <2>1, <2>2 DEF Pair, Between, Both
<1>7. ASSUME NEW n \in Node, NEW p \in Node, NEW c \in Conn, NEW t, Ends(n, p, c, t)
      PROVE  Pair(d, a, b)'
  <2>1. /\ alive' = alive /\ link' = link /\ Between(c, n, p) /\ ~Both(n, p)
        /\ task' = [task EXCEPT ![c][n] = t]
        /\ peers' \in {peers, RemovePeer(n, p)} /\ conns' \in {conns, Unregister(n, p)}
    BY <1>7 DEF Ends
  <2>2. ASSUME Between(d, a, b), Both(a, b)
        PROVE  /\ task'[d][a] = task[d][a] /\ task'[d][b] = task[d][b]
               /\ conns'[a][b] = conns[a][b] /\ (b \in peers[a] => b \in peers'[a])
    <3>1. ~(a = n /\ b = p) /\ d # c
      BY <2>1, <2>2 DEF Between, Both
    <3>2. QED
      BY <1>2, <2>1, <3>1 DEF RemovePeer, Unregister
  <2>3. QED
    BY <1>1, <2>1, <2>2 DEF Pair, Between, Both
<1>8. ASSUME NEW m \in Node, Exit(m)
      PROVE  Pair(d, a, b)'
  <2>1. Both(a, b)' => Both(a, b) /\ a # m /\ b # m
    BY <1>1, <1>8, ExitFacts DEF Both
  <2>2. link'[d] = link[d]
    BY <1>1, <1>8, ExitFacts
  <2>3. ASSUME a # m, b # m
        PROVE  /\ task'[d][a] = task[d][a] /\ task'[d][b] = task[d][b]
               /\ conns'[a][b] = conns[a][b] /\ peers'[a] = peers[a]
    BY <1>1, <1>8, <2>3, ExitFacts
  <2>4. QED
    BY <1>1, <2>1, <2>2, <2>3, PairStays
<1>9. CASE Rests
  <2>1. alive' = alive /\ link' = link /\ task' = task
    BY <1>9 DEF Rests
  <2>2. Both(a, b) => conns'[a][b] = conns[a][b] /\ (b \in peers[a] => b \in peers'[a])
    <3>1. CASE UNCHANGED <<conns, peers>>
      BY <3>1
    <3>2. ASSUME NEW n \in Node, NEW p \in Node, ~Both(n, p), Both(a, b),
                 peers' \in {peers, RemovePeer(n, p)}, conns' \in {conns, Unregister(n, p)}
          PROVE  conns'[a][b] = conns[a][b] /\ (b \in peers[a] => b \in peers'[a])
      <4>1. ~(a = n /\ b = p)
        BY <3>2
      <4>2. QED
        BY <1>2, <3>2, <4>1 DEF RemovePeer, Unregister
    <3>3. QED
      BY <1>9, <3>1, <3>2 DEF Rests
  <2>3. QED
    BY <1>1, <2>1, <2>2, PairStays DEF Both
<1>10. QED
  BY <1>3, <1>4, <1>5, <1>6, <1>7, <1>8, <1>9, CalmSteps

\* A step leaves two running nodes with one connection: a node that has one with
\* a peer it hears knows that peer.
LEMMA OnePerPairStep ==
    ASSUME MaxFaults = 0, OneWay, IInv, Calm, [Next]_vars
    PROVE  OnePerPair'
<1>1. TypeOK /\ Pairs /\ OnePerPair /\ link \in [Conn -> SUBSET Node]
  BY DEF IInv, Calm, TypeOK
<1>2. ASSUME NEW n \in Node, NEW p \in Node, NEW c \in Conn, Dials(n, p, c)
      PROVE  OnePerPair'
  <2>1. alive' = alive /\ link' = [link EXCEPT ![c] = {n, p}] /\ <<n, p>> \in Hears
        /\ p \notin peers[n]
    BY <1>2 DEF Dials
  <2>2. ASSUME NEW d \in Conn, NEW a \in Node, NEW b \in Node, d # c,
               Between(d, a, b)', Between(c, a, b)', Both(a, b)
        PROVE  FALSE
    <3>1. (a = n /\ b = p) \/ (a = p /\ b = n)
      BY <1>1, <2>1, <2>2 DEF Between
    <3>2. Between(d, n, p) /\ Both(n, p)
      BY <1>1, <2>1, <2>2, <3>1 DEF Between, Both
    <3>3. QED
      BY <1>1, <2>1, <3>2 DEF Pairs, Pair
  <2>3. ASSUME NEW d \in Conn, NEW e \in Conn, NEW a \in Node, NEW b \in Node,
               d # c, e # c, Between(d, a, b)', Between(e, a, b)', Both(a, b)
        PROVE  d = e
    <3>1. Between(d, a, b) /\ Between(e, a, b)
      BY <1>1, <2>1, <2>3 DEF Between
    <3>2. QED
      BY <1>1, <2>3, <3>1 DEF OnePerPair
  <2>4. QED
    BY <2>1, <2>2, <2>3 DEF OnePerPair, Both
<1>3. ASSUME link' = link, alive' \subseteq alive
      PROVE  OnePerPair'
  BY <1>1, <1>3 DEF OnePerPair, Between, Both
<1>4. ASSUME NEW n \in Node, NEW p \in Node, NEW c \in Conn, NEW t,
             Connect(n, p, c) \/ Register(n, p, c) \/ Goes(n, p, c, t) \/ Ends(n, p, c, t)
      PROVE  link' = link /\ alive' = alive
  BY <1>4 DEF Connect, Register, Goes, Ends, env
<1>5. ASSUME NEW n \in Node, Exit(n)
      PROVE  link' = link /\ alive' \subseteq alive
  BY <1>1, <1>5, ExitFacts
<1>6. CASE Rests
  BY <1>3, <1>6 DEF Rests
<1>7. QED
  BY <1>2, <1>3, <1>4, <1>5, <1>6, CalmSteps


\* A step leaves a node serving one connection with a peer: only running nodes
\* are connected, and they have one connection.
LEMMA OneBusyStep ==
    ASSUME MaxFaults = 0, IInv, Calm, [Next]_vars
    PROVE  OneBusy'
<1> SUFFICES ASSUME NEW d \in Conn, NEW e \in Conn, NEW a \in Node, NEW b \in Node,
                    Between(d, a, b)', task'[d][a] \in Busy,
                    Between(e, a, b)', task'[e][a] \in Busy
             PROVE  d = e
  BY DEF OneBusy
<1> USE DEF Busy
<1>1. /\ TypeOK /\ Ended /\ OnePerPair /\ OneBusy
      /\ task \in [Conn -> [Node -> TaskState]] /\ link \in [Conn -> SUBSET Node]
  BY DEF IInv, Calm, TypeOK
<1>2. ASSUME Between(d, a, b), task[d][a] \in Busy, Between(e, a, b), task[e][a] \in Busy
      PROVE  d = e
  BY <1>1, <1>2 DEF OneBusy
<1>3. ASSUME NEW n \in Node, NEW p \in Node, NEW c \in Conn, Dials(n, p, c)
      PROVE  d = e
  <2>1. \A x \in Node : task'[c][x] \notin Busy
    BY <1>1, <1>3 DEF Dials
  <2>2. d # c /\ e # c
    BY <2>1
  <2>3. task'[d] = task[d] /\ link'[d] = link[d] /\ task'[e] = task[e] /\ link'[e] = link[e]
    BY <1>1, <1>3, <2>2 DEF Dials
  <2>4. QED
    BY <1>2, <2>3 DEF Between
<1>4. ASSUME NEW n \in Node, NEW p \in Node, NEW c \in Conn, Connect(n, p, c)
      PROVE  d = e
  <2>1. /\ link' = link /\ Between(c, n, p) /\ n \in alive /\ p \in alive
        /\ \A k \in Conn \ {c} : task'[k] = task[k]
    BY <1>1, <1>4 DEF Connect, Ended
  <2>2. CASE d = c \/ e = c
    <3>1. Between(d, a, b) /\ Between(e, a, b)
      BY <2>1 DEF Between
    <3>2. (a = n /\ b = p) \/ (a = p /\ b = n)
      BY <2>1, <2>2, <3>1 DEF Between
    <3>3. QED
      BY <1>1, <2>1, <3>1, <3>2 DEF OnePerPair, Both
  <2>3. CASE d # c /\ e # c
    BY <1>2, <2>1, <2>3 DEF Between
  <2>4. QED
    BY <2>2, <2>3
<1>5. ASSUME NEW n \in Node, NEW p \in Node, NEW c \in Conn, Register(n, p, c)
      PROVE  d = e
  BY <1>1, <1>2, <1>5 DEF Register, HandshakeDone, Between
<1>6. ASSUME NEW n \in Node, NEW p \in Node, NEW c \in Conn, NEW t,
             Goes(n, p, c, t) \/ Ends(n, p, c, t)
      PROVE  d = e
  <2>1. /\ link' = link /\ task' = [task EXCEPT ![c][n] = t]
        /\ t \in Busy => task[c][n] \in Busy
    BY <1>6 DEF Goes, Ends
  <2>2. QED
    BY <1>1, <1>2, <2>1 DEF Between
<1>7. ASSUME NEW m \in Node, Exit(m)
      PROVE  d = e
  <2>1. link' = link /\ task[d][a] \in Busy /\ task[e][a] \in Busy
    BY <1>1, <1>7, ExitFacts
  <2>2. QED
    BY <1>2, <2>1 DEF Between
<1>8. CASE Rests
  BY <1>2, <1>8 DEF Rests, Between
<1>9. QED
  BY <1>3, <1>4, <1>5, <1>6, <1>7, <1>8, CalmSteps

\* A step leaves the key of the connection that a node serves where it is.
LEMMA BusyKeyStep ==
    ASSUME MaxFaults = 0, IInv, Calm, [Next]_vars
    PROVE  BusyKey'
<1> SUFFICES ASSUME NEW d \in Conn, NEW a \in Node, NEW b \in Node,
                    Between(d, a, b)', task'[d][a] \in {"keyed", "open", "leaving"}
             PROVE  ciphers'[a][b] = d
  BY DEF BusyKey
<1> USE DEF Busy
<1>1. /\ TypeOK /\ OneBusy /\ BusyKey
      /\ task \in [Conn -> [Node -> TaskState]] /\ link \in [Conn -> SUBSET Node]
      /\ ciphers \in [Node -> [Node -> Conn \cup {NoConn}]]
  BY DEF IInv, Calm, TypeOK
<1>2. ASSUME Between(d, a, b), task[d][a] \in {"keyed", "open", "leaving"},
             ciphers'[a][b] = ciphers[a][b]
      PROVE  ciphers'[a][b] = d
  BY <1>1, <1>2 DEF BusyKey
<1>3. ASSUME NEW n \in Node, NEW p \in Node, NEW c \in Conn, Dials(n, p, c)
      PROVE  ciphers'[a][b] = d
  <2>1. d # c /\ ciphers' = ciphers
    BY <1>1, <1>3 DEF Dials
  <2>2. task'[d] = task[d] /\ link'[d] = link[d]
    BY <1>1, <1>3, <2>1 DEF Dials
  <2>3. QED
    BY <1>2, <2>1, <2>2 DEF Between
<1>4. ASSUME NEW n \in Node, NEW p \in Node, NEW c \in Conn, Connect(n, p, c)
      PROVE  ciphers'[a][b] = d
  <2>1. /\ link' = link /\ ciphers' = ciphers
        /\ task' = [task EXCEPT ![c][n] = "kexSent", ![c][p] = "listening"]
    BY <1>4 DEF Connect, maps
  <2>2. task[d][a] = task'[d][a]
    BY <1>1, <2>1
  <2>3. QED
    BY <1>2, <2>1, <2>2 DEF Between
<1>5. ASSUME NEW n \in Node, NEW p \in Node, NEW c \in Conn, Register(n, p, c)
      PROVE  ciphers'[a][b] = d
  BY <1>1, <1>2, <1>5 DEF Register, HandshakeDone, Between
<1>6. ASSUME NEW n \in Node, NEW p \in Node, NEW c \in Conn, NEW t, Goes(n, p, c, t)
      PROVE  ciphers'[a][b] = d
  <2>1. /\ link' = link /\ task' = [task EXCEPT ![c][n] = t] /\ Between(c, n, p)
        /\ task[c][n] \in Busy /\ t \in {"keyed", "acked"}
        /\ ciphers' = IF t = "keyed" THEN [ciphers EXCEPT ![n][p] = c] ELSE ciphers
    BY <1>6 DEF Goes
  <2>2. CASE d = c /\ a = n
    <3>1. b = p /\ t = "keyed"
      BY <1>1, <2>1, <2>2, OneOtherEnd DEF Between
    <3>2. QED
      BY <1>1, <2>1, <2>2, <3>1
  <2>3. CASE ~(d = c /\ a = n)
    <3>1. Between(d, a, b) /\ task'[d][a] = task[d][a]
      BY <1>1, <2>1, <2>3 DEF Between
    <3>2. ~(a = n /\ b = p)
      BY <1>1, <2>1, <2>3, <3>1 DEF OneBusy
    <3>3. ciphers'[a][b] = ciphers[a][b]
      BY <1>1, <2>1, <3>2
    <3>4. QED
      BY <1>2, <3>1, <3>3
  <2>4. QED
    BY <2>2, <2>3
<1>7. ASSUME NEW n \in Node, NEW p \in Node, NEW c \in Conn, NEW t, Ends(n, p, c, t)
      PROVE  ciphers'[a][b] = d
  <2>1. /\ link' = link /\ ciphers' = ciphers /\ task' = [task EXCEPT ![c][n] = t]
        /\ t = "done" \/ (t = "leaving" /\ task[c][n] = "open")
    BY <1>7 DEF Ends
  <2>2. task[d][a] \in {"keyed", "open", "leaving"}
    BY <1>1, <2>1
  <2>3. QED
    BY <1>2, <2>1, <2>2 DEF Between
<1>8. ASSUME NEW m \in Node, Exit(m)
      PROVE  ciphers'[a][b] = d
  <2>1. a # m /\ link' = link /\ task'[d][a] = task[d][a] /\ ciphers'[a][b] = ciphers[a][b]
    BY <1>1, <1>8, ExitFacts
  <2>2. QED
    BY <1>2, <2>1 DEF Between
<1>9. CASE Rests
  BY <1>2, <1>9 DEF Rests, Between
<1>10. QED
  BY <1>3, <1>4, <1>5, <1>6, <1>7, <1>8, <1>9, CalmSteps

\* What a step encrypts for a connection it encrypts with its key.
LEMMA PacketKeyStep ==
    ASSUME MaxFaults = 0, IInv, Calm, [Next]_vars
    PROVE  PerConnectionKey'
<1> SUFFICES ASSUME NEW d \in Conn, NEW a \in Node
             PROVE  \A i \in DOMAIN wire'[d][a] :
                       wire'[d][a][i].type = "Encrypted" => wire'[d][a][i].key = d
  BY DEF PerConnectionKey
<1> DEFINE Own(s) == \A i \in DOMAIN s : s[i].type = "Encrypted" => s[i].key = d
<1>1. /\ TypeOK /\ BusyKey /\ NoDeadSender /\ Own(wire[d][a])
      /\ wire \in [Conn -> [Node -> Seq(Packet)]] /\ wire[d][a] \in Seq(Packet)
  BY DEF IInv, Calm, TypeOK, PerConnectionKey
\* What is read leaves a suffix of the wire.
<1>2. ASSUME NEW s \in Seq(Packet), Own(s), s # <<>>
      PROVE  Own(Tail(s)) /\ Tail(s) \in Seq(Packet)
  <2>1. \A i \in DOMAIN Tail(s) : i + 1 \in DOMAIN s /\ Tail(s)[i] = s[i + 1]
    BY <1>2
  <2>2. QED
    BY <1>2, <2>1
\* What is written is its last item.
<1>3. ASSUME NEW s \in Seq(Packet), Own(s), NEW type, NEW key, type = "Encrypted" => key = d
      PROVE  Own(Append(s, [type |-> type, key |-> key]))
  BY <1>3
<1>4. Own(<<>>) /\ (\A type : Own(<<[type |-> type, key |-> d]>>))
  OBVIOUS
<1> HIDE DEF Own
<1>5. ASSUME NEW n \in Node, NEW p \in Node, NEW c \in Conn, HearHello(n, p, c)
      PROVE  Own(wire'[d][a])
  BY <1>1, <1>4, <1>5 DEF HearHello
<1>6. ASSUME NEW n \in Node, NEW p \in Node, NEW c \in Conn, Connect(n, p, c)
      PROVE  Own(wire'[d][a])
  <2>1. CASE d = c /\ a = n
    BY <1>1, <1>4, <1>6, <2>1 DEF Connect
  <2>2. CASE ~(d = c /\ a = n)
    BY <1>1, <1>6, <2>2 DEF Connect
  <2>3. QED
    BY <2>1, <2>2
<1>7. ASSUME NEW n \in Node, NEW p \in Node, NEW c \in Conn,
             ConnectFail(n, p, c) \/ HandshakeFail(n, p, c) \/ Leave(n, p, c)
      PROVE  Own(wire'[d][a])
  <2>1. wire' = [wire EXCEPT ![c][p] = <<>>]
    BY <1>7 DEF ConnectFail, HandshakeFail, Leave, Finish
  <2>2. QED
    BY <1>1, <1>4, <2>1
<1>8. ASSUME NEW n \in Node, NEW p \in Node, NEW c \in Conn, DialKey(n, p, c) \/ Read(n, p, c)
      PROVE  Own(wire'[d][a])
  <2>1. wire' = [wire EXCEPT ![c][p] = Tail(@)] /\ wire[c][p] # <<>>
    BY <1>8 DEF DialKey, Read, Arrived, Popped
  <2>2. QED
    BY <1>1, <1>2, <2>1
<1>9. ASSUME NEW n \in Node, NEW p \in Node, NEW c \in Conn, AcceptKex(n, p, c)
      PROVE  Own(wire'[d][a])
  <2>1. /\ wire' = Posted(Popped(c, p), c, n, p, "KeyExchangeAck", c) /\ wire[c][p] # <<>>
        /\ Popped(c, p) = [wire EXCEPT ![c][p] = Tail(@)]
    BY <1>9 DEF AcceptKex, Arrived, Popped
  <2>2. Popped(c, p) \in [Conn -> [Node -> Seq(Packet)]]
    BY <1>1, <2>1
  <2>3. Own(Popped(c, p)[d][a])
    BY <1>1, <1>2, <2>1
  <2>4. \/ wire'[d][a] = Popped(c, p)[d][a]
        \/ /\ d = c
           /\ wire'[d][a] = Append(Popped(c, p)[d][a], [type |-> "KeyExchangeAck", key |-> c])
    <3> DEFINE w == Popped(c, p)
    <3>1. w \in [Conn -> [Node -> Seq(Packet)]] /\ wire' = Posted(w, c, n, p, "KeyExchangeAck", c)
      BY <2>1, <2>2
    <3> HIDE DEF w
    <3>2. \/ wire'[d][a] = w[d][a]
          \/ d = c /\ wire'[d][a] = Append(w[d][a], [type |-> "KeyExchangeAck", key |-> c])
      BY <3>1 DEF Posted
    <3>3. QED
      BY <3>2 DEF w
  <2>5. Popped(c, p)[d][a] \in Seq(Packet)
    BY <2>2
  <2>6. QED
    BY <1>3, <2>3, <2>4, <2>5
<1>10. ASSUME NEW n \in Node, NEW p \in Node, Send(n, p) \/ SendFile(n, p)
       PROVE  Own(wire'[d][a])
  <2>1. /\ conns[n][p] \in Conn
        /\ wire' = Posted(wire, conns[n][p], n, p, "Encrypted", ciphers[n][p])
    BY <1>10 DEF Send, SendFile, Reachable
  <2>2. ciphers[n][p] = conns[n][p]
    <3> DEFINE c == conns[n][p]
    <3>1. Between(c, n, p) /\ task[c][n] \in {"keyed", "open", "leaving"}
      BY <1>1, <2>1 DEF NoDeadSender
    <3>2. QED
      BY <1>1, <2>1, <3>1 DEF BusyKey
  <2>3. \/ wire'[d][a] = wire[d][a]
        \/ d = conns[n][p] /\ wire'[d][a] = Append(wire[d][a], [type |-> "Encrypted", key |-> d])
    BY <1>1, <2>1, <2>2 DEF Posted
  <2>4. QED
    BY <1>1, <1>3, <2>3
<1>11. ASSUME NEW n \in Node, NEW p \in Node, NEW c \in Conn, SendChunk(n, p, c)
       PROVE  Own(wire'[d][a])
  <2>1. wire' = Posted(wire, c, n, p, "FileChunk", NoConn)
    BY <1>11 DEF SendChunk
  <2>2. \/ wire'[d][a] = wire[d][a]
        \/ wire'[d][a] = Append(wire[d][a], [type |-> "FileChunk", key |-> NoConn])
    BY <1>1, <2>1 DEF Posted
  <2>3. QED
    BY <1>1, <1>3, <2>2
<1>12. ASSUME NEW c \in Conn, Break(c)
       PROVE  Own(wire'[d][a])
  BY <1>1, <1>4, <1>12 DEF Break
<1>13. ASSUME NEW n \in Node, Exit(n)
       PROVE  Own(wire'[d][a])
  BY <1>1, <1>4, <1>13, ExitFacts DEF Own
<1>14. ASSUME wire' = wire
       PROVE  Own(wire'[d][a])
  BY <1>1, <1>14 DEF Own
<1>15. QED
  <2>1. ASSUME NEW n \in Node, NEW p \in Node, NEW c \in Conn,
               AcceptKey(n, p, c) \/ Register(n, p, c) \/ ReadEof(n, p, c)
        PROVE  wire' = wire
    BY <2>1 DEF AcceptKey, Register, ReadEof
  <2>2. ASSUME NEW n \in Node, NEW p \in Node, DropHello(n, p) \/ ReapStep(n, p)
        PROVE  wire' = wire
    BY <2>2 DEF DropHello, ReapStep, ReapCollect, ReapPeer, ReapConn
  <2>3. ASSUME NEW n \in Node, NEW c \in Conn, ReleaseTx(n, c)
        PROVE  wire' = wire
    BY <2>3 DEF ReleaseTx
  <2>4. ASSUME UNCHANGED vars
        PROVE  wire' = wire
    BY <2>4 DEF vars
  <2>5. ASSUME NEW n \in Node, NEW p \in Node, NEW c \in Conn, TaskStep(n, p, c)
        PROVE  Own(wire'[d][a])
    BY <1>6, <1>7, <1>8, <1>9, <1>14, <2>1, <2>5 DEF TaskStep
  <2>6. ASSUME NEW n \in Node, NEW p \in Node, Discover(n, p)
        PROVE  Own(wire'[d][a])
    BY <1>5, <1>14, <2>2, <2>6 DEF Discover
  <2>7. Own(wire'[d][a])
    BY <1>10, <1>11, <1>12, <1>13, <1>14, <2>2, <2>3, <2>4, <2>5, <2>6 DEF Next
  <2>8. QED
    BY <2>7 DEF Own

\* When no two nodes hear each other and the network does not fail, every encrypted
\* packet is encrypted with the key of the connection it is sent on, and the read loop
\* that takes it decrypts it with that key: no message is skipped in mesh.rs, whatever
\* exits and reaper do and however many chunks file tasks send in the clear beside it.
THEOREM OneKeyPerConnection ==
    ASSUME OneWay, MaxFaults = 0
    PROVE  Spec => []PerConnectionKey /\ []HeadDecrypts
<1>1. Init => Calm
  BY SessionsAssumption
     DEF Init, Calm, Ended, Intact, Unlisted, Pairs, Pair, OnePerPair, OneBusy, Busy, BusyKey,
         PerConnectionKey, Between
<1>2. IInv /\ Calm /\ [Next]_vars => Calm'
  BY EndedStep, IntactStep, UnlistedStep, PairsStep, OnePerPairStep, OneBusyStep, BusyKeyStep,
     PacketKeyStep DEF Calm
<1>3. IInv /\ Calm => PerConnectionKey /\ HeadDecrypts
  <2> SUFFICES ASSUME IInv, Calm,
                      NEW c \in Conn, NEW n \in Node, NEW p \in Node,
                      Between(c, n, p), task[c][n] = "open", Arrived(c, n, p, "Encrypted")
               PROVE  Head(wire[c][p]).key = ciphers[n][p]
    BY DEF HeadDecrypts, Calm
  <2>1. ciphers[n][p] = c
    BY DEF Calm, BusyKey
  <2>2. wire[c][p] \in Seq(Packet) /\ wire[c][p] # <<>>
    BY DEF IInv, TypeOK, Arrived
  <2>3. 1 \in DOMAIN wire[c][p] /\ wire[c][p][1].type = "Encrypted"
        /\ Head(wire[c][p]) = wire[c][p][1]
    BY <2>2 DEF Arrived
  <2>4. QED
    BY <2>1, <2>3 DEF Calm, PerConnectionKey
<1>4. QED
  BY <1>1, <1>2, <1>3, Invariance, PTL DEF Spec
=============================================================================
