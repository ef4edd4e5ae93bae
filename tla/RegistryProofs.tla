--------------------------- MODULE RegistryProofs ---------------------------
(***************************************************************************)
(* Sessions implements Registry, for every set of nodes and connections.   *)
(***************************************************************************)
EXTENDS SessionsProofs

\* A step that leaves the ends and the tasks of connections alone leaves alone
\* which connections are served.
LEMMA ServingKept == UNCHANGED <<link, task>> => UNCHANGED Serving
BY DEF Serving, Between

\* A step of one task between two points outside of its read loop, too.
LEMMA ServingKeptBy ==
    ASSUME NEW n \in Node, NEW c \in Conn, UNCHANGED link,
           task[c][n] \notin {"open", "leaving"},
           NEW t \in TaskState \ {"open", "leaving"},
           TypeOK, task' = [task EXCEPT ![c][n] = t]
    PROVE  UNCHANGED Serving
<1>1. \A d \in Conn, m \in Node :
          (task'[d][m] \in {"open", "leaving"}) <=> (task[d][m] \in {"open", "leaving"})
  BY DEF TypeOK
<1>2. \A d \in Conn, m, q \in Node : Between(d, m, q)' <=> Between(d, m, q)
  BY DEF Between
<1>3. QED
  BY <1>1, <1>2 DEF Serving

\* The initial states are initial states of Registry.
LEMMA InitImplements == Init => Promise!Init
<1> SUFFICES ASSUME Init PROVE Promise!Init
  OBVIOUS
<1>1. Serving = {}
  BY DEF Init, Serving
<1>2. QED
  BY <1>1 DEF Init, Promise!Init

\* Every step is a step of Registry or leaves its variables alone.
LEMMA StepImplements == IInv /\ [Next]_vars => [Promise!Next]_Promise!registry
<1> DEFINE Allowed == [Promise!Next]_Promise!registry
<1> SUFFICES ASSUME IInv, [Next]_vars PROVE Allowed
  OBVIOUS
<1> USE SessionsAssumption DEF Promise!registry
<1>0. TypeOK
  BY DEF IInv
<1>1. ASSUME NEW n \in Node, NEW p \in Node, NEW c \in Conn, HearHello(n, p, c)
      PROVE  Allowed
  <2>1. \A m \in Node : /\ task[c][m] \notin {"open", "leaving"}
                        /\ task'[c][m] \notin {"open", "leaving"}
    BY <1>1 DEF HearHello, Unused
  <2>2. \A d \in Conn \ {c} : task'[d] = task[d] /\ link'[d] = link[d]
    BY <1>0, <1>1 DEF HearHello, TypeOK
  <2>3. UNCHANGED Serving
    BY <2>1, <2>2 DEF Serving, Between
  <2>4. QED
    BY <1>1, <2>3 DEF HearHello
<1>2. ASSUME NEW n \in Node, NEW p \in Node, NEW c \in Conn, Connect(n, p, c)
      PROVE  Allowed
  <2>1. task[c][n] = "connecting" /\ task[c][p] = "none"
    BY <1>2 DEF Connect, IInv, InStep
  <2>2. \A d \in Conn, m \in Node :
            (task'[d][m] \in {"open", "leaving"}) <=> (task[d][m] \in {"open", "leaving"})
    BY <1>0, <1>2, <2>1 DEF Connect, TypeOK
  <2>3. UNCHANGED Serving
    BY <1>2, <2>2 DEF Connect, Serving, Between
  <2>4. QED
    BY <1>2, <2>3 DEF Connect, maps
<1>3. ASSUME NEW n \in Node, NEW p \in Node, NEW c \in Conn,
             ConnectFail(n, p, c) \/ HandshakeFail(n, p, c)
      PROVE  Allowed
  <2>1. UNCHANGED <<link, maps>> /\ task' = [task EXCEPT ![c][n] = "done"]
    BY <1>3 DEF ConnectFail, HandshakeFail, Finish
  <2>2. task[c][n] \notin {"open", "leaving"}
    BY <1>3 DEF ConnectFail, HandshakeFail
  <2>3. "done" \in TaskState \ {"open", "leaving"}
    BY DEF TaskState
  <2>4. UNCHANGED Serving
    BY <1>0, <2>1, <2>2, <2>3, ServingKeptBy
  <2>5. QED
    BY <2>1, <2>4 DEF maps
<1>4. ASSUME NEW n \in Node, NEW p \in Node, NEW c \in Conn,
             DialKey(n, p, c) \/ AcceptKey(n, p, c)
      PROVE  Allowed
  <2>1. /\ task[c][n] \notin {"open", "leaving"}
        /\ task' = [task EXCEPT ![c][n] = "keyed"]
        /\ UNCHANGED <<link, conns>>
        /\ ciphers' = [ciphers EXCEPT ![n][p] = c]
    BY <1>4 DEF DialKey, AcceptKey
  <2>2. "keyed" \in TaskState \ {"open", "leaving"}
    BY DEF TaskState
  <2>3. UNCHANGED Serving
    BY <1>0, <2>1, <2>2, ServingKeptBy
  <2>4. Promise!Agree(n, p, c)
    BY <2>1, <2>3 DEF Promise!Agree
  <2>5. QED
    BY <2>4 DEF Promise!Next
<1>5. ASSUME NEW n \in Node, NEW p \in Node, NEW c \in Conn, AcceptKex(n, p, c)
      PROVE  Allowed
  <2>1. /\ task[c][n] \notin {"open", "leaving"}
        /\ task' = [task EXCEPT ![c][n] = "acked"]
        /\ UNCHANGED <<link, maps>>
    BY <1>5 DEF AcceptKex
  <2>2. "acked" \in TaskState \ {"open", "leaving"}
    BY DEF TaskState
  <2>3. UNCHANGED Serving
    BY <1>0, <2>1, <2>2, ServingKeptBy
  <2>4. QED
    BY <2>1, <2>3 DEF maps
<1>6. ASSUME NEW n \in Node, NEW p \in Node, NEW c \in Conn, Register(n, p, c)
      PROVE  Allowed
  <2>1. /\ Between(c, n, p) /\ task[c][n] = "keyed"
        /\ task' = [task EXCEPT ![c][n] = "open"]
        /\ conns' = [conns EXCEPT ![n][p] = c]
        /\ UNCHANGED <<link, ciphers>>
    BY <1>6 DEF Register, HandshakeDone
  <2>2. ciphers[n][p] # NoConn
    BY <2>1 DEF IInv, KeyedHasKey
  <2>3. \A q \in Node : <<n, q, c>> \notin Serving
    BY <2>1 DEF Serving
  <2>4. \A d \in Conn, m \in Node :
            task'[d][m] \in {"open", "leaving"}
              <=> (task[d][m] \in {"open", "leaving"} \/ (d = c /\ m = n))
    BY <1>0, <2>1 DEF TypeOK
  <2>5. \A d \in Conn, m, q \in Node : Between(d, m, q)' <=> Between(d, m, q)
    BY <2>1 DEF Between
  <2>6. \A q \in Node : Between(c, n, q) <=> q = p
    BY <2>1, OneOtherEnd
  <2>7. Serving' = Serving \cup {<<n, p, c>>}
    BY <2>4, <2>5, <2>6 DEF Serving
  <2>8. Promise!Open(n, p, c)
    BY <2>1, <2>2, <2>3, <2>7 DEF Promise!Open
  <2>9. QED
    BY <2>8 DEF Promise!Next
<1>7. ASSUME NEW n \in Node, NEW p \in Node, NEW c \in Conn, ReadEof(n, p, c)
      PROVE  Allowed
  <2>1. \A d \in Conn, m \in Node :
            (task'[d][m] \in {"open", "leaving"}) <=> (task[d][m] \in {"open", "leaving"})
    BY <1>0, <1>7 DEF ReadEof, TypeOK
  <2>2. UNCHANGED Serving
    BY <1>7, <2>1 DEF ReadEof, Serving, Between
  <2>3. QED
    BY <1>7, <2>2 DEF ReadEof
<1>8. ASSUME NEW n \in Node, NEW p \in Node, NEW c \in Conn, Leave(n, p, c)
      PROVE  Allowed
  <2>1. /\ Between(c, n, p) /\ task[c][n] = "leaving"
        /\ task' = [task EXCEPT ![c][n] = "done"]
        /\ conns' = [conns EXCEPT ![n][p] = NoConn]
        /\ UNCHANGED <<link, ciphers>>
    BY <1>8 DEF Leave, Finish, Unregister
  <2>2. <<n, p, c>> \in Serving
    BY <2>1 DEF Serving
  <2>3. \A d \in Conn, m \in Node :
            task'[d][m] \in {"open", "leaving"}
              <=> (task[d][m] \in {"open", "leaving"} /\ ~(d = c /\ m = n))
    BY <1>0, <2>1 DEF TypeOK
  <2>4. \A d \in Conn, m, q \in Node : Between(d, m, q)' <=> Between(d, m, q)
    BY <2>1 DEF Between
  <2>5. \A q \in Node : Between(c, n, q) <=> q = p
    BY <2>1, OneOtherEnd
  <2>6. Serving' = Serving \ {<<n, p, c>>}
    BY <2>3, <2>4, <2>5 DEF Serving
  <2>7. Promise!End(n, p, c)
    BY <2>1, <2>2, <2>6 DEF Promise!End
  <2>8. QED
    BY <2>7 DEF Promise!Next
<1>9. ASSUME NEW n \in Node, NEW p \in Node, ReapStep(n, p)
      PROVE  Allowed
  <2>1. UNCHANGED <<link, task, ciphers>>
    BY <1>9 DEF ReapStep, ReapCollect, ReapPeer, ReapConn
  <2>2. UNCHANGED Serving
    BY <2>1, ServingKept
  <2>3. UNCHANGED conns \/ conns' = [conns EXCEPT ![n][p] = NoConn]
    BY <1>9 DEF ReapStep, ReapCollect, ReapPeer, ReapConn, Unregister
  <2>4. UNCHANGED conns \/ Promise!Forget(n, p)
    BY <2>1, <2>2, <2>3 DEF Promise!Forget
  <2>5. QED
    BY <2>1, <2>2, <2>4 DEF Promise!Next
<1>10. ASSUME NEW n \in Node, Exit(n)
       PROVE  Allowed
  <2>1. \A d \in Conn, m \in Node :
            task'[d][m] \in {"open", "leaving"} <=> (task[d][m] \in {"open", "leaving"} /\ m # n)
    <3>1. \A d \in Conn, m \in Node : m # n => task'[d][m] = task[d][m]
      BY <1>0, <1>10 DEF Exit, TypeOK
    <3>2. \A d \in Conn : task'[d][n] \in {"none", "done"}
      BY <1>0, <1>10 DEF Exit, TypeOK
    <3>3. QED
      BY <3>1, <3>2
  <2>2. \A d \in Conn, m, q \in Node : Between(d, m, q)' <=> Between(d, m, q)
    BY <1>10 DEF Exit, Between
  <2>3. Serving' = {s \in Serving : s[1] # n}
    BY <2>1, <2>2 DEF Serving
  <2>4. Promise!Vanish(n)
    BY <1>10, <2>3 DEF Exit, Promise!Vanish
  <2>5. QED
    BY <2>4 DEF Promise!Next
<1>11. ASSUME NEW n \in Node, NEW p \in Node, NEW c \in Conn, Read(n, p, c)
       PROVE  Allowed
  <2>1. UNCHANGED <<link, task, ciphers, conns>>
    BY <1>11 DEF Read, maps
  <2>2. QED
    BY <2>1, ServingKept
<1>12. CASE UNCHANGED vars
  BY <1>12, ServingKept DEF vars
<1>13. ASSUME NEW n \in Node, NEW p \in Node,
              \/ DropHello(n, p) \/ Send(n, p) \/ SendFile(n, p)
              \/ \E c \in Conn : SendChunk(n, p, c)
       PROVE  Allowed
  <2>1. UNCHANGED <<link, task, ciphers, conns>>
    BY <1>13 DEF DropHello, Send, SendFile, SendChunk, maps
  <2>2. QED
    BY <2>1, ServingKept
<1>14. ASSUME NEW n \in Node, NEW c \in Conn, ReleaseTx(n, c)
       PROVE  Allowed
  <2>1. UNCHANGED <<link, task, ciphers, conns>>
    BY <1>14 DEF ReleaseTx
  <2>2. QED
    BY <2>1, ServingKept
<1>15. ASSUME NEW c \in Conn, Break(c)
       PROVE  Allowed
  <2>1. UNCHANGED <<link, task, ciphers, conns>>
    BY <1>15 DEF Break, maps
  <2>2. QED
    BY <2>1, ServingKept
<1>16. ASSUME NEW n \in Node, NEW p \in Node, NEW c \in Conn, TaskStep(n, p, c)
       PROVE  Allowed
  BY <1>2, <1>3, <1>4, <1>5, <1>6, <1>7, <1>8, <1>11, <1>16 DEF TaskStep
<1>17. ASSUME NEW n \in Node, NEW p \in Node, Discover(n, p)
       PROVE  Allowed
  BY <1>1, <1>13, <1>17 DEF Discover
<1> HIDE DEF Allowed
<1>18. QED
  BY <1>9, <1>10, <1>12, <1>13, <1>14, <1>16, <1>17, <1>15 DEF Next

\* Sessions implements Registry: all of discovery, handshakes, teardown, reaping,
\* failures and exits changes the maps `ciphers` and `conns` only as it allows.
THEOREM Implementation == Spec => ImplementsRegistry
<1>1. Init => Promise!Init
  BY InitImplements
<1>2. IInv /\ [Next]_vars => [Promise!Next]_Promise!registry
  BY StepImplements
<1>3. QED
  BY <1>1, <1>2, Invariance, PTL DEF Spec, ImplementsRegistry, Promise!Spec
=============================================================================
