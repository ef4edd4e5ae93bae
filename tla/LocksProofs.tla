----------------------------- MODULE LocksProofs ----------------------------
(***************************************************************************)
(* Proofs about Locks for any number of read loops and registrations and   *)
(* any capacities.                                                         *)
(***************************************************************************)
EXTENDS Locks, WellFoundedInduction, TLAPS

(***************************************************************************)
(* What is left of the routines                                            *)
(***************************************************************************)
Chat2 == <<Hold("conns"), Peek("conns"), Free("conns"), Put("events", "other")>>
Chat3 == <<Peek("conns"), Free("conns"), Put("events", "other")>>
Chat4 == <<Free("conns"), Put("events", "other")>>
Chat5 == <<Put("events", "other")>>

End2 == <<Update("conns"), Put("events", "left")>>
End3 == <<Put("events", "left")>>

Reg2 == <<Peek("peers"), Hold("peers"), Put("events", "other"), Free("peers"), Update("conns")>>
Reg3 == <<Hold("peers"), Put("events", "other"), Free("peers"), Update("conns")>>
Reg4 == <<Put("events", "other"), Free("peers"), Update("conns")>>
Reg5 == <<Free("peers"), Update("conns")>>
Reg6 == <<Update("conns")>>

Hello2 == <<Update("peers")>>

Send2 == <<Hold("conns"), Hold("ciphers"), Put("packets", "chat"), Free("ciphers"), Free("conns")>>
Send3 == <<Hold("ciphers"), Put("packets", "chat"), Free("ciphers"), Free("conns")>>
Send4 == <<Put("packets", "chat"), Free("ciphers"), Free("conns")>>
Send5 == <<Free("ciphers"), Free("conns")>>
Send6 == <<Free("conns")>>

Frame2 == <<Put("cmds", "say"), Handle>>
Frame3 == <<Handle>>

Stages(t) ==
    CASE t \in Reader ->
             {<<>>, ReadChat, Chat2, Chat3, Chat4, Chat5, ReadEnd, End2, End3}
      [] t \in Registrar -> {<<>>, Register, Reg2, Reg3, Reg4, Reg5, Reg6}
      [] t = Reaper -> {<<>>, Reap, ReadEnd, End2, End3}
      [] t = Mesh -> {<<>>, Hello, Hello2, Broadcast, Send2, Send3, Send4, Send5, Send6}
      [] t = Terminal -> {<<>>, Frame(FALSE), Frame(TRUE), Frame2, Frame3}

\* The locks of which a task has a guard while it has r to do.
Keeps(r) ==
    {l \in Lock :
        /\ \E i \in DOMAIN r : r[i].op = "free" /\ r[i].on = l
        /\ \A i \in DOMAIN r : r[i].op = "lock" /\ r[i].on = l => ~r[i].keep}

(***************************************************************************)
(* The invariant                                                           *)
(***************************************************************************)
\* Every task is in one of its routines.
Staged ==
    /\ run = [t \in Task |-> run[t]]
    /\ \A t \in Task : run[t] \in Stages(t)

\* Guards are with the tasks that are between taking and freeing them.
Guards == holders = [l \in Lock |-> {t \in Task : l \in Keeps(run[t])}]

\* Whoever is in the queue of a lock is about to take it, and is there once.
Lined ==
    \A l \in Lock : \A i \in DOMAIN waiters[l] :
        LET t == waiters[l][i].task IN
        /\ run[t] # <<>> /\ Head(run[t]).op = "lock"
        /\ Head(run[t]).on = l /\ Head(run[t]).mode = waiters[l][i].mode
        /\ \A j \in DOMAIN waiters[l] : waiters[l][j].task = t => i = j

IInv == TypeOK /\ Staged /\ Guards /\ Lined

(***************************************************************************)
(* Routines                                                                *)
(***************************************************************************)
\* The fields of the operations.
LEMMA OpsAre ==
    /\ \A l : /\ Peek(l).op = "lock" /\ Peek(l).on = l /\ Peek(l).mode = "read" /\ ~Peek(l).keep
              /\ Hold(l).op = "lock" /\ Hold(l).on = l /\ Hold(l).mode = "read" /\ Hold(l).keep
              /\ Update(l).op = "lock" /\ Update(l).on = l /\ Update(l).mode = "write"
              /\ ~Update(l).keep
              /\ Free(l).op = "free" /\ Free(l).on = l
    /\ \A q, i : Put(q, i).op = "put" /\ Put(q, i).on = q /\ Put(q, i).item = i
    /\ Handle.op = "drain"
BY DEF Peek, Hold, Update, Free, Put, Handle

\* Where a read loop is in ReadChat, step by step.
LEMMA ChatStages ==
    /\ ReadChat # <<>> /\ Head(ReadChat) = Peek("ciphers") /\ Tail(ReadChat) = Chat2
    /\ Chat2 # <<>> /\ Head(Chat2) = Hold("conns") /\ Tail(Chat2) = Chat3
    /\ Chat3 # <<>> /\ Head(Chat3) = Peek("conns") /\ Tail(Chat3) = Chat4
    /\ Chat4 # <<>> /\ Head(Chat4) = Free("conns") /\ Tail(Chat4) = Chat5
    /\ Chat5 # <<>> /\ Head(Chat5) = Put("events", "other") /\ Tail(Chat5) = <<>>
BY DEF ReadChat, Chat2, Chat3, Chat4, Chat5

\* It has a guard of conns from its first lock of conns to the free.
LEMMA ChatKeeps ==
    /\ Keeps(ReadChat) = {} /\ Keeps(Chat2) = {} /\ Keeps(Chat3) = {"conns"}
    /\ Keeps(Chat4) = {"conns"} /\ Keeps(Chat5) = {} /\ Keeps(<<>>) = {}
<1> USE OpsAre DEF Keeps, Lock
<1>1. Keeps(ReadChat) = {}
  BY DEF ReadChat
<1>2. Keeps(Chat2) = {}
  BY DEF Chat2
<1>3. Keeps(Chat3) = {"conns"}
  BY DEF Chat3
<1>4. Keeps(Chat4) = {"conns"}
  BY DEF Chat4
<1>5. Keeps(Chat5) = {}
  BY DEF Chat5
<1>6. Keeps(<<>>) = {}
  OBVIOUS
<1>7. QED
  BY <1>1, <1>2, <1>3, <1>4, <1>5, <1>6

\* Where a read loop is in ReadEnd.
LEMMA EndStages ==
    /\ ReadEnd # <<>> /\ Head(ReadEnd) = Update("peers") /\ Tail(ReadEnd) = End2
    /\ End2 # <<>> /\ Head(End2) = Update("conns") /\ Tail(End2) = End3
    /\ End3 # <<>> /\ Head(End3) = Put("events", "left") /\ Tail(End3) = <<>>
BY DEF ReadEnd, End2, End3

\* It keeps no guard there.
LEMMA EndKeeps ==
    /\ Keeps(ReadEnd) = {}
    /\ Keeps(End2) = {}
    /\ Keeps(End3) = {}
<1> USE OpsAre DEF Keeps, Lock
<1>1. Keeps(ReadEnd) = {}
  BY DEF ReadEnd
<1>2. Keeps(End2) = {}
  BY DEF End2
<1>3. Keeps(End3) = {}
  BY DEF End3
<1>4. QED
  BY <1>1, <1>2, <1>3

\* The reaper goes on as the end of a read loop does.
LEMMA ReapStages ==
    /\ Reap # <<>> /\ Head(Reap) = Peek("peers") /\ Tail(Reap) = ReadEnd
BY DEF Reap, ReadEnd

\* It keeps no guard.
LEMMA ReapKeeps ==
    /\ Keeps(Reap) = {}
<1> USE OpsAre DEF Keeps, Lock
<1>1. Keeps(Reap) = {}
  BY DEF Reap
<1>2. QED
  BY <1>1

\* Where a registration is in its routine.
LEMMA RegStages ==
    /\ Register # <<>> /\ Head(Register) = Update("ciphers") /\ Tail(Register) = Reg2
    /\ Reg2 # <<>> /\ Head(Reg2) = Peek("peers") /\ Tail(Reg2) = Reg3
    /\ Reg3 # <<>> /\ Head(Reg3) = Hold("peers") /\ Tail(Reg3) = Reg4
    /\ Reg4 # <<>> /\ Head(Reg4) = Put("events", "other") /\ Tail(Reg4) = Reg5
    /\ Reg5 # <<>> /\ Head(Reg5) = Free("peers") /\ Tail(Reg5) = Reg6
    /\ Reg6 # <<>> /\ Head(Reg6) = Update("conns") /\ Tail(Reg6) = <<>>
BY DEF Register, Reg2, Reg3, Reg4, Reg5, Reg6

\* It has the guard of peers from Hold to Free, around its event.
LEMMA RegKeeps ==
    /\ Keeps(Register) = {}
    /\ Keeps(Reg2) = {}
    /\ Keeps(Reg3) = {}
    /\ Keeps(Reg4) = {"peers"}
    /\ Keeps(Reg5) = {"peers"}
    /\ Keeps(Reg6) = {}
<1> USE OpsAre DEF Keeps, Lock
<1>1. Keeps(Register) = {}
  BY DEF Register
<1>2. Keeps(Reg2) = {}
  BY DEF Reg2
<1>3. Keeps(Reg3) = {}
  BY DEF Reg3
<1>4. Keeps(Reg4) = {"peers"}
  BY DEF Reg4
<1>5. Keeps(Reg5) = {"peers"}
  BY DEF Reg5
<1>6. Keeps(Reg6) = {}
  BY DEF Reg6
<1>7. QED
  BY <1>1, <1>2, <1>3, <1>4, <1>5, <1>6

\* Where the mesh loop is in Hello.
LEMMA HelloStages ==
    /\ Hello # <<>> /\ Head(Hello) = Peek("peers") /\ Tail(Hello) = Hello2
    /\ Hello2 # <<>> /\ Head(Hello2) = Update("peers") /\ Tail(Hello2) = <<>>
BY DEF Hello, Hello2

\* It keeps no guard there.
LEMMA HelloKeeps ==
    /\ Keeps(Hello) = {}
    /\ Keeps(Hello2) = {}
<1> USE OpsAre DEF Keeps, Lock
<1>1. Keeps(Hello) = {}
  BY DEF Hello
<1>2. Keeps(Hello2) = {}
  BY DEF Hello2
<1>3. QED
  BY <1>1, <1>2

\* Where the mesh loop is in Broadcast.
LEMMA SendStages ==
    /\ Broadcast # <<>> /\ Head(Broadcast) = Peek("peers") /\ Tail(Broadcast) = Send2
    /\ Send2 # <<>> /\ Head(Send2) = Hold("conns") /\ Tail(Send2) = Send3
    /\ Send3 # <<>> /\ Head(Send3) = Hold("ciphers") /\ Tail(Send3) = Send4
    /\ Send4 # <<>> /\ Head(Send4) = Put("packets", "chat") /\ Tail(Send4) = Send5
    /\ Send5 # <<>> /\ Head(Send5) = Free("ciphers") /\ Tail(Send5) = Send6
    /\ Send6 # <<>> /\ Head(Send6) = Free("conns") /\ Tail(Send6) = <<>>
BY DEF Broadcast, Send2, Send3, Send4, Send5, Send6

\* It has conns, then ciphers too, and frees them in the other order.
LEMMA SendKeeps ==
    /\ Keeps(Broadcast) = {}
    /\ Keeps(Send2) = {}
    /\ Keeps(Send3) = {"conns"}
    /\ Keeps(Send4) = {"conns", "ciphers"}
    /\ Keeps(Send5) = {"conns", "ciphers"}
    /\ Keeps(Send6) = {"conns"}
<1> USE OpsAre DEF Keeps, Lock
<1>1. Keeps(Broadcast) = {}
  BY DEF Broadcast
<1>2. Keeps(Send2) = {}
  BY DEF Send2
<1>3. Keeps(Send3) = {"conns"}
  BY DEF Send3
<1>4. Keeps(Send4) = {"conns", "ciphers"}
  BY DEF Send4
<1>5. Keeps(Send5) = {"conns", "ciphers"}
  BY DEF Send5
<1>6. Keeps(Send6) = {"conns"}
  BY DEF Send6
<1>7. QED
  BY <1>1, <1>2, <1>3, <1>4, <1>5, <1>6

\* Where the terminal is in its frame.
LEMMA FrameStages ==
    /\ Frame(FALSE) # <<>> /\ Head(Frame(FALSE)) = Peek("peers") /\ Tail(Frame(FALSE)) = Frame3
    /\ Frame(TRUE) # <<>> /\ Head(Frame(TRUE)) = Peek("peers") /\ Tail(Frame(TRUE)) = Frame2
    /\ Frame2 # <<>> /\ Head(Frame2) = Put("cmds", "say") /\ Tail(Frame2) = Frame3
    /\ Frame3 # <<>> /\ Head(Frame3) = Handle /\ Tail(Frame3) = <<>>
BY DEF Frame, Frame2, Frame3

\* It keeps no guard.
LEMMA FrameKeeps ==
    /\ Keeps(Frame(FALSE)) = {}
    /\ Keeps(Frame(TRUE)) = {}
    /\ Keeps(Frame2) = {}
    /\ Keeps(Frame3) = {}
<1> USE OpsAre DEF Keeps, Lock
<1>1. Keeps(Frame(FALSE)) = {}
  BY DEF Frame
<1>2. Keeps(Frame(TRUE)) = {}
  BY DEF Frame
<1>3. Keeps(Frame2) = {}
  BY DEF Frame2
<1>4. Keeps(Frame3) = {}
  BY DEF Frame3
<1>5. QED
  BY <1>1, <1>2, <1>3, <1>4

\* The stages of each kind of task, one set for each.
LEMMA StagesOf ==
    ASSUME NEW t \in Task
    PROVE  /\ t \in Reader => Stages(t) = {<<>>, ReadChat, Chat2, Chat3, Chat4, Chat5, ReadEnd,
               End2, End3}
           /\ t \in Registrar => Stages(t) = {<<>>, Register, Reg2, Reg3, Reg4, Reg5, Reg6}
           /\ t = Reaper => Stages(t) = {<<>>, Reap, ReadEnd, End2, End3}
           /\ t = Mesh => Stages(t) = {<<>>, Hello, Hello2, Broadcast, Send2, Send3, Send4, Send5,
               Send6}
           /\ t = Terminal => Stages(t) = {<<>>, Frame(FALSE), Frame(TRUE), Frame2, Frame3}
BY LocksAssumption DEF Task, Stages

\* Who has which guard, and where in its routine.
LEMMA Keepers ==
    ASSUME NEW t \in Task, NEW r \in Stages(t)
    PROVE  /\ "peers" \in Keeps(r) => t \in Registrar /\ r \in {Reg4, Reg5}
           /\ "ciphers" \in Keeps(r) => r \in {Send4, Send5}
           /\ "conns" \in Keeps(r) =>
                 \/ t \in Reader /\ r \in {Chat3, Chat4}
                 \/ r \in {Send3, Send4, Send5, Send6}
<1>1. CASE t \in Reader
  <2>1. r \in {<<>>, ReadChat, Chat2, Chat3, Chat4, Chat5, ReadEnd, End2, End3}
    BY <1>1, StagesOf
  <2>2. CASE r \in {<<>>, ReadChat, Chat2, Chat5, ReadEnd, End2, End3}
    <3>1. Keeps(r) = {}
      BY <2>2, ChatKeeps, EndKeeps
    <3>2. QED
      BY <3>1
  <2>3. CASE r \in {Chat3, Chat4}
    <3>1. Keeps(r) = {"conns"}
      BY <2>3, ChatKeeps
    <3>2. QED
      BY <1>1, <2>3, <3>1
  <2>4. QED
    BY <2>1, <2>2, <2>3
<1>2. CASE t \in Registrar
  <2>1. r \in {<<>>, Register, Reg2, Reg3, Reg4, Reg5, Reg6}
    BY <1>2, StagesOf
  <2>2. CASE r \in {<<>>, Register, Reg2, Reg3, Reg6}
    <3>1. Keeps(r) = {}
      BY <2>2, ChatKeeps, RegKeeps
    <3>2. QED
      BY <3>1
  <2>3. CASE r \in {Reg4, Reg5}
    <3>1. Keeps(r) = {"peers"}
      BY <2>3, RegKeeps
    <3>2. QED
      BY <1>2, <2>3, <3>1
  <2>4. QED
    BY <2>1, <2>2, <2>3
<1>3. CASE t = Reaper
  <2>1. Keeps(r) = {}
    BY <1>3, StagesOf, ChatKeeps, EndKeeps, ReapKeeps
  <2>2. QED
    BY <2>1
<1>4. CASE t = Mesh
  <2>1. r \in {<<>>, Hello, Hello2, Broadcast, Send2, Send3, Send4, Send5, Send6}
    BY <1>4, StagesOf
  <2>2. CASE r \in {<<>>, Hello, Hello2, Broadcast, Send2}
    <3>1. Keeps(r) = {}
      BY <2>2, ChatKeeps, HelloKeeps, SendKeeps
    <3>2. QED
      BY <3>1
  <2>3. CASE r \in {Send3, Send6}
    <3>1. Keeps(r) = {"conns"}
      BY <2>3, SendKeeps
    <3>2. QED
      BY <2>3, <3>1
  <2>4. CASE r \in {Send4, Send5}
    <3>1. Keeps(r) = {"conns", "ciphers"}
      BY <2>4, SendKeeps
    <3>2. QED
      BY <2>4, <3>1
  <2>5. QED
    BY <2>1, <2>2, <2>3, <2>4
<1>5. CASE t = Terminal
  <2>1. Keeps(r) = {}
    BY <1>5, StagesOf, ChatKeeps, FrameKeeps
  <2>2. QED
    BY <2>1
<1>6. QED
  BY <1>1, <1>2, <1>3, <1>4, <1>5 DEF Task

\* The mesh loop fills no queue but that of packets, the terminal none but that
\* of commands.
LEMMA Putters ==
    ASSUME NEW t \in Task, NEW r \in Stages(t), r # <<>>, Head(r).op = "put"
    PROVE  /\ t = Mesh => Head(r).on = "packets"
           /\ t = Terminal => Head(r).on = "cmds"
<1>1. CASE t = Mesh
  <2>1. r \in {Hello, Hello2, Broadcast, Send2, Send3, Send4, Send5, Send6}
    BY <1>1, StagesOf
  <2>2. \/ Head(r) \in {Peek("peers"), Update("peers"), Hold("conns"), Hold("ciphers")}
        \/ Head(r) = Put("packets", "chat")
        \/ Head(r) \in {Free("ciphers"), Free("conns")}
    BY <2>1, HelloStages, SendStages
  <2>3. Head(r).on = "packets"
    BY <2>2 DEF Peek, Update, Hold, Put, Free
  <2>4. QED
    BY <1>1, <2>3, LocksAssumption
<1>2. CASE t = Terminal
  <2>1. r \in {Frame(FALSE), Frame(TRUE), Frame2, Frame3}
    BY <1>2, StagesOf
  <2>2. Head(r) \in {Peek("peers"), Put("cmds", "say"), Handle}
    BY <2>1, FrameStages
  <2>3. Head(r).on = "cmds"
    BY <2>2 DEF Peek, Put, Handle
  <2>4. QED
    BY <1>2, <2>3, LocksAssumption
<1>3. QED
  BY <1>1, <1>2

\* What the next operation of a task is, and what is left after it.
NextOp(t, r) ==
    LET o == Head(r) IN
    /\ Tail(r) \in Stages(t)
    /\ \/ /\ o.op = "lock" /\ o.on \in Lock /\ o.mode \in {"read", "write"}
          /\ Keeps(Tail(r)) = IF o.keep THEN Keeps(r) \cup {o.on} ELSE Keeps(r)
       \/ /\ o.op = "free" /\ o.on \in Lock
          /\ Keeps(Tail(r)) = Keeps(r) \ {o.on}
       \/ /\ o.op = "put" /\ o.on \in Queue /\ o.item \in {"chat", "left", "other", "say"}
          /\ Keeps(Tail(r)) = Keeps(r)
       \/ o.op = "drain" /\ t = Terminal /\ r = Frame3 /\ Keeps(Tail(r)) = Keeps(r)

\* From each stage of a read loop.
LEMMA ReaderOnward ==
    ASSUME NEW t \in Task, t \in Reader, NEW r \in Stages(t), r # <<>> PROVE NextOp(t, r)
<1>0. r \in {ReadChat, Chat2, Chat3, Chat4, Chat5, ReadEnd, End2, End3}
  BY StagesOf
<1>1. CASE r = ReadChat
  <2>1. Tail(r) \in Stages(t)
    BY <1>1, StagesOf, ChatStages
  <2>2. Head(r) = Peek("ciphers")
    BY <1>1, ChatStages
  <2>3. Keeps(Tail(r)) = Keeps(r)
    BY <1>1, ChatStages, ChatKeeps
  <2>4. QED
    BY <2>1, <2>2, <2>3 DEF NextOp, Peek, Lock, Queue
<1>2. CASE r = Chat2
  <2>1. Tail(r) \in Stages(t)
    BY <1>2, StagesOf, ChatStages
  <2>2. Head(r) = Hold("conns")
    BY <1>2, ChatStages
  <2>3. Keeps(Tail(r)) = Keeps(r) \cup {"conns"}
    BY <1>2, ChatStages, ChatKeeps
  <2>4. QED
    BY <2>1, <2>2, <2>3 DEF NextOp, Hold, Lock, Queue
<1>3. CASE r = Chat3
  <2>1. Tail(r) \in Stages(t)
    BY <1>3, StagesOf, ChatStages
  <2>2. Head(r) = Peek("conns")
    BY <1>3, ChatStages
  <2>3. Keeps(Tail(r)) = Keeps(r)
    BY <1>3, ChatStages, ChatKeeps
  <2>4. QED
    BY <2>1, <2>2, <2>3 DEF NextOp, Peek, Lock, Queue
<1>4. CASE r = Chat4
  <2>1. Tail(r) \in Stages(t)
    BY <1>4, StagesOf, ChatStages
  <2>2. Head(r) = Free("conns")
    BY <1>4, ChatStages
  <2>3. Keeps(Tail(r)) = Keeps(r) \ {"conns"}
    BY <1>4, ChatStages, ChatKeeps
  <2>4. QED
    BY <2>1, <2>2, <2>3 DEF NextOp, Free, Lock, Queue
<1>5. CASE r = Chat5
  <2>1. Tail(r) \in Stages(t)
    BY <1>5, StagesOf, ChatStages
  <2>2. Head(r) = Put("events", "other")
    BY <1>5, ChatStages
  <2>3. Keeps(Tail(r)) = Keeps(r)
    BY <1>5, ChatStages, ChatKeeps
  <2>4. QED
    BY <2>1, <2>2, <2>3 DEF NextOp, Put, Lock, Queue
<1>6. CASE r = ReadEnd
  <2>1. Tail(r) \in Stages(t)
    BY <1>6, StagesOf, EndStages
  <2>2. Head(r) = Update("peers")
    BY <1>6, EndStages
  <2>3. Keeps(Tail(r)) = Keeps(r)
    BY <1>6, EndStages, ChatKeeps, EndKeeps
  <2>4. QED
    BY <2>1, <2>2, <2>3 DEF NextOp, Update, Lock, Queue
<1>7. CASE r = End2
  <2>1. Tail(r) \in Stages(t)
    BY <1>7, StagesOf, EndStages
  <2>2. Head(r) = Update("conns")
    BY <1>7, EndStages
  <2>3. Keeps(Tail(r)) = Keeps(r)
    BY <1>7, EndStages, ChatKeeps, EndKeeps
  <2>4. QED
    BY <2>1, <2>2, <2>3 DEF NextOp, Update, Lock, Queue
<1>8. CASE r = End3
  <2>1. Tail(r) \in Stages(t)
    BY <1>8, StagesOf, EndStages
  <2>2. Head(r) = Put("events", "left")
    BY <1>8, EndStages
  <2>3. Keeps(Tail(r)) = Keeps(r)
    BY <1>8, EndStages, ChatKeeps, EndKeeps
  <2>4. QED
    BY <2>1, <2>2, <2>3 DEF NextOp, Put, Lock, Queue
<1>9. QED
  BY <1>0, <1>1, <1>2, <1>3, <1>4, <1>5, <1>6, <1>7, <1>8

\* From each stage of a registration.
LEMMA RegistrarOnward ==
    ASSUME NEW t \in Task, t \in Registrar, NEW r \in Stages(t), r # <<>> PROVE NextOp(t, r)
<1>0. r \in {Register, Reg2, Reg3, Reg4, Reg5, Reg6}
  BY StagesOf
<1>1. CASE r = Register
  <2>1. Tail(r) \in Stages(t)
    BY <1>1, StagesOf, RegStages
  <2>2. Head(r) = Update("ciphers")
    BY <1>1, RegStages
  <2>3. Keeps(Tail(r)) = Keeps(r)
    BY <1>1, RegStages, ChatKeeps, RegKeeps
  <2>4. QED
    BY <2>1, <2>2, <2>3 DEF NextOp, Update, Lock, Queue
<1>2. CASE r = Reg2
  <2>1. Tail(r) \in Stages(t)
    BY <1>2, StagesOf, RegStages
  <2>2. Head(r) = Peek("peers")
    BY <1>2, RegStages
  <2>3. Keeps(Tail(r)) = Keeps(r)
    BY <1>2, RegStages, ChatKeeps, RegKeeps
  <2>4. QED
    BY <2>1, <2>2, <2>3 DEF NextOp, Peek, Lock, Queue
<1>3. CASE r = Reg3
  <2>1. Tail(r) \in Stages(t)
    BY <1>3, StagesOf, RegStages
  <2>2. Head(r) = Hold("peers")
    BY <1>3, RegStages
  <2>3. Keeps(Tail(r)) = Keeps(r) \cup {"peers"}
    BY <1>3, RegStages, ChatKeeps, RegKeeps
  <2>4. QED
    BY <2>1, <2>2, <2>3 DEF NextOp, Hold, Lock, Queue
<1>4. CASE r = Reg4
  <2>1. Tail(r) \in Stages(t)
    BY <1>4, StagesOf, RegStages
  <2>2. Head(r) = Put("events", "other")
    BY <1>4, RegStages
  <2>3. Keeps(Tail(r)) = Keeps(r)
    BY <1>4, RegStages, ChatKeeps, RegKeeps
  <2>4. QED
    BY <2>1, <2>2, <2>3 DEF NextOp, Put, Lock, Queue
<1>5. CASE r = Reg5
  <2>1. Tail(r) \in Stages(t)
    BY <1>5, StagesOf, RegStages
  <2>2. Head(r) = Free("peers")
    BY <1>5, RegStages
  <2>3. Keeps(Tail(r)) = Keeps(r) \ {"peers"}
    BY <1>5, RegStages, ChatKeeps, RegKeeps
  <2>4. QED
    BY <2>1, <2>2, <2>3 DEF NextOp, Free, Lock, Queue
<1>6. CASE r = Reg6
  <2>1. Tail(r) \in Stages(t)
    BY <1>6, StagesOf, RegStages
  <2>2. Head(r) = Update("conns")
    BY <1>6, RegStages
  <2>3. Keeps(Tail(r)) = Keeps(r)
    BY <1>6, RegStages, ChatKeeps, RegKeeps
  <2>4. QED
    BY <2>1, <2>2, <2>3 DEF NextOp, Update, Lock, Queue
<1>7. QED
  BY <1>0, <1>1, <1>2, <1>3, <1>4, <1>5, <1>6

\* From each stage of the reaper.
LEMMA ReaperOnward ==
    ASSUME NEW t \in Task, t = Reaper, NEW r \in Stages(t), r # <<>> PROVE NextOp(t, r)
<1>0. r \in {Reap, ReadEnd, End2, End3}
  BY StagesOf
<1>1. CASE r = Reap
  <2>1. Tail(r) \in Stages(t)
    BY <1>1, StagesOf, ReapStages
  <2>2. Head(r) = Peek("peers")
    BY <1>1, ReapStages
  <2>3. Keeps(Tail(r)) = Keeps(r)
    BY <1>1, ReapStages, ChatKeeps, ReapKeeps, EndKeeps
  <2>4. QED
    BY <2>1, <2>2, <2>3 DEF NextOp, Peek, Lock, Queue
<1>2. CASE r = ReadEnd
  <2>1. Tail(r) \in Stages(t)
    BY <1>2, StagesOf, EndStages
  <2>2. Head(r) = Update("peers")
    BY <1>2, EndStages
  <2>3. Keeps(Tail(r)) = Keeps(r)
    BY <1>2, EndStages, ChatKeeps, EndKeeps
  <2>4. QED
    BY <2>1, <2>2, <2>3 DEF NextOp, Update, Lock, Queue
<1>3. CASE r = End2
  <2>1. Tail(r) \in Stages(t)
    BY <1>3, StagesOf, EndStages
  <2>2. Head(r) = Update("conns")
    BY <1>3, EndStages
  <2>3. Keeps(Tail(r)) = Keeps(r)
    BY <1>3, EndStages, ChatKeeps, EndKeeps
  <2>4. QED
    BY <2>1, <2>2, <2>3 DEF NextOp, Update, Lock, Queue
<1>4. CASE r = End3
  <2>1. Tail(r) \in Stages(t)
    BY <1>4, StagesOf, EndStages
  <2>2. Head(r) = Put("events", "left")
    BY <1>4, EndStages
  <2>3. Keeps(Tail(r)) = Keeps(r)
    BY <1>4, EndStages, ChatKeeps, EndKeeps
  <2>4. QED
    BY <2>1, <2>2, <2>3 DEF NextOp, Put, Lock, Queue
<1>5. QED
  BY <1>0, <1>1, <1>2, <1>3, <1>4

\* From each stage of the mesh loop.
LEMMA MeshOnward ==
    ASSUME NEW t \in Task, t = Mesh, NEW r \in Stages(t), r # <<>> PROVE NextOp(t, r)
<1>0. r \in {Hello, Hello2, Broadcast, Send2, Send3, Send4, Send5, Send6}
  BY StagesOf
<1>1. CASE r = Hello
  <2>1. Tail(r) \in Stages(t)
    BY <1>1, StagesOf, HelloStages
  <2>2. Head(r) = Peek("peers")
    BY <1>1, HelloStages
  <2>3. Keeps(Tail(r)) = Keeps(r)
    BY <1>1, HelloStages, ChatKeeps, HelloKeeps
  <2>4. QED
    BY <2>1, <2>2, <2>3 DEF NextOp, Peek, Lock, Queue
<1>2. CASE r = Hello2
  <2>1. Tail(r) \in Stages(t)
    BY <1>2, StagesOf, HelloStages
  <2>2. Head(r) = Update("peers")
    BY <1>2, HelloStages
  <2>3. Keeps(Tail(r)) = Keeps(r)
    BY <1>2, HelloStages, ChatKeeps, HelloKeeps
  <2>4. QED
    BY <2>1, <2>2, <2>3 DEF NextOp, Update, Lock, Queue
<1>3. CASE r = Broadcast
  <2>1. Tail(r) \in Stages(t)
    BY <1>3, StagesOf, SendStages
  <2>2. Head(r) = Peek("peers")
    BY <1>3, SendStages
  <2>3. Keeps(Tail(r)) = Keeps(r)
    BY <1>3, SendStages, ChatKeeps, SendKeeps
  <2>4. QED
    BY <2>1, <2>2, <2>3 DEF NextOp, Peek, Lock, Queue
<1>4. CASE r = Send2
  <2>1. Tail(r) \in Stages(t)
    BY <1>4, StagesOf, SendStages
  <2>2. Head(r) = Hold("conns")
    BY <1>4, SendStages
  <2>3. Keeps(Tail(r)) = Keeps(r) \cup {"conns"}
    BY <1>4, SendStages, ChatKeeps, SendKeeps
  <2>4. QED
    BY <2>1, <2>2, <2>3 DEF NextOp, Hold, Lock, Queue
<1>5. CASE r = Send3
  <2>1. Tail(r) \in Stages(t)
    BY <1>5, StagesOf, SendStages
  <2>2. Head(r) = Hold("ciphers")
    BY <1>5, SendStages
  <2>3. Keeps(Tail(r)) = Keeps(r) \cup {"ciphers"}
    BY <1>5, SendStages, ChatKeeps, SendKeeps
  <2>4. QED
    BY <2>1, <2>2, <2>3 DEF NextOp, Hold, Lock, Queue
<1>6. CASE r = Send4
  <2>1. Tail(r) \in Stages(t)
    BY <1>6, StagesOf, SendStages
  <2>2. Head(r) = Put("packets", "chat")
    BY <1>6, SendStages
  <2>3. Keeps(Tail(r)) = Keeps(r)
    BY <1>6, SendStages, ChatKeeps, SendKeeps
  <2>4. QED
    BY <2>1, <2>2, <2>3 DEF NextOp, Put, Lock, Queue
<1>7. CASE r = Send5
  <2>1. Tail(r) \in Stages(t)
    BY <1>7, StagesOf, SendStages
  <2>2. Head(r) = Free("ciphers")
    BY <1>7, SendStages
  <2>3. Keeps(Tail(r)) = Keeps(r) \ {"ciphers"}
    BY <1>7, SendStages, ChatKeeps, SendKeeps
  <2>4. QED
    BY <2>1, <2>2, <2>3 DEF NextOp, Free, Lock, Queue
<1>8. CASE r = Send6
  <2>1. Tail(r) \in Stages(t)
    BY <1>8, StagesOf, SendStages
  <2>2. Head(r) = Free("conns")
    BY <1>8, SendStages
  <2>3. Keeps(Tail(r)) = Keeps(r) \ {"conns"}
    BY <1>8, SendStages, ChatKeeps, SendKeeps
  <2>4. QED
    BY <2>1, <2>2, <2>3 DEF NextOp, Free, Lock, Queue
<1>9. QED
  BY <1>0, <1>1, <1>2, <1>3, <1>4, <1>5, <1>6, <1>7, <1>8

\* From each stage of the terminal.
LEMMA TerminalOnward ==
    ASSUME NEW t \in Task, t = Terminal, NEW r \in Stages(t), r # <<>> PROVE NextOp(t, r)
<1>0. r \in {Frame(FALSE), Frame(TRUE), Frame2, Frame3}
  BY StagesOf
<1>1. CASE r = Frame(FALSE)
  <2>1. Tail(r) \in Stages(t)
    BY <1>1, StagesOf, FrameStages
  <2>2. Head(r) = Peek("peers")
    BY <1>1, FrameStages
  <2>3. Keeps(Tail(r)) = Keeps(r)
    BY <1>1, FrameStages, ChatKeeps, FrameKeeps
  <2>4. QED
    BY <2>1, <2>2, <2>3 DEF NextOp, Peek, Lock, Queue
<1>2. CASE r = Frame(TRUE)
  <2>1. Tail(r) \in Stages(t)
    BY <1>2, StagesOf, FrameStages
  <2>2. Head(r) = Peek("peers")
    BY <1>2, FrameStages
  <2>3. Keeps(Tail(r)) = Keeps(r)
    BY <1>2, FrameStages, ChatKeeps, FrameKeeps
  <2>4. QED
    BY <2>1, <2>2, <2>3 DEF NextOp, Peek, Lock, Queue
<1>3. CASE r = Frame2
  <2>1. Tail(r) \in Stages(t)
    BY <1>3, StagesOf, FrameStages
  <2>2. Head(r) = Put("cmds", "say")
    BY <1>3, FrameStages
  <2>3. Keeps(Tail(r)) = Keeps(r)
    BY <1>3, FrameStages, ChatKeeps, FrameKeeps
  <2>4. QED
    BY <2>1, <2>2, <2>3 DEF NextOp, Put, Lock, Queue
<1>4. CASE r = Frame3
  <2>1. Tail(r) \in Stages(t)
    BY <1>4, StagesOf, FrameStages
  <2>2. Head(r) = Handle
    BY <1>4, FrameStages
  <2>3. Keeps(Tail(r)) = Keeps(r)
    BY <1>4, FrameStages, ChatKeeps, FrameKeeps
  <2>4. QED
    BY <2>1, <2>2, <2>3, <1>4 DEF NextOp, Handle, Lock, Queue
<1>5. QED
  BY <1>0, <1>1, <1>2, <1>3, <1>4

\* The next operation of any task is as NextOp says.
LEMMA Onward == ASSUME NEW t \in Task, NEW r \in Stages(t), r # <<>> PROVE NextOp(t, r)
BY ReaderOnward, RegistrarOnward, ReaperOnward, MeshOnward, TerminalOnward DEF Task

\* The routines of each kind of task.
LEMMA RoutinesOf ==
    ASSUME NEW t \in Task
    PROVE  /\ t \in Reader => Routines(t) = {ReadChat, ReadEnd}
           /\ t \in Registrar => Routines(t) = {Register}
           /\ t = Reaper => Routines(t) = {Reap}
           /\ t = Mesh => Routines(t) = {Hello}
           /\ t = Terminal => Routines(t) = {Frame(FALSE), Frame(TRUE)}
BY LocksAssumption DEF Task, Routines

\* A task begins with one of its routines, or goes on, with no guard but its own.
LEMMA Begins ==
    ASSUME Staged, NEW t \in Task, NEW r \in Ahead(t)
    PROVE  r \in Stages(t) /\ r # <<>> /\ Keeps(r) = Keeps(run[t])
<1>1. CASE run[t] # <<>>
  BY <1>1 DEF Ahead, Staged
<1>2. CASE run[t] = <<>>
  <2>1. r \in Routines(t)
    BY <1>2 DEF Ahead
  <2>2. r \in Stages(t) /\ r # <<>> /\ Keeps(r) = {}
    <3>1. CASE t \in Reader
      <4>1. r \in {ReadChat, ReadEnd}
        BY <2>1, <3>1, RoutinesOf
      <4>2. r \in Stages(t)
        BY <3>1, <4>1, StagesOf
      <4>3. QED
        BY <4>1, <4>2, ChatStages, ChatKeeps, EndStages, EndKeeps
    <3>2. CASE t \in Registrar
      <4>1. r \in {Register}
        BY <2>1, <3>2, RoutinesOf
      <4>2. r \in Stages(t)
        BY <3>2, <4>1, StagesOf
      <4>3. QED
        BY <4>1, <4>2, RegStages, RegKeeps
    <3>3. CASE t = Reaper
      <4>1. r \in {Reap}
        BY <2>1, <3>3, RoutinesOf
      <4>2. r \in Stages(t)
        BY <3>3, <4>1, StagesOf
      <4>3. QED
        BY <4>1, <4>2, ReapStages, ReapKeeps
    <3>4. CASE t = Mesh
      <4>1. r \in {Hello}
        BY <2>1, <3>4, RoutinesOf
      <4>2. r \in Stages(t)
        BY <3>4, <4>1, StagesOf
      <4>3. QED
        BY <4>1, <4>2, HelloStages, HelloKeeps
    <3>5. CASE t = Terminal
      <4>1. r \in {Frame(FALSE), Frame(TRUE)}
        BY <2>1, <3>5, RoutinesOf
      <4>2. r \in Stages(t)
        BY <3>5, <4>1, StagesOf
      <4>3. QED
        BY <4>1, <4>2, FrameStages, FrameKeeps
    <3>6. QED
      BY <3>1, <3>2, <3>3, <3>4, <3>5 DEF Task
  <2>3. QED
    BY <1>2, <2>2, ChatKeeps
<1>3. QED
  BY <1>1, <1>2

(***************************************************************************)
(* One step of a task                                                      *)
(***************************************************************************)
\* What stands in the queue of a lock.
Entry == [task : Task, mode : {"read", "write"}]

\* The fields of an entry of a line.
LEMMA EntryFields ==
    /\ \A e \in Entry : e.task \in Task
    /\ \A t \in Task, m \in {"read", "write"} :
          LET e == [task |-> t, mode |-> m] IN e \in Entry /\ e.task = t /\ e.mode = m
BY DEF Entry

\* An item appended to a sequence is its last, the others stay.
LEMMA AppendFacts ==
    ASSUME NEW S, NEW w \in Seq(S), NEW e \in S
    PROVE  /\ Append(w, e) \in Seq(S) /\ Len(w) \in Nat
           /\ DOMAIN Append(w, e) = 1 .. Len(w) + 1 /\ DOMAIN w = 1 .. Len(w)
           /\ Append(w, e)[Len(w) + 1] = e
           /\ \A j \in 1 .. Len(w) : Append(w, e)[j] = w[j]
OBVIOUS

\* The tail of a sequence has its items one place earlier.
LEMMA TailFacts ==
    ASSUME NEW S, NEW w \in Seq(S), w # <<>>
    PROVE  /\ Tail(w) \in Seq(S) /\ Len(w) \in Nat \ {0} /\ Head(w) = w[1]
           /\ DOMAIN Tail(w) = 1 .. Len(w) - 1 /\ DOMAIN w = 1 .. Len(w)
           /\ \A j \in 1 .. Len(w) - 1 : Tail(w)[j] = w[j + 1]
OBVIOUS

\* The line of a lock is a sequence of tasks with their modes.
LEMMA LineOf ==
    ASSUME TypeOK, NEW l \in Lock
    PROVE  /\ waiters[l] \in Seq(Entry) /\ Len(waiters[l]) \in Nat
           /\ DOMAIN waiters[l] = 1 .. Len(waiters[l])
           /\ \A i \in DOMAIN waiters[l] : waiters[l][i].task \in Task
<1>1. waiters[l] \in Seq(Entry)
  BY DEF TypeOK, Entry
<1>2. \A i \in DOMAIN waiters[l] : waiters[l][i] \in Entry
  BY <1>1
<1>3. QED
  BY <1>1, <1>2, EntryFields

\* TypeOK for the two variables that the invariant says the least of.
LEMMA TypeIs ==
    ASSUME Guards', waiters' \in [Lock -> Seq(Entry)],
           queued' \in [Queue -> Seq({"chat", "left", "other", "say"})],
           \A q \in Queue : Len(queued'[q]) <= Capacity[q]
    PROVE  TypeOK'
<1>1. holders' \in [Lock -> SUBSET Task]
  BY DEF Guards
<1>2. QED
  BY <1>1 DEF TypeOK, Entry

\* A step that changes neither lines nor queues keeps their types.
LEMMA TypeStays == ASSUME TypeOK, Guards', UNCHANGED <<waiters, queued>> PROVE TypeOK'
BY TypeIs DEF TypeOK, Entry

\* The task t has x to do next, the others what they had.
Turns(t, x) == run' = [run EXCEPT ![t] = x]

\* A task that turns to one of its stages leaves every task in its stages.
LEMMA StagedKept ==
    ASSUME Staged, NEW t \in Task, NEW x \in Stages(t), Turns(t, x)
    PROVE  Staged'
BY DEF Staged, Turns, Stages

\* Guards stay with their tasks when what t keeps changes as holders does.
LEMMA GuardsKept ==
    ASSUME Staged, Guards, NEW t \in Task, NEW x, Turns(t, x),
           \/ Keeps(x) = Keeps(run[t]) /\ holders' = holders
           \/ \E l \in Lock :
                 \/ /\ Keeps(x) = Keeps(run[t]) \cup {l}
                    /\ holders' = [holders EXCEPT ![l] = @ \cup {t}]
                 \/ /\ Keeps(x) = Keeps(run[t]) \ {l}
                    /\ holders' = [holders EXCEPT ![l] = @ \ {t}]
    PROVE  Guards'
<1>1. DOMAIN holders' = Lock /\ holders' = [l \in Lock |-> holders'[l]]
  BY DEF Guards
<1>2. ASSUME NEW l \in Lock PROVE holders'[l] = {u \in Task : l \in Keeps(run'[u])}
  <2>1. holders[l] = {u \in Task : l \in Keeps(run[u])}
    BY DEF Guards
  <2>2. run'[t] = x /\ \A u \in Task \ {t} : run'[u] = run[u]
    BY DEF Staged, Turns
  <2>3. holders'[l] \subseteq Task
    BY <2>1 DEF Guards
  <2>4. ASSUME NEW u \in Task PROVE u \in holders'[l] <=> l \in Keeps(run'[u])
    <3>1. CASE u # t
      <4>1. u \in holders'[l] <=> u \in holders[l]
        BY <3>1 DEF Guards
      <4>2. QED
        BY <2>1, <2>2, <3>1, <4>1
    <3>2. CASE u = t
      <4>1. u \in holders'[l] <=> l \in Keeps(x)
        BY <2>1, <3>2 DEF Guards
      <4>2. QED
        BY <2>2, <3>2, <4>1
    <3>3. QED
      BY <3>1, <3>2
  <2>5. QED
    BY <2>3, <2>4
<1>3. QED
  BY <1>1, <1>2 DEF Guards

\* A task in no line may turn to anything.
LEMMA LinedKept ==
    ASSUME TypeOK, Staged, Lined, NEW t \in Task, NEW x, Turns(t, x),
           \A l \in Lock : ~Waits(t, l), waiters' = waiters
    PROVE  Lined'
<1> SUFFICES ASSUME NEW l \in Lock, NEW i \in DOMAIN waiters[l]
             PROVE  LET u == waiters[l][i].task IN
                    /\ run'[u] # <<>> /\ Head(run'[u]).op = "lock"
                    /\ Head(run'[u]).on = l /\ Head(run'[u]).mode = waiters[l][i].mode
                    /\ \A j \in DOMAIN waiters[l] : waiters[l][j].task = u => i = j
  BY DEF Lined
<1>1. waiters[l][i].task # t /\ waiters[l][i].task \in Task
  BY LineOf DEF Waits
<1>2. run'[waiters[l][i].task] = run[waiters[l][i].task]
  BY <1>1 DEF Turns, Staged
<1>3. QED
  BY <1>2 DEF Lined

\* What Lined says of one place of one line.
LEMMA LinedAt ==
    ASSUME Lined, NEW l, l \in Lock, NEW i, i \in DOMAIN waiters[l]
    PROVE  /\ run[waiters[l][i].task] # <<>> /\ Head(run[waiters[l][i].task]).op = "lock"
           /\ Head(run[waiters[l][i].task]).on = l
           /\ Head(run[waiters[l][i].task]).mode = waiters[l][i].mode
BY DEF Lined

\* A task waits for no lock but the one it is about to take.
LEMMA WaitsForHead ==
    ASSUME Lined, NEW t \in Task, NEW l \in Lock, Waits(t, l)
    PROVE  Doing(t, "lock") /\ On(t) = l
BY DEF Lined, Waits, Doing, On

(***************************************************************************)
(* The invariant is inductive                                              *)
(***************************************************************************)
\* The invariant holds before any task has begun.
LEMMA InitIInv == Init => IInv
<1> SUFFICES ASSUME Init PROVE IInv
  OBVIOUS
<1>1. TypeOK
  BY LocksAssumption DEF Init, TypeOK, Lock, Queue
<1>2. Staged
  <2>1. ASSUME NEW t \in Task PROVE <<>> \in Stages(t)
    BY StagesOf DEF Task
  <2>2. QED
    BY <2>1 DEF Init, Staged
<1>3. Guards
  BY ChatKeeps DEF Init, Guards
<1>4. Lined
  BY DEF Init, Lined
<1>5. QED
  BY <1>1, <1>2, <1>3, <1>4 DEF IInv

\* A lock that is free for the task.
LEMMA AcquireKeeps == ASSUME IInv, NEW t \in Task, Acquire(t) PROVE IInv'
<1> USE DEF IInv
<1>1. PICK r \in Ahead(t) :
         /\ Head(r).op = "lock" /\ waiters[Head(r).on] = <<>>
         /\ holders' = Guard(t, Head(r))
         /\ Turns(t, Tail(r))
         /\ UNCHANGED <<waiters, queued>>
  BY DEF Acquire, Turns
<1>2. r \in Stages(t) /\ r # <<>> /\ Keeps(r) = Keeps(run[t])
  BY Begins
<1>3. NextOp(t, r)
  BY <1>2, Onward
<1>4. /\ Tail(r) \in Stages(t) /\ Head(r).on \in Lock
      /\ Keeps(Tail(r)) = IF Head(r).keep THEN Keeps(r) \cup {Head(r).on} ELSE Keeps(r)
  BY <1>1, <1>3 DEF NextOp
<1>5. Staged'
  BY <1>1, <1>4, StagedKept
<1>6. Guards'
  BY <1>1, <1>2, <1>4, GuardsKept DEF Guard
<1>7. Lined'
  <2>1. ASSUME NEW l \in Lock, Waits(t, l) PROVE FALSE
    <3>1. run[t] # <<>> /\ Head(run[t]).on = l
      BY <2>1, WaitsForHead DEF Doing, On
    <3>2. r = run[t]
      BY <3>1 DEF Ahead
    <3>3. QED
      BY <1>1, <2>1, <3>1, <3>2 DEF Waits
  <2>2. QED
    BY <1>1, <2>1, LinedKept
<1>8. TypeOK'
  BY <1>1, <1>6, TypeStays
<1>9. QED
  BY <1>5, <1>6, <1>7, <1>8

\* A lock for which the task has to stand in line.
LEMMA EnqueueKeeps == ASSUME IInv, NEW t \in Task, Enqueue(t) PROVE IInv'
<1> USE DEF IInv
<1>1. PICK r \in Ahead(t) :
         /\ Head(r).op = "lock" /\ ~Waits(t, Head(r).on)
         /\ waiters' = [waiters EXCEPT
                           ![Head(r).on] = Append(@, [task |-> t, mode |-> Head(r).mode])]
         /\ Turns(t, r)
         /\ UNCHANGED <<holders, queued>>
  BY DEF Enqueue, Turns
<1>2. r \in Stages(t) /\ r # <<>> /\ Keeps(r) = Keeps(run[t])
  BY Begins
<1>3. NextOp(t, r)
  BY <1>2, Onward
<1>4. Head(r).on \in Lock /\ Head(r).mode \in {"read", "write"}
  BY <1>1, <1>3 DEF NextOp
<1>5. Staged'
  BY <1>1, <1>2, StagedKept
<1>6. Guards'
  BY <1>1, <1>2, GuardsKept
<1>7. TypeOK'
  <2> DEFINE e == [task |-> t, mode |-> Head(r).mode]
             k == Head(r).on
  <2>1. Append(waiters[k], e) \in Seq(Entry)
    BY <1>4, EntryFields, LineOf, AppendFacts
  <2>2. waiters' \in [Lock -> Seq(Entry)]
    BY <1>1, <1>4, <2>1 DEF TypeOK, Entry
  <2>3. QED
    BY <1>1, <1>6, <2>2, TypeIs DEF TypeOK
<1>8. Lined'
  <2>1. \A l \in Lock : ~Waits(t, l)
    <3>1. SUFFICES ASSUME NEW l \in Lock, Waits(t, l) PROVE FALSE
      OBVIOUS
    <3>2. run[t] # <<>> /\ Head(run[t]).on = l
      BY <3>1, WaitsForHead DEF Doing, On
    <3>3. r = run[t]
      BY <3>2 DEF Ahead
    <3>4. QED
      BY <1>1, <3>1, <3>2, <3>3
  <2> SUFFICES ASSUME NEW l \in Lock, NEW i \in DOMAIN waiters'[l]
               PROVE  LET u == waiters'[l][i].task IN
                      /\ run'[u] # <<>> /\ Head(run'[u]).op = "lock"
                      /\ Head(run'[u]).on = l /\ Head(run'[u]).mode = waiters'[l][i].mode
                      /\ \A j \in DOMAIN waiters'[l] : waiters'[l][j].task = u => i = j
    BY DEF Lined
  <2>2. run'[t] = r /\ \A u \in Task \ {t} : run'[u] = run[u]
    BY <1>1 DEF Turns, Staged
  <2>3. l \in Lock
    OBVIOUS
  <2>4. \A j \in DOMAIN waiters[l] : waiters[l][j].task \in Task \ {t}
    BY <2>1, LineOf DEF Waits
  <2>5. CASE l # Head(r).on
    <3>1. waiters'[l] = waiters[l]
      BY <1>1, <2>5 DEF TypeOK
    <3>2. QED
      BY <2>2, <2>4, <3>1 DEF Lined
  <2>6. CASE l = Head(r).on
    <3> DEFINE w == waiters[l]
               e == [task |-> t, mode |-> Head(r).mode]
    <3>1. waiters'[l] = Append(w, e)
      BY <1>1, <2>6 DEF TypeOK
    <3>2. /\ DOMAIN waiters'[l] = 1 .. Len(w) + 1 /\ DOMAIN w = 1 .. Len(w)
          /\ Len(w) \in Nat
          /\ waiters'[l][Len(w) + 1] = e
          /\ \A j \in 1 .. Len(w) : waiters'[l][j] = w[j]
      BY <1>4, <3>1, EntryFields, LineOf, AppendFacts
    <3>3. CASE i \in 1 .. Len(w)
      <4>1. waiters'[l][i] = w[i] /\ w[i].task \in Task \ {t}
        BY <2>4, <3>2, <3>3
      <4>2. run'[w[i].task] = run[w[i].task]
        BY <2>2, <4>1
      <4>3. \A j \in DOMAIN waiters'[l] : waiters'[l][j].task = w[i].task => i = j
        <5>1. SUFFICES ASSUME NEW j \in DOMAIN waiters'[l], waiters'[l][j].task = w[i].task
                       PROVE  i = j
          OBVIOUS
        <5>2. j # Len(w) + 1
          BY <3>2, <4>1, <5>1
        <5>3. j \in DOMAIN w /\ waiters'[l][j] = w[j]
          BY <3>2, <5>2
        <5>4. QED
          BY <3>2, <3>3, <5>1, <5>3 DEF Lined
      <4>4. QED
        BY <3>2, <3>3, <4>1, <4>2, <4>3 DEF Lined
    <3>4. CASE i = Len(w) + 1
      <4>1. \A j \in DOMAIN waiters'[l] : waiters'[l][j].task = t => i = j
        BY <2>4, <3>2, <3>4
      <4>2. /\ waiters'[l][i].task = t
            /\ waiters'[l][i].mode = Head(r).mode
        BY <1>4, <3>2, <3>4, EntryFields
      <4>3. run'[t] # <<>> /\ Head(run'[t]).op = "lock" /\ Head(run'[t]).on = l
        BY <1>1, <1>2, <2>2, <2>6
      <4>4. QED
        BY <2>2, <4>1, <4>2, <4>3
    <3>5. QED
      BY <3>2, <3>3, <3>4
  <2>7. QED
    BY <2>5, <2>6
<1>9. QED
  BY <1>5, <1>6, <1>7, <1>8

\* The first of a line gets the lock.
LEMMA GrantKeeps == ASSUME IInv, NEW t \in Task, Grant(t) PROVE IInv'
<1> USE DEF IInv
<1> DEFINE r == run[t]
           k == Head(r).on
           w == waiters[k]
<1>1. /\ r # <<>> /\ Head(r).op = "lock"
      /\ w # <<>> /\ Head(w).task = t
      /\ waiters' = [waiters EXCEPT ![k] = Tail(@)]
      /\ holders' = Guard(t, Head(r))
      /\ Turns(t, Tail(r))
      /\ queued' = queued
  BY DEF Grant, Doing, Done, Turns, Staged
<1>2. r \in Stages(t)
  BY DEF Staged
<1>3. NextOp(t, r)
  BY <1>1, <1>2, Onward
<1>4. /\ Tail(r) \in Stages(t) /\ k \in Lock
      /\ Keeps(Tail(r)) = IF Head(r).keep THEN Keeps(r) \cup {k} ELSE Keeps(r)
  BY <1>1, <1>3 DEF NextOp
<1>5. Staged'
  BY <1>1, <1>4, StagedKept
<1>6. Guards'
  BY <1>1, <1>4, GuardsKept DEF Guard
<1>7. w \in Seq(Entry) /\ \A j \in DOMAIN w : w[j].task \in Task
  BY <1>4, LineOf
<1>8. TypeOK'
  <2>1. Tail(w) \in Seq(Entry)
    BY <1>1, <1>7, TailFacts
  <2>2. waiters' \in [Lock -> Seq(Entry)]
    BY <1>1, <1>4, <2>1 DEF TypeOK, Entry
  <2>3. QED
    BY <1>1, <1>6, <2>2, TypeIs DEF TypeOK
<1>9. Lined'
  <2> SUFFICES ASSUME NEW l \in Lock, NEW i \in DOMAIN waiters'[l]
               PROVE  LET u == waiters'[l][i].task IN
                      /\ run'[u] # <<>> /\ Head(run'[u]).op = "lock"
                      /\ Head(run'[u]).on = l /\ Head(run'[u]).mode = waiters'[l][i].mode
                      /\ \A j \in DOMAIN waiters'[l] : waiters'[l][j].task = u => i = j
    BY DEF Lined
  <2>1. \A u \in Task \ {t} : run'[u] = run[u]
    BY <1>1 DEF Turns, Staged
  <2>2. CASE l # k
    <3>1. waiters'[l] = waiters[l]
      BY <1>1, <2>2 DEF TypeOK
    <3>2. waiters[l][i].task \in Task \ {t}
      <4>1. waiters[l][i].task \in Task
        BY <3>1, LineOf
      <4>2. Head(run[waiters[l][i].task]).on = l
        BY <3>1 DEF Lined
      <4>3. QED
        BY <2>2, <4>1, <4>2
    <3>3. QED
      BY <2>1, <3>1, <3>2 DEF Lined
  <2>3. CASE l = k
    <3>1. waiters'[l] = Tail(w)
      BY <1>1, <2>3 DEF TypeOK
    <3>2. /\ DOMAIN w = 1 .. Len(w) /\ Len(w) \in Nat \ {0} /\ w[1].task = t
          /\ DOMAIN waiters'[l] = 1 .. Len(w) - 1
          /\ \A j \in 1 .. Len(w) - 1 : waiters'[l][j] = w[j + 1]
      BY <1>1, <1>7, <3>1, TailFacts
    <3>3. /\ i \in Nat /\ i + 1 \in DOMAIN w /\ i + 1 # 1 /\ 1 \in DOMAIN w
          /\ waiters'[l][i] = w[i + 1]
      BY <3>2
    <3>4. w[i + 1].task \in Task \ {t}
      <4>1. w[i + 1].task \in Task
        BY <1>7, <3>3
      <4>2. w[i + 1].task # t
        BY <1>4, <3>2, <3>3 DEF Lined
      <4>3. QED
        BY <4>1, <4>2
    <3>5. \A j \in DOMAIN waiters'[l] : waiters'[l][j].task = w[i + 1].task => i = j
      <4>1. SUFFICES ASSUME NEW j \in DOMAIN waiters'[l],
                            waiters'[l][j].task = w[i + 1].task
                     PROVE  i = j
        OBVIOUS
      <4>2. j \in Nat /\ j + 1 \in DOMAIN w /\ w[j + 1].task = w[i + 1].task
        <5>1. j \in 1 .. Len(w) - 1 /\ waiters'[l][j] = w[j + 1]
          BY <3>2, <4>1
        <5>2. QED
          BY <3>2, <4>1, <5>1
      <4>3. i + 1 = j + 1
        BY <1>4, <3>3, <4>2 DEF Lined
      <4>4. QED
        BY <3>3, <4>2, <4>3
    <3>6. /\ run[w[i + 1].task] # <<>> /\ Head(run[w[i + 1].task]).op = "lock"
          /\ Head(run[w[i + 1].task]).on = k
          /\ Head(run[w[i + 1].task]).mode = w[i + 1].mode
      <4>1. i + 1 \in DOMAIN waiters[k]
        BY <3>3
      <4>2. k \in Lock
        BY <1>4
      <4> HIDE DEF k
      <4>3. QED
        BY <4>1, <4>2, LinedAt
    <3>7. QED
      BY <2>1, <2>3, <3>3, <3>4, <3>5, <3>6
  <2>4. QED
    BY <2>2, <2>3
<1>10. QED
  BY <1>5, <1>6, <1>8, <1>9

\* A task whose next operation is no lock waits for none.
LEMMA NotInLine ==
    ASSUME Lined, NEW t \in Task, run[t] = <<>> \/ Head(run[t]).op # "lock"
    PROVE  \A l \in Lock : ~Waits(t, l)
BY WaitsForHead DEF Doing

\* A guard is dropped.
LEMMA ReleaseKeeps == ASSUME IInv, NEW t \in Task, Release(t) PROVE IInv'
<1> USE DEF IInv
<1> DEFINE r == run[t]
<1>1. /\ r # <<>> /\ Head(r).op = "free"
      /\ holders' = [holders EXCEPT ![Head(r).on] = @ \ {t}]
      /\ Turns(t, Tail(r))
      /\ UNCHANGED <<waiters, queued>>
  BY DEF Release, Doing, On, Done, Turns, Staged
<1>2. NextOp(t, r)
  BY <1>1, Onward DEF Staged
<1>3. Tail(r) \in Stages(t) /\ Head(r).on \in Lock /\ Keeps(Tail(r)) = Keeps(r) \ {Head(r).on}
  BY <1>1, <1>2 DEF NextOp
<1>4. Staged'
  BY <1>1, <1>3, StagedKept
<1>5. Guards'
  BY <1>1, <1>3, GuardsKept
<1>6. Lined'
  BY <1>1, NotInLine, LinedKept
<1>7. TypeOK'
  BY <1>1, <1>5, TypeStays
<1>8. QED
  BY <1>4, <1>5, <1>6, <1>7

\* An item enters a queue that has room.
LEMMA EnterKeeps == ASSUME IInv, NEW t \in Task, Enter(t) PROVE IInv'
<1> USE DEF IInv
<1> DEFINE r == run[t]
           q == Head(r).on
<1>1. /\ r # <<>> /\ Head(r).op = "put" /\ Len(queued[q]) < Capacity[q]
      /\ queued' = [queued EXCEPT ![q] = Append(@, Head(r).item)]
      /\ Turns(t, Tail(r))
      /\ UNCHANGED <<holders, waiters>>
  BY DEF Enter, Doing, On, Done, Turns, Staged, Room
<1>2. NextOp(t, r)
  BY <1>1, Onward DEF Staged
<1>3. /\ Tail(r) \in Stages(t) /\ q \in Queue
      /\ Head(r).item \in {"chat", "left", "other", "say"} /\ Keeps(Tail(r)) = Keeps(r)
  BY <1>1, <1>2 DEF NextOp
<1>4. Staged'
  BY <1>1, <1>3, StagedKept
<1>5. Guards'
  BY <1>1, <1>3, GuardsKept
<1>6. Lined'
  BY <1>1, NotInLine, LinedKept
<1>7. TypeOK'
  <2> DEFINE item == Head(r).item
  <2>1. queued[q] \in Seq({"chat", "left", "other", "say"})
    BY <1>3 DEF TypeOK
  <2>2. /\ Append(queued[q], item) \in Seq({"chat", "left", "other", "say"})
        /\ Len(Append(queued[q], item)) = Len(queued[q]) + 1
    BY <1>3, <2>1
  <2>3. queued' \in [Queue -> Seq({"chat", "left", "other", "say"})]
    BY <1>1, <1>3, <2>2 DEF TypeOK
  <2>4. Capacity[q] \in Nat /\ Len(queued[q]) \in Nat
    BY <1>3, <2>1, LocksAssumption
  <2>5. \A p \in Queue : Len(queued'[p]) <= Capacity[p]
    BY <1>1, <1>3, <2>2, <2>4 DEF TypeOK
  <2>6. QED
    BY <1>1, <1>5, <2>3, <2>5, TypeIs DEF TypeOK, Entry
<1>8. QED
  BY <1>4, <1>5, <1>6, <1>7

\* An item that leaves a queue leaves room.
LEMMA TypeKeptByTail ==
    ASSUME TypeOK, Guards', NEW q \in Queue, queued[q] # <<>>,
           queued' = [queued EXCEPT ![q] = Tail(@)], waiters' = waiters
    PROVE  TypeOK'
<1>1. queued[q] \in Seq({"chat", "left", "other", "say"}) /\ Len(queued[q]) <= Capacity[q]
  BY DEF TypeOK
<1>2. /\ Tail(queued[q]) \in Seq({"chat", "left", "other", "say"})
      /\ Len(Tail(queued[q])) = Len(queued[q]) - 1 /\ Len(queued[q]) \in Nat
  BY <1>1
<1>3. queued' \in [Queue -> Seq({"chat", "left", "other", "say"})]
  BY <1>2 DEF TypeOK
<1>4. ASSUME NEW p \in Queue PROVE Len(queued'[p]) <= Capacity[p]
  <2>1. CASE p # q
    BY <2>1 DEF TypeOK
  <2>2. CASE p = q
    <3>1. queued'[q] = Tail(queued[q])
      BY DEF TypeOK
    <3>2. Capacity[q] \in Nat
      BY LocksAssumption
    <3>3. QED
      BY <1>1, <1>2, <2>2, <3>1, <3>2
  <2>3. QED
    BY <2>1, <2>2
<1>5. QED
  BY <1>3, <1>4, TypeIs DEF TypeOK, Entry

\* The mesh loop takes a command.
LEMMA TakeKeeps == ASSUME IInv, NEW t \in Task, Take(t) PROVE IInv'
<1> USE DEF IInv
<1>1. /\ t = Mesh /\ run[t] = <<>> /\ queued["cmds"] # <<>>
      /\ queued' = [queued EXCEPT !["cmds"] = Tail(@)]
      /\ Turns(t, Broadcast)
      /\ UNCHANGED <<holders, waiters>>
  BY DEF Take, Turns
<1>2. Broadcast \in Stages(t) /\ Keeps(Broadcast) = Keeps(run[t])
  BY <1>1, StagesOf, SendKeeps, ChatKeeps
<1>3. Staged'
  BY <1>1, <1>2, StagedKept
<1>4. Guards'
  BY <1>1, <1>2, GuardsKept
<1>5. Lined'
  BY <1>1, NotInLine, LinedKept
<1>6. TypeOK'
  BY <1>1, <1>4, TypeKeptByTail DEF Queue
<1>7. QED
  BY <1>3, <1>4, <1>5, <1>6

\* The terminal handles an event, or finds none.
LEMMA DrainKeeps == ASSUME IInv, NEW t \in Task, Drain(t) PROVE IInv'
<1> USE DEF IInv
<1>1. /\ run[t] # <<>> /\ Head(run[t]).op = "drain"
      /\ waiters' = waiters /\ holders' = holders
  BY DEF Drain, Doing
<1>2. NextOp(t, run[t])
  BY <1>1, Onward DEF Staged
<1>3. /\ t = Terminal /\ run[t] = Frame3
      /\ Tail(run[t]) \in Stages(t) /\ Keeps(Tail(run[t])) = Keeps(run[t])
  BY <1>1, <1>2 DEF NextOp
<1>4. <<Peek("peers"), Head(run[t])>> = Frame(FALSE)
  BY <1>3, FrameStages DEF Frame
<1>5. PICK x : x \in Stages(t) /\ Keeps(x) = Keeps(run[t]) /\ Turns(t, x)
  <2>1. CASE queued["events"] = <<>>
    BY <1>3, <2>1 DEF Drain, Done, Turns, Staged
  <2>2. CASE queued["events"] # <<>> /\ Head(queued["events"]) = "left"
    <3>1. Turns(t, Frame(FALSE))
      BY <1>4, <2>2 DEF Drain, Turns, Staged
    <3>2. QED
      BY <1>3, <3>1, StagesOf, FrameKeeps
  <2>3. CASE queued["events"] # <<>> /\ Head(queued["events"]) # "left"
    <3>1. Turns(t, run[t])
      BY <2>3 DEF Drain, Turns, Staged
    <3>2. QED
      BY <3>1 DEF Staged
  <2>4. QED
    BY <2>1, <2>2, <2>3
<1>6. Staged'
  BY <1>5, StagedKept
<1>7. Guards'
  BY <1>1, <1>5, GuardsKept
<1>8. Lined'
  BY <1>1, <1>5, NotInLine, LinedKept
<1>9. TypeOK'
  <2>1. CASE queued["events"] = <<>>
    BY <1>1, <1>7, <2>1, TypeStays DEF Drain
  <2>2. CASE queued["events"] # <<>>
    BY <1>1, <1>7, <2>2, TypeKeptByTail DEF Drain, Queue
  <2>3. QED
    BY <2>1, <2>2
<1>10. QED
  BY <1>6, <1>7, <1>8, <1>9

\* A packet is written.
LEMMA SentKeeps == ASSUME IInv, Sent PROVE IInv'
<1> USE DEF IInv
<1>1. Staged'
  BY DEF Sent, Staged
<1>2. Guards'
  BY DEF Sent, Guards
<1>3. Lined'
  BY DEF Sent, Lined
<1>4. TypeOK'
  BY <1>2, TypeKeptByTail DEF Sent, Queue
<1>5. QED
  BY <1>1, <1>2, <1>3, <1>4

\* Every step keeps the invariant.
LEMMA NextIInv == IInv /\ [Next]_vars => IInv'
<1> SUFFICES ASSUME IInv, [Next]_vars PROVE IInv'
  OBVIOUS
<1>1. ASSUME NEW t \in Task, Acquire(t) PROVE IInv'
  BY <1>1, AcquireKeeps
<1>2. ASSUME NEW t \in Task, Enqueue(t) PROVE IInv'
  BY <1>2, EnqueueKeeps
<1>3. ASSUME NEW t \in Task, Grant(t) PROVE IInv'
  BY <1>3, GrantKeeps
<1>4. ASSUME NEW t \in Task, Release(t) PROVE IInv'
  BY <1>4, ReleaseKeeps
<1>5. ASSUME NEW t \in Task, Enter(t) PROVE IInv'
  BY <1>5, EnterKeeps
<1>6. ASSUME NEW t \in Task, Take(t) PROVE IInv'
  BY <1>6, TakeKeeps
<1>7. ASSUME NEW t \in Task, Drain(t) PROVE IInv'
  BY <1>7, DrainKeeps
<1>8. CASE Sent
  BY <1>8, SentKeeps
<1>9. CASE UNCHANGED vars
  <2>1. run' = run /\ holders' = holders /\ waiters' = waiters /\ queued' = queued
    BY <1>9 DEF vars
  <2>2. TypeOK /\ Staged /\ Guards /\ Lined
    BY DEF IInv
  <2>3. Staged'
    BY <2>1, <2>2 DEF Staged
  <2>4. Guards'
    BY <2>1, <2>2 DEF Guards
  <2>5. Lined'
    BY <2>1, <2>2 DEF Lined
  <2>6. TypeOK'
    BY <2>1, <2>2, <2>4, TypeStays
  <2>7. QED
    BY <2>3, <2>4, <2>5, <2>6 DEF IInv
<1>10. QED
  BY <1>1, <1>2, <1>3, <1>4, <1>5, <1>6, <1>7, <1>8, <1>9 DEF Next

(***************************************************************************)
(* No other circle                                                         *)
(***************************************************************************)
Outside == {t \in Task : ~AsksTwice(t) /\ ~SendsGuarded(t)}

\* The tasks of S wait for each other.
Circle(S) == S \subseteq Outside /\ \A t \in S : \E u \in S : u \in WaitsFor(t)

\* A set of natural numbers with a member has a least one.
LEMMA Least ==
    ASSUME NEW T, T \subseteq Nat, T # {}
    PROVE  \E m \in T : \A n \in T : m <= n
<1> DEFINE R == {ss \in Nat \X Nat : ss[1] < ss[2]}
<1>1. IsWellFoundedOn(R, Nat)
  BY NatLessThanWellFounded DEF OpToRel
<1>2. \E m \in T : \A n \in T : <<n, m>> \notin R
  BY <1>1, WFMin
<1>3. PICK m \in T : \A n \in T : <<n, m>> \notin R
  BY <1>2
<1>4. ASSUME NEW n \in T PROVE m <= n
  <2>1. <<n, m>> \notin R
    BY <1>3
  <2>2. n \in Nat /\ m \in Nat
    OBVIOUS
  <2> QED
    BY <2>1, <2>2
<1> QED
  BY <1>4

\* A task in a circle is in the line of a lock, or at a queue that a task empties.
LEMMA Waiting ==
    ASSUME NEW S, Circle(S), NEW t \in S
    PROVE  /\ t \in Task /\ run[t] # <<>>
           /\ \/ Head(run[t]).op = "lock" /\ Waits(t, On(t))
              \/ /\ Head(run[t]).op = "put"
                 /\ \/ On(t) = "events" /\ Terminal \in S
                    \/ On(t) = "cmds" /\ Mesh \in S
BY DEF Circle, Outside, WaitsFor, Doing

\* If a circle has a task that waits for a lock, it has one that keeps the lock:
\* the first of its tasks in the line waits for nobody else.
LEMMA SomeoneKeeps ==
    ASSUME IInv, NEW S, Circle(S), NEW l \in Lock, NEW t \in S, Waits(t, l)
    PROVE  \E u \in S : l \in Keeps(run[u])
<1> USE DEF IInv
<1> DEFINE w == waiters[l]
           P == {i \in DOMAIN w : w[i].task \in S}
<1>1. P \subseteq Nat /\ P # {}
  BY LineOf DEF Waits
<1>2. PICK m \in P : \A n \in P : m <= n
  BY <1>1, Least
<1> DEFINE f == w[m].task
<1>3. f \in S /\ f \in Task /\ m \in DOMAIN w
  BY <1>2 DEF Circle, Outside
<1>4. /\ run[f] # <<>> /\ Head(run[f]).op = "lock" /\ On(f) = l
      /\ \A j \in DOMAIN w : w[j].task = f => m = j
  BY <1>3 DEF Lined, On
<1>5. PICK u \in S : u \in WaitsFor(f)
  BY <1>3 DEF Circle
<1>6. ~\E i, j \in DOMAIN w : i < j /\ w[i].task = u /\ w[j].task = f
  <2>1. SUFFICES ASSUME NEW i \in DOMAIN w, NEW j \in DOMAIN w,
                        i < j, w[i].task = u, w[j].task = f
                 PROVE  FALSE
    OBVIOUS
  <2>2. j = m
    BY <1>4, <2>1
  <2>3. m <= i
    BY <1>2, <1>5, <2>1
  <2>4. i \in Nat /\ m \in Nat
    BY <1>1, LineOf
  <2>5. QED
    BY <2>1, <2>2, <2>3, <2>4
<1>7. u \in holders[l]
  BY <1>4, <1>5, <1>6 DEF WaitsFor, Doing
<1>8. QED
  BY <1>5, <1>7 DEF Guards

\* Nobody outside the two known places is in a circle: not at peers, then not at
\* ciphers, then not at conns, then not at a queue.
LEMMA NoCircle == ASSUME IInv, NEW S, Circle(S) PROVE S = {}
<1> USE DEF IInv
<1>1. \A u \in S : u \in Task /\ run[u] \in Stages(u) /\ run[u] # <<>>
  BY Waiting DEF Staged
<1>2. ASSUME NEW u \in S, Head(run[u]).op = "free" PROVE FALSE
  BY <1>2, Waiting
<1>3. ASSUME NEW u \in S, Head(run[u]).op = "put", On(u) = "packets" PROVE FALSE
  BY <1>3, Waiting
<1>4. ASSUME NEW t \in S, Waits(t, "peers") PROVE FALSE
  <2>1. PICK u \in S : "peers" \in Keeps(run[u])
    BY <1>4, SomeoneKeeps DEF Lock
  <2>2. u \in Registrar /\ run[u] \in {Reg4, Reg5}
    BY <1>1, <2>1, Keepers
  <2>3. CASE run[u] = Reg4
    <3>1. Doing(u, "put") /\ On(u) = "events"
      BY <1>1, <2>3, RegStages DEF Doing, On, Put
    <3>2. u \in holders["peers"]
      BY <1>1, <2>1 DEF Guards, Lock
    <3>3. QED
      BY <2>2, <3>1, <3>2 DEF Circle, Outside, SendsGuarded
  <2>4. CASE run[u] = Reg5
    <3>1. Head(run[u]).op = "free"
      BY <2>4, RegStages DEF Free
    <3>2. QED
      BY <1>2, <3>1
  <2>5. QED
    BY <2>2, <2>3, <2>4
<1>5. ASSUME NEW u \in S, run[u] \in {Send4, Send5, Send6} PROVE FALSE
  <2>1. CASE run[u] = Send4
    <3>1. Head(run[u]).op = "put" /\ On(u) = "packets"
      BY <2>1, SendStages DEF Put, On
    <3>2. QED
      BY <1>3, <3>1
  <2>2. CASE run[u] \in {Send5, Send6}
    <3>1. Head(run[u]).op = "free"
      BY <2>2, SendStages DEF Free
    <3>2. QED
      BY <1>2, <3>1
  <2>3. QED
    BY <1>5, <2>1, <2>2
<1>6. ASSUME NEW t \in S, Waits(t, "ciphers") PROVE FALSE
  <2>1. PICK u \in S : "ciphers" \in Keeps(run[u])
    BY <1>6, SomeoneKeeps DEF Lock
  <2>2. run[u] \in {Send4, Send5}
    BY <1>1, <2>1, Keepers
  <2>3. QED
    BY <1>5, <2>2
<1>7. ASSUME NEW t \in S, Waits(t, "conns") PROVE FALSE
  <2>1. PICK u \in S : "conns" \in Keeps(run[u])
    BY <1>7, SomeoneKeeps DEF Lock
  <2>2. \/ u \in Reader /\ run[u] \in {Chat3, Chat4}
        \/ run[u] \in {Send3, Send4, Send5, Send6}
    BY <1>1, <2>1, Keepers
  <2>3. CASE u \in Reader /\ run[u] = Chat3
    <3>1. Head(run[u]).op = "lock" /\ On(u) = "conns"
      BY <2>3, ChatStages DEF Peek, On
    <3>2. Waits(u, "conns")
      BY <3>1, Waiting
    <3>3. u \in holders["conns"]
      BY <1>1, <2>1 DEF Guards, Lock
    <3>4. QED
      BY <2>3, <3>2, <3>3 DEF Circle, Outside, AsksTwice
  <2>4. CASE run[u] = Chat4
    <3>1. Head(run[u]).op = "free"
      BY <2>4, ChatStages DEF Free
    <3>2. QED
      BY <1>2, <3>1
  <2>5. CASE run[u] = Send3
    <3>1. Head(run[u]).op = "lock" /\ On(u) = "ciphers"
      BY <2>5, SendStages DEF Hold, On
    <3>2. QED
      BY <1>6, <3>1, Waiting
  <2>6. QED
    BY <1>5, <2>2, <2>3, <2>4, <2>5
<1>8. ASSUME NEW t \in S, Head(run[t]).op = "lock" PROVE FALSE
  <2>1. Waits(t, On(t))
    BY <1>8, Waiting
  <2>2. NextOp(t, run[t])
    BY <1>1, Onward
  <2>3. On(t) \in Lock
    BY <1>8, <2>2 DEF NextOp, On
  <2>4. QED
    BY <1>4, <1>6, <1>7, <2>1, <2>3 DEF Lock
<1>9. Mesh \notin S
  BY <1>1, <1>3, <1>8, Waiting, Putters DEF On
<1>10. Terminal \notin S
  <2>1. SUFFICES ASSUME Terminal \in S PROVE FALSE
    OBVIOUS
  <2>2. Head(run[Terminal]).op = "put" /\ On(Terminal) = "cmds"
    BY <1>1, <1>8, <2>1, Waiting, Putters DEF On
  <2>3. QED
    BY <1>9, <2>1, <2>2, Waiting
<1>11. QED
  BY <1>8, <1>9, <1>10, Waiting

\* What OnlyKnownKnots says follows from the invariant.
LEMMA KnotsKnownNow == IInv => OnlyKnownKnots
<1> SUFFICES ASSUME IInv, Knot(Outside) PROVE FALSE
  BY DEF OnlyKnownKnots, Outside
<1> DEFINE needs == [t \in Outside |-> WaitsFor(t) \cap Outside]
<1>1. PICK S \in SUBSET {t \in Outside : needs[t] # {}} :
         S # {} /\ \A t \in S : needs[t] \cap S # {}
  BY DEF Knot
<1>2. Circle(S)
  BY <1>1 DEF Circle
<1>3. QED
  BY <1>1, <1>2, NoCircle

(***************************************************************************)
(* Theorems                                                                *)
(***************************************************************************)
\* Tasks are at a place of their routines, guards are with the tasks between
\* taking and freeing them, and the lines of the locks hold the tasks that are
\* about to take them.
THEOREM Invariance == Spec => []IInv
<1>1. Init => IInv
  BY InitIInv
<1>2. IInv /\ [Next]_vars => IInv'
  BY NextIInv
<1>3. QED
  BY <1>1, <1>2, PTL DEF Spec

\* No queue ever holds more than its capacity, whatever the capacities are.
THEOREM TypeCorrect == Spec => []TypeOK
<1>1. IInv => TypeOK
  BY DEF IInv
<1>2. QED
  BY <1>1, Invariance, PTL

\* With any number of connections and registrations and queues of any length, the
\* only tasks that can begin a deadlock of one node are a read loop at its second
\* lock of conns (mesh.rs:371) and a registration that sends its event under the
\* guard of peers (mesh.rs:457).
THEOREM KnotsKnown == Spec => []OnlyKnownKnots
<1>1. IInv => OnlyKnownKnots
  BY KnotsKnownNow
<1>2. QED
  BY <1>1, Invariance, PTL
=============================================================================
