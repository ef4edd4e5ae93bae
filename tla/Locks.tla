-------------------------------- MODULE Locks -------------------------------
(***************************************************************************)
(* The locks and the bounded queues that the tasks of one node wait for    *)
(* (mesh.rs, state.rs, app.rs).                                            *)
(*                                                                         *)
(* peers, conns and ciphers are tokio RwLocks: waiters are served in their *)
(* order, and a reader waits behind a writer that waits.  A full queue     *)
(* makes its sender wait for the task that empties it.  What the tasks do  *)
(* with the data is in the other modules; here a task is the sequence of   *)
(* the operations in its routine that may wait, and the guards it drops.   *)
(* A guard that is dropped before the task waits again delays others for a *)
(* moment only, and is not kept.                                           *)
(***************************************************************************)
EXTENDS Naturals, Sequences

CONSTANTS
    Reader,         \* the read loops
    Registrar,      \* tasks of connect_to_peer and handle_incoming
    Mesh, Reaper, Terminal,
    Capacity        \* Capacity[q]: room in queue q (512 events, 256 commands, 256 packets)

Lock == {"peers", "conns", "ciphers"}
Queue == {"events", "cmds", "packets"}
Task == Reader \cup Registrar \cup {Mesh, Reaper, Terminal}

ASSUME LocksAssumption ==
    /\ Capacity \in [Queue -> Nat \ {0}]
    /\ Mesh # Reaper /\ Reaper # Terminal /\ Terminal # Mesh
    /\ {Mesh, Reaper, Terminal} \cap (Reader \cup Registrar) = {}
    /\ Reader \cap Registrar = {}

VARIABLES
    run,        \* run[t]: the operations t has still to do
    holders,    \* holders[l]: the tasks that keep a guard of l; all are readers
    waiters,    \* waiters[l]: who waits for l, in their order
    queued      \* queued[q]: what is in q

vars == <<run, holders, waiters, queued>>

(***************************************************************************)
(* Routines                                                                *)
(***************************************************************************)
Hold(l) == [op |-> "lock", on |-> l, mode |-> "read", keep |-> TRUE]
Free(l) == [op |-> "free", on |-> l]
Peek(l) == [op |-> "lock", on |-> l, mode |-> "read", keep |-> FALSE]
Update(l) == [op |-> "lock", on |-> l, mode |-> "write", keep |-> FALSE]
Put(q, item) == [op |-> "put", on |-> q, item |-> item]

\* SendMessage: peer_count, then broadcast, which keeps two guards while it sends.
Broadcast ==
    <<Peek("peers"), Hold("conns"), Hold("ciphers"), Put("packets", "chat"),
      Free("ciphers"), Free("conns")>>

\* A Hello: contains_key, then add_peer or update_peer_seen.
Hello == <<Peek("peers"), Update("peers")>>

\* The Chat branch of handle_app_msg asks for conns while it has a guard of conns.
ReadChat ==
    <<Peek("ciphers"), Hold("conns"), Peek("conns"), Free("conns"), Put("events", "other")>>

\* The end of read_loop: the peer, then its Sender, then the event.
ReadEnd == <<Update("peers"), Update("conns"), Put("events", "left")>>

\* The guard of peers in the condition of the if-let lasts until the event is queued.
Register ==
    <<Update("ciphers"), Peek("peers"),
      Hold("peers"), Put("events", "other"), Free("peers"), Update("conns")>>

\* Variant: the list of stale peers is made and used under one guard.
ReapGuarded ==
    <<Hold("peers"), Update("peers"), Update("conns"), Free("peers"), Put("events", "left")>>
Reap == <<Peek("peers"), Update("peers"), Update("conns"), Put("events", "left")>>

\* A frame: build_snapshot, perhaps a command, then the drain of the events.
Handle == [op |-> "drain"]
Frame(send) ==
    IF send THEN <<Peek("peers"), Put("cmds", "say"), Handle>> ELSE <<Peek("peers"), Handle>>

Routines(t) ==
    CASE t \in Reader    -> {ReadChat, ReadEnd}
      [] t \in Registrar -> {Register}
      [] t = Reaper      -> {Reap}
      [] t = Mesh        -> {Hello}
      [] t = Terminal    -> {Frame(FALSE), Frame(TRUE)}

Init ==
    /\ run = [t \in Task |-> <<>>]
    /\ holders = [l \in Lock |-> {}]
    /\ waiters = [l \in Lock |-> <<>>]
    /\ queued = [q \in Queue |-> <<>>]

\* What t may do from here on: the rest of its routine, or one it begins.
Ahead(t) == IF run[t] = <<>> THEN Routines(t) ELSE {run[t]}
Doing(t, op) == run[t] # <<>> /\ Head(run[t]).op = op
On(t) == Head(run[t]).on
Waits(t, l) == \E i \in DOMAIN waiters[l] : waiters[l][i].task = t
Done(t) == run' = [run EXCEPT ![t] = Tail(@)]

(***************************************************************************)
(* Locks                                                                   *)
(***************************************************************************)
FreeFor(l, mode) == mode = "read" \/ holders[l] = {}

\* What a task gets to keep of the lock it was given.
Guard(t, o) == IF o.keep THEN [holders EXCEPT ![o.on] = @ \cup {t}] ELSE holders

Acquire(t) ==
    \E r \in Ahead(t) : LET o == Head(r) IN
        /\ o.op = "lock" /\ waiters[o.on] = <<>> /\ FreeFor(o.on, o.mode)
        /\ holders' = Guard(t, o)
        /\ run' = [run EXCEPT ![t] = Tail(r)]
        /\ UNCHANGED <<waiters, queued>>

Enqueue(t) ==
    \E r \in Ahead(t) : LET o == Head(r) IN
        /\ o.op = "lock" /\ ~Waits(t, o.on)
        /\ waiters[o.on] # <<>> \/ ~FreeFor(o.on, o.mode)
        /\ waiters' = [waiters EXCEPT ![o.on] = Append(@, [task |-> t, mode |-> o.mode])]
        /\ run' = [run EXCEPT ![t] = r]
        /\ UNCHANGED <<holders, queued>>

\* The first waiter gets the lock as soon as the guards allow it.
Grant(t) ==
    /\ Doing(t, "lock")
    /\ LET o == Head(run[t]) IN
       /\ waiters[o.on] # <<>> /\ Head(waiters[o.on]).task = t /\ FreeFor(o.on, o.mode)
       /\ waiters' = [waiters EXCEPT ![o.on] = Tail(@)]
       /\ holders' = Guard(t, o)
    /\ Done(t)
    /\ UNCHANGED queued

Release(t) ==
    /\ Doing(t, "free")
    /\ holders' = [holders EXCEPT ![On(t)] = @ \ {t}]
    /\ Done(t)
    /\ UNCHANGED <<waiters, queued>>

(***************************************************************************)
(* Queues                                                                  *)
(***************************************************************************)
RoomAlways(q) == TRUE                             \* variant: a queue without a limit
Room(q) == Len(queued[q]) < Capacity[q]

Enter(t) ==
    /\ Doing(t, "put") /\ Room(On(t))
    /\ queued' = [queued EXCEPT ![On(t)] = Append(@, Head(run[t]).item)]
    /\ Done(t)
    /\ UNCHANGED <<holders, waiters>>

\* The select loop takes a command.
Take(t) ==
    /\ t = Mesh /\ run[t] = <<>> /\ queued["cmds"] # <<>>
    /\ queued' = [queued EXCEPT !["cmds"] = Tail(@)]
    /\ run' = [run EXCEPT ![t] = Broadcast]
    /\ UNCHANGED <<holders, waiters>>

\* try_recv until nothing is left; PeerLeft looks the peer up.
Drain(t) ==
    /\ Doing(t, "drain")
    /\ IF queued["events"] = <<>>
       THEN Done(t) /\ UNCHANGED queued
       ELSE /\ queued' = [queued EXCEPT !["events"] = Tail(@)]
            /\ run' = IF Head(queued["events"]) = "left"
                      THEN [run EXCEPT ![t] = <<Peek("peers"), Head(@)>>] ELSE run
    /\ UNCHANGED <<holders, waiters>>

\* A write loop puts a packet on its socket.
Sent ==
    /\ queued["packets"] # <<>>
    /\ queued' = [queued EXCEPT !["packets"] = Tail(@)]
    /\ UNCHANGED <<run, holders, waiters>>

Next ==
    \/ \E t \in Task :
          Acquire(t) \/ Enqueue(t) \/ Grant(t) \/ Release(t) \/ Enter(t) \/ Take(t) \/ Drain(t)
    \/ Sent

Spec == Init /\ [][Next]_vars

(***************************************************************************)
(* Properties                                                              *)
(***************************************************************************)
\* Every variable has its type, and no queue holds more than its capacity.
TypeOK ==
    /\ holders \in [Lock -> SUBSET Task]
    /\ waiters \in [Lock -> Seq([task : Task, mode : {"read", "write"}])]
    /\ queued \in [Queue -> Seq({"chat", "left", "other", "say"})]
    /\ \A q \in Queue : Len(queued[q]) <= Capacity[q]

\* The tasks t waits for: who came before it or has a guard in its way, or who
\* empties the queue it sends to.
WaitsFor(t) ==
    {u \in Task :
        \/ /\ Doing(t, "lock") /\ Waits(t, On(t))
           /\ \/ Head(run[t]).mode = "write" /\ u \in holders[On(t)]
              \/ \E i, j \in DOMAIN waiters[On(t)] :
                    /\ i < j /\ waiters[On(t)][i].task = u /\ waiters[On(t)][j].task = t
        \/ /\ Doing(t, "put") /\ ~Room(On(t))
           /\ \/ On(t) = "events" /\ u = Terminal
              \/ On(t) = "cmds" /\ u = Mesh}

\* Tasks of T that wait for each other in a circle.
Knot(T) ==
    LET needs == [t \in T |-> WaitsFor(t) \cap T]
    IN  \E S \in SUBSET {t \in T : needs[t] # {}} : S # {} /\ \A t \in S : needs[t] \cap S # {}

\* The two places in the code where a task that has a guard waits for a task that
\* may need the same lock.
AsksTwice(t) == t \in Reader /\ Waits(t, "conns") /\ t \in holders["conns"]
SendsGuarded(t) ==
    t \in Registrar /\ Doing(t, "put") /\ On(t) = "events" /\ t \in holders["peers"]

\* Whenever tasks wait for each other in a circle, one of them is a read loop at
\* its second lock of conns or a registration that sends its event under its
\* guard of peers: no other order of locks and queues in the code can deadlock.
OnlyKnownKnots == ~Knot({t \in Task : ~AsksTwice(t) /\ ~SendsGuarded(t)})
=============================================================================
