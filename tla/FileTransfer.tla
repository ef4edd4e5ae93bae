---------------------------- MODULE FileTransfer ----------------------------
(***************************************************************************)
(* File transfers from one node to another over an established session:    *)
(* the offer and its popup, the task that waits for the answer and streams *)
(* the file, the progress forwarder, the receiver that assembles chunks,   *)
(* and the event queues that let both terminal threads change the transfer *)
(* list a second time (mesh.rs, transfer.rs, app.rs).                      *)
(*                                                                         *)
(* A chunk is its index, its length and its is_last flag.  Bytes are       *)
(* counted, and it is told whose they are.  Transfers of one file name are *)
(* saved in one file.  The session delivers packets in order until the     *)
(* connection is lost.                                                     *)
(***************************************************************************)
EXTENDS Naturals, Sequences

CONSTANTS
    Id,            \* the transfers, each with its own id
    Size,          \* Size[t]: the length of the file in bytes
    Path,          \* Path[t]: where the receiver saves it, which its name decides
    ChunkSize,     \* CHUNK_SIZE of transfer.rs
    None,          \* no popup, or no FileReceiver
    MaxQueue,      \* bound on the chunks under way (chunk channel, Sender queue, socket)
    MaxProgress,   \* capacity of the progress channel
    MaxFaults      \* bound on lost connections and disk errors

ASSUME TransferAssumption ==
    /\ Size \in [Id -> Nat] /\ DOMAIN Path = Id
    /\ ChunkSize \in Nat \ {0}
    /\ None \notin Id /\ None \notin Nat
    /\ {MaxQueue, MaxProgress, MaxFaults} \subseteq Nat

VARIABLES
    sent,      \* sent[t]: status in the sender's list of transfers
    rcvd,      \* rcvd[t]: status in the receiver's list
    task,      \* task[t]: the sender's task that waits for the answer and streams
    total,     \* total[t]: bytes handed to the connection
    progress,  \* progress[t]: values in the progress channel
    toR, toS,  \* packets under way to the receiver and to the sender
    sEvents,   \* NetEvents the sender's terminal thread has not handled
    rEvents,   \* NetEvents the receiver's terminal thread has not handled
    popup,     \* App.file_offer at the receiver
    opening,   \* opening[t]: the task AcceptFile spawns at the receiver
    receiver,  \* receiver[t]: expected_next of the FileReceiver in recv_map
    disk,      \* disk[t]: how many bytes of t, from the first on, are in place in Path[t]
    up,        \* the connection works
    faults     \* lost connections and disk errors so far

sender == <<sent, task, total, progress, sEvents>>
recipient == <<rcvd, rEvents, popup, opening, receiver, disk>>
env == <<up, faults>>
vars == <<sender, recipient, env, toR, toS>>

Status == {"none", "Pending", "Active", "Complete", "Failed"}

Event == [type : {"FileOfferReceived", "TransferProgress",
                  "FileTransferComplete", "FileTransferFailed"}, id : Id]

Offer(t) == [type |-> "FileOffer", id |-> t]
Chunk(t, i, n, last) == [type |-> "FileChunk", id |-> t, index |-> i, len |-> n, is_last |-> last]
Packet ==
    [type : {"FileOffer"}, id : Id] \cup
    [type : {"FileChunk"}, id : Id, index : Nat, len : 1..ChunkSize, is_last : BOOLEAN]
Answer == [type : {"FileAccept", "FileReject"}, id : Id]

\* update_transfer_progress and complete_transfer on a list of transfers: both
\* overwrite whatever status a listed transfer has.
UpdateProgress(list, t) == IF list[t] = "none" THEN list ELSE [list EXCEPT ![t] = "Active"]
CompleteTransfer(list, t, ok) ==
    IF list[t] = "none" THEN list ELSE [list EXCEPT ![t] = IF ok THEN "Complete" ELSE "Failed"]

\* A packet put on a lost connection goes nowhere, and nobody is told.
Put(queue, packet) == IF up THEN Append(queue, packet) ELSE queue

Fault == faults < MaxFaults /\ faults' = faults + 1

Init ==
    /\ sent = [t \in Id |-> "none"]
    /\ rcvd = [t \in Id |-> "none"]
    /\ task = [t \in Id |-> "none"]
    /\ total = [t \in Id |-> 0]
    /\ progress = [t \in Id |-> 0]
    /\ toR = <<>> /\ toS = <<>> /\ sEvents = <<>> /\ rEvents = <<>>
    /\ popup = None
    /\ opening = [t \in Id |-> "no"]
    /\ receiver = [t \in Id |-> None]
    /\ disk = [t \in Id |-> 0]
    /\ up = TRUE
    /\ faults = 0

(***************************************************************************)
(* The sender                                                              *)
(***************************************************************************)
\* UiCommand::SendFile: list the transfer, send the offer, spawn the two tasks.
SendFile(t) ==
    /\ task[t] = "none" /\ up
    /\ sent' = [sent EXCEPT ![t] = "Pending"]
    /\ task' = [task EXCEPT ![t] = "waiting"]
    /\ toR' = Append(toR, Offer(t))
    /\ UNCHANGED <<total, progress, sEvents, recipient, env, toS>>

AcceptedOrPending(t) == sent[t] \in {"Pending", "Active"}   \* variant: wrong status polled
Accepted(t) == sent[t] = "Active"

\* The task polls the status every 200 ms.
AcceptSeen(t) ==
    /\ task[t] = "waiting"
    /\ Accepted(t)
    /\ task' = [task EXCEPT ![t] = "streaming"]
    /\ UNCHANGED <<sent, total, progress, sEvents, recipient, env, toR, toS>>

DeadlineNever(t) == FALSE                         \* variant: no deadline
DeadlinePassed(t) == task[t] = "waiting"          \* at any poll, 30 s may have passed

\* A poll that does not find the transfer active may be the last one.
Deadline(t) ==
    /\ DeadlinePassed(t)
    /\ ~Accepted(t)
    /\ task' = [task EXCEPT ![t] = "givingUp"]
    /\ UNCHANGED <<sent, total, progress, sEvents, recipient, env, toR, toS>>

\* The transfer is marked failed, even if an answer has arrived since that poll.
GiveUp(t) ==
    /\ task[t] = "givingUp"
    /\ sent' = CompleteTransfer(sent, t, FALSE)
    /\ task' = [task EXCEPT ![t] = "done"]
    /\ UNCHANGED <<total, progress, sEvents, recipient, env, toR, toS>>

\* The length of the next read, and the flag the chunk carries.
NextLen(t) == IF Size[t] - total[t] < ChunkSize THEN Size[t] - total[t] ELSE ChunkSize
IsLastShifted(n) == n + 1 < ChunkSize             \* variant: off by one
IsLast(n) == n < ChunkSize

SendAlways(k) == k + 1                            \* variant: try_send never refused
TrySend(k) == IF k < MaxProgress THEN k + 1 ELSE k

\* One turn of send_file's loop; the progress value is lost if its channel is full.
SendChunk(t) ==
    /\ task[t] = "streaming"
    /\ total[t] < Size[t]
    /\ up => Len(toR) < MaxQueue
    /\ toR' = Put(toR, Chunk(t, total[t] \div ChunkSize, NextLen(t), IsLast(NextLen(t))))
    /\ total' = [total EXCEPT ![t] = @ + NextLen(t)]
    /\ progress' = [progress EXCEPT ![t] = TrySend(@)]
    /\ UNCHANGED <<sent, task, sEvents, recipient, env, toS>>

\* send_file returns after a short chunk or at end of file.
Streamed(t) ==
    /\ task[t] = "streaming"
    /\ total[t] = Size[t]
    /\ sent' = CompleteTransfer(sent, t, TRUE)
    /\ task' = [task EXCEPT ![t] = "done"]
    /\ UNCHANGED <<total, progress, sEvents, recipient, env, toR, toS>>

\* Opening or reading the file fails.
StreamFails(t) ==
    /\ task[t] = "streaming"
    /\ Fault /\ UNCHANGED up
    /\ sent' = CompleteTransfer(sent, t, FALSE)
    /\ task' = [task EXCEPT ![t] = "done"]
    /\ sEvents' = Append(sEvents, [type |-> "FileTransferFailed", id |-> t])
    /\ UNCHANGED <<total, progress, recipient, toR, toS>>

\* The progress forwarder runs beside the stream and may lag behind it.
Forward(t) ==
    /\ progress[t] > 0
    /\ progress' = [progress EXCEPT ![t] = @ - 1]
    /\ sent' = UpdateProgress(sent, t)
    /\ sEvents' = Append(sEvents, [type |-> "TransferProgress", id |-> t])
    /\ UNCHANGED <<task, total, recipient, env, toR, toS>>

\* The read loop takes the receiver's answer.
SenderRecv ==
    /\ toS # <<>>
    /\ toS' = Tail(toS)
    /\ sent' = IF Head(toS).type = "FileAccept"
               THEN UpdateProgress(sent, Head(toS).id)
               ELSE CompleteTransfer(sent, Head(toS).id, FALSE)
    /\ UNCHANGED <<task, total, progress, sEvents, recipient, env, toR>>

\* handle_net_event on the list of transfers.
Handled(list, e) ==
    CASE e.type = "TransferProgress"     -> UpdateProgress(list, e.id)
      [] e.type = "FileTransferComplete" -> CompleteTransfer(list, e.id, TRUE)
      [] e.type = "FileTransferFailed"   -> CompleteTransfer(list, e.id, FALSE)
      [] e.type = "FileOfferReceived"    -> list

SenderUi ==
    /\ sEvents # <<>>
    /\ sEvents' = Tail(sEvents)
    /\ sent' = Handled(sent, Head(sEvents))
    /\ UNCHANGED <<task, total, progress, recipient, env, toR, toS>>

(***************************************************************************)
(* The receiver                                                            *)
(***************************************************************************)
RecvOffer(t) ==
    /\ toR # <<>> /\ Head(toR) = Offer(t)
    /\ toR' = Tail(toR)
    /\ rcvd' = [rcvd EXCEPT ![t] = "Pending"]
    /\ rEvents' = Append(rEvents, [type |-> "FileOfferReceived", id |-> t])
    /\ UNCHANGED <<popup, opening, receiver, disk, sender, env, toS>>

ChunkArrived(t) == toR # <<>> /\ Head(toR).type = "FileChunk" /\ Head(toR).id = t

AnyOrder(t, i) == receiver[t] # None              \* variant: the index is not checked
InOrder(t, i) == receiver[t] = i

\* A chunk of a transfer without a FileReceiver is ignored.
IgnoreChunk(t) ==
    /\ ChunkArrived(t) /\ receiver[t] = None
    /\ toR' = Tail(toR)
    /\ UNCHANGED <<recipient, sender, env, toS>>

\* A chunk out of order, or one that cannot be written, drops the FileReceiver:
\* the status stays and no event is sent.
BadChunk(t) ==
    /\ ChunkArrived(t) /\ receiver[t] # None
    /\ IF InOrder(t, Head(toR).index) THEN Fault ELSE UNCHANGED faults
    /\ toR' = Tail(toR)
    /\ receiver' = [receiver EXCEPT ![t] = None]
    /\ UNCHANGED <<rcvd, rEvents, popup, opening, disk, sender, up, toS>>

Report(t) == Append(rEvents, [type |-> "TransferProgress", id |-> t])

\* n bytes of t are written where its FileReceiver has come to in the file, over
\* what other transfers of the name have there.
Written(t, n) ==
    LET at == receiver[t] * ChunkSize IN
    [u \in Id |-> IF u = t THEN IF disk[t] = at THEN at + n ELSE disk[t]
                 ELSE IF Path[u] = Path[t] /\ disk[u] > at THEN at ELSE disk[u]]

\* The chunk is written; the one flagged last completes the transfer.  recv_map
\* stays locked from the first to the last of these effects.
WriteChunk(t) ==
    /\ ChunkArrived(t) /\ InOrder(t, Head(toR).index)
    /\ toR' = Tail(toR)
    /\ disk' = Written(t, Head(toR).len)
    /\ IF Head(toR).is_last
       THEN /\ receiver' = [receiver EXCEPT ![t] = None]
            /\ rcvd' = CompleteTransfer(rcvd, t, TRUE)
            /\ rEvents' = Append(Report(t), [type |-> "FileTransferComplete", id |-> t])
       ELSE /\ receiver' = [receiver EXCEPT ![t] = @ + 1]
            /\ rcvd' = UpdateProgress(rcvd, t)
            /\ rEvents' = Report(t)
    /\ UNCHANGED <<popup, opening, sender, env, toS>>

\* The last chunk cannot be flushed: the FileReceiver is gone, nobody is told.
FlushFails(t) ==
    /\ ChunkArrived(t) /\ InOrder(t, Head(toR).index) /\ Head(toR).is_last
    /\ Fault /\ UNCHANGED up
    /\ toR' = Tail(toR)
    /\ receiver' = [receiver EXCEPT ![t] = None]
    /\ rcvd' = UpdateProgress(rcvd, t)
    /\ rEvents' = Report(t)
    /\ UNCHANGED <<popup, opening, disk, sender, toS>>

\* The terminal thread: the popup shows the latest offer only.
ReceiverUi ==
    /\ rEvents # <<>>
    /\ rEvents' = Tail(rEvents)
    /\ rcvd' = Handled(rcvd, Head(rEvents))
    /\ popup' = IF Head(rEvents).type = "FileOfferReceived" THEN Head(rEvents).id ELSE popup
    /\ UNCHANGED <<opening, receiver, disk, sender, env, toR, toS>>

\* Y in the popup: a task is spawned to open the file, and the answer is sent
\* without waiting for it.
Accept(t) ==
    /\ popup = t
    /\ popup' = None
    /\ opening' = [opening EXCEPT ![t] = "opening"]
    /\ toS' = Put(toS, [type |-> "FileAccept", id |-> t])
    /\ UNCHANGED <<rcvd, rEvents, receiver, disk, sender, env, toR>>

\* N in the popup: the local list is left as it is.
Reject(t) ==
    /\ popup = t
    /\ popup' = None
    /\ toS' = Put(toS, [type |-> "FileReject", id |-> t])
    /\ UNCHANGED <<rcvd, rEvents, opening, receiver, disk, sender, env, toR>>

\* The file is created, empty even if there was one of its name, and its
\* FileReceiver entered in recv_map...
OpenReceiver(t) ==
    /\ opening[t] = "opening"
    /\ opening' = [opening EXCEPT ![t] = "inserted"]
    /\ receiver' = [receiver EXCEPT ![t] = 0]
    /\ disk' = [u \in Id |-> IF Path[u] = Path[t] THEN 0 ELSE disk[u]]
    /\ UNCHANGED <<rcvd, rEvents, popup, sender, env, toR, toS>>

\* ... and then the transfer is marked active, after the lock was given up.
MarkActive(t) ==
    /\ opening[t] = "inserted"
    /\ opening' = [opening EXCEPT ![t] = "done"]
    /\ rcvd' = UpdateProgress(rcvd, t)
    /\ UNCHANGED <<rEvents, popup, receiver, disk, sender, env, toR, toS>>

\* The file cannot be created; the answer has been sent all the same.
OpenFails(t) ==
    /\ opening[t] = "opening"
    /\ Fault /\ UNCHANGED up
    /\ opening' = [opening EXCEPT ![t] = "done"]
    /\ rEvents' = Append(rEvents, [type |-> "FileTransferFailed", id |-> t])
    /\ UNCHANGED <<rcvd, popup, receiver, disk, sender, toR, toS>>

\* The connection is lost with the packets under way, all but those that were
\* already read from the socket; recv_map and the sender's tasks are not told.
Disconnect ==
    /\ up /\ up' = FALSE
    /\ Fault
    /\ \E i \in 0..Len(toR), j \in 0..Len(toS) :
         toR' = SubSeq(toR, 1, i) /\ toS' = SubSeq(toS, 1, j)
    /\ UNCHANGED <<sender, recipient>>

(***************************************************************************)
(* The specification                                                       *)
(***************************************************************************)
SenderTask(t) ==
    \/ AcceptSeen(t) \/ Deadline(t) \/ GiveUp(t) \/ SendChunk(t) \/ Streamed(t)

Recv(t) == RecvOffer(t) \/ IgnoreChunk(t) \/ BadChunk(t) \/ WriteChunk(t)

Opening(t) == OpenReceiver(t) \/ MarkActive(t)

Next ==
    \/ \E t \in Id : \/ SendFile(t) \/ SenderTask(t) \/ StreamFails(t) \/ Forward(t)
                     \/ Recv(t) \/ FlushFails(t)
                     \/ Accept(t) \/ Reject(t) \/ Opening(t) \/ OpenFails(t)
    \/ SenderRecv \/ SenderUi \/ ReceiverUi \/ Disconnect

Spec == Init /\ [][Next]_vars

\* Spawned tasks, read loops and the terminal's event drain keep running, and
\* the 30 s deadline passes.  Nothing makes the users offer or answer.
Fairness ==
    /\ \A t \in Id :
         /\ WF_vars(SenderTask(t)) /\ WF_vars(Forward(t))
         /\ WF_vars(Recv(t)) /\ WF_vars(Opening(t))
    /\ WF_vars(SenderRecv) /\ WF_vars(SenderUi) /\ WF_vars(ReceiverUi)

FairSpec == Spec /\ Fairness

(***************************************************************************)
(* Properties                                                              *)
(***************************************************************************)
\* Every variable has its type and every channel keeps its capacity.
TypeOK ==
    /\ sent \in [Id -> Status] /\ rcvd \in [Id -> Status]
    /\ task \in [Id -> {"none", "waiting", "givingUp", "streaming", "done"}]
    /\ total \in [Id -> Nat] /\ disk \in [Id -> Nat]
    /\ progress \in [Id -> 0..MaxProgress]
    /\ sEvents \in Seq(Event) /\ rEvents \in Seq(Event)
    /\ toR \in Seq(Packet) /\ toS \in Seq(Answer)
    /\ popup \in Id \cup {None}
    /\ opening \in [Id -> {"no", "opening", "inserted", "done"}]
    /\ receiver \in [Id -> Nat \cup {None}]
    /\ up \in BOOLEAN /\ faults \in 0..MaxFaults

\* The receiver has accepted another transfer of t's file name.
Shared(t) == \E u \in Id \ {t} : Path[u] = Path[t] /\ opening[u] # "no"

\* A transfer the receiver shows as complete is on its disk byte for byte: no
\* chunk was lost, repeated or written out of place on the way, whatever the
\* delays of the task that opens the file, if no other file of its name was
\* accepted.
ReceivedWhole == \A t \in Id : rcvd[t] = "Complete" => disk[t] = Size[t] \/ Shared(t)

\* Not a byte leaves before the receiver has accepted this very transfer.
StreamOnlyAccepted ==
    \A t \in Id : task[t] = "streaming" \/ total[t] > 0 => opening[t] # "no"

\* Every offer comes to an end at the sender: its task streams the file or gives
\* up, whether or not the receiver answers, loses the connection or its disk.
OfferResolves == \A t \in Id : (task[t] = "waiting") ~> (task[t] = "done")

\* A transfer whose file is open before the first chunk leaves is shown complete
\* at the receiver, unless something fails or the last chunk is a full one.
OpenInTime(t) ==
    /\ task[t] = "streaming" /\ total[t] = 0 /\ receiver[t] = 0
    /\ Size[t] % ChunkSize # 0
DeliveredIfOpen ==
    \A t \in Id : OpenInTime(t) ~> (rcvd[t] = "Complete" \/ faults > 0)

\* An accepted transfer is shown complete at the receiver, unless something fails.
AcceptedCompletes ==
    \A t \in Id : (task[t] = "streaming") ~> (rcvd[t] = "Complete" \/ faults > 0)
=============================================================================
