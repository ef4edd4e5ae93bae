------------------------- MODULE FileTransferProofs -------------------------
(***************************************************************************)
(* Proofs about FileTransfer for any transfers, sizes and capacities.      *)
(***************************************************************************)
EXTENDS FileTransfer, TLAPS

Told(t) == [type |-> "FileOfferReceived", id |-> t]
Progressed(t) == [type |-> "TransferProgress", id |-> t]
Completed(t) == [type |-> "FileTransferComplete", id |-> t]
Dropped(t) == [type |-> "FileTransferFailed", id |-> t]
Consent(t) == [type |-> "FileAccept", id |-> t]
Refusal(t) == [type |-> "FileReject", id |-> t]

\* Without the receiver's consent nothing is under way that could make the
\* transfer active or move a byte.
NothingYet(t) ==
    /\ sent[t] # "Active" /\ task[t] # "streaming"
    /\ total[t] = 0 /\ progress[t] = 0
    /\ \A i \in DOMAIN toS : toS[i] # Consent(t)
    /\ \A i \in DOMAIN sEvents : sEvents[i] # Progressed(t)
ConsentFirst == \A t \in Id : opening[t] = "no" => NothingYet(t)

\* An offer is in one place at most: on its way, in the events, in the popup, or
\* accepted.  So a file is opened, and its count of bytes reset, only once.
OfferOnce ==
    \A t \in Id :
        /\ \A i, j \in DOMAIN toR : toR[i] = Offer(t) /\ toR[j] = Offer(t) => i = j
        /\ \A i, j \in DOMAIN rEvents : rEvents[i] = Told(t) /\ rEvents[j] = Told(t) => i = j
        /\ \A i \in DOMAIN toR : toR[i] = Offer(t) =>
              /\ task[t] # "none" /\ popup # t /\ opening[t] = "no"
              /\ \A j \in DOMAIN rEvents : rEvents[j] # Told(t)
        /\ \A i \in DOMAIN rEvents : rEvents[i] = Told(t) =>
              task[t] # "none" /\ popup # t /\ opening[t] = "no"
        /\ popup = t => task[t] # "none" /\ opening[t] = "no"
        /\ opening[t] # "no" => task[t] # "none"

\* The stream is cut at multiples of the chunk size, and every chunk under way
\* is a full one or the one that ends the file.
Cut ==
    /\ \A t \in Id : total[t] < Size[t] => total[t] = (total[t] \div ChunkSize) * ChunkSize
    /\ \A i \in DOMAIN toR : toR[i].type = "FileChunk" =>
          IF toR[i].is_last THEN toR[i].index * ChunkSize + toR[i].len = Size[toR[i].id]
                            ELSE toR[i].len = ChunkSize

\* What is on the disk is what the FileReceiver counts, unless the file is shared,
\* and a file that is shown or announced as complete is no longer written to.
Finished(t) ==
    rcvd[t] = "Complete" \/ \E i \in DOMAIN rEvents : rEvents[i] = Completed(t)
Assembled ==
    \A t \in Id :
        /\ receiver[t] # None =>
              /\ disk[t] = receiver[t] * ChunkSize \/ Shared(t)
              /\ opening[t] \in {"inserted", "done"}
        /\ Finished(t) =>
              /\ disk[t] = Size[t] \/ Shared(t)
              /\ receiver[t] = None
              /\ opening[t] \in {"inserted", "done"}

IInv == TypeOK /\ ConsentFirst /\ OfferOnce /\ Cut /\ Assembled

(***************************************************************************)
(* Sequences                                                               *)
(***************************************************************************)
\* The elements of a tail are elements of the whole.
LEMMA TailIs ==
    ASSUME NEW S, NEW s \in Seq(S), s # <<>>
    PROVE  /\ Head(s) \in S /\ Head(s) = s[1] /\ 1 \in DOMAIN s
           /\ Tail(s) \in Seq(S)
           /\ \A i \in DOMAIN Tail(s) : i + 1 \in DOMAIN s /\ Tail(s)[i] = s[i + 1] /\ 1 # i + 1
OBVIOUS

\* The elements after an Append are the old ones and the new one.
LEMMA AppendIs ==
    ASSUME NEW S, NEW s \in Seq(S), NEW e \in S
    PROVE  /\ Append(s, e) \in Seq(S)
           /\ \A i \in DOMAIN Append(s, e) :
                 \/ i \in DOMAIN s /\ Append(s, e)[i] = s[i]
                 \/ i = Len(s) + 1 /\ Append(s, e)[i] = e
           /\ Len(s) + 1 \notin DOMAIN s
OBVIOUS

\* The elements of a prefix stay where they were.
LEMMA PrefixIs ==
    ASSUME NEW S, NEW s \in Seq(S), NEW n \in 0..Len(s)
    PROVE  /\ SubSeq(s, 1, n) \in Seq(S)
           /\ \A i \in DOMAIN SubSeq(s, 1, n) : i \in DOMAIN s /\ SubSeq(s, 1, n)[i] = s[i]
OBVIOUS

(***************************************************************************)
(* Lists of transfers, events and packets                                  *)
(***************************************************************************)
\* An update changes a listed transfer to Active, and nothing else.
LEMMA UpdatedIs ==
    ASSUME NEW list \in [Id -> Status], NEW t \in Id
    PROVE  /\ UpdateProgress(list, t) \in [Id -> Status]
           /\ \A u \in Id \ {t} : UpdateProgress(list, t)[u] = list[u]
           /\ UpdateProgress(list, t)[t] \in {"none", "Active"}
BY DEF UpdateProgress, Status

\* The successful end of a listed transfer changes it to Complete, and nothing else.
LEMMA CompletedIs ==
    ASSUME NEW list \in [Id -> Status], NEW t \in Id
    PROVE  /\ CompleteTransfer(list, t, TRUE) \in [Id -> Status]
           /\ \A u \in Id \ {t} : CompleteTransfer(list, t, TRUE)[u] = list[u]
           /\ CompleteTransfer(list, t, TRUE)[t] \in {"none", "Complete"}
BY DEF CompleteTransfer, Status

\* The same for the end that is a failure.
LEMMA FailedIs ==
    ASSUME NEW list \in [Id -> Status], NEW t \in Id
    PROVE  /\ CompleteTransfer(list, t, FALSE) \in [Id -> Status]
           /\ \A u \in Id \ {t} : CompleteTransfer(list, t, FALSE)[u] = list[u]
           /\ CompleteTransfer(list, t, FALSE)[t] \in {"none", "Failed"}
BY DEF CompleteTransfer, Status

\* An event changes only the transfer it is about, to what its type says.
LEMMA HandledIs ==
    ASSUME NEW list \in [Id -> Status], NEW e \in Event
    PROVE  /\ e.id \in Id
           /\ Handled(list, e) \in [Id -> Status]
           /\ \A u \in Id \ {e.id} : Handled(list, e)[u] = list[u]
           /\ Handled(list, e)[e.id] = "Active" =>
                 e = Progressed(e.id) \/ list[e.id] = "Active"
           /\ Handled(list, e)[e.id] = "Complete" =>
                 e = Completed(e.id) \/ list[e.id] = "Complete"
           /\ e.type = "FileOfferReceived" => e = Told(e.id)
<1>1. e.id \in Id /\ e = [type |-> e.type, id |-> e.id]
      /\ e.type \in {"FileOfferReceived", "TransferProgress",
                     "FileTransferComplete", "FileTransferFailed"}
  BY DEF Event
<1>2. CASE e.type = "TransferProgress"
  BY <1>1, <1>2, UpdatedIs DEF Handled, Progressed
<1>3. CASE e.type = "FileTransferComplete"
  <2>1. e = Completed(e.id)
    BY <1>1, <1>3 DEF Completed
  <2>2. QED
    BY <1>1, <1>3, <2>1 DEF Handled, CompleteTransfer, Status
<1>4. CASE e.type = "FileTransferFailed"
  BY <1>1, <1>4 DEF Handled, CompleteTransfer, Status
<1>5. CASE e.type = "FileOfferReceived"
  BY <1>1, <1>5 DEF Handled, Told
<1>6. QED
  BY <1>1, <1>2, <1>3, <1>4, <1>5

\* The records the actions build have the types of their queues.
LEMMA RecordTypes ==
    ASSUME NEW t \in Id
    PROVE  /\ Told(t) \in Event /\ Progressed(t) \in Event /\ Completed(t) \in Event
           /\ Dropped(t) \in Event
           /\ Consent(t) \in Answer /\ Refusal(t) \in Answer
           /\ Offer(t) \in Packet
           /\ \A i \in Nat, n \in 1..ChunkSize, last \in BOOLEAN : Chunk(t, i, n, last) \in Packet
BY DEF Told, Progressed, Completed, Dropped, Consent, Refusal, Event, Answer, Offer, Chunk, Packet

\* The number of whole chunks in a number of bytes.
LEMMA Quotient ==
    ASSUME NEW a \in Nat
    PROVE  a \div ChunkSize \in Nat /\ (a * ChunkSize) \div ChunkSize = a
           /\ a * ChunkSize + ChunkSize = (a + 1) * ChunkSize
BY TransferAssumption

\* While bytes are left, the next read returns some, and no more than a chunk.
LEMMA NextLenIs ==
    ASSUME NEW t \in Id, total[t] \in Nat, Size[t] \in Nat, total[t] < Size[t]
    PROVE  NextLen(t) \in 1..ChunkSize
BY TransferAssumption DEF NextLen

\* A chunk has the fields that the receiver looks at.
LEMMA ChunkFields ==
    ASSUME NEW p \in Packet, p.type = "FileChunk"
    PROVE  p.id \in Id /\ p.index \in Nat /\ p.len \in 1..ChunkSize /\ p.is_last \in BOOLEAN
BY DEF Packet

\* A chunk follows the bytes of its transfer, and no file of another name changes.
LEMMA WrittenIs ==
    ASSUME disk \in [Id -> Nat], NEW t \in Id, receiver[t] \in Nat, NEW n \in Nat
    PROVE  /\ Written(t, n) \in [Id -> Nat]
           /\ disk[t] = receiver[t] * ChunkSize => Written(t, n)[t] = disk[t] + n
           /\ \A u \in Id \ {t} : Path[u] # Path[t] => Written(t, n)[u] = disk[u]
<1> DEFINE at == receiver[t] * ChunkSize
<1>1. at \in Nat
  BY TransferAssumption
<1> HIDE DEF at
<1>2. Written(t, n) = [u \in Id |->
          IF u = t THEN IF disk[t] = at THEN at + n ELSE disk[t]
                   ELSE IF Path[u] = Path[t] /\ disk[u] > at THEN at ELSE disk[u]]
  BY DEF Written, at
<1>3. at + n \in Nat
  BY <1>1
<1>4. QED
  BY <1>1, <1>2, <1>3 DEF at

\* Every step preserves the types.
LEMMA TypeStep == IInv /\ [Next]_vars => TypeOK'
<1> SUFFICES ASSUME IInv, [Next]_vars PROVE TypeOK'
  OBVIOUS
<1> USE TransferAssumption DEF IInv, TypeOK
<1>1. ASSUME NEW t \in Id, SendFile(t)
      PROVE  TypeOK'
  <2>1. sent' \in [Id -> Status]
    BY <1>1 DEF SendFile, Status
  <2>2. toR' \in Seq(Packet)
    BY <1>1, RecordTypes, AppendIs DEF SendFile
  <2>3. QED
    BY <1>1, <2>1, <2>2 DEF SendFile, sender, recipient, env
<1>2. ASSUME NEW t \in Id, AcceptSeen(t)
      PROVE  TypeOK'
  <2>1. task' \in [Id -> {"none", "waiting", "givingUp", "streaming", "done"}]
    BY <1>2 DEF AcceptSeen
  <2>2. QED
    BY <1>2, <2>1 DEF AcceptSeen, sender, recipient, env
<1>3. ASSUME NEW t \in Id, Deadline(t)
      PROVE  TypeOK'
  <2>1. task' \in [Id -> {"none", "waiting", "givingUp", "streaming", "done"}]
    BY <1>3 DEF Deadline
  <2>2. QED
    BY <1>3, <2>1 DEF Deadline, sender, recipient, env
<1>4. ASSUME NEW t \in Id, GiveUp(t)
      PROVE  TypeOK'
  <2>1. sent' \in [Id -> Status]
    BY <1>4, FailedIs DEF GiveUp
  <2>2. QED
    BY <1>4, <2>1 DEF GiveUp, sender, recipient, env
<1>5. ASSUME NEW t \in Id, SendChunk(t)
      PROVE  TypeOK'
  <2>1. total[t] \in Nat /\ Size[t] \in Nat /\ total[t] < Size[t]
    BY <1>5 DEF SendChunk
  <2>2. NextLen(t) \in 1..ChunkSize
    BY <2>1, NextLenIs
  <2>3. total[t] \div ChunkSize \in Nat
    BY <2>1, Quotient
  <2>4. IsLast(NextLen(t)) \in BOOLEAN
    BY DEF IsLast
  <2>5. Chunk(t, total[t] \div ChunkSize, NextLen(t), IsLast(NextLen(t))) \in Packet
    BY <2>2, <2>3, <2>4, RecordTypes
  <2>6. toR' \in Seq(Packet)
    BY <1>5, <2>5, AppendIs DEF SendChunk, Put
  <2>7. progress' \in [Id -> 0..MaxProgress]
    BY <1>5 DEF SendChunk, TrySend
  <2>8. total' \in [Id -> Nat]
    BY <1>5, <2>1, <2>2 DEF SendChunk
  <2>9. QED
    BY <1>5, <2>1, <2>2, <2>3, <2>4, <2>5, <2>6, <2>7, <2>8 DEF SendChunk, sender, recipient, env
<1>6. ASSUME NEW t \in Id, Streamed(t)
      PROVE  TypeOK'
  <2>1. sent' \in [Id -> Status]
    BY <1>6, CompletedIs DEF Streamed
  <2>2. QED
    BY <1>6, <2>1 DEF Streamed, sender, recipient, env
<1>7. ASSUME NEW t \in Id, StreamFails(t)
      PROVE  TypeOK'
  <2>1. sent' \in [Id -> Status]
    BY <1>7, FailedIs DEF StreamFails
  <2>2. sEvents' \in Seq(Event)
    BY <1>7, RecordTypes, AppendIs DEF StreamFails, Dropped
  <2>3. faults' \in 0..MaxFaults
    BY <1>7 DEF StreamFails, Fault
  <2>4. QED
    BY <1>7, <2>1, <2>2, <2>3 DEF StreamFails, sender, recipient, env
<1>8. ASSUME NEW t \in Id, Forward(t)
      PROVE  TypeOK'
  <2>1. sent' \in [Id -> Status]
    BY <1>8, UpdatedIs DEF Forward
  <2>2. sEvents' \in Seq(Event)
    BY <1>8, RecordTypes, AppendIs DEF Forward, Progressed
  <2>3. progress' \in [Id -> 0..MaxProgress]
    BY <1>8 DEF Forward
  <2>4. QED
    BY <1>8, <2>1, <2>2, <2>3 DEF Forward, sender, recipient, env
<1>9. ASSUME NEW t \in Id, RecvOffer(t)
      PROVE  TypeOK'
  <2>1. rcvd' \in [Id -> Status]
    BY <1>9 DEF RecvOffer, Status
  <2>2. rEvents' \in Seq(Event)
    BY <1>9, RecordTypes, AppendIs DEF RecvOffer, Told
  <2>3. toR' \in Seq(Packet)
    BY <1>9, TailIs DEF RecvOffer
  <2>4. QED
    BY <1>9, <2>1, <2>2, <2>3 DEF RecvOffer, sender, recipient, env
<1>10. ASSUME NEW t \in Id, IgnoreChunk(t)
       PROVE  TypeOK'
  <2>1. toR' \in Seq(Packet)
    BY <1>10, TailIs DEF IgnoreChunk, ChunkArrived
  <2>2. QED
    BY <1>10, <2>1 DEF IgnoreChunk, sender, recipient, env
<1>11. ASSUME NEW t \in Id, BadChunk(t)
       PROVE  TypeOK'
  <2>1. toR' \in Seq(Packet)
    BY <1>11, TailIs DEF BadChunk, ChunkArrived
  <2>2. faults' \in 0..MaxFaults
    BY <1>11 DEF BadChunk, Fault
  <2>3. QED
    BY <1>11, <2>1, <2>2 DEF BadChunk, sender, recipient, env
<1>12. ASSUME NEW t \in Id, WriteChunk(t)
       PROVE  TypeOK'
  <2>1. toR # <<>> /\ toR \in Seq(Packet)
    BY <1>12 DEF WriteChunk, ChunkArrived
  <2>2. Head(toR) \in Packet /\ Head(toR).type = "FileChunk"
    BY <1>12, <2>1, TailIs DEF WriteChunk, ChunkArrived
  <2>3. Head(toR).len \in Nat /\ Head(toR).index \in Nat
    <3>1. Head(toR).len \in 1..ChunkSize /\ Head(toR).index \in Nat
      BY <2>2, ChunkFields
    <3>2. QED
      BY <3>1
  <2>4. receiver[t] \in Nat
    BY <1>12, <2>3 DEF WriteChunk, InOrder
  <2>5. toR' \in Seq(Packet)
    BY <1>12, <2>1, TailIs DEF WriteChunk
  <2>6. /\ CompleteTransfer(rcvd, t, TRUE) \in [Id -> Status]
        /\ UpdateProgress(rcvd, t) \in [Id -> Status]
    BY UpdatedIs, CompletedIs
  <2>7. rcvd' \in [Id -> Status]
    BY <1>12, <2>6 DEF WriteChunk
  <2>8. Report(t) \in Seq(Event)
    BY <1>12, RecordTypes, AppendIs DEF Report, Progressed
  <2>9. Append(Report(t), Completed(t)) \in Seq(Event)
    BY <2>8, RecordTypes, AppendIs
  <2>10. rEvents' \in Seq(Event)
    BY <1>12, <2>8, <2>9 DEF WriteChunk, Completed
  <2>11. /\ [receiver EXCEPT ![t] = None] \in [Id -> Nat \cup {None}]
         /\ [receiver EXCEPT ![t] = receiver[t] + 1] \in [Id -> Nat \cup {None}]
    <3>1. receiver \in [Id -> Nat \cup {None}] /\ receiver[t] + 1 \in Nat
      BY <2>4
    <3>2. [receiver EXCEPT ![t] = None] \in [Id -> Nat \cup {None}]
      BY <3>1
    <3>3. [receiver EXCEPT ![t] = receiver[t] + 1] \in [Id -> Nat \cup {None}]
      BY <3>1
    <3>4. QED
      BY <3>2, <3>3
  <2>12. receiver' \in [Id -> Nat \cup {None}]
    BY <1>12, <2>11 DEF WriteChunk
  <2>13. disk' \in [Id -> Nat]
    <3>1. disk' = Written(t, Head(toR).len)
      BY <1>12 DEF WriteChunk
    <3>2. QED
      BY <2>3, <2>4, <3>1, WrittenIs
  <2>14. QED
    BY <1>12, <2>1, <2>2, <2>3, <2>4, <2>5, <2>6, <2>7, <2>8, <2>9, <2>10, <2>11, <2>12, <2>13
       DEF WriteChunk, sender, recipient, env
<1>13. ASSUME NEW t \in Id, FlushFails(t)
       PROVE  TypeOK'
  <2>1. toR' \in Seq(Packet)
    BY <1>13, TailIs DEF FlushFails, ChunkArrived
  <2>2. rcvd' \in [Id -> Status]
    BY <1>13, UpdatedIs DEF FlushFails
  <2>3. rEvents' \in Seq(Event)
    BY <1>13, RecordTypes, AppendIs DEF FlushFails, Report, Progressed
  <2>4. faults' \in 0..MaxFaults
    BY <1>13 DEF FlushFails, Fault
  <2>5. QED
    BY <1>13, <2>1, <2>2, <2>3, <2>4 DEF FlushFails, sender, recipient, env
<1>14. ASSUME NEW t \in Id, Accept(t)
       PROVE  TypeOK'
  <2>1. toS' \in Seq(Answer)
    BY <1>14, RecordTypes, AppendIs DEF Accept, Put, Consent
  <2>2. QED
    BY <1>14, <2>1 DEF Accept, sender, recipient, env
<1>15. ASSUME NEW t \in Id, Reject(t)
       PROVE  TypeOK'
  <2>1. toS' \in Seq(Answer)
    BY <1>15, RecordTypes, AppendIs DEF Reject, Put, Refusal
  <2>2. QED
    BY <1>15, <2>1 DEF Reject, sender, recipient, env
<1>16. ASSUME NEW t \in Id, OpenReceiver(t)
       PROVE  TypeOK'
  <2>1. receiver' \in [Id -> Nat \cup {None}]
    BY <1>16 DEF OpenReceiver
  <2>2. QED
    BY <1>16, <2>1 DEF OpenReceiver, sender, recipient, env
<1>17. ASSUME NEW t \in Id, MarkActive(t)
       PROVE  TypeOK'
  <2>1. rcvd' \in [Id -> Status]
    BY <1>17, UpdatedIs DEF MarkActive
  <2>2. QED
    BY <1>17, <2>1 DEF MarkActive, sender, recipient, env
<1>18. ASSUME NEW t \in Id, OpenFails(t)
       PROVE  TypeOK'
  <2>1. rEvents' \in Seq(Event)
    BY <1>18, RecordTypes, AppendIs DEF OpenFails, Dropped
  <2>2. faults' \in 0..MaxFaults
    BY <1>18 DEF OpenFails, Fault
  <2>3. QED
    BY <1>18, <2>1, <2>2 DEF OpenFails, sender, recipient, env
<1>19. ASSUME SenderRecv
       PROVE  TypeOK'
  <2>1. Head(toS) \in Answer
    BY <1>19, TailIs DEF SenderRecv
  <2>2. Head(toS).id \in Id
    BY <2>1 DEF Answer
  <2>3. toS' \in Seq(Answer)
    BY <1>19, TailIs DEF SenderRecv
  <2>4. sent' \in [Id -> Status]
    BY <1>19, <2>2, UpdatedIs, FailedIs DEF SenderRecv
  <2>5. QED
    BY <1>19, <2>1, <2>2, <2>3, <2>4 DEF SenderRecv, sender, recipient, env
<1>20. ASSUME SenderUi
       PROVE  TypeOK'
  <2>1. Head(sEvents) \in Event
    BY <1>20, TailIs DEF SenderUi
  <2>2. sEvents' \in Seq(Event)
    BY <1>20, TailIs DEF SenderUi
  <2>3. sent' \in [Id -> Status]
    BY <1>20, <2>1, HandledIs DEF SenderUi
  <2>4. QED
    BY <1>20, <2>1, <2>2, <2>3 DEF SenderUi, sender, recipient, env
<1>21. ASSUME ReceiverUi
       PROVE  TypeOK'
  <2>1. Head(rEvents) \in Event
    BY <1>21, TailIs DEF ReceiverUi
  <2>2. rEvents' \in Seq(Event)
    BY <1>21, TailIs DEF ReceiverUi
  <2>3. rcvd' \in [Id -> Status]
    BY <1>21, <2>1, HandledIs DEF ReceiverUi
  <2>4. popup' \in Id \cup {None}
    BY <1>21, <2>1, HandledIs DEF ReceiverUi
  <2>5. QED
    BY <1>21, <2>1, <2>2, <2>3, <2>4 DEF ReceiverUi, sender, recipient, env
<1>22. ASSUME Disconnect
       PROVE  TypeOK'
  <2>1. toR' \in Seq(Packet)
    BY <1>22, PrefixIs DEF Disconnect
  <2>2. toS' \in Seq(Answer)
    BY <1>22, PrefixIs DEF Disconnect
  <2>3. faults' \in 0..MaxFaults
    BY <1>22 DEF Disconnect, Fault
  <2>4. QED
    BY <1>22, <2>1, <2>2, <2>3 DEF Disconnect, sender, recipient, env
<1>23. CASE UNCHANGED vars
  BY <1>23 DEF vars, sender, recipient, env
<1>24. QED
  BY <1>1, <1>2, <1>3, <1>4, <1>5, <1>6, <1>7, <1>8, <1>9, <1>10, <1>11, <1>12, <1>13, <1>14,
     <1>15, <1>16, <1>17, <1>18, <1>19, <1>20, <1>21, <1>22, <1>23
     DEF Next, SenderTask, Recv, Opening

\* Every step preserves that consent comes first.
LEMMA ConsentStep == IInv /\ [Next]_vars => ConsentFirst'
<1> SUFFICES ASSUME IInv, [Next]_vars PROVE ConsentFirst'
  OBVIOUS
<1> USE TransferAssumption
<1>0. TypeOK /\ ConsentFirst
  BY DEF IInv
<1>1. ASSUME NEW t \in Id, SendFile(t)
      PROVE  ConsentFirst'
  BY <1>0, <1>1 DEF SendFile, sender, recipient, env, ConsentFirst, NothingYet, TypeOK
<1>2. ASSUME NEW t \in Id, AcceptSeen(t)
      PROVE  ConsentFirst'
  <2>1. \A u \in Id : task'[u] = "streaming" => task[u] = "streaming" \/ sent[u] = "Active"
    BY <1>0, <1>2 DEF AcceptSeen, Accepted, TypeOK
  <2>2. QED
    BY <1>0, <1>2, <2>1 DEF AcceptSeen, recipient, ConsentFirst, NothingYet
<1>3. ASSUME NEW t \in Id, Deadline(t)
      PROVE  ConsentFirst'
  BY <1>0, <1>3 DEF Deadline, sender, recipient, env, ConsentFirst, NothingYet, TypeOK
<1>4. ASSUME NEW t \in Id, GiveUp(t)
      PROVE  ConsentFirst'
  <2>1. \A u \in Id : sent'[u] = "Active" => sent[u] = "Active"
    BY <1>0, <1>4 DEF GiveUp, CompleteTransfer, TypeOK
  <2>2. \A u \in Id : task'[u] = "streaming" => task[u] = "streaming"
    BY <1>0, <1>4 DEF GiveUp, TypeOK
  <2>3. QED
    BY <1>0, <1>4, <2>1, <2>2 DEF GiveUp, recipient, ConsentFirst, NothingYet
<1>5. ASSUME NEW t \in Id, SendChunk(t)
      PROVE  ConsentFirst'
  BY <1>0, <1>5 DEF SendChunk, sender, recipient, env, ConsentFirst, NothingYet, TypeOK
<1>6. ASSUME NEW t \in Id, Streamed(t)
      PROVE  ConsentFirst'
  <2>1. \A u \in Id : sent'[u] = "Active" => sent[u] = "Active"
    BY <1>0, <1>6 DEF Streamed, CompleteTransfer, TypeOK
  <2>2. \A u \in Id : task'[u] = "streaming" => task[u] = "streaming"
    BY <1>0, <1>6 DEF Streamed, TypeOK
  <2>3. QED
    BY <1>0, <1>6, <2>1, <2>2 DEF Streamed, recipient, ConsentFirst, NothingYet
<1>7. ASSUME NEW t \in Id, StreamFails(t)
      PROVE  ConsentFirst'
  <2>1. \A u \in Id : sent'[u] = "Active" => sent[u] = "Active"
    BY <1>0, <1>7 DEF StreamFails, CompleteTransfer, TypeOK
  <2>2. \A i \in DOMAIN sEvents' : \/ i \in DOMAIN sEvents /\ sEvents'[i] = sEvents[i]
                                   \/ \A u \in Id : sEvents'[i] # Progressed(u)
    <3>1. sEvents' = Append(sEvents, Dropped(t)) /\ Dropped(t) \in Event /\ sEvents \in Seq(Event)
      BY <1>0, <1>7, RecordTypes DEF StreamFails, TypeOK, Dropped
    <3>2. \A u \in Id : Dropped(t) # Progressed(u)
      BY DEF Dropped, Progressed
    <3>3. QED
      BY <3>1, <3>2, AppendIs
  <2>3. QED
    <3>1. \A u \in Id : task'[u] = "streaming" => task[u] = "streaming"
      BY <1>0, <1>7 DEF StreamFails, TypeOK
    <3>2. UNCHANGED <<opening, total, progress, toS>>
      BY <1>7 DEF StreamFails, recipient
    <3>3. ASSUME NEW u \in Id, opening'[u] = "no"
          PROVE  NothingYet(u)'
      <4>1. NothingYet(u)
        BY <1>0, <3>2, <3>3 DEF ConsentFirst
      <4>2. QED
        BY <2>1, <2>2, <3>1, <3>2, <4>1 DEF NothingYet
    <3>4. QED
      BY <3>3 DEF ConsentFirst
<1>8. ASSUME NEW t \in Id, Forward(t)
      PROVE  ConsentFirst'
  <2>1. opening[t] # "no"
    BY <1>0, <1>8 DEF Forward, ConsentFirst, NothingYet, TypeOK
  <2>2. \A u \in Id \ {t} : sent'[u] = sent[u] /\ progress'[u] = progress[u]
    BY <1>0, <1>8 DEF Forward, UpdateProgress, TypeOK
  <2>3. \A i \in DOMAIN sEvents' : \/ i \in DOMAIN sEvents /\ sEvents'[i] = sEvents[i]
                                   \/ \A u \in Id \ {t} : sEvents'[i] # Progressed(u)
    <3>1. sEvents' = Append(sEvents, Progressed(t)) /\ Progressed(t) \in Event /\ sEvents \in Seq(Event)
      BY <1>0, <1>8, RecordTypes DEF Forward, Progressed, TypeOK
    <3>2. \A u \in Id \ {t} : Progressed(t) # Progressed(u)
      BY DEF Progressed
    <3>3. QED
      BY <3>1, <3>2, AppendIs
  <2>4. QED
    BY <1>0, <1>8, <2>1, <2>2, <2>3 DEF Forward, recipient, ConsentFirst, NothingYet
<1>9. ASSUME NEW t \in Id, RecvOffer(t)
      PROVE  ConsentFirst'
  BY <1>0, <1>9 DEF RecvOffer, sender, recipient, env, ConsentFirst, NothingYet, TypeOK
<1>10. ASSUME NEW t \in Id, IgnoreChunk(t)
       PROVE  ConsentFirst'
  BY <1>0, <1>10 DEF IgnoreChunk, sender, recipient, env, ConsentFirst, NothingYet, TypeOK
<1>11. ASSUME NEW t \in Id, BadChunk(t)
       PROVE  ConsentFirst'
  BY <1>0, <1>11 DEF BadChunk, sender, recipient, env, ConsentFirst, NothingYet, TypeOK
<1>12. ASSUME NEW t \in Id, WriteChunk(t)
       PROVE  ConsentFirst'
  BY <1>0, <1>12 DEF WriteChunk, sender, recipient, env, ConsentFirst, NothingYet, TypeOK
<1>13. ASSUME NEW t \in Id, FlushFails(t)
       PROVE  ConsentFirst'
  BY <1>0, <1>13 DEF FlushFails, sender, recipient, env, ConsentFirst, NothingYet, TypeOK
<1>14. ASSUME NEW t \in Id, Accept(t)
       PROVE  ConsentFirst'
  <2>1. \A i \in DOMAIN toS' : \/ i \in DOMAIN toS /\ toS'[i] = toS[i]
                               \/ \A u \in Id \ {t} : toS'[i] # Consent(u)
    <3>1. toS' = toS \/ toS' = Append(toS, Consent(t))
      BY <1>14 DEF Accept, Put, Consent
    <3>2. Consent(t) \in Answer /\ toS \in Seq(Answer)
      BY <1>0, RecordTypes DEF TypeOK
    <3>3. \A u \in Id \ {t} : Consent(t) # Consent(u)
      BY DEF Consent
    <3>4. CASE toS' = toS
      BY <3>4
    <3>5. CASE toS' = Append(toS, Consent(t))
      BY <3>2, <3>3, <3>5, AppendIs
    <3>6. QED
      BY <3>1, <3>4, <3>5
  <2>2. ASSUME NEW u \in Id, opening'[u] = "no"
        PROVE  NothingYet(u)'
    <3>1. u # t /\ opening[u] = "no"
      BY <1>0, <1>14, <2>2 DEF Accept, TypeOK
    <3>2. NothingYet(u)
      BY <1>0, <3>1 DEF ConsentFirst
    <3>3. UNCHANGED <<sent, task, total, progress, sEvents>>
      BY <1>14 DEF Accept, sender
    <3>4. QED
      BY <2>1, <3>1, <3>2, <3>3 DEF NothingYet
  <2>3. QED
    BY <2>2 DEF ConsentFirst
<1>15. ASSUME NEW t \in Id, Reject(t)
       PROVE  ConsentFirst'
  <2>1. \A i \in DOMAIN toS' : \/ i \in DOMAIN toS /\ toS'[i] = toS[i]
                               \/ \A u \in Id : toS'[i] # Consent(u)
    <3>1. toS' = toS \/ toS' = Append(toS, Refusal(t))
      BY <1>15 DEF Reject, Put, Refusal
    <3>2. Refusal(t) \in Answer /\ toS \in Seq(Answer)
      BY <1>0, RecordTypes DEF TypeOK
    <3>3. \A u \in Id : Refusal(t) # Consent(u)
      BY DEF Consent, Refusal
    <3>4. CASE toS' = toS
      BY <3>4
    <3>5. CASE toS' = Append(toS, Refusal(t))
      BY <3>2, <3>3, <3>5, AppendIs
    <3>6. QED
      BY <3>1, <3>4, <3>5
  <2>2. QED
    BY <1>0, <1>15, <2>1 DEF Reject, sender, ConsentFirst, NothingYet, TypeOK
<1>16. ASSUME NEW t \in Id, OpenReceiver(t)
       PROVE  ConsentFirst'
  BY <1>0, <1>16 DEF OpenReceiver, sender, recipient, env, ConsentFirst, NothingYet, TypeOK
<1>17. ASSUME NEW t \in Id, MarkActive(t)
       PROVE  ConsentFirst'
  BY <1>0, <1>17 DEF MarkActive, sender, recipient, env, ConsentFirst, NothingYet, TypeOK
<1>18. ASSUME NEW t \in Id, OpenFails(t)
       PROVE  ConsentFirst'
  BY <1>0, <1>18 DEF OpenFails, sender, recipient, env, ConsentFirst, NothingYet, TypeOK
<1>19. ASSUME SenderRecv
       PROVE  ConsentFirst'
  <2>1. /\ Head(toS) \in Answer /\ Head(toS) = toS[1] /\ 1 \in DOMAIN toS
        /\ \A i \in DOMAIN toS' : i + 1 \in DOMAIN toS /\ toS'[i] = toS[i + 1]
    BY <1>0, <1>19, TailIs DEF SenderRecv, TypeOK
  <2>2. \A u \in Id : sent'[u] = "Active" => sent[u] = "Active" \/ Head(toS) = Consent(u)
    <3>1. /\ Head(toS).id \in Id
          /\ Head(toS).type = "FileAccept" => Head(toS) = Consent(Head(toS).id)
      BY <2>1 DEF Answer, Consent
    <3>2. QED
      BY <1>0, <1>19, <3>1 DEF SenderRecv, UpdateProgress, CompleteTransfer, TypeOK
  <2>3. QED
    <3> SUFFICES ASSUME NEW u \in Id, opening[u] = "no" PROVE NothingYet(u)'
      BY <1>0, <1>19 DEF SenderRecv, recipient, ConsentFirst
    <3>1. NothingYet(u)
      BY <1>0 DEF ConsentFirst
    <3>2. sent'[u] # "Active"
      BY <2>1, <2>2, <3>1 DEF NothingYet
    <3>3. \A i \in DOMAIN toS' : toS'[i] # Consent(u)
      BY <2>1, <3>1 DEF NothingYet
    <3>4. QED
      BY <1>0, <1>19, <3>1, <3>2, <3>3 DEF SenderRecv, NothingYet
<1>20. ASSUME SenderUi
       PROVE  ConsentFirst'
  <2>1. /\ Head(sEvents) \in Event /\ Head(sEvents) = sEvents[1] /\ 1 \in DOMAIN sEvents
        /\ \A i \in DOMAIN sEvents' : i + 1 \in DOMAIN sEvents /\ sEvents'[i] = sEvents[i + 1]
    BY <1>0, <1>20, TailIs DEF SenderUi, TypeOK
  <2>2. \A u \in Id : sent'[u] = "Active" => sent[u] = "Active" \/ Head(sEvents) = Progressed(u)
    <3>1. Head(sEvents).id \in Id /\ sent \in [Id -> Status]
      BY <1>0, <2>1, HandledIs DEF TypeOK
    <3>2. sent' = Handled(sent, Head(sEvents))
      BY <1>0, <1>20 DEF SenderUi
    <3>3. QED
      BY <2>1, <3>1, <3>2, HandledIs
  <2>3. QED
    BY <1>0, <1>20, <2>1, <2>2 DEF SenderUi, recipient, ConsentFirst, NothingYet
<1>21. ASSUME ReceiverUi
       PROVE  ConsentFirst'
  BY <1>0, <1>21 DEF ReceiverUi, sender, recipient, env, ConsentFirst, NothingYet, TypeOK
<1>22. ASSUME Disconnect
       PROVE  ConsentFirst'
  <2>1. \A i \in DOMAIN toS' : i \in DOMAIN toS /\ toS'[i] = toS[i]
    BY <1>0, <1>22, PrefixIs DEF Disconnect, TypeOK
  <2>2. QED
    BY <1>0, <1>22, <2>1 DEF Disconnect, sender, recipient, ConsentFirst, NothingYet
<1>23. CASE UNCHANGED vars
  BY <1>0, <1>23 DEF vars, sender, recipient, env, ConsentFirst, NothingYet
<1>24. QED
  BY <1>1, <1>2, <1>3, <1>4, <1>5, <1>6, <1>7, <1>8, <1>9, <1>10, <1>11, <1>12, <1>13, <1>14,
     <1>15, <1>16, <1>17, <1>18, <1>19, <1>20, <1>21, <1>22, <1>23
     DEF Next, SenderTask, Recv, Opening

\* A step that moves no offer on, and at most shortens the queue to the receiver,
\* leaves every offer where it was.
LEMMA OnceKept ==
    ASSUME OfferOnce, NEW k \in 0..1,
           \A i \in DOMAIN toR', u \in Id :
               toR'[i] = Offer(u) => i + k \in DOMAIN toR /\ toR[i + k] = Offer(u),
           \A i \in DOMAIN rEvents', u \in Id :
               rEvents'[i] = Told(u) => i \in DOMAIN rEvents /\ rEvents[i] = Told(u),
           \A i \in DOMAIN toR' : i \in Nat,
           \A u \in Id : task[u] # "none" => task'[u] # "none",
           \A u \in Id : popup' = u => popup = u,
           \A u \in Id : opening'[u] = "no" <=> opening[u] = "no"
    PROVE  OfferOnce'
BY DEF OfferOnce

\* The same for a step that leaves alone every place where an offer can be.
LEMMA OnceSame ==
    ASSUME OfferOnce, UNCHANGED <<toR, rEvents, popup, opening>>,
           \A u \in Id : task[u] # "none" => task'[u] # "none"
    PROVE  OfferOnce'
BY DEF OfferOnce

\* Every step leaves each offer in one place at most.
LEMMA OnceStep == IInv /\ [Next]_vars => OfferOnce'
<1> SUFFICES ASSUME IInv, [Next]_vars PROVE OfferOnce'
  OBVIOUS
<1> USE TransferAssumption
<1>0. TypeOK /\ OfferOnce /\ \A i \in DOMAIN toR' : i \in Nat
  <2>1. toR' \in Seq(Packet)
    BY TypeStep DEF TypeOK
  <2>2. QED
    BY <2>1 DEF IInv
<1>1. ASSUME NEW t \in Id, SendFile(t)
      PROVE  OfferOnce'
  <2>1. /\ Len(toR) + 1 \notin DOMAIN toR
        /\ \A i \in DOMAIN toR' : \/ i \in DOMAIN toR /\ toR'[i] = toR[i]
                                  \/ i = Len(toR) + 1 /\ toR'[i] = Offer(t)
    BY <1>0, <1>1, RecordTypes, AppendIs DEF SendFile, TypeOK
  <2>2. \A u \in Id \ {t} : Offer(u) # Offer(t)
    BY DEF Offer
  <2>3. \A u \in Id : task'[u] = IF u = t THEN "waiting" ELSE task[u]
    BY <1>0, <1>1 DEF SendFile, TypeOK
  <2>4. QED
    BY <1>0, <1>1, <2>1, <2>2, <2>3 DEF SendFile, recipient, OfferOnce
<1>2. ASSUME NEW t \in Id, AcceptSeen(t)
      PROVE  OfferOnce'
  <2>1. /\ UNCHANGED <<toR, rEvents, popup, opening>>
        /\ \A u \in Id : task[u] # "none" => task'[u] # "none"
    BY <1>0, <1>2 DEF AcceptSeen, recipient, TypeOK
  <2>2. QED
    BY <1>0, <2>1, OnceSame
<1>3. ASSUME NEW t \in Id, Deadline(t)
      PROVE  OfferOnce'
  <2>1. /\ UNCHANGED <<toR, rEvents, popup, opening>>
        /\ \A u \in Id : task[u] # "none" => task'[u] # "none"
    BY <1>0, <1>3 DEF Deadline, recipient, TypeOK
  <2>2. QED
    BY <1>0, <2>1, OnceSame
<1>4. ASSUME NEW t \in Id, GiveUp(t)
      PROVE  OfferOnce'
  <2>1. /\ UNCHANGED <<toR, rEvents, popup, opening>>
        /\ \A u \in Id : task[u] # "none" => task'[u] # "none"
    BY <1>0, <1>4 DEF GiveUp, recipient, TypeOK
  <2>2. QED
    BY <1>0, <2>1, OnceSame
<1>5. ASSUME NEW t \in Id, SendChunk(t)
      PROVE  OfferOnce'
  <2>1. \A i \in DOMAIN toR', u \in Id :
            toR'[i] = Offer(u) => i + 0 \in DOMAIN toR /\ toR[i + 0] = Offer(u)
    <3> DEFINE c == Chunk(t, total[t] \div ChunkSize, NextLen(t), IsLast(NextLen(t)))
    <3>1. toR \in Seq(Packet) /\ (toR' = toR \/ toR' = Append(toR, c))
      BY <1>0, <1>5 DEF SendChunk, Put, TypeOK
    <3>2. \A u \in Id : c # Offer(u)
      BY DEF Chunk, Offer
    <3> HIDE DEF c
    <3>3. CASE toR' = toR
      BY <3>1, <3>3
    <3>4. CASE toR' = Append(toR, c)
      BY <3>1, <3>2, <3>4
    <3>5. QED
      BY <3>1, <3>3, <3>4
  <2>2. \A i \in DOMAIN rEvents', u \in Id :
            rEvents'[i] = Told(u) => i \in DOMAIN rEvents /\ rEvents[i] = Told(u)
    BY <1>5 DEF SendChunk, recipient
  <2>3. /\ \A u \in Id : task[u] # "none" => task'[u] # "none"
        /\ \A u \in Id : popup' = u => popup = u
        /\ \A u \in Id : opening'[u] = "no" <=> opening[u] = "no"
    BY <1>0, <1>5 DEF SendChunk, TypeOK, sender, recipient
  <2>4. QED
    BY <1>0, <2>1, <2>2, <2>3, OnceKept
<1>6. ASSUME NEW t \in Id, Streamed(t)
      PROVE  OfferOnce'
  <2>1. /\ UNCHANGED <<toR, rEvents, popup, opening>>
        /\ \A u \in Id : task[u] # "none" => task'[u] # "none"
    BY <1>0, <1>6 DEF Streamed, recipient, TypeOK
  <2>2. QED
    BY <1>0, <2>1, OnceSame
<1>7. ASSUME NEW t \in Id, StreamFails(t)
      PROVE  OfferOnce'
  <2>1. /\ UNCHANGED <<toR, rEvents, popup, opening>>
        /\ \A u \in Id : task[u] # "none" => task'[u] # "none"
    BY <1>0, <1>7 DEF StreamFails, recipient, TypeOK
  <2>2. QED
    BY <1>0, <2>1, OnceSame
<1>8. ASSUME NEW t \in Id, Forward(t)
      PROVE  OfferOnce'
  <2>1. /\ UNCHANGED <<toR, rEvents, popup, opening>>
        /\ \A u \in Id : task[u] # "none" => task'[u] # "none"
    BY <1>0, <1>8 DEF Forward, recipient, TypeOK
  <2>2. QED
    BY <1>0, <2>1, OnceSame
<1>9. ASSUME NEW t \in Id, RecvOffer(t)
      PROVE  OfferOnce'
  <2>1. /\ toR[1] = Offer(t) /\ 1 \in DOMAIN toR
        /\ \A i \in DOMAIN toR' : i + 1 \in DOMAIN toR /\ toR'[i] = toR[i + 1] /\ 1 # i + 1 /\ i \in Nat
    BY <1>0, <1>9, TailIs DEF RecvOffer, TypeOK
  <2>2. /\ Len(rEvents) + 1 \notin DOMAIN rEvents
        /\ \A i \in DOMAIN rEvents' : \/ i \in DOMAIN rEvents /\ rEvents'[i] = rEvents[i]
                                      \/ i = Len(rEvents) + 1 /\ rEvents'[i] = Told(t)
    <3>1. rEvents' = Append(rEvents, Told(t)) /\ Told(t) \in Event /\ rEvents \in Seq(Event)
      BY <1>0, <1>9, RecordTypes DEF RecvOffer, TypeOK, Told
    <3>2. QED
      BY <3>1, AppendIs
  <2>3. \A u \in Id \ {t} : Offer(u) # Offer(t) /\ Told(u) # Told(t)
    BY DEF Offer, Told
  <2>4. QED
    BY <1>0, <1>9, <2>1, <2>2, <2>3 DEF RecvOffer, sender, OfferOnce
<1>10. ASSUME NEW t \in Id, IgnoreChunk(t)
       PROVE  OfferOnce'
  <2>1. \A i \in DOMAIN toR', u \in Id :
            toR'[i] = Offer(u) => i + 1 \in DOMAIN toR /\ toR[i + 1] = Offer(u)
    BY <1>0, <1>10, TailIs DEF IgnoreChunk, ChunkArrived, TypeOK
  <2>2. \A i \in DOMAIN rEvents', u \in Id :
            rEvents'[i] = Told(u) => i \in DOMAIN rEvents /\ rEvents[i] = Told(u)
    BY <1>10 DEF IgnoreChunk, recipient
  <2>3. /\ \A u \in Id : task[u] # "none" => task'[u] # "none"
        /\ \A u \in Id : popup' = u => popup = u
        /\ \A u \in Id : opening'[u] = "no" <=> opening[u] = "no"
    BY <1>0, <1>10 DEF IgnoreChunk, TypeOK, sender, recipient
  <2>4. QED
    BY <1>0, <2>1, <2>2, <2>3, OnceKept
<1>11. ASSUME NEW t \in Id, BadChunk(t)
       PROVE  OfferOnce'
  <2>1. \A i \in DOMAIN toR', u \in Id :
            toR'[i] = Offer(u) => i + 1 \in DOMAIN toR /\ toR[i + 1] = Offer(u)
    BY <1>0, <1>11, TailIs DEF BadChunk, ChunkArrived, TypeOK
  <2>2. \A i \in DOMAIN rEvents', u \in Id :
            rEvents'[i] = Told(u) => i \in DOMAIN rEvents /\ rEvents[i] = Told(u)
    BY <1>11 DEF BadChunk, recipient
  <2>3. /\ \A u \in Id : task[u] # "none" => task'[u] # "none"
        /\ \A u \in Id : popup' = u => popup = u
        /\ \A u \in Id : opening'[u] = "no" <=> opening[u] = "no"
    BY <1>0, <1>11 DEF BadChunk, TypeOK, sender, recipient
  <2>4. QED
    BY <1>0, <2>1, <2>2, <2>3, OnceKept
<1>12. ASSUME NEW t \in Id, WriteChunk(t)
       PROVE  OfferOnce'
  <2>1. \A i \in DOMAIN toR', u \in Id :
            toR'[i] = Offer(u) => i + 1 \in DOMAIN toR /\ toR[i + 1] = Offer(u)
    BY <1>0, <1>12, TailIs DEF WriteChunk, ChunkArrived, TypeOK
  <2>2. \A i \in DOMAIN rEvents', u \in Id :
            rEvents'[i] = Told(u) => i \in DOMAIN rEvents /\ rEvents[i] = Told(u)
    <3>1. Report(t) = Append(rEvents, Progressed(t)) /\ Report(t) \in Seq(Event)
      BY <1>0, RecordTypes, AppendIs DEF Report, Progressed, TypeOK
    <3>2. rEvents' = Report(t) \/ rEvents' = Append(Report(t), Completed(t))
      BY <1>12 DEF WriteChunk, Completed
    <3>3. \A u \in Id : Told(u) # Progressed(t) /\ Told(u) # Completed(t)
      BY DEF Told, Progressed, Completed
    <3>4. \A i \in DOMAIN Report(t), u \in Id :
              Report(t)[i] = Told(u) => i \in DOMAIN rEvents /\ rEvents[i] = Told(u)
      <4>1. Progressed(t) \in Event /\ rEvents \in Seq(Event)
        BY <1>0, RecordTypes DEF TypeOK
      <4>2. QED
        BY <3>1, <3>3, <4>1, AppendIs
    <3>5. CASE rEvents' = Report(t)
      BY <3>4, <3>5
    <3>6. CASE rEvents' = Append(Report(t), Completed(t))
      <4>1. \A i \in DOMAIN rEvents' :
                \/ i \in DOMAIN Report(t) /\ rEvents'[i] = Report(t)[i]
                \/ rEvents'[i] = Completed(t)
        BY <3>1, <3>6, RecordTypes, AppendIs
      <4>2. QED
        BY <3>3, <3>4, <4>1
    <3>7. QED
      BY <3>2, <3>5, <3>6
  <2>3. /\ \A u \in Id : task[u] # "none" => task'[u] # "none"
        /\ \A u \in Id : popup' = u => popup = u
        /\ \A u \in Id : opening'[u] = "no" <=> opening[u] = "no"
    BY <1>0, <1>12 DEF WriteChunk, TypeOK, sender, recipient
  <2>4. QED
    BY <1>0, <2>1, <2>2, <2>3, OnceKept
<1>13. ASSUME NEW t \in Id, FlushFails(t)
       PROVE  OfferOnce'
  <2>1. \A i \in DOMAIN toR', u \in Id :
            toR'[i] = Offer(u) => i + 1 \in DOMAIN toR /\ toR[i + 1] = Offer(u)
    BY <1>0, <1>13, TailIs DEF FlushFails, ChunkArrived, TypeOK
  <2>2. \A i \in DOMAIN rEvents', u \in Id :
            rEvents'[i] = Told(u) => i \in DOMAIN rEvents /\ rEvents[i] = Told(u)
    <3>1. rEvents' = Append(rEvents, Progressed(t)) /\ Progressed(t) \in Event
          /\ rEvents \in Seq(Event)
      BY <1>0, <1>13, RecordTypes DEF FlushFails, Report, Progressed, TypeOK
    <3>2. \A u \in Id : Progressed(t) # Told(u)
      BY DEF Progressed, Told
    <3>3. QED
      BY <3>1, <3>2, AppendIs
  <2>3. /\ \A u \in Id : task[u] # "none" => task'[u] # "none"
        /\ \A u \in Id : popup' = u => popup = u
        /\ \A u \in Id : opening'[u] = "no" <=> opening[u] = "no"
    BY <1>0, <1>13 DEF FlushFails, TypeOK, sender, recipient
  <2>4. QED
    BY <1>0, <2>1, <2>2, <2>3, OnceKept
<1>14. ASSUME NEW t \in Id, Accept(t)
       PROVE  OfferOnce'
  <2>1. \A u \in Id : opening'[u] = IF u = t THEN "opening" ELSE opening[u]
    BY <1>0, <1>14 DEF Accept, TypeOK
  <2>2. QED
    BY <1>0, <1>14, <2>1, TransferAssumption DEF Accept, sender, OfferOnce
<1>15. ASSUME NEW t \in Id, Reject(t)
       PROVE  OfferOnce'
  <2>1. \A i \in DOMAIN toR', u \in Id :
            toR'[i] = Offer(u) => i + 0 \in DOMAIN toR /\ toR[i + 0] = Offer(u)
    BY <1>0, <1>15 DEF Reject, TypeOK, sender, recipient
  <2>2. \A i \in DOMAIN rEvents', u \in Id :
            rEvents'[i] = Told(u) => i \in DOMAIN rEvents /\ rEvents[i] = Told(u)
    BY <1>15 DEF Reject, recipient
  <2>3. /\ \A u \in Id : task[u] # "none" => task'[u] # "none"
        /\ \A u \in Id : popup' = u => popup = u
        /\ \A u \in Id : opening'[u] = "no" <=> opening[u] = "no"
    BY <1>0, <1>15 DEF Reject, TypeOK, sender, recipient
  <2>4. QED
    BY <1>0, <2>1, <2>2, <2>3, OnceKept
<1>16. ASSUME NEW t \in Id, OpenReceiver(t)
       PROVE  OfferOnce'
  <2>1. \A i \in DOMAIN toR', u \in Id :
            toR'[i] = Offer(u) => i + 0 \in DOMAIN toR /\ toR[i + 0] = Offer(u)
    <3>1. toR' = toR /\ toR \in Seq(Packet)
      BY <1>0, <1>16 DEF OpenReceiver, TypeOK
    <3>2. QED
      BY <3>1
  <2>2. \A i \in DOMAIN rEvents', u \in Id :
            rEvents'[i] = Told(u) => i \in DOMAIN rEvents /\ rEvents[i] = Told(u)
    BY <1>16 DEF OpenReceiver, recipient
  <2>3. /\ \A u \in Id : task[u] # "none" => task'[u] # "none"
        /\ \A u \in Id : popup' = u => popup = u
        /\ \A u \in Id : opening'[u] = "no" <=> opening[u] = "no"
    BY <1>0, <1>16 DEF OpenReceiver, TypeOK, sender, recipient
  <2>4. QED
    BY <1>0, <2>1, <2>2, <2>3, OnceKept
<1>17. ASSUME NEW t \in Id, MarkActive(t)
       PROVE  OfferOnce'
  <2>1. \A i \in DOMAIN toR', u \in Id :
            toR'[i] = Offer(u) => i + 0 \in DOMAIN toR /\ toR[i + 0] = Offer(u)
    <3>1. toR' = toR /\ toR \in Seq(Packet)
      BY <1>0, <1>17 DEF MarkActive, TypeOK
    <3>2. QED
      BY <3>1
  <2>2. \A i \in DOMAIN rEvents', u \in Id :
            rEvents'[i] = Told(u) => i \in DOMAIN rEvents /\ rEvents[i] = Told(u)
    BY <1>17 DEF MarkActive, recipient
  <2>3. /\ \A u \in Id : task[u] # "none" => task'[u] # "none"
        /\ \A u \in Id : popup' = u => popup = u
        /\ \A u \in Id : opening'[u] = "no" <=> opening[u] = "no"
    BY <1>0, <1>17 DEF MarkActive, TypeOK, sender, recipient
  <2>4. QED
    BY <1>0, <2>1, <2>2, <2>3, OnceKept
<1>18. ASSUME NEW t \in Id, OpenFails(t)
       PROVE  OfferOnce'
  <2>1. \A i \in DOMAIN toR', u \in Id :
            toR'[i] = Offer(u) => i + 0 \in DOMAIN toR /\ toR[i + 0] = Offer(u)
    <3>1. toR' = toR /\ toR \in Seq(Packet)
      BY <1>0, <1>18 DEF OpenFails, TypeOK
    <3>2. QED
      BY <3>1
  <2>2. \A i \in DOMAIN rEvents', u \in Id :
            rEvents'[i] = Told(u) => i \in DOMAIN rEvents /\ rEvents[i] = Told(u)
    <3>1. rEvents' = Append(rEvents, Dropped(t)) /\ Dropped(t) \in Event /\ rEvents \in Seq(Event)
      BY <1>0, <1>18, RecordTypes DEF OpenFails, TypeOK, Dropped
    <3>2. \A u \in Id : Dropped(t) # Told(u)
      BY DEF Dropped, Told
    <3>3. QED
      BY <3>1, <3>2, AppendIs
  <2>3. /\ \A u \in Id : task[u] # "none" => task'[u] # "none"
        /\ \A u \in Id : popup' = u => popup = u
        /\ \A u \in Id : opening'[u] = "no" <=> opening[u] = "no"
    BY <1>0, <1>18 DEF OpenFails, TypeOK, sender, recipient
  <2>4. QED
    BY <1>0, <2>1, <2>2, <2>3, OnceKept
<1>19. ASSUME SenderRecv
       PROVE  OfferOnce'
  <2>1. /\ UNCHANGED <<toR, rEvents, popup, opening>>
        /\ \A u \in Id : task[u] # "none" => task'[u] # "none"
    BY <1>0, <1>19 DEF SenderRecv, recipient, TypeOK
  <2>2. QED
    BY <1>0, <2>1, OnceSame
<1>20. ASSUME SenderUi
       PROVE  OfferOnce'
  <2>1. /\ UNCHANGED <<toR, rEvents, popup, opening>>
        /\ \A u \in Id : task[u] # "none" => task'[u] # "none"
    BY <1>0, <1>20 DEF SenderUi, recipient, TypeOK
  <2>2. QED
    BY <1>0, <2>1, OnceSame
<1>21. ASSUME ReceiverUi
       PROVE  OfferOnce'
  <2>1. /\ Head(rEvents) \in Event /\ Head(rEvents) = rEvents[1] /\ 1 \in DOMAIN rEvents
        /\ \A i \in DOMAIN rEvents' : i + 1 \in DOMAIN rEvents /\ rEvents'[i] = rEvents[i + 1]
                                      /\ 1 # i + 1 /\ i \in Nat
    BY <1>0, <1>21, TailIs DEF ReceiverUi, TypeOK
  <2>2. popup' = popup \/ \E u \in Id : popup' = u /\ rEvents[1] = Told(u)
    <3>1. /\ Head(rEvents).id \in Id
          /\ Head(rEvents).type = "FileOfferReceived" => Head(rEvents) = Told(Head(rEvents).id)
      BY <2>1 DEF Event, Told
    <3>2. CASE Head(rEvents).type = "FileOfferReceived"
      BY <1>21, <2>1, <3>1, <3>2 DEF ReceiverUi
    <3>3. CASE Head(rEvents).type # "FileOfferReceived"
      BY <1>21, <3>3 DEF ReceiverUi
    <3>4. QED
      BY <3>2, <3>3
  <2>3. \A u, v \in Id : Told(u) = Told(v) => u = v
    BY DEF Told
  <2>4. QED
    BY <1>0, <1>21, <2>1, <2>2, <2>3 DEF ReceiverUi, sender, OfferOnce
<1>22. ASSUME Disconnect
       PROVE  OfferOnce'
  <2>1. \A i \in DOMAIN toR', u \in Id :
            toR'[i] = Offer(u) => i + 0 \in DOMAIN toR /\ toR[i + 0] = Offer(u)
    <3>1. PICK n \in 0..Len(toR) : toR' = SubSeq(toR, 1, n)
      BY <1>22 DEF Disconnect
    <3>2. \A i \in DOMAIN toR' : i \in Nat /\ i \in DOMAIN toR /\ toR'[i] = toR[i]
      <4>1. toR \in Seq(Packet)
        BY <1>0 DEF TypeOK
      <4>2. QED
        BY <3>1, <4>1, PrefixIs
    <3>3. QED
      BY <3>2
  <2>2. \A i \in DOMAIN rEvents', u \in Id :
            rEvents'[i] = Told(u) => i \in DOMAIN rEvents /\ rEvents[i] = Told(u)
    BY <1>22 DEF Disconnect, recipient
  <2>3. /\ \A u \in Id : task[u] # "none" => task'[u] # "none"
        /\ \A u \in Id : popup' = u => popup = u
        /\ \A u \in Id : opening'[u] = "no" <=> opening[u] = "no"
    BY <1>0, <1>22 DEF Disconnect, TypeOK, sender, recipient
  <2>4. QED
    BY <1>0, <2>1, <2>2, <2>3, OnceKept
<1>23. CASE UNCHANGED vars
  BY <1>0, <1>23 DEF vars, sender, recipient, env, OfferOnce
<1>24. QED
  BY <1>1, <1>2, <1>3, <1>4, <1>5, <1>6, <1>7, <1>8, <1>9, <1>10, <1>11, <1>12, <1>13, <1>14,
     <1>15, <1>16, <1>17, <1>18, <1>19, <1>20, <1>21, <1>22, <1>23
     DEF Next, SenderTask, Recv, Opening

\* A step that sends nothing keeps the cuts.
LEMMA CutKept ==
    ASSUME Cut, UNCHANGED total,
           \A i \in DOMAIN toR' :
               toR'[i].type = "FileChunk" => \E j \in DOMAIN toR : toR'[i] = toR[j]
    PROVE  Cut'
BY DEF Cut

\* Every step cuts files at multiples of the chunk size.
LEMMA CutStep == IInv /\ [Next]_vars => Cut'
<1> SUFFICES ASSUME IInv, [Next]_vars PROVE Cut'
  OBVIOUS
<1> USE TransferAssumption
<1>0. TypeOK /\ Cut
  BY DEF IInv
<1>1. ASSUME NEW t \in Id, SendFile(t)
      PROVE  Cut'
  <2>1. \A i \in DOMAIN toR' :
            toR'[i].type = "FileChunk" => \E j \in DOMAIN toR : toR'[i] = toR[j]
    BY <1>0, <1>1, RecordTypes, AppendIs DEF SendFile, TypeOK, Offer
  <2>2. UNCHANGED total
    BY <1>1 DEF SendFile, sender
  <2>3. QED
    BY <1>0, <2>1, <2>2, CutKept
<1>2. ASSUME NEW t \in Id, AcceptSeen(t)
      PROVE  Cut'
  <2>1. \A i \in DOMAIN toR' :
            toR'[i].type = "FileChunk" => \E j \in DOMAIN toR : toR'[i] = toR[j]
    BY <1>2 DEF AcceptSeen
  <2>2. UNCHANGED total
    BY <1>2 DEF AcceptSeen, sender
  <2>3. QED
    BY <1>0, <2>1, <2>2, CutKept
<1>3. ASSUME NEW t \in Id, Deadline(t)
      PROVE  Cut'
  <2>1. \A i \in DOMAIN toR' :
            toR'[i].type = "FileChunk" => \E j \in DOMAIN toR : toR'[i] = toR[j]
    BY <1>3 DEF Deadline
  <2>2. UNCHANGED total
    BY <1>3 DEF Deadline, sender
  <2>3. QED
    BY <1>0, <2>1, <2>2, CutKept
<1>4. ASSUME NEW t \in Id, GiveUp(t)
      PROVE  Cut'
  <2>1. \A i \in DOMAIN toR' :
            toR'[i].type = "FileChunk" => \E j \in DOMAIN toR : toR'[i] = toR[j]
    BY <1>4 DEF GiveUp
  <2>2. UNCHANGED total
    BY <1>4 DEF GiveUp, sender
  <2>3. QED
    BY <1>0, <2>1, <2>2, CutKept
<1>5. ASSUME NEW t \in Id, SendChunk(t)
      PROVE  Cut'
  <2> DEFINE n == NextLen(t)
             q == total[t] \div ChunkSize
             c == Chunk(t, q, n, IsLast(n))
  <2>1. /\ total[t] \in Nat /\ Size[t] \in Nat /\ total[t] < Size[t]
        /\ total[t] = q * ChunkSize /\ q \in Nat
    BY <1>0, <1>5, Quotient DEF SendChunk, TypeOK, Cut
  <2>2. /\ n \in 1..ChunkSize
        /\ IsLast(n) => q * ChunkSize + n = Size[t]
        /\ ~IsLast(n) => n = ChunkSize
        /\ total[t] + n < Size[t] => n = ChunkSize
    BY <2>1 DEF NextLen, IsLast
  <2>3. IsLast(n) \in BOOLEAN
    BY DEF IsLast
  <2>4. c \in Packet
    BY <2>1, <2>2, <2>3, RecordTypes
  <2>5. IF c.is_last THEN c.index * ChunkSize + c.len = Size[c.id] ELSE c.len = ChunkSize
    BY <2>2 DEF Chunk
  <2>6. \A i \in DOMAIN toR' : toR'[i] = c \/ \E j \in DOMAIN toR : toR'[i] = toR[j]
    BY <1>0, <1>5, <2>4, AppendIs DEF SendChunk, Put, TypeOK
  <2>7. total[t] + n < Size[t] => total[t] + n = ((total[t] + n) \div ChunkSize) * ChunkSize
    <3>1. q * ChunkSize + ChunkSize = (q + 1) * ChunkSize
          /\ ((q + 1) * ChunkSize) \div ChunkSize = q + 1
      BY <2>1, Quotient
    <3> HIDE DEF n, q
    <3>2. QED
      BY <2>1, <2>2, <3>1
  <2>8. \A u \in Id : total'[u] = IF u = t THEN total[t] + n ELSE total[u]
    BY <1>0, <1>5 DEF SendChunk, TypeOK
  <2> HIDE DEF n, c
  <2>9. QED
    BY <1>0, <2>5, <2>6, <2>7, <2>8 DEF Cut
<1>6. ASSUME NEW t \in Id, Streamed(t)
      PROVE  Cut'
  <2>1. \A i \in DOMAIN toR' :
            toR'[i].type = "FileChunk" => \E j \in DOMAIN toR : toR'[i] = toR[j]
    BY <1>6 DEF Streamed
  <2>2. UNCHANGED total
    BY <1>6 DEF Streamed, sender
  <2>3. QED
    BY <1>0, <2>1, <2>2, CutKept
<1>7. ASSUME NEW t \in Id, StreamFails(t)
      PROVE  Cut'
  <2>1. \A i \in DOMAIN toR' :
            toR'[i].type = "FileChunk" => \E j \in DOMAIN toR : toR'[i] = toR[j]
    BY <1>7 DEF StreamFails
  <2>2. UNCHANGED total
    BY <1>7 DEF StreamFails, sender
  <2>3. QED
    BY <1>0, <2>1, <2>2, CutKept
<1>8. ASSUME NEW t \in Id, Forward(t)
      PROVE  Cut'
  <2>1. \A i \in DOMAIN toR' :
            toR'[i].type = "FileChunk" => \E j \in DOMAIN toR : toR'[i] = toR[j]
    BY <1>8 DEF Forward
  <2>2. UNCHANGED total
    BY <1>8 DEF Forward, sender
  <2>3. QED
    BY <1>0, <2>1, <2>2, CutKept
<1>9. ASSUME NEW t \in Id, RecvOffer(t)
      PROVE  Cut'
  <2>1. \A i \in DOMAIN toR' :
            toR'[i].type = "FileChunk" => \E j \in DOMAIN toR : toR'[i] = toR[j]
    BY <1>0, <1>9, TailIs DEF RecvOffer, ChunkArrived, TypeOK
  <2>2. UNCHANGED total
    BY <1>9 DEF RecvOffer, sender
  <2>3. QED
    BY <1>0, <2>1, <2>2, CutKept
<1>10. ASSUME NEW t \in Id, IgnoreChunk(t)
       PROVE  Cut'
  <2>1. \A i \in DOMAIN toR' :
            toR'[i].type = "FileChunk" => \E j \in DOMAIN toR : toR'[i] = toR[j]
    BY <1>0, <1>10, TailIs DEF IgnoreChunk, ChunkArrived, TypeOK
  <2>2. UNCHANGED total
    BY <1>10 DEF IgnoreChunk, sender
  <2>3. QED
    BY <1>0, <2>1, <2>2, CutKept
<1>11. ASSUME NEW t \in Id, BadChunk(t)
       PROVE  Cut'
  <2>1. \A i \in DOMAIN toR' :
            toR'[i].type = "FileChunk" => \E j \in DOMAIN toR : toR'[i] = toR[j]
    BY <1>0, <1>11, TailIs DEF BadChunk, ChunkArrived, TypeOK
  <2>2. UNCHANGED total
    BY <1>11 DEF BadChunk, sender
  <2>3. QED
    BY <1>0, <2>1, <2>2, CutKept
<1>12. ASSUME NEW t \in Id, WriteChunk(t)
       PROVE  Cut'
  <2>1. \A i \in DOMAIN toR' :
            toR'[i].type = "FileChunk" => \E j \in DOMAIN toR : toR'[i] = toR[j]
    BY <1>0, <1>12, TailIs DEF WriteChunk, ChunkArrived, TypeOK
  <2>2. UNCHANGED total
    BY <1>12 DEF WriteChunk, sender
  <2>3. QED
    BY <1>0, <2>1, <2>2, CutKept
<1>13. ASSUME NEW t \in Id, FlushFails(t)
       PROVE  Cut'
  <2>1. \A i \in DOMAIN toR' :
            toR'[i].type = "FileChunk" => \E j \in DOMAIN toR : toR'[i] = toR[j]
    BY <1>0, <1>13, TailIs DEF FlushFails, ChunkArrived, TypeOK
  <2>2. UNCHANGED total
    BY <1>13 DEF FlushFails, sender
  <2>3. QED
    BY <1>0, <2>1, <2>2, CutKept
<1>14. ASSUME NEW t \in Id, Accept(t)
       PROVE  Cut'
  <2>1. \A i \in DOMAIN toR' :
            toR'[i].type = "FileChunk" => \E j \in DOMAIN toR : toR'[i] = toR[j]
    BY <1>14 DEF Accept
  <2>2. UNCHANGED total
    BY <1>14 DEF Accept, sender
  <2>3. QED
    BY <1>0, <2>1, <2>2, CutKept
<1>15. ASSUME NEW t \in Id, Reject(t)
       PROVE  Cut'
  <2>1. \A i \in DOMAIN toR' :
            toR'[i].type = "FileChunk" => \E j \in DOMAIN toR : toR'[i] = toR[j]
    BY <1>15 DEF Reject
  <2>2. UNCHANGED total
    BY <1>15 DEF Reject, sender
  <2>3. QED
    BY <1>0, <2>1, <2>2, CutKept
<1>16. ASSUME NEW t \in Id, OpenReceiver(t)
       PROVE  Cut'
  <2>1. \A i \in DOMAIN toR' :
            toR'[i].type = "FileChunk" => \E j \in DOMAIN toR : toR'[i] = toR[j]
    BY <1>16 DEF OpenReceiver
  <2>2. UNCHANGED total
    BY <1>16 DEF OpenReceiver, sender
  <2>3. QED
    BY <1>0, <2>1, <2>2, CutKept
<1>17. ASSUME NEW t \in Id, MarkActive(t)
       PROVE  Cut'
  <2>1. \A i \in DOMAIN toR' :
            toR'[i].type = "FileChunk" => \E j \in DOMAIN toR : toR'[i] = toR[j]
    BY <1>17 DEF MarkActive
  <2>2. UNCHANGED total
    BY <1>17 DEF MarkActive, sender
  <2>3. QED
    BY <1>0, <2>1, <2>2, CutKept
<1>18. ASSUME NEW t \in Id, OpenFails(t)
       PROVE  Cut'
  <2>1. \A i \in DOMAIN toR' :
            toR'[i].type = "FileChunk" => \E j \in DOMAIN toR : toR'[i] = toR[j]
    BY <1>18 DEF OpenFails
  <2>2. UNCHANGED total
    BY <1>18 DEF OpenFails, sender
  <2>3. QED
    BY <1>0, <2>1, <2>2, CutKept
<1>19. ASSUME SenderRecv
       PROVE  Cut'
  <2>1. \A i \in DOMAIN toR' :
            toR'[i].type = "FileChunk" => \E j \in DOMAIN toR : toR'[i] = toR[j]
    BY <1>19 DEF SenderRecv
  <2>2. UNCHANGED total
    BY <1>19 DEF SenderRecv, sender
  <2>3. QED
    BY <1>0, <2>1, <2>2, CutKept
<1>20. ASSUME SenderUi
       PROVE  Cut'
  <2>1. \A i \in DOMAIN toR' :
            toR'[i].type = "FileChunk" => \E j \in DOMAIN toR : toR'[i] = toR[j]
    BY <1>20 DEF SenderUi
  <2>2. UNCHANGED total
    BY <1>20 DEF SenderUi, sender
  <2>3. QED
    BY <1>0, <2>1, <2>2, CutKept
<1>21. ASSUME ReceiverUi
       PROVE  Cut'
  <2>1. \A i \in DOMAIN toR' :
            toR'[i].type = "FileChunk" => \E j \in DOMAIN toR : toR'[i] = toR[j]
    BY <1>21 DEF ReceiverUi
  <2>2. UNCHANGED total
    BY <1>21 DEF ReceiverUi, sender
  <2>3. QED
    BY <1>0, <2>1, <2>2, CutKept
<1>22. ASSUME Disconnect
       PROVE  Cut'
  <2>1. \A i \in DOMAIN toR' :
            toR'[i].type = "FileChunk" => \E j \in DOMAIN toR : toR'[i] = toR[j]
    <3>1. PICK n \in 0..Len(toR) : toR' = SubSeq(toR, 1, n)
      BY <1>22 DEF Disconnect
    <3>2. QED
      BY <1>0, <3>1, PrefixIs DEF TypeOK
  <2>2. UNCHANGED total
    BY <1>22 DEF Disconnect, sender
  <2>3. QED
    BY <1>0, <2>1, <2>2, CutKept
<1>23. CASE UNCHANGED vars
  BY <1>0, <1>23 DEF vars, sender, recipient, env, Cut
<1>24. QED
  BY <1>1, <1>2, <1>3, <1>4, <1>5, <1>6, <1>7, <1>8, <1>9, <1>10, <1>11, <1>12, <1>13, <1>14,
     <1>15, <1>16, <1>17, <1>18, <1>19, <1>20, <1>21, <1>22, <1>23
     DEF Next, SenderTask, Recv, Opening

\* A file name that was accepted stays so.
LEMMA SharedStays ==
    ASSUME \A u \in Id : opening[u] # "no" => opening'[u] # "no"
    PROVE  \A t \in Id : Shared(t) => Shared(t)'
BY DEF Shared

\* A step that writes nothing, announces no completion and shows none keeps the
\* count of bytes right, even if it drops a FileReceiver.
LEMMA AssembledKept ==
    ASSUME Assembled, UNCHANGED disk,
           \A u \in Id : receiver'[u] \in {receiver[u], None},
           \A u \in Id : opening[u] \in {"inserted", "done"} => opening'[u] \in {"inserted", "done"},
           \A u \in Id : opening[u] # "no" => opening'[u] # "no",
           \A u \in Id : Finished(u)' => Finished(u)
    PROVE  Assembled'
BY SharedStays DEF Assembled

\* Every step keeps what is on the disk in step with what the receiver counts.
LEMMA AssembledStep == IInv /\ [Next]_vars => Assembled'
<1> SUFFICES ASSUME IInv, [Next]_vars PROVE Assembled'
  OBVIOUS
<1> USE TransferAssumption
<1>0. TypeOK /\ OfferOnce /\ Cut /\ Assembled
  BY DEF IInv
<1>1. ASSUME NEW t \in Id, SendFile(t)
      PROVE  Assembled'
  BY <1>0, <1>1 DEF SendFile, recipient, Assembled, Finished, Shared
<1>2. ASSUME NEW t \in Id, AcceptSeen(t)
      PROVE  Assembled'
  BY <1>0, <1>2 DEF AcceptSeen, recipient, Assembled, Finished, Shared
<1>3. ASSUME NEW t \in Id, Deadline(t)
      PROVE  Assembled'
  BY <1>0, <1>3 DEF Deadline, recipient, Assembled, Finished, Shared
<1>4. ASSUME NEW t \in Id, GiveUp(t)
      PROVE  Assembled'
  BY <1>0, <1>4 DEF GiveUp, recipient, Assembled, Finished, Shared
<1>5. ASSUME NEW t \in Id, SendChunk(t)
      PROVE  Assembled'
  BY <1>0, <1>5 DEF SendChunk, recipient, Assembled, Finished, Shared
<1>6. ASSUME NEW t \in Id, Streamed(t)
      PROVE  Assembled'
  BY <1>0, <1>6 DEF Streamed, recipient, Assembled, Finished, Shared
<1>7. ASSUME NEW t \in Id, StreamFails(t)
      PROVE  Assembled'
  BY <1>0, <1>7 DEF StreamFails, recipient, Assembled, Finished, Shared
<1>8. ASSUME NEW t \in Id, Forward(t)
      PROVE  Assembled'
  BY <1>0, <1>8 DEF Forward, recipient, Assembled, Finished, Shared
<1>9. ASSUME NEW t \in Id, RecvOffer(t)
      PROVE  Assembled'
  <2>1. \A u \in Id : Finished(u)' => Finished(u)
    <3>1. \A i \in DOMAIN rEvents', u \in Id :
              rEvents'[i] = Completed(u) => i \in DOMAIN rEvents /\ rEvents[i] = Completed(u)
      <4>1. rEvents' = Append(rEvents, Told(t)) /\ Told(t) \in Event /\ rEvents \in Seq(Event)
        BY <1>0, <1>9, RecordTypes DEF RecvOffer, TypeOK, Told
      <4>2. \A u \in Id : Told(t) # Completed(u)
        BY DEF Told, Completed
      <4>3. QED
        BY <4>1, <4>2, AppendIs
    <3>2. \A u \in Id : rcvd'[u] = "Complete" => rcvd[u] = "Complete"
      BY <1>0, <1>9 DEF RecvOffer, TypeOK
    <3>3. QED
      BY <3>1, <3>2 DEF Finished
  <2>2. /\ UNCHANGED disk /\ \A u \in Id : receiver'[u] \in {receiver[u], None}
        /\ \A u \in Id : opening[u] \in {"inserted", "done"} => opening'[u] \in {"inserted", "done"}
        /\ \A u \in Id : opening[u] # "no" => opening'[u] # "no"
    BY <1>0, <1>9 DEF RecvOffer, recipient, TypeOK
  <2>3. QED
    BY <1>0, <2>1, <2>2, AssembledKept
<1>10. ASSUME NEW t \in Id, IgnoreChunk(t)
       PROVE  Assembled'
  <2>1. \A u \in Id : Finished(u)' => Finished(u)
    BY <1>10 DEF IgnoreChunk, recipient, Finished
  <2>2. /\ UNCHANGED disk /\ \A u \in Id : receiver'[u] \in {receiver[u], None}
        /\ \A u \in Id : opening[u] \in {"inserted", "done"} => opening'[u] \in {"inserted", "done"}
        /\ \A u \in Id : opening[u] # "no" => opening'[u] # "no"
    BY <1>0, <1>10 DEF IgnoreChunk, recipient, TypeOK
  <2>3. QED
    BY <1>0, <2>1, <2>2, AssembledKept
<1>11. ASSUME NEW t \in Id, BadChunk(t)
       PROVE  Assembled'
  <2>1. \A u \in Id : Finished(u)' => Finished(u)
    BY <1>11 DEF BadChunk, recipient, Finished
  <2>2. /\ UNCHANGED disk /\ \A u \in Id : receiver'[u] \in {receiver[u], None}
        /\ \A u \in Id : opening[u] \in {"inserted", "done"} => opening'[u] \in {"inserted", "done"}
        /\ \A u \in Id : opening[u] # "no" => opening'[u] # "no"
    BY <1>0, <1>11 DEF BadChunk, recipient, TypeOK
  <2>3. QED
    BY <1>0, <2>1, <2>2, AssembledKept
<1>12. ASSUME NEW t \in Id, WriteChunk(t)
       PROVE  Assembled'
  <2> DEFINE p == Head(toR)
  <2>1. /\ p.id = t /\ p.index = receiver[t]
        /\ p.index \in Nat /\ p.len \in Nat /\ p.is_last \in BOOLEAN
        /\ IF p.is_last THEN p.index * ChunkSize + p.len = Size[t] ELSE p.len = ChunkSize
    <3>1. p \in Packet /\ p.type = "FileChunk" /\ p.id = t /\ p = toR[1] /\ 1 \in DOMAIN toR
      BY <1>0, <1>12, TailIs DEF WriteChunk, ChunkArrived, TypeOK
    <3>2. p.index \in Nat /\ p.len \in Nat /\ p.is_last \in BOOLEAN
      BY <3>1, ChunkFields
    <3>3. IF p.is_last THEN p.index * ChunkSize + p.len = Size[p.id] ELSE p.len = ChunkSize
      BY <1>0, <3>1 DEF Cut
    <3>4. p.index = receiver[t]
      BY <1>12 DEF WriteChunk, InOrder
    <3>5. QED
      BY <3>1, <3>2, <3>3, <3>4
  <2>2. receiver[t] # None /\ receiver[t] \in Nat /\ receiver[t] + 1 # None
    BY <2>1
  <2>3. /\ disk[t] = receiver[t] * ChunkSize \/ Shared(t)
        /\ opening[t] \in {"inserted", "done"} /\ ~Finished(t)
    BY <1>0, <2>2 DEF Assembled
  <2>4. /\ \A u \in Id : Shared(u) => Shared(u)'
        /\ disk'[t] = receiver[t] * ChunkSize + p.len \/ Shared(t)'
        /\ \A u \in Id \ {t} : disk'[u] = disk[u] \/ Shared(u)'
    <3>1. disk' = Written(t, p.len) /\ UNCHANGED opening
      BY <1>12 DEF WriteChunk
    <3>2. \A u \in Id : Shared(u) => Shared(u)'
      BY <3>1, SharedStays
    <3>3. \A u \in Id \ {t} : Path[u] = Path[t] => Shared(u)'
      BY <2>3, <3>1 DEF Shared
    <3>4. /\ disk[t] = receiver[t] * ChunkSize => disk'[t] = disk[t] + p.len
          /\ \A u \in Id \ {t} : Path[u] # Path[t] => disk'[u] = disk[u]
      <4>1. disk \in [Id -> Nat] /\ p.len \in Nat /\ receiver[t] \in Nat
        BY <1>0, <2>1, <2>2 DEF TypeOK
      <4> HIDE DEF p
      <4>2. QED
        BY <3>1, <4>1, WrittenIs
    <3> HIDE DEF p
    <3>5. QED
      BY <2>3, <3>2, <3>3, <3>4
  <2>5. Report(t) = Append(rEvents, Progressed(t)) /\ Report(t) \in Seq(Event)
    BY <1>0, RecordTypes, AppendIs DEF Report, Progressed, TypeOK
  <2>6. \A i \in DOMAIN Report(t), u \in Id :
            Report(t)[i] = Completed(u) => i \in DOMAIN rEvents /\ rEvents[i] = Completed(u)
    <3>1. Progressed(t) \in Event /\ rEvents \in Seq(Event)
      BY <1>0, RecordTypes DEF TypeOK
    <3>2. \A u \in Id : Progressed(t) # Completed(u)
      BY DEF Progressed, Completed
    <3>3. QED
      BY <2>5, <3>1, <3>2, AppendIs
  <2>7. CASE p.is_last
    <3>1. /\ receiver' = [receiver EXCEPT ![t] = None]
          /\ rcvd' = CompleteTransfer(rcvd, t, TRUE)
          /\ rEvents' = Append(Report(t), Completed(t))
      BY <1>12, <2>7 DEF WriteChunk, Completed
    <3>2. \A u \in Id \ {t} : Finished(u)' => Finished(u)
      <4>1. \A i \in DOMAIN rEvents', u \in Id \ {t} :
                rEvents'[i] = Completed(u) => i \in DOMAIN rEvents /\ rEvents[i] = Completed(u)
        <5>1. \A u \in Id \ {t} : Completed(t) # Completed(u)
          BY DEF Completed
        <5>2. QED
          BY <2>5, <2>6, <3>1, <5>1, RecordTypes, AppendIs
      <4>2. \A u \in Id \ {t} : rcvd'[u] = rcvd[u]
        BY <1>0, <3>1 DEF CompleteTransfer, TypeOK
      <4>3. QED
        BY <4>1, <4>2 DEF Finished
    <3>3. \A u \in Id : receiver'[u] = IF u = t THEN None ELSE receiver[u]
      BY <1>0, <3>1 DEF TypeOK
    <3>4. disk'[t] = Size[t] \/ Shared(t)'
      BY <2>1, <2>4, <2>7
    <3>5. UNCHANGED opening
      BY <1>12 DEF WriteChunk
    <3>6. QED
      BY <1>0, <2>3, <2>4, <3>2, <3>3, <3>4, <3>5 DEF Assembled
  <2>8. CASE ~p.is_last
    <3>1. /\ receiver' = [receiver EXCEPT ![t] = receiver[t] + 1]
          /\ rcvd' = UpdateProgress(rcvd, t)
          /\ rEvents' = Report(t)
      BY <1>12, <2>8 DEF WriteChunk
    <3>2. \A u \in Id : Finished(u)' => Finished(u)
      BY <1>0, <2>6, <3>1 DEF Finished, UpdateProgress, TypeOK
    <3>3. \A u \in Id : receiver'[u] = IF u = t THEN receiver[t] + 1 ELSE receiver[u]
      BY <1>0, <3>1 DEF TypeOK
    <3>4. disk'[t] = (receiver[t] + 1) * ChunkSize \/ Shared(t)'
      BY <2>1, <2>2, <2>4, <2>8, Quotient
    <3>5. UNCHANGED opening
      BY <1>12 DEF WriteChunk
    <3>6. QED
      BY <1>0, <2>3, <2>4, <3>2, <3>3, <3>4, <3>5 DEF Assembled
  <2>9. QED
    BY <2>1, <2>7, <2>8
<1>13. ASSUME NEW t \in Id, FlushFails(t)
       PROVE  Assembled'
  <2>1. \A u \in Id : Finished(u)' => Finished(u)
    <3>1. \A i \in DOMAIN rEvents', u \in Id :
              rEvents'[i] = Completed(u) => i \in DOMAIN rEvents /\ rEvents[i] = Completed(u)
      <4>1. rEvents' = Append(rEvents, Progressed(t)) /\ Progressed(t) \in Event
            /\ rEvents \in Seq(Event)
        BY <1>0, <1>13, RecordTypes DEF FlushFails, Report, Progressed, TypeOK
      <4>2. \A u \in Id : Progressed(t) # Completed(u)
        BY DEF Progressed, Completed
      <4>3. QED
        BY <4>1, <4>2, AppendIs
    <3>2. \A u \in Id : rcvd'[u] = "Complete" => rcvd[u] = "Complete"
      BY <1>0, <1>13 DEF FlushFails, UpdateProgress, TypeOK
    <3>3. QED
      BY <3>1, <3>2 DEF Finished
  <2>2. /\ UNCHANGED disk /\ \A u \in Id : receiver'[u] \in {receiver[u], None}
        /\ \A u \in Id : opening[u] \in {"inserted", "done"} => opening'[u] \in {"inserted", "done"}
        /\ \A u \in Id : opening[u] # "no" => opening'[u] # "no"
    BY <1>0, <1>13 DEF FlushFails, recipient, TypeOK
  <2>3. QED
    BY <1>0, <2>1, <2>2, AssembledKept
<1>14. ASSUME NEW t \in Id, Accept(t)
       PROVE  Assembled'
  <2>1. \A u \in Id : Finished(u)' => Finished(u)
    BY <1>14 DEF Accept, Finished
  <2>2. /\ UNCHANGED disk /\ \A u \in Id : receiver'[u] \in {receiver[u], None}
        /\ \A u \in Id : opening[u] \in {"inserted", "done"} => opening'[u] \in {"inserted", "done"}
        /\ \A u \in Id : opening[u] # "no" => opening'[u] # "no"
    BY <1>0, <1>14, TransferAssumption DEF Accept, TypeOK, OfferOnce
  <2>3. QED
    BY <1>0, <2>1, <2>2, AssembledKept
<1>15. ASSUME NEW t \in Id, Reject(t)
       PROVE  Assembled'
  <2>1. \A u \in Id : Finished(u)' => Finished(u)
    BY <1>15 DEF Reject, recipient, Finished
  <2>2. /\ UNCHANGED disk /\ \A u \in Id : receiver'[u] \in {receiver[u], None}
        /\ \A u \in Id : opening[u] \in {"inserted", "done"} => opening'[u] \in {"inserted", "done"}
        /\ \A u \in Id : opening[u] # "no" => opening'[u] # "no"
    BY <1>0, <1>15 DEF Reject, recipient, TypeOK
  <2>3. QED
    BY <1>0, <2>1, <2>2, AssembledKept
<1>16. ASSUME NEW t \in Id, OpenReceiver(t)
       PROVE  Assembled'
  <2>1. ~Finished(t) /\ 0 * ChunkSize = 0
    BY <1>0, <1>16 DEF OpenReceiver, Assembled
  <2>2. \A u \in Id : /\ receiver'[u] = (IF u = t THEN 0 ELSE receiver[u])
                      /\ disk'[u] = (IF Path[u] = Path[t] THEN 0 ELSE disk[u])
                      /\ opening'[u] = (IF u = t THEN "inserted" ELSE opening[u])
    BY <1>0, <1>16 DEF OpenReceiver, TypeOK
  <2>3. \A u \in Id : Finished(u)' <=> Finished(u)
    BY <1>16 DEF OpenReceiver, Finished
  <2>4. /\ \A u \in Id : Shared(u) => Shared(u)'
        /\ \A u \in Id \ {t} : Path[u] = Path[t] => Shared(u)'
    <3>1. \A u \in Id : opening[u] # "no" => opening'[u] # "no"
      BY <2>2
    <3>2. \A u \in Id \ {t} : Path[u] = Path[t] => Shared(u)'
      BY <2>2 DEF Shared
    <3>3. QED
      BY <3>1, <3>2, SharedStays
  <2>5. QED
    BY <1>0, <2>1, <2>2, <2>3, <2>4 DEF Assembled
<1>17. ASSUME NEW t \in Id, MarkActive(t)
       PROVE  Assembled'
  <2>1. \A u \in Id : Finished(u)' => Finished(u)
    BY <1>0, <1>17 DEF MarkActive, UpdateProgress, TypeOK, Finished
  <2>2. /\ UNCHANGED disk /\ \A u \in Id : receiver'[u] \in {receiver[u], None}
        /\ \A u \in Id : opening[u] \in {"inserted", "done"} => opening'[u] \in {"inserted", "done"}
        /\ \A u \in Id : opening[u] # "no" => opening'[u] # "no"
    BY <1>0, <1>17 DEF MarkActive, recipient, TypeOK
  <2>3. QED
    BY <1>0, <2>1, <2>2, AssembledKept
<1>18. ASSUME NEW t \in Id, OpenFails(t)
       PROVE  Assembled'
  <2>1. \A u \in Id : Finished(u)' => Finished(u)
    <3>1. \A i \in DOMAIN rEvents', u \in Id :
              rEvents'[i] = Completed(u) => i \in DOMAIN rEvents /\ rEvents[i] = Completed(u)
      <4>1. rEvents' = Append(rEvents, Dropped(t)) /\ Dropped(t) \in Event /\ rEvents \in Seq(Event)
        BY <1>0, <1>18, RecordTypes DEF OpenFails, TypeOK, Dropped
      <4>2. \A u \in Id : Dropped(t) # Completed(u)
        BY DEF Dropped, Completed
      <4>3. QED
        BY <4>1, <4>2, AppendIs
    <3>2. QED
      BY <1>18, <3>1 DEF OpenFails, Finished
  <2>2. /\ UNCHANGED disk /\ \A u \in Id : receiver'[u] \in {receiver[u], None}
        /\ \A u \in Id : opening[u] \in {"inserted", "done"} => opening'[u] \in {"inserted", "done"}
        /\ \A u \in Id : opening[u] # "no" => opening'[u] # "no"
    BY <1>0, <1>18 DEF OpenFails, recipient, TypeOK
  <2>3. QED
    BY <1>0, <2>1, <2>2, AssembledKept
<1>19. ASSUME SenderRecv
       PROVE  Assembled'
  BY <1>0, <1>19 DEF SenderRecv, recipient, Assembled, Finished, Shared
<1>20. ASSUME SenderUi
       PROVE  Assembled'
  BY <1>0, <1>20 DEF SenderUi, recipient, Assembled, Finished, Shared
<1>21. ASSUME ReceiverUi
       PROVE  Assembled'
  <2>1. \A u \in Id : Finished(u)' => Finished(u)
    <3>1. /\ Head(rEvents) \in Event /\ Head(rEvents) = rEvents[1] /\ 1 \in DOMAIN rEvents
          /\ \A i \in DOMAIN rEvents' : i + 1 \in DOMAIN rEvents /\ rEvents'[i] = rEvents[i + 1]
      BY <1>0, <1>21, TailIs DEF ReceiverUi, TypeOK
    <3>2. \A u \in Id : rcvd'[u] = "Complete" =>
              rcvd[u] = "Complete" \/ Head(rEvents) = Completed(u)
      <4>1. Head(rEvents).id \in Id /\ rcvd \in [Id -> Status]
        BY <1>0, <3>1, HandledIs DEF TypeOK
      <4>2. rcvd' = Handled(rcvd, Head(rEvents))
        BY <1>21 DEF ReceiverUi
      <4>3. QED
        BY <3>1, <4>1, <4>2, HandledIs
    <3>3. QED
      BY <3>1, <3>2 DEF Finished
  <2>2. /\ UNCHANGED disk /\ \A u \in Id : receiver'[u] \in {receiver[u], None}
        /\ \A u \in Id : opening[u] \in {"inserted", "done"} => opening'[u] \in {"inserted", "done"}
        /\ \A u \in Id : opening[u] # "no" => opening'[u] # "no"
    BY <1>0, <1>21 DEF ReceiverUi, recipient, TypeOK
  <2>3. QED
    BY <1>0, <2>1, <2>2, AssembledKept
<1>22. ASSUME Disconnect
       PROVE  Assembled'
  BY <1>0, <1>22 DEF Disconnect, recipient, Assembled, Finished, Shared
<1>23. CASE UNCHANGED vars
  BY <1>0, <1>23 DEF vars, recipient, Assembled, Finished, Shared
<1>24. QED
  BY <1>1, <1>2, <1>3, <1>4, <1>5, <1>6, <1>7, <1>8, <1>9, <1>10, <1>11, <1>12, <1>13, <1>14,
     <1>15, <1>16, <1>17, <1>18, <1>19, <1>20, <1>21, <1>22, <1>23
     DEF Next, SenderTask, Recv, Opening

(***************************************************************************)
(* Theorems                                                                *)
(***************************************************************************)
\* The invariant holds in the initial states.
LEMMA InitIInv == Init => IInv
<1> SUFFICES ASSUME Init PROVE IInv
  OBVIOUS
<1> USE TransferAssumption DEF Init
<1>0. toR = <<>> /\ rEvents = <<>> /\ DOMAIN toR = {} /\ DOMAIN rEvents = {}
  OBVIOUS
<1>1. TypeOK
  BY DEF TypeOK, Status
<1>2. ConsentFirst
  BY DEF ConsentFirst, NothingYet
<1>3. OfferOnce
  <2> SUFFICES ASSUME NEW t \in Id PROVE popup # t /\ opening[t] = "no"
    BY <1>0 DEF OfferOnce
  <2>1. QED
    OBVIOUS
<1>4. Cut
  <2>1. (0 \div ChunkSize) * ChunkSize = 0
    OBVIOUS
  <2>2. QED
    BY <2>1 DEF Cut
<1>5. Assembled
  <2> SUFFICES ASSUME NEW t \in Id PROVE receiver[t] = None /\ ~Finished(t)
    BY DEF Assembled
  <2>1. receiver[t] = None /\ rcvd[t] = "none"
    OBVIOUS
  <2>2. QED
    BY <1>0, <2>1 DEF Finished
<1>6. QED
  BY <1>1, <1>2, <1>3, <1>4, <1>5 DEF IInv

\* IInv is invariant, whatever the files, the capacities and the failures.
THEOREM Invariance == Spec => []IInv
<1>1. IInv /\ [Next]_vars => IInv'
  BY TypeStep, ConsentStep, OnceStep, CutStep, AssembledStep DEF IInv
<1>2. QED
  BY InitIInv, <1>1, PTL DEF Spec

\* Every variable of a transfer keeps its type and no channel outgrows its capacity
\* (mesh.rs, SendFile and AcceptFile; transfer.rs).
THEOREM TypeCorrect == Spec => []TypeOK
<1>1. IInv => TypeOK
  BY DEF IInv
<1>2. QED
  BY Invariance, <1>1, PTL

\* Not a byte of a file leaves before the receiver has accepted it: the task
\* spawned by SendFile (mesh.rs) starts to stream only on an answer.
THEOREM NothingUnasked == Spec => []StreamOnlyAccepted
<1>1. IInv => StreamOnlyAccepted
  BY DEF IInv, ConsentFirst, NothingYet, StreamOnlyAccepted, TypeOK
<1>2. QED
  BY Invariance, <1>1, PTL

\* A transfer that the receiver shows as complete is on its disk as a whole, if no
\* other file of its name was accepted
\* (handle_chunk of mesh.rs and FileReceiver of transfer.rs).
THEOREM CompleteIsWhole == Spec => []ReceivedWhole
<1>1. IInv => ReceivedWhole
  BY DEF IInv, Assembled, Finished, ReceivedWhole
<1>2. QED
  BY Invariance, <1>1, PTL
=============================================================================
