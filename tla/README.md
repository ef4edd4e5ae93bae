# mshwisper: a specification

TLA+ models of mshwisper, a terminal chat for a local network: nodes find each
other by UDP broadcast, agree on a session key over TCP and exchange encrypted
messages and files. Source paths below are relative to the repository (`src/network/mesh.rs`
is `src/src/network/mesh.rs` here).

## 1. The system

Each node is one process with a terminal thread and a tokio runtime that share
`AppState` and two bounded channels (`UiCommand` 256, `NetEvent` 512).

| Component | State | Operations | Hard behaviour |
|---|---|---|---|
| Discovery (`discovery.rs`) | none of its own; a queue of 64 Hellos | broadcast every 3 s, listen | a node's own broadcast comes back; a Hello of an exited node is still queued |
| Sessions (`mesh.rs`) | `AppState.peers`, `ciphers`, `conns`; one read loop and one write loop per connection | Hello handler, `connect_to_peer`, `handle_incoming`, key exchange, `broadcast`, teardown, reaper | crossing dials, last-writer-wins maps, teardown of a replaced connection, two-step removals |
| Transfers (`transfer.rs`, `mesh.rs`, `app.rs`) | list of transfers at both ends, `recv_map`, `App.file_offer`, progress channel | offer, answer, wait 30 s, stream, forward progress, assemble | the file is opened beside the answer; late progress; a one-slot popup; lost connections |
| Messages (`state.rs`, `mesh.rs`) | channels, messages, ticks, unread counts | `push_message`, `mark_sent`, `mark_delivered` | `peers` and `conns` disagree |
| Groups (`mesh.rs`, `state.rs`, `app.rs`) | `ChannelKind`, pending requests (twice) | create, announce, request, approve, deny | same name at two nodes, late events |
| Terminal (`app.rs`, `input.rs`) | input buffer, cursor, yank, history, popups | keys, clicks, event drain | byte offsets in a text with wide characters, drafts |
| Rendering (`render.rs`, `widgets.rs`) | click regions of the last frame | draw | agreement of regions with the drawing |
| Gateway | a flag | one TCP connect | none: the routing is a stub |
| Shutdown and wipe (`app.rs`, `state.rs`) | everything | `graceful_shutdown`, `kill_switch`, `wipe` | four locks in turn with tasks still running |
| Crypto (`crypto/mod.rs`) | a cipher | key pair, encrypt, decrypt | third-party primitives |

How they interact: the terminal sends commands to the mesh loop, which handles
one command or one Hello at a time; every connection has a read loop that calls
`handle_app_msg` and `handle_chunk` directly; these change `AppState` and send
events, which the terminal thread drains between two frames and which change
`AppState` a second time. `ciphers`, `conns` and `peers` are three RwLocks that are
taken one after the other, so any two of them may disagree in between.

What makes each part correct:

- sessions: a Sender is registered only with a key and a running read loop; both
  ends of a connection use its key; peers that can hear each other get and stay
  connected; departed peers are forgotten; no connection stays half open;
- transfers: nothing is streamed before it was accepted; what is shown complete
  is whole; every offer ends at its sender; an accepted file arrives;
- messages: a tick says what happened; unread counts agree with what was seen;
- groups: one owner per group at all nodes; only approved members;
- locks: no task waits for a lock or a queue that only it can free;
- editor: the cursor is on a character boundary; leaving the history restores the draft.

`PROJECT.json` lists every hazard found in the code at its line.

## 2. The modules

| Module | Content |
|---|---|
| `Sessions` | discovery, handshakes, the maps, traffic, teardown, reaper, failures |
| `Registry` | what the session layer promises: a key and a Sender per peer. `Sessions` implements it |
| `FileTransfer` | transfers between two connected nodes |
| `Chat` | messages and ticks, channels, groups, join requests at several nodes |
| `Locks` | the locks and bounded queues that one node's tasks wait for |
| `Screen` | the terminal loop: frames, click regions, popups, answers |
| `LineEditor` | the input line and its history, on bytes |
| `Line` | the same on characters. `LineEditor` implements it |
| `SessionsProofs`, `RegistryProofs`, `FileTransferProofs`, `ChatProofs`, `LocksProofs`, `ScreenProofs`, `LineEditorProofs` | theorems |
| `ListLemmas` | lemmas on sequences, and on the least and the greatest of a set of numbers, that several of them cite |
| `MCSessions`, `MCFileTransfer`, `MCChat`, `MCLocks`, `MCScreen`, `MCLineEditor` | instances for TLC |

How they fit together: `Registry` is the view of the maps that `Chat` and `FileTransfer`
take for granted. In `Chat` the maps `peers` and `conns` change by themselves, in every way
`Sessions` can make them; in `FileTransfer` a connection works until it is lost. `Locks` is orthogonal to
all of them: it keeps the operations that wait, in the order the code performs them, and nothing of the data.

### Sessions

A connection slot stands for one TCP connection and for the one key its exchange
can produce (`ciphers[n][p] = c` reads: n's cipher for p comes from connection c).
`task[c][n]` is the control point of the task of n that serves c: `connecting`
(dialling), `kexSent`, `listening` (accepted), `acked` (answered, key not stored),
`keyed` (stored, Sender not registered), `open` (read loop), `leaving` (peer removed,
entry not yet), `done`. `wire[c][n]` joins the mpsc queue, the write loop and the
socket. A Sender is alive while it is in `conns` or cloned by a file task (`held`);
when the last is dropped the write loop ends and the peer reads end-of-file (`Shut`,
`Eof`).

| Action | Code |
|---|---|
| `HearHello`, `DropHello` | Hello branch of the select loop, `mesh.rs:98-113` |
| `Connect`, `ConnectFail`, `DialKey` | `connect_to_peer`, `ecdh_initiator`, `mesh.rs:449-455, 490-499` |
| `AcceptKex`, `AcceptKey`, `HandshakeFail` | `handle_incoming`, `ecdh_responder`, `mesh.rs:466-471, 500-509` |
| `Register` | insertion into `conns` and spawning of the loops, `mesh.rs:456-462, 472-478` |
| `Send`, `Read` | one peer of `broadcast`; the Encrypted and FileChunk branches of `read_loop`, `mesh.rs:336-354` |
| `SendFile`, `SendChunk`, `ReleaseTx` | the clone of the Sender a file task keeps, and the chunks it sends on it, `mesh.rs:142-196` |
| `ReadEof`, `Leave` | the two steps of `mesh.rs:358` |
| `ReapCollect`, `ReapPeer`, `ReapConn` | the reaper, `mesh.rs:81-93` |
| `Break`, `Exit` | a connection that fails, a process that ends |

Every lock acquisition that other tasks can come between is a step of its own.
Merged are steps nobody can tell apart: the write of a KeyExchange with the
connect, and the insertion into `conns` with the two spawns after it. A peer that is
refreshed by a Hello changes only `last_seen`; the reaper therefore may find a peer
stale when the peer has exited, or, as one of the counted faults, when the network
has lost the Hellos of a running one. Packets named `Goodbye` and `Ping` are
received but sent nowhere in the code, so their branches are left out. A packet on a wire is a
KeyExchange, its Ack, an encrypted packet with its key, or a FileChunk, which has none: chunks are sent and taken in the clear.

### FileTransfer

One sender, one receiver, one connection that may be lost once. `sent` and `rcvd` are the
statuses in the two lists; `task` is the task spawned by SendFile; `opening` is the task
spawned by AcceptFile; `receiver` is the FileReceiver's `expected_next`. `sEvents` and `rEvents`
are the NetEvents the terminal threads have not handled, which is what lets a
status be overwritten late. Actions carry the names of what they do; the
header comment of each says which code it is. Pressing Y or N and handling the
command it sends are one step: between the two only the popup's slot is free
earlier, which a delay of the spawned task and of the answer also produces.

`Path` gives the name under which a transfer's file is kept, as `transfer.rs:63-77` derives it from the offer. Transfers of one name have
one file: `OpenReceiver` truncates it for all of them, and a chunk of one is in the file of the other (`Written`).
`Shared` says that another transfer of the name has been accepted.

Modelled as certain: a read of a regular file returns a full buffer except at the end.

### Registry

Three variables are left of the session layer: the key and the Sender a node has for a peer, and
which connections it is reading from. A Sender may be entered only if there is a key and for a connection that
is not being served yet; it may vanish at any time; when a read loop ends, no entry
for its connection is left (`End`), though the entry of another connection may go with it, which is what
`mesh.rs:358` does. `Sessions` maps to it by `ciphers`, `conns` and the tasks that are `open` or `leaving`.

### Chat

A task (the mesh loop, a read loop per peer, the terminal) is the sequence of `AppState` calls and broadcasts
it has still to make, `run[n][k]`; each call takes its lock, so tasks interleave between calls and not
within one. A handler is an operator that gives such a sequence (`Say`, `ApproveJoin`, `HandleAppMsg`).

| Definition | Code |
|---|---|
| `PushMessage`, `MarkSent`, `AddChannel`, `AddGroupChannel`, `GroupApprove`, `GroupAddPending`, `AddPendingRequest`, `RemovePendingRequest` | the methods of the same names, `state.rs:81-187` |
| `Say`, `Command`, `CreateGroup`, `RequestJoin`, `ApproveJoin`, `DenyJoin` | branches of `handle_command`, `mesh.rs:125-141, 242-275` |
| `Broadcast`, `SendTo` | `broadcast`; `send_encrypted_app` to one peer |
| `HandleAppMsg` | branches of `handle_app_msg`, `mesh.rs:367-424` |
| `Select`, `SetActive`, `ClearUnread`, `SelectLast` | `set_active_channel`, `state.rs:73-79`, and its use by `/join`, `input.rs:66` |
| `TypeLine`, `TypeGroup`, `TypeRequest`, `TypeJoin`, `SelectChannel`, `Decide`, `ToggleRequests` | lines, keys and clicks, `input.rs:12-13, 57-152`, `app.rs:242-279` |
| `Drain` | `handle_net_event`, `app.rs:285-338` |
| `AddPeer`, `RemovePeer`, `Registered`, `Unregistered` | what `Sessions` does to the maps |
| `Skip` | a packet that the reader has no key for, or cannot decrypt, `mesh.rs:341-344` |

`InputSet` is what a user can do (`input.rs:57-152`): an approval or a denial may name any group and any node, as `/approve` and `/deny` check
neither who owns the group nor whether anyone asked (`input.rs:113-129`, `mesh.rs:262-275`). A `Skip` is one of the changes that `MaxChurn`
bounds, and leaves the pair in `cut`, like a session that ends: what is claimed of packets on their way is claimed for pairs outside `cut`. A call of `broadcast` is one step: it holds both locks. The Delivered branches and `mark_delivered` are left out, since no
code sends `Delivered` (`mesh.rs:369` builds one and drops it). The events that only change the status line are left out as well.

### Locks

A task is the sequence of the operations in its routine that may wait: lock (read or write, the guard kept or
dropped at once), free, put into a queue, drain. tokio's RwLock serves its waiters in their order and makes a reader wait
behind a waiting writer (`Acquire`, `Enqueue`, `Grant`). Guards follow Rust's rules for temporaries: the guard in the condition of
`if let` lives to the end of its body (`mesh.rs:370, 457, 473`), which `ReadChat` and `Register` keep. Remote sockets are
assumed to accept what the write loops send.

| Definition | Code |
|---|---|
| `Hello`, `Take`, `Broadcast` | the select loop, `SendMessage`, `mesh.rs:98-134, 293-305` |
| `ReadChat`, `ReadEnd` | the Chat branch and the end of `read_loop` |
| `Register` | from the key to the entry, `mesh.rs:455-460` |
| `Reap` | the reaper, `mesh.rs:81-93` |
| `Frame`, `Handle`, `Drain` | `build_snapshot`, a command, the drain, `app.rs:138-208` |

The mutexes of `AppState` (`channels` before `active_ch`, everywhere) and `recv_map` (kept by `handle_chunk` while it sends an
event, and wanted by other chunks only) are left out: nobody who has one waits for a task that wants it.

### Screen

`phase` is the place in the loop of `App::run`. `Draw` computes the click regions in the order the renderer pushes
them and what the popups show; a click is looked up in the regions of the last frame, the first match wins. The
renderer draws the popups in the same order, each over the ones before (requests, offer, help, `render.rs:75-82`), so the first match is the region
lowest on the screen: `Drawn` is what a popup of the frame shows, `OnTop` what shows with nothing over it.
Keys answered by `continue` go on to the next frame and skip the drain. `Arrive` is a read loop that adds a request
or an offer with its event, `HandleCommand` the mesh loop that removes an answered request.

| Definition | Code |
|---|---|
| `TitleRegions`, `ChannelRegions`, `FeedRegions`, `RequestRegions`, `OfferRegions`, `HelpRegions` | `render.rs:100, 153, 206, 430, 383, 475` |
| `RequestButtons` | where the lines of the popup put the buttons, `render.rs:429-463` |
| `Click`, `DispatchClick`, `Wheel` | `app.rs:215-282` |
| `F1`, `EscHelp`, `EscRequests`, `EscOffer`, `AnswerKey`, `Swallowed` | the modes of the key handler, `app.rs:163-191` |
| `Line` | `/requests`, `/help` |
| `Drain` | `app.rs:299-301, 316-319` |

### LineEditor and Line

A Rust String is its bytes here; a byte names its character and its place in the encoding, so that a cursor, a cut
or a slice in the middle of a character can be expressed. One action per key of `input.rs:17-51`, on the offsets that
`app.rs:385-401` computes. `Line` has the same keys on a line of characters with a cursor between two of them,
`left` and `right`; the refinement maps every text to its characters.

## 3. Model checking

| Run | Instance | Shows |
|---|---|---|
| `sessions_safety` | 2 nodes, 3 connections (symmetric), one may exit, 1 fault | `TypeOK`, `KeyBeforeConn`, `NoDeadSender`, `KeyAgreed`, `ImplementsRegistry`; 753 345 states |
| `sessions_live` | 2 nodes, 3 connections, no fault | `Reconnects`, `OrphansClose`; 334 498 states |
| `sessions_oneway` | only n1 hears n2, 3 connections, n2 may exit, file tasks and their chunks, 2 packets | `HeadDecrypts`, `StaysConnected`, `DepartedForgotten`; 4 431 states |
| `sessions_flapping` | as `sessions_live` | violation of `StaysConnected` |
| `sessions_keys` | as `sessions_live`, 1 packet | violation of `PerConnectionKey` |
| `transfer` | 2 files of different names (two chunks with a short tail; one short chunk), 1 fault | `TypeOK`, `ReceivedWhole`, `StreamOnlyAccepted`, `OfferResolves`, `DeliveredIfOpen`; 526 171 states |
| `transfer_whole_chunks` | 1 file of two full chunks | violation of `AcceptedCompletes` |
| `chat` | 3 nodes, 1 group name, 1 message, 3 of 12 inputs, 1 change of the maps or skipped packet | `TypeOK`, `ActiveIsRead`, `UntickedIsPrivate`, `FounderFirst`, `MembersSettle`, `RequestShown`, `SentArrives`; 561 026 states |
| `locks` | mesh loop, reaper, terminal, one read loop, one registration, queues of 1 | `TypeOK`, `OnlyKnownKnots`; 1 526 752 states |
| `screen` | 80 x 24, 2 channels, 2 requests, 1 offer, 2 commands | `TypeOK`, `OfferAnsweredOnce`, `AnsweredAsShown`; 148 216 states |
| `screen_clicks` | the same with the 3 channels of a new node | violation of `ClickAnswersShown` |
| `editor` | a letter, a space, a character of 2 bytes; lines of 3 bytes, history of 2 | `TypeOK`, `CursorOnBoundary`, `HistoryTidy`, `ImplementsLine`; 224 280 states |

Bounds. A pair of nodes is what a session is about: all maps are keyed by the peer and
no step reads another peer's entry, so a third node adds independent copies (the proofs
below hold for any number). Three connection slots let both crossing dials
live while a third is made; a slot is reused only when no task, map, queue or file task refers
to it, so old and new keys are never confused. `MaxFaults` bounds how often the network
fails between running nodes; failures that involve an exited node are not
counted. `MaxInFlight` bounds unread packets per direction when a packet is sent;
0 turns traffic off where a property is not about it. In `transfer`, chunks have two bytes,
so one file has a full chunk and a short one; `MaxQueue` 2 makes the stream wait;
`MaxProgress` 1 makes `try_send` drop a value.

In `chat` the three nodes are the roles there are: founder, requester, and a third one that founds a group of the same name or lets the
requester in without having a say. They start with maps that disagree: the founder has not registered the third node and does not know it. One
change may come at any moment: a session comes or goes, a peer appears or is forgotten, a packet is skipped. The inputs are all kinds a user has, any three of
them, each once and in any order; three make two foundings and an approval, two requests and an answer, a request that is answered while the
popup is closed, or a line that arrives while its channel is opened or selected. In `locks` a queue
of one item is full as soon as anything is in it; `OnlyKnownKnots` looks at every state, so tasks need not
stop for it to matter. In `screen` every cell is clicked, `CommandCapacity` 2 makes the terminal wait, and `MaxScroll`
bounds the offset, which grows by three a click. In `editor`, `MaxLen` bounds the buffer and `MaxKept` the lines of the history; two bytes
make a letter and a space, or one wide character, and a history of two lines has a first, a last and an overflow.

Deadlock checking is off: connected nodes with nothing to send, and finished
transfers, have nothing left to do.

File tasks keep a connection from ending (`mesh.rs:143`), which `sessions_live` leaves out: with them and three connections it is too large. On a
smaller instance (one node hears the other, two connections, one failure, file tasks) TLC finds `OrphansClose` true as well, in 192 397 states.

Fairness. Weak fairness of each connection's task at each node, of the Hello handler
(Hellos are repeated every 3 s, so a lost one only delays), of the reaper (ticks every 5 s)
and, for each connection, of the file tasks' end (deadline of 30 s, or end of the stream). In `FileTransfer`, of the
spawned tasks, the read loops and the terminal's event drain. These are what the tokio
scheduler and the 16 ms loop give. In `Chat`, one weak fairness condition, of the program as a whole: it goes on
while a call, a command, a packet or an event is left, and users and sessions give it finitely much to do. `Locks`, `Screen`
and `LineEditor` need none: their properties are about safety. Nothing is assumed of users, of failures or of exits,
and no choice between crossing handshakes is assumed fair.

### What the violations say

- `sessions_flapping`: both nodes dial on the first Hello, by connections a and b. Both register
  b, then both replace it by a, so the write loops of b end and each read loop of b sees
  end-of-file. The one at n2 removes n1 from `peers` and from `conns`, where a is registered by now;
  so the write loop of a ends too, and n1 removes n2. Nothing is left. A Hello makes n1 dial again,
  and another makes n2 dial back before that connection is registered (accepting a connection does
  not make the peer known): the cycle is closed. Every task moves in it, so fairness does not
  leave it.
  `Reconnects` holds all the same: an entry comes back again and again. (The counterexample is a
  lasso of about 30 states in a graph of 334 498; some versions of TLC report the violation and
  then fail while reading the states back from disk.)
- `sessions_keys`: the later of two crossing handshakes overwrites the key, while the Sender
  of the other connection may be the one registered.
- `transfer_whole_chunks`: only a chunk shorter than `CHUNK_SIZE` is flagged last.
- `screen_clicks`: the popup of the join requests registers the buttons of request i at row `y + 1 + 2i` and draws them at row
  `y + 3 + 2i` (border, empty line, then a line with the name and one with the buttons). The button drawn for the first
  request lies in the region of the second, and the button of the last in none.

### What else the models show

Behaviour found while modelling that has no text of the repository against it, or no run of its own:

- A peer is added to `peers` before it is dialled (`mesh.rs:106`). After one failed dial it stays there, every later Hello
  only refreshes it (`mesh.rs:103`), and it is never dialled again: with one-way hearing and `MaxFaults = 1`, TLC
  refutes `Reconnects`.
- `App.file_offer` has one slot (`app.rs:300`): a second offer makes the first unanswerable; its sender waits
  out the 30 s (`OfferResolves` still holds).
- The sender's progress forwarder and the terminal's progress events set a transfer back to Active after it was
  marked Complete (`state.rs:163-168` overwrites any status).
- Deadlocks. `OnlyKnownKnots` says every circle of waiting tasks goes through one of two places, and TLC
  reaches both: a read loop at its second read lock of `conns` (`mesh.rs:371`) while a writer has queued behind its
  first, which makes it wait for itself; and a registration that holds `peers` while the event queue is full
  (`mesh.rs:457`), with the terminal waiting for `peers` behind a writer. The second also stops the terminal, where
  CONTRIBUTING.md:38 asks to keep the TUI thread free of blocking calls.
- Chunks of files are not encrypted: the file task hands `WirePacket::FileChunk` to the connection's Sender as it is (`mesh.rs:188`), the write
  loop only serializes it, and `read_loop` takes it without a key (`mesh.rs:352`). the repository's README.md:306 ("All wire traffic is AES-256-GCM
  encrypted after handshake") and the comment `mesh.rs:185` say otherwise. In `Sessions` it is one line (`SendChunk`), so no property is spent
  on it; `PerConnectionKey` and `HeadDecrypts` speak of the packets that are encrypted, with chunks between them.
- A message is ticked when a peer is known, although no connection exists (`mesh.rs:130`), and a command always (`mesh.rs:140`), whatever
  README.md:210 and `types.rs:89` say ("Sent to at least one peer"). What holds is the other direction, `UntickedIsPrivate`.
- Any node can let any other into any group: `/approve` asks neither who owns the group nor who wants to join (`input.rs:113-120`, `mesh.rs:263`),
  and a node that hears of an approval lists the member without looking who says so (`mesh.rs:419`). README.md:156 ("group owner only") and :229 ("require
  owner approval") do not hold; the invariant that every listed member was approved by the founder is violated in `chat`. So `FounderFirst` and
  `MembersSettle` say what is left: whom no other node approved, the founder approved and lists.
- Two files of one name that are received at a time are written into one (`transfer.rs:68`): the second truncates the first, which goes on at
  its own offset and is shown complete with its beginning gone. Hence `Shared` in `ReceivedWhole`; with one `Path` for both transfers, TLC refutes the
  property without it. A later file of the name replaces a complete one.
- The terminal's late event adds a join request again that was already answered (`app.rs:317`); a denial leaves the
  channel's own pending list (`mesh.rs:269`); an approved requester is not in its own list of members, hence the
  exception in `MembersSettle`; a node that joins later is told of no earlier group.
- `/join` with the name of an existing channel activates the last channel of the list (`input.rs:66`).
- The regions of the file offer's buttons are one row below the buttons.
- The help is drawn over all else and a click on it goes to whatever region lies beneath, as the first match wins (`app.rs:221`): it selects a
  channel, scrolls, or answers a request or an offer that cannot be seen. README.md:197 and `render.rs:474` say that a click anywhere closes the help; the invariant
  that says so is violated after three steps. `AnsweredAsShown` therefore claims of a click only that the frame drew what is
  answered, and of a key that nothing was drawn over it.

## 4. Proofs

`SessionsProofs` proves, for any sets of nodes and connections, any pattern of hearing and
any bound on failures, under `SessionsAssumption` only, the last theorem apart:

- `TypeCorrect`: `Spec => []TypeOK`
- `SenderHasKey`: `Spec => []KeyBeforeConn`
- `SenderIsServed`: `Spec => []NoDeadSender`
- `KeyIsShared`: `Spec => []KeyAgreed`

The argument. None of the three safety properties is inductive alone. The invariant
`IInv` adds four facts. `InStep`: while one end dials, the other has no task yet, and
while one end listens or has just answered, the other has written its KeyExchange.
`KeyedHasKey`: a task about to register its Sender finds some key under its peer, maybe a newer
one: keys are replaced and never removed while the node runs, so `Register` cannot create an
entry without a key. `AnswersOnly`: who has not joined a handshake has put nothing but a KeyExchange
on the wire, so `DialKey` never stores a key the acceptor does not share. `HeldKeyed`: a file task holds
a connection whose handshake is over at its node, so that its chunks do not come into an exchange. `Inductive` proves `IInv /\ [Next]_vars => IInv'`
from one lemma per conjunct (`TypeStep`, `InStepStep`, `NoDeadSenderStep`, ...), each with a
step per action; the lemmas `Onward` and `MapSteps` say once what a step may do to a task and to
the maps. TLC checked `IInv` on the instances above before it was proved.

- `OneKeyPerConnection`: `Spec => []PerConnectionKey /\ []HeadDecrypts`, for any nodes, connections, exits, file tasks and
  lengths of the wires, if of two nodes at most one hears the other (`OneWay`) and `MaxFaults = 0`

Both hypotheses are needed: `sessions_keys` refutes `PerConnectionKey` when two nodes hear each other, and with `MaxFaults = 1` in
`sessions_oneway` TLC refutes both: the reaper forgets a running peer whose Hellos are lost, its next Hello is dialled, and the
new key replaces the one of packets still on the old connection. Both properties are about packets that are encrypted; chunks in the clear may be anywhere between them. So crossing dials and failures between running nodes are the only
reasons for a packet that the receiver skips. The argument adds to `IInv` the invariant `Calm`: two running nodes have one
connection at most, which is never broken and, once opened, stays registered at both (`Pairs`, `OnePerPair`, `Intact`); the reaper
lists no running peer (`Unlisted`); even after the peer's exit a node serves only one connection with it (`OneBusy`), and the key
in `ciphers` is that connection's (`BusyKey`). `CalmSteps` sorts the actions by what they do to a task; from it
follows each conjunct in a lemma of its own. TLC checked every conjunct on the instance of `sessions_oneway`.

`RegistryProofs` proves `Implementation`: `Spec => ImplementsRegistry`, from the invariant `IInv` of `SessionsProofs`: `KeyedHasKey` is
what `Registry!Open` asks, and `NoDeadSender` is needed for `End`, when a read loop leaves and the entry was its own. Each action of `Sessions` is mapped
to one action of `Registry` or to a stutter (`StepImplements`).

`FileTransferProofs` proves, for any set of transfers, any file sizes, chunk size and capacities, and any bound on failures:

- `TypeCorrect`: `Spec => []TypeOK`
- `NothingUnasked`: `Spec => []StreamOnlyAccepted`
- `CompleteIsWhole`: `Spec => []ReceivedWhole`

The argument. `ConsentFirst`: before the receiver has said yes, no acceptance, no progress event and no chunk exists that could make the
sender's transfer Active; a status is also set Active by late progress, so this must be said of the events as well. `OfferOnce`: an
offer is on its way, or in the events, or in the popup, or answered, never twice, so the receiving file is opened once and its
count never reset. `Cut`: every chunk but the last is a full one and starts at a multiple of the chunk size. `Assembled`: the
receiver's count is what is on the disk, and what is complete is no longer written to, unless the file is shared; who shares it has been
accepted and stays so (`SharedStays`), and a transfer that shares its file with none is touched by no other (`WrittenIs`). With `Cut`, a chunk in order that is flagged last
completes exactly the file's size. `IInv` is their conjunction with `TypeOK`, one lemma for each conjunct
(`TypeStep`, `ConsentStep`, `OnceStep`, `CutStep`, `AssembledStep`), a step per action in each. TLC checked `IInv` first.

`LocksProofs` proves, for any numbers of read loops and registrations and any capacities, under `LocksAssumption` (the kinds of
tasks are distinct, every queue has room for one item):

- `TypeCorrect`: `Spec => []TypeOK`, no queue beyond its capacity
- `KnotsKnown`: `Spec => []OnlyKnownKnots`

The argument. `OnlyKnownKnots` speaks of who waits for whom now, which no step preserves by itself. `Staged`: a task is
at one of the stages of its routine, which are finitely many and named. `Guards`: who keeps a lock is who is between taking and freeing
it. `Lined`: who stands in the line of a lock is about to take it and stands there once. `IInv` is their conjunction with
`TypeOK`; each action keeps it (`AcquireKeeps`, `EnqueueKeeps`, ...), and TLC checked it first. Then (`NoCircle`) take tasks that
wait for each other, none at the two known places. If one waits for a lock, the first of them in the line waits for a
keeper of the lock that is among them too (`SomeoneKeeps`). Who keeps `peers` sends its event, which is a known place, or is about to free it, so none of
them waits for `peers`; who keeps `ciphers` sends a packet, and sockets accept packets, so none waits for `ciphers`; who
keeps `conns` then asks for `conns` again, a known place, or for `ciphers`; so none waits for a lock. The mesh loop fills only
the queue of packets, so it is not among them, and none waits at the queue of commands; hence not the terminal, and none waits
at that of events.

`ChatProofs` proves, for any nodes, messages and channels, any inputs of the users, any first maps and any changes of them, under
`ChatAssumption` (message ids and first channel names are distinct, nobody has a session with itself):

- `TypeCorrect`: `Spec => []TypeOK`; a node's channels have different names, and the one on screen exists
- `ActiveRead`: `Spec => []ActiveIsRead`
- `UntickedPrivate`: `Spec => []UntickedIsPrivate`
- `FounderIsFirst`: `Spec => []FounderFirst`

The argument. A handler makes its calls one by one, each under a lock of its own, so what a later call may rely on is what the
earlier ones left and no other task undid. `RunOK` names, for each kind of task, the sequences of calls it can still have to make, with whom
they are made for: `MeshRun`, `ReadRun`, `TermRun`. `QueuesOK` names what a wire, the events and the commands can hold; an approval
in any of them is one its sender's user made (`Allowed`). With these two, each call has one lemma that says what it is for
(`PushCall`, `BroadcastCall`, `ApproveCall`, ...) and the steps follow call by call.

- `ActiveIsRead` needs of the others that no call but the terminal's own shortens a list or counts a message for the channel on screen
  (`CallGrows`, `ReadStep`).
- `UntickedIsPrivate` is a fact about the last of four stages: typed, ordered, shown, sent. `Told` says of each what there is of the
  message: while it is typed or ordered, nothing anywhere; while it is shown and not sent, no copy at another node or on the way; once there is a copy,
  a tick, or the task that sets it is about to. That each message passes the stages once, and that nobody else speaks
  of it, is part of `Told`.
- `FounderFirst` holds because a founder puts a member on its list before it tells anyone, and wires keep their order, also when packets are
  lost from them. `GroupOK` says, of a founder, another node and a name: who knows the founder's group, or will by what is on the wire, knows one that the
  founder has; whom it lists is the founder, approved by an outsider, or approved and listed by the founder (`Vouched`); and an approval by the
  founder that is still to be sent, on the wire or being listed is of a member of its list, if the group is known at the other end by
  then. An approval that finds no group is dropped, so one on a wire counts only if the group is known or an announcement is before it.
  Nothing is assumed of the inputs: two nodes may found groups of one name, each keeps the one it heard of first (`mesh.rs:406`, `state.rs:88`), and an
  approval by one that is applied to the other's group counts as an outsider's.

`IInv` is the conjunction without `GroupsOK`, which has a theorem of its own step (`GroupsStep`). TLC checked all parts on the
instance of `chat` before they were proved.

`ScreenProofs` proves, for a terminal of any size, any channels, requests and offers and any capacity, under `ScreenAssumption`:

- `TypeCorrect`: `Spec => []TypeOK`; no more commands wait than the channel takes
- `AnsweredOnce`: `Spec => []OfferAnsweredOnce`
- `AnswersTheFrame`: the action property `AnsweredAsShown`: what is answered is in a popup of the frame, and if by a key, nothing is drawn over it
- `ListedAtMostOnce`: a request is in the list once, although the read loop and the terminal both add it

The argument. `AsDrawn`: the regions of a frame are about the offer and the requests it showed, and between a frame and
the input handled after it the offer in the popup is the one shown and the help is open if it was drawn; so a key, which is given to the help first, then to
the requests or an offer, answers what is on top. `OfferInOnePlace`:
an offer is still to come, or in the events, or in the popup, or answered. `ListedOnce` is what makes
one removal enough. The lemma `Steps` splits a step by what it does to the frame, the popups, the lists and the queues, and each conjunct has one lemma on top of it.

`LineEditorProofs` proves, for any characters of any width, any length of the history and any bound on the line, under `EditorAssumption`:

- `TypeCorrect`: `Spec => []TypeOK`
- `NeverInsideACharacter`: `Spec => []CursorOnBoundary`
- `HistoryStaysTidy`: `Spec => []HistoryTidy`

The argument. Every text the editor keeps (line, yank buffer, draft, history) is `Whole`: each byte has its neighbours in the
character. A cut between two boundaries leaves whole texts (`SliceWhole`), the offsets the keys compute are boundaries
(`PrevCharBoundary`, `NextCharBoundary`, the beginnings and ends of words, all a maximum or a minimum of a set of offsets), and a
whole text without its blanks at both ends is whole. Where one would use induction on the text, the proofs take the least or
greatest offended offset (`Least`, `MinIs` and `MaxIs` of `ListLemmas`). The attempt to prove `HistoryTidy` showed a mistake in an earlier version
of the model: the two cases of `HistoryPush` overlapped, and a line equal to the last one of a full history could
have pushed out the oldest; the code returns first (`app.rs:103`), and now so does the model.

Only model-checked: the refinement of `Line` by
`LineEditor`, where the number of characters before an offset is counted over the text, which takes induction; `MembersSettle`,
`RequestShown`, `SentArrives` and all other liveness: weak fairness and ENABLED are beyond the prover used here.

## 5. Plan

Done: sessions with their abstract specification, transfers, chat and groups, locks, terminal and editor, and the proofs of the
safety properties of each. Left, in this order:

1. An abstract transfer for `FileTransfer` (offered, accepted, complete or failed) and the refinement.
2. A transfer over a connection that is redialled while it waits.
3. Shutdown: the kill switch and `wipe` beside tasks that still run.

## 6. Not modelled

Cryptography (a packet decrypts exactly under the key it was encrypted with), JSON encoding,
frame lengths, socket options, addresses and the choice of broadcast address; colours, texts and the layout of messages; the status
line; the gateway stub; `wipe`, after which the process ends; the start-up prompts; ticks of delivery, which no code
sends. Packets `Ping` and `Goodbye` are handled but never sent. Splitting a line into a command and its arguments is abstracted to
the command it gives. Two assumptions concern what is between two nodes: in `Locks`, that the packets of a write loop are accepted by the other side in the end
(who waits for room in a peer's queue waits for another process, `mesh.rs:301`, and may hold `conns` and `ciphers` meanwhile), and in `Chat`, that the packets from one
node to another are handled one by one, although two connections of a pair may be read for a moment at a time.
