-------------------------------- MODULE Chat --------------------------------
(***************************************************************************)
(* Channels, messages with their ticks, private groups and join requests   *)
(* (state.rs, mesh.rs, input.rs, app.rs).                                  *)
(*                                                                         *)
(* At each node three kinds of tasks work on AppState: the mesh loop, one  *)
(* read loop per peer and the terminal thread.  Each call of an AppState   *)
(* method takes its lock, so a task is the sequence of calls it has still  *)
(* to make, and calls of different tasks interleave.                       *)
(*                                                                         *)
(* The maps peers and conns change under the chat as sessions come and go  *)
(* (Sessions).  Packets handed to a connection arrive in their order, but  *)
(* one may be lost with the connection or skipped by a reader that has the *)
(* wrong key for it.                                                       *)
(***************************************************************************)
EXTENDS Naturals, SequencesExt

CONSTANTS
    Node,
    Msg,            \* the messages that users write
    Name,           \* channel names
    FirstNames,     \* the channels of a new node, in order; the first is #general
    Inputs,         \* what users may do, each once: [by, do] and arguments
    MaxInputs,      \* bound on how much of it they do
    Nobody,         \* the creator of an open channel
    System,         \* the id of a message that the program writes
    FirstPeers, FirstConns,
    Unsteady,       \* the pairs <<n, p>> for which n's maps change
    MaxChurn        \* bound on these changes

Mesh == "mesh"
Terminal == "terminal"
Task == {Mesh, Terminal} \cup Node

InputSet ==
    [by : Node, do : {"line"}, id : Msg]
    \cup [by : Node, do : {"group", "join"}, name : Name]
    \cup [by : Node, do : {"request"}, name : Name, owner : Node]
    \cup [by : Node, do : {"approve", "deny"}, name : Name, who : Node]
    \cup [by : Node, do : {"select", "requests"}]

\* The first channels differ (state.rs:26-28), a message has an id of
\* its own (a UUID), and no node has a session with itself (mesh.rs:100).
ASSUME ChatAssumption ==
    /\ FirstNames \in Seq(Name) /\ FirstNames # <<>>
    /\ \A i, j \in DOMAIN FirstNames : FirstNames[i] = FirstNames[j] => i = j
    /\ Mesh \notin Node /\ Terminal \notin Node
    /\ Nobody \notin Node /\ System \notin Msg
    /\ Inputs \subseteq InputSet
    /\ \A i, j \in Inputs : i.do = "line" /\ j.do = "line" /\ i.id = j.id => i = j
    /\ FirstPeers \in [Node -> SUBSET Node] /\ FirstConns \in [Node -> SUBSET Node]
    /\ Unsteady \subseteq Node \X Node
    /\ \A n \in Node : n \notin FirstPeers[n] \cup FirstConns[n] /\ <<n, n>> \notin Unsteady
    /\ MaxInputs \in Nat /\ MaxChurn \in Nat

VARIABLES
    channels,       \* channels[n]: sequence of channels
    active,         \* active[n]: index of the channel on screen
    pending_reqs,   \* pending_reqs[n]: the requests n's popup lists
    show_join_requests,
    status,         \* status[n][m]: the tick of m at n, or absent
    peers, conns,
    wire,           \* wire[n][p]: packets of n that p has not read
    events,         \* events[n]: what n's terminal has not drained
    cmds,           \* cmds[n]: what n's mesh loop has not taken
    run,            \* run[n][k]: the calls task k of n has still to make
    todo,           \* the inputs not made yet
    churn,
    cut             \* history: <<n, p>> if n once dropped its Sender for p, or p a packet of n

lists == <<channels, pending_reqs, status>>
ui == <<active, show_join_requests>>
net == <<peers, conns, churn, cut>>
queues == <<wire, events, cmds>>
vars == <<lists, ui, net, queues, run, todo>>

(***************************************************************************)
(* Channels                                                                *)
(***************************************************************************)
OpenChannel(name) ==
    [name |-> name, creator |-> Nobody, members |-> {}, pending |-> {}, unread |-> 0]
GroupChannel(name, founder) ==
    [OpenChannel(name) EXCEPT !.creator = founder, !.members = {founder}]

Has(n, name) == \E i \in DOMAIN channels[n] : channels[n][i].name = name
Index(n, name) == CHOOSE i \in DOMAIN channels[n] : channels[n][i].name = name
Channel(n, name) == channels[n][Index(n, name)]
IsGroup(n, name) == Has(n, name) /\ Channel(n, name).creator # Nobody

\* push_message: a message for an unknown channel opens it.
Pushed(n, name) ==
    IF Has(n, name)
    THEN [channels[n] EXCEPT ![Index(n, name)].unread =
              IF Index(n, name) = active[n] THEN @ ELSE @ + 1]
    ELSE Append(channels[n], OpenChannel(name))

AddedAlways(n, ch) == Append(channels[n], ch)     \* variant: the name is not looked up
Added(n, ch) == IF Has(n, ch.name) THEN channels[n] ELSE Append(channels[n], ch)

GroupChanged(n, name, ch) ==
    IF IsGroup(n, name) THEN [channels[n] EXCEPT ![Index(n, name)] = ch] ELSE channels[n]

Init ==
    /\ channels = [n \in Node |-> [i \in DOMAIN FirstNames |-> OpenChannel(FirstNames[i])]]
    /\ active = [n \in Node |-> 1]
    /\ pending_reqs = [n \in Node |-> {}]
    /\ show_join_requests = [n \in Node |-> FALSE]
    /\ status = [n \in Node |-> [m \in Msg |-> "absent"]]
    /\ peers = FirstPeers /\ conns = FirstConns
    /\ wire = [n \in Node |-> [p \in Node |-> <<>>]]
    /\ events = [n \in Node |-> <<>>]
    /\ cmds = [n \in Node |-> <<>>]
    /\ run = [n \in Node |-> [k \in Task |-> <<>>]]
    /\ todo = Inputs
    /\ churn = 0 /\ cut = {}

(***************************************************************************)
(* Calls                                                                   *)
(***************************************************************************)
Doing(n, k, call) == run[n][k] # <<>> /\ Head(run[n][k]).call = call
Arg(n, k) == Head(run[n][k])
Return(n, k) == run' = [run EXCEPT ![n][k] = Tail(@)]
Stop(n, k) == run' = [run EXCEPT ![n][k] = <<>>]

PushMessage(n, k) ==
    /\ Doing(n, k, "push_message")
    /\ LET a == Arg(n, k) IN
       /\ channels' = [channels EXCEPT ![n] = Pushed(n, a.channel)]
       /\ status' = IF a.id = System THEN status ELSE [status EXCEPT ![n][a.id] = "Sending"]
    /\ Return(n, k)
    /\ UNCHANGED <<pending_reqs, ui, net, queues, todo>>

\* A message is kept and not sent when no peer is known.
PeerCount(n, k) ==
    /\ Doing(n, k, "peer_count")
    /\ IF peers[n] = {} THEN Stop(n, k) ELSE Return(n, k)
    /\ UNCHANGED <<lists, ui, net, queues, todo>>

Broadcast(n, k) ==
    /\ Doing(n, k, "broadcast")
    /\ wire' = [wire EXCEPT ![n] = [p \in Node |->
                    IF p \in conns[n] THEN Append(@[p], Arg(n, k).msg) ELSE @[p]]]
    /\ Return(n, k)
    /\ UNCHANGED <<lists, ui, net, events, cmds, todo>>

\* send_encrypted_app to one peer, if it is connected.
SendTo(n, k) ==
    /\ Doing(n, k, "send_to")
    /\ LET a == Arg(n, k) IN
       wire' = IF a.to \in conns[n] THEN [wire EXCEPT ![n][a.to] = Append(@, a.msg)] ELSE wire
    /\ Return(n, k)
    /\ UNCHANGED <<lists, ui, net, events, cmds, todo>>

MarkSent(n, k) ==
    /\ Doing(n, k, "mark_sent")
    /\ status' = [status EXCEPT ![n][Arg(n, k).id] = IF @ = "Sending" THEN "Sent" ELSE @]
    /\ Return(n, k)
    /\ UNCHANGED <<channels, pending_reqs, ui, net, queues, todo>>

AddChannel(n, k) ==
    /\ Doing(n, k, "add_channel")
    /\ channels' = [channels EXCEPT ![n] = Added(n, OpenChannel(Arg(n, k).name))]
    /\ Return(n, k)
    /\ UNCHANGED <<pending_reqs, status, ui, net, queues, todo>>

\* A group whose name is taken is not announced.
AddGroupChannel(n, k) ==
    /\ Doing(n, k, "add_group_channel")
    /\ LET a == Arg(n, k) IN
       /\ channels' = [channels EXCEPT ![n] = Added(n, GroupChannel(a.name, a.creator))]
       /\ IF Has(n, a.name) THEN Stop(n, k) ELSE Return(n, k)
    /\ UNCHANGED <<pending_reqs, status, ui, net, queues, todo>>

GroupApprove(n, k) ==
    /\ Doing(n, k, "group_approve")
    /\ LET a == Arg(n, k) IN
       channels' = [channels EXCEPT ![n] = GroupChanged(n, a.name,
           [Channel(n, a.name) EXCEPT !.members = @ \cup {a.who}, !.pending = @ \ {a.who}])]
    /\ Return(n, k)
    /\ UNCHANGED <<pending_reqs, status, ui, net, queues, todo>>

GroupAddPending(n, k) ==
    /\ Doing(n, k, "group_add_pending")
    /\ LET a == Arg(n, k) IN
       channels' = [channels EXCEPT ![n] = GroupChanged(n, a.name,
           [Channel(n, a.name) EXCEPT !.pending = @ \cup {a.who}])]
    /\ Return(n, k)
    /\ UNCHANGED <<pending_reqs, status, ui, net, queues, todo>>

AddPendingRequest(n, k) ==
    /\ Doing(n, k, "add_pending_request")
    /\ LET a == Arg(n, k) IN
       pending_reqs' = [pending_reqs EXCEPT ![n] = @ \cup {<<a.name, a.who>>}]
    /\ Return(n, k)
    /\ UNCHANGED <<channels, status, ui, net, queues, todo>>

RemovePendingRequest(n, k) ==
    /\ Doing(n, k, "remove_pending_request")
    /\ LET a == Arg(n, k) IN
       pending_reqs' = [pending_reqs EXCEPT ![n] = @ \ {<<a.name, a.who>>}]
    /\ Return(n, k)
    /\ UNCHANGED <<channels, status, ui, net, queues, todo>>

SendEvent(n, k) ==
    /\ Doing(n, k, "send_event")
    /\ events' = [events EXCEPT ![n] = Append(@, Arg(n, k).ev)]
    /\ Return(n, k)
    /\ UNCHANGED <<lists, ui, net, wire, cmds, todo>>

(***************************************************************************)
(* The mesh loop                                                           *)
(***************************************************************************)
Chat(id, channel) == [is |-> "Chat", id |-> id, channel |-> channel]
Push(id, channel) == [call |-> "push_message", id |-> id, channel |-> channel]
On(call, name, who) == [call |-> call, name |-> name, who |-> who]
ToAll(msg) == [call |-> "broadcast", msg |-> msg]
ToOne(p, msg) == [call |-> "send_to", to |-> p, msg |-> msg]
Tick(id) == [call |-> "mark_sent", id |-> id]

\* Variants: only the tick depends on the number of peers; only the packet does.
SayUncounted(id, ch) ==
    <<Push(id, ch), ToAll(Chat(id, ch)), [call |-> "peer_count"], Tick(id)>>
SayTicked(id, ch) ==
    <<Push(id, ch), Tick(id), [call |-> "peer_count"], ToAll(Chat(id, ch))>>
Say(id, ch) ==
    <<Push(id, ch), [call |-> "peer_count"], ToAll(Chat(id, ch)), Tick(id)>>

Command(id, ch) == <<Push(id, ch), ToAll(Chat(id, ch)), Tick(id)>>

AddGroup(name, creator) == [call |-> "add_group_channel", name |-> name, creator |-> creator]
Announcement(name, creator) == [is |-> "GroupAnnounce", name |-> name, creator |-> creator]
CreateGroup(n, name) == <<AddGroup(name, n), ToAll(Announcement(name, n))>>

JoinReq(name, who) == [is |-> "GroupJoinReq", name |-> name, who |-> who]
RequestJoin(n, name, owner) == <<ToOne(owner, JoinReq(name, n))>>

Approval(name, who) == [is |-> "GroupJoinApprove", name |-> name, who |-> who]

\* Variants: the others hear first; only the requester hears.
ApproveLate(name, who) ==
    <<ToAll(Approval(name, who)), On("group_approve", name, who),
      On("remove_pending_request", name, who)>>
ApproveQuietly(name, who) ==
    <<On("group_approve", name, who), On("remove_pending_request", name, who),
      ToOne(who, Approval(name, who))>>
ApproveJoin(name, who) ==
    <<On("group_approve", name, who), On("remove_pending_request", name, who),
      ToAll(Approval(name, who))>>

Denial(name, who) == [is |-> "GroupJoinDeny", name |-> name, who |-> who]
DenyJoin(name, who) ==
    <<On("remove_pending_request", name, who), ToOne(who, Denial(name, who))>>

HandleCommand(n, c) ==
    CASE c.do = "say"     -> Say(c.id, c.channel)
      [] c.do = "cmd"     -> Command(c.id, c.channel)
      [] c.do = "group"   -> CreateGroup(n, c.name)
      [] c.do = "request" -> RequestJoin(n, c.name, c.owner)
      [] c.do = "approve" -> ApproveJoin(c.name, c.who)
      [] c.do = "deny"    -> DenyJoin(c.name, c.who)

TakeCommand(n) ==
    /\ run[n][Mesh] = <<>> /\ cmds[n] # <<>>
    /\ run' = [run EXCEPT ![n][Mesh] = HandleCommand(n, Head(cmds[n]))]
    /\ cmds' = [cmds EXCEPT ![n] = Tail(@)]
    /\ UNCHANGED <<lists, ui, net, wire, events, todo>>

(***************************************************************************)
(* The read loops                                                          *)
(***************************************************************************)
\* The events MessageReceived, GroupAnnounced and GroupJoinDenied only change
\* the status line and the scroll offset, and are left out.
Event(ev) == [call |-> "send_event", ev |-> ev]
Asks(name, who) == [is |-> "GroupJoinRequest", name |-> name, who |-> who]
HandleAppMsg(n, m) ==
    CASE m.is = "Chat"          -> <<Push(m.id, m.channel)>>
      [] m.is = "GroupAnnounce" -> <<AddGroup(m.name, m.creator)>>
      [] m.is = "GroupJoinReq"  ->
             <<On("group_add_pending", m.name, m.who), On("add_pending_request", m.name, m.who),
               Event(Asks(m.name, m.who))>>
      [] m.is = "GroupJoinApprove" /\ m.who = n ->
             <<[call |-> "add_channel", name |-> m.name], Event([is |-> "GroupJoinApproved"])>>
      [] m.is = "GroupJoinApprove" /\ m.who # n -> <<On("group_approve", m.name, m.who)>>
      [] m.is = "GroupJoinDeny" -> <<>>

Receive(n, p) ==
    /\ run[n][p] = <<>> /\ wire[p][n] # <<>>
    /\ run' = [run EXCEPT ![n][p] = HandleAppMsg(n, Head(wire[p][n]))]
    /\ wire' = [wire EXCEPT ![p][n] = Tail(@)]
    /\ UNCHANGED <<lists, ui, net, events, cmds, todo>>

(***************************************************************************)
(* The terminal                                                            *)
(***************************************************************************)
\* Variant: the unread count goes before the channel is on screen.
SelectCleared(i) == <<[call |-> "clear_unread", index |-> i], [call |-> "set_active", index |-> i]>>
Select(i) == <<[call |-> "set_active", index |-> i], [call |-> "clear_unread", index |-> i]>>

SetActive(n) ==
    /\ Doing(n, Terminal, "set_active")
    /\ active' = [active EXCEPT ![n] = Arg(n, Terminal).index]
    /\ Return(n, Terminal)
    /\ UNCHANGED <<lists, show_join_requests, net, queues, todo>>

ClearUnread(n) ==
    /\ Doing(n, Terminal, "clear_unread")
    /\ channels' = [channels EXCEPT ![n][Arg(n, Terminal).index].unread = 0]
    /\ Return(n, Terminal)
    /\ UNCHANGED <<pending_reqs, status, ui, net, queues, todo>>

\* /join goes to the last channel, whichever that is by now.
SelectLast(n) ==
    /\ Doing(n, Terminal, "select_last")
    /\ run' = [run EXCEPT ![n][Terminal] = Select(Len(channels[n]))]
    /\ UNCHANGED <<lists, ui, net, queues, todo>>

\* An input is made between two drains of the events.
Input(i) ==
    /\ i \in todo /\ Cardinality(Inputs \ todo) < MaxInputs
    /\ run[i.by][Terminal] = <<>>
    /\ todo' = todo \ {i}
    /\ UNCHANGED <<lists, active, net, wire, events>>

Order(i, c) ==
    /\ Input(i)
    /\ cmds' = [cmds EXCEPT ![i.by] = Append(@, c)]
    /\ UNCHANGED <<show_join_requests, run>>

Perform(i, calls) ==
    /\ Input(i)
    /\ run' = [run EXCEPT ![i.by][Terminal] = calls]
    /\ UNCHANGED <<show_join_requests, cmds>>

\* A line, or a command, for the channel on screen.
TypeLine(i) ==
    /\ i.do = "line"
    /\ \E do \in {"say", "cmd"} :
          Order(i, [do |-> do, id |-> i.id, channel |-> channels[i.by][active[i.by]].name])

TypeGroup(i) == i.do = "group" /\ Order(i, [do |-> "group", name |-> i.name])
TypeRequest(i) ==
    i.do = "request" /\ Order(i, [do |-> "request", name |-> i.name, owner |-> i.owner])

TypeJoin(i) ==
    /\ i.do = "join"
    /\ Perform(i, <<[call |-> "add_channel", name |-> i.name], [call |-> "select_last"]>>)

\* PgUp, PgDn and a click in the sidebar.
SelectChannel(i) ==
    i.do = "select" /\ \E c \in DOMAIN channels[i.by] : Perform(i, Select(c))

\* A line, by anyone about any node and group, or a click on a listed request.
Decide(i) ==
    /\ i.do \in {"approve", "deny"}
    /\ Order(i, [do |-> i.do, name |-> i.name, who |-> i.who])

\* /requests
ToggleRequests(i) ==
    /\ i.do = "requests" /\ Input(i)
    /\ show_join_requests' = [show_join_requests EXCEPT ![i.by] = ~@]
    /\ UNCHANGED <<cmds, run>>

ShowToggled(n) == ~show_join_requests[n]          \* variant: a second request hides the first
ShowRequests(n) == TRUE

\* handle_net_event
Drain(n) ==
    /\ run[n][Terminal] = <<>> /\ events[n] # <<>>
    /\ events' = [events EXCEPT ![n] = Tail(@)]
    /\ LET e == Head(events[n]) IN
       IF e.is = "GroupJoinRequest"
       THEN /\ run' = [run EXCEPT ![n][Terminal] = <<On("add_pending_request", e.name, e.who)>>]
            /\ show_join_requests' = [show_join_requests EXCEPT ![n] = ShowRequests(n)]
       ELSE /\ run' = [run EXCEPT ![n][Terminal] = <<Push(System, FirstNames[1])>>]
            /\ UNCHANGED show_join_requests
    /\ UNCHANGED <<lists, active, net, wire, cmds, todo>>

(***************************************************************************)
(* Sessions come and go                                                    *)
(***************************************************************************)
Churn ==
    /\ churn < MaxChurn /\ churn' = churn + 1
    /\ UNCHANGED <<lists, ui, cmds, run, todo>>

AddPeer(n, p) ==
    /\ Churn /\ p \notin peers[n]
    /\ peers' = [peers EXCEPT ![n] = @ \cup {p}]
    /\ UNCHANGED <<conns, cut, wire, events>>

RemovePeer(n, p) ==
    /\ Churn /\ p \in peers[n]
    /\ peers' = [peers EXCEPT ![n] = @ \ {p}]
    /\ UNCHANGED <<conns, cut, wire, events>>

Registered(n, p) ==
    /\ Churn /\ p \notin conns[n]
    /\ conns' = [conns EXCEPT ![n] = @ \cup {p}]
    /\ events' = IF p \in peers[n] THEN [events EXCEPT ![n] = Append(@, [is |-> "PeerJoined"])]
                                   ELSE events
    /\ UNCHANGED <<peers, cut, wire>>

Unregistered(n, p) ==
    /\ Churn /\ p \in conns[n]
    /\ conns' = [conns EXCEPT ![n] = @ \ {p}]
    /\ cut' = cut \cup {<<n, p>>}
    /\ events' = [events EXCEPT ![n] = Append(@, [is |-> "PeerLeft"])]
    /\ UNCHANGED <<peers, wire>>

\* n has no key, or that of another connection, for a packet of p (sessions_keys),
\* or the packet went down with its connection.
Skip(n, p) ==
    /\ Churn /\ run[n][p] = <<>> /\ wire[p][n] # <<>>
    /\ wire' = [wire EXCEPT ![p][n] = Tail(@)]
    /\ cut' = cut \cup {<<p, n>>}
    /\ UNCHANGED <<peers, conns, events>>

Call(n, k) ==
    /\ run[n][k] # <<>>
    /\ \/ PushMessage(n, k) \/ PeerCount(n, k) \/ Broadcast(n, k) \/ SendTo(n, k)
       \/ MarkSent(n, k) \/ AddChannel(n, k) \/ AddGroupChannel(n, k)
       \/ GroupApprove(n, k) \/ GroupAddPending(n, k)
       \/ AddPendingRequest(n, k) \/ RemovePendingRequest(n, k) \/ SendEvent(n, k)

Screen(n) == SetActive(n) \/ ClearUnread(n) \/ SelectLast(n)

User(i) ==
    \/ TypeLine(i) \/ TypeGroup(i) \/ TypeRequest(i) \/ TypeJoin(i)
    \/ SelectChannel(i) \/ Decide(i) \/ ToggleRequests(i)

Environment(n, p) ==
    AddPeer(n, p) \/ RemovePeer(n, p) \/ Registered(n, p) \/ Unregistered(n, p) \/ Skip(n, p)

Progress ==
    \/ \E n \in Node, k \in Task : Call(n, k)
    \/ \E n \in Node : TakeCommand(n) \/ Screen(n) \/ Drain(n)
    \/ \E n, p \in Node : Receive(n, p)

Next ==
    \/ Progress
    \/ \E u \in Unsteady : Environment(u[1], u[2])
    \/ \E i \in todo : User(i)

\* The program does not stop while a task has a call to make, a command or a packet
\* to take, or an event to drain.  As users and sessions give it finitely much to
\* do, this is all the fairness it needs; nothing is assumed of either.
Spec == Init /\ [][Next]_vars /\ WF_vars(Progress)

(***************************************************************************)
(* Properties                                                              *)
(***************************************************************************)
\* Every variable has its type, and no two channels of a node share a name:
\* names are how messages, approvals and requests find their channel.
ChannelSet == [name : Name, creator : Node \cup {Nobody},
               members : SUBSET Node, pending : SUBSET Node, unread : Nat]
TypeOK ==
    /\ channels \in [Node -> Seq(ChannelSet)]
    /\ \A n \in Node : \A i, j \in DOMAIN channels[n] :
          channels[n][i].name = channels[n][j].name => i = j
    /\ active \in [Node -> Nat] /\ \A n \in Node : active[n] \in DOMAIN channels[n]
    /\ show_join_requests \in [Node -> BOOLEAN]
    /\ pending_reqs \in [Node -> SUBSET (Name \X Node)]
    /\ status \in [Node -> [Msg -> {"absent", "Sending", "Sent"}]]
    /\ peers \in [Node -> SUBSET Node] /\ conns \in [Node -> SUBSET Node]

\* The channel on screen has no unread messages, except for the moment between
\* the two locks of set_active_channel, whatever arrives while channels change.
ActiveIsRead ==
    \A n \in Node :
        channels[n][active[n]].unread > 0 => Doing(n, Terminal, "clear_unread")

OnWire(n, p, m) == \E i \in DOMAIN wire[n][p] : wire[n][p][i] = m
Says(n, id) == \E i \in Inputs : i.by = n /\ i.do = "line" /\ i.id = id

\* A message that its author's screen shows without a tick has left the node
\* only if the mesh loop is about to tick it: peers and conns may disagree, but
\* a message is never sent and then left unticked.
UntickedIsPrivate ==
    \A n \in Node, id \in Msg :
        /\ Says(n, id) /\ status[n][id] = "Sending"
        /\ Tick(id) \notin ToSet(run[n][Mesh])
        => \A p \in Node \ {n} :
              /\ status[p][id] = "absent"
              /\ \A name \in Name : ~OnWire(n, p, Chat(id, name))

\* The user a typed /approve for who and the group, or clicked on such a request.
Approved(a, name, who) ==
    \E i \in Inputs \ todo : i.by = a /\ i.do = "approve" /\ i.name = name /\ i.who = who

Outsider(founder, name, who) == \E a \in Node \ {founder} : Approved(a, name, who)

\* Wherever a group is known, its founder has it, and whom a node lists in it the
\* founder lists too, or another node has approved: lists change in their own time
\* at every node, anyone may approve, and packets are lost.
FounderFirst ==
    \A n \in Node, name \in Name :
        IsGroup(n, name) =>
            LET founder == Channel(n, name).creator IN
            /\ IsGroup(founder, name) /\ Channel(founder, name).creator = founder
            /\ \A who \in Channel(n, name).members \ {founder} :
                  \/ Outsider(founder, name, who)
                  \/ Approved(founder, name, who) /\ who \in Channel(founder, name).members

\* A node that never lost its connection, or a packet, from the founder ends up with
\* the founder's list of members, but for itself (a member is not told to list
\* itself) and for those whom another node than the founder approved.
MembersSettle ==
    <>[] \A n \in Node, name \in Name :
        IsGroup(n, name) =>
            LET founder == Channel(n, name).creator IN
            <<founder, n>> \notin cut =>
                \A who \in Node \ {n} :
                    \/ Outsider(founder, name, who)
                    \/ who \in Channel(n, name).members <=> who \in Channel(founder, name).members

\* A request that is on its way to a node is shown there unless a packet is lost,
\* even if the popup was open, or just closed, or other requests were answered.
RequestShown ==
    \A i \in {j \in Inputs : j.do = "request"} :
        OnWire(i.by, i.owner, JoinReq(i.name, i.by))
            ~> \/ show_join_requests[i.owner] /\ <<i.name, i.by>> \in pending_reqs[i.owner]
               \/ <<i.by, i.owner>> \in cut

\* A message with a tick ends up on the screen of every node its author stayed
\* connected to and no packet to which was lost, in a channel of its name, which is
\* opened if need be.
SentArrives ==
    <>[] \A i \in Inputs : i.do = "line" /\ status[i.by][i.id] = "Sent" =>
            \A p \in FirstConns[i.by] : <<i.by, p>> \notin cut => status[p][i.id] # "absent"
=============================================================================
