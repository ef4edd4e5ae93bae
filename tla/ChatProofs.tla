----------------------------- MODULE ChatProofs -----------------------------
(***************************************************************************)
(* Proofs about Chat for any nodes, messages, channels and users' inputs,  *)
(* any first peers and connections and any changes of them.                *)
(***************************************************************************)
EXTENDS Chat, ListLemmas

(***************************************************************************)
(* What the tasks may be doing and the queues may hold                     *)
(***************************************************************************)
\* n has ordered that who be approved for the group called name, when td is still to come.
Allowed(td, n, name, who) ==
    \E i \in Inputs \ td : i.by = n /\ i.do = "approve" /\ i.name = name /\ i.who = who

\* From n's mesh loop, the calls of a command from one of them on.
Starting(id, ch) == {Say(id, ch), Command(id, ch)}
Sending(id, ch) ==
    {<<[call |-> "peer_count"], ToAll(Chat(id, ch)), Tick(id)>>, <<ToAll(Chat(id, ch)), Tick(id)>>}
Ticking(id) == <<Tick(id)>>
Announcing(n, name) == <<ToAll(Announcement(name, n))>>
Approving(name, who) ==
    {<<On("remove_pending_request", name, who), ToAll(Approval(name, who))>>,
     <<ToAll(Approval(name, who))>>}
Refusing(name, who) == <<ToOne(who, Denial(name, who))>>

MeshRun(td, n, s) ==
    \/ s = <<>>
    \/ \E id \in Msg, ch \in Name :
          Says(n, id) /\ (s \in Starting(id, ch) \/ s \in Sending(id, ch) \/ s = Ticking(id))
    \/ \E name \in Name : s = CreateGroup(n, name) \/ s = Announcing(n, name)
    \/ \E name \in Name, p \in Node : s = RequestJoin(n, name, p)
    \/ \E name \in Name, who \in Node :
          Allowed(td, n, name, who) /\ (s = ApproveJoin(name, who) \/ s \in Approving(name, who))
    \/ \E name \in Name, who \in Node : s = DenyJoin(name, who) \/ s = Refusing(name, who)

\* The calls that n's read loop for p has still to make for a packet.
Requested(name, who) ==
    {<<On("group_add_pending", name, who), On("add_pending_request", name, who),
       Event(Asks(name, who))>>,
     <<On("add_pending_request", name, who), Event(Asks(name, who))>>,
     <<Event(Asks(name, who))>>}
Joined == Event([is |-> "GroupJoinApproved"])
Joining(name) == {<<[call |-> "add_channel", name |-> name], Joined>>, <<Joined>>}
Founding(name, p) == <<AddGroup(name, p)>>
Listing(name, who) == <<On("group_approve", name, who)>>

ReadRun(td, n, p, s) ==
    \/ s = <<>>
    \/ /\ n # p
       /\ \/ \E id \in Msg, ch \in Name : Says(p, id) /\ s = <<Push(id, ch)>>
          \/ \E name \in Name : s = Founding(name, p) \/ s \in Joining(name)
          \/ \E name \in Name, who \in Node : s \in Requested(name, who)
          \/ \E name \in Name, who \in Node : Allowed(td, p, name, who) /\ s = Listing(name, who)

\* The calls of n's terminal, when it has the channels d and a is on screen.
Clearing(i) == <<[call |-> "clear_unread", index |-> i]>>
Selecting == <<[call |-> "select_last"]>>
Entering(name) == <<[call |-> "add_channel", name |-> name], [call |-> "select_last"]>>
Noting(name, who) == <<On("add_pending_request", name, who)>>
Remarking == <<Push(System, FirstNames[1])>>

TermRun(d, a, s) ==
    \/ s = <<>>
    \/ \E i \in d : s = Select(i) \/ (s = Clearing(i) /\ i = a)
    \/ \E name \in Name : s = Entering(name)
    \/ s = Selecting
    \/ \E name \in Name, who \in Node : s = Noting(name, who)
    \/ s = Remarking

RunOK ==
    /\ DOMAIN run = Node
    /\ \A n \in Node :
          /\ DOMAIN run[n] = Task
          /\ MeshRun(todo, n, run[n][Mesh])
          /\ TermRun(DOMAIN channels[n], active[n], run[n][Terminal])
          /\ \A p \in Node : ReadRun(todo, n, p, run[n][p])

\* From q to p, at n's terminal, and from n's terminal to its mesh loop.
AllowedBy(td, n) == {x \in Name \X Node : Allowed(td, n, x[1], x[2])}
Packets(td, q) ==
    {Chat(x[1], x[2]) : x \in {y \in Msg \X Name : Says(q, y[1])}}
    \cup {Announcement(x, q) : x \in Name}
    \cup {JoinReq(x[1], x[2]) : x \in Name \X Node}
    \cup {Approval(x[1], x[2]) : x \in AllowedBy(td, q)}
    \cup {Denial(x[1], x[2]) : x \in Name \X Node}

Events ==
    {Asks(x[1], x[2]) : x \in Name \X Node}
    \cup {[is |-> x] : x \in {"GroupJoinApproved", "PeerJoined", "PeerLeft"}}

LineOrder(do, id, ch) == [do |-> do, id |-> id, channel |-> ch]
GroupOrder(name) == [do |-> "group", name |-> name]
RequestOrder(name, owner) == [do |-> "request", name |-> name, owner |-> owner]
AnswerOrder(verdict, name, who) == [do |-> verdict, name |-> name, who |-> who]
Cmds(td, n) ==
    {LineOrder(x[1], x[2], x[3]) : x \in {y \in {"say", "cmd"} \X Msg \X Name : Says(n, y[2])}}
    \cup {GroupOrder(x) : x \in Name}
    \cup {RequestOrder(x[1], x[2]) : x \in Name \X Node}
    \cup {AnswerOrder("approve", x[1], x[2]) : x \in AllowedBy(td, n)}
    \cup {AnswerOrder("deny", x[1], x[2]) : x \in Name \X Node}

WireOK ==
    /\ DOMAIN wire = Node
    /\ \A q \in Node : /\ DOMAIN wire[q] = Node /\ wire[q][q] = <<>>
                      /\ \A p \in Node : wire[q][p] \in Seq(Packets(todo, q))
EventsOK == DOMAIN events = Node /\ \A n \in Node : events[n] \in Seq(Events)
CmdsOK == DOMAIN cmds = Node /\ \A n \in Node : cmds[n] \in Seq(Cmds(todo, n))

QueuesOK == WireOK /\ EventsOK /\ CmdsOK /\ todo \subseteq Inputs

NoSelf == \A n \in Node : n \notin conns[n]

(***************************************************************************)
(* A message, from the line typed to the tick                              *)
(***************************************************************************)
Unsaid(id) == \E i \in todo : i.do = "line" /\ i.id = id
Speaks(c, id) == c.do \in {"say", "cmd"} /\ c.id = id
Ordered(n, id) == \E i \in DOMAIN cmds[n] : Speaks(cmds[n][i], id)
OrderedOnce(n, id) ==
    \A i, j \in DOMAIN cmds[n] : Speaks(cmds[n][i], id) /\ Speaks(cmds[n][j], id) => i = j
Talks(s, id) ==
    s = Ticking(id) \/ \E ch \in Name : s \in Starting(id, ch) \/ s \in Sending(id, ch)

\* A copy of n's message is at another node or under way.
Out(n, id) ==
    \E p \in Node \ {n} :
        \/ status[p][id] # "absent"
        \/ \E ch \in Name : OnWire(n, p, Chat(id, ch)) \/ run[p][n] = <<Push(id, ch)>>

Told(n, id) ==
    /\ Unsaid(id) \/ Ordered(n, id) =>
          ~Talks(run[n][Mesh], id) /\ status[n][id] = "absent" /\ ~Out(n, id)
    /\ Unsaid(id) => ~Ordered(n, id)
    /\ OrderedOnce(n, id)
    /\ \A ch \in Name :
          /\ run[n][Mesh] \in Starting(id, ch) => ~Out(n, id)
          /\ run[n][Mesh] \in Sending(id, ch) => ~Out(n, id) /\ status[n][id] # "absent"
    /\ run[n][Mesh] = Ticking(id) => status[n][id] # "absent"
    /\ Out(n, id) => status[n][id] = "Sent" \/ run[n][Mesh] = Ticking(id)

TicksOK == \A n \in Node, id \in Msg : Says(n, id) => Told(n, id)

(***************************************************************************)
(* A group, from its announcement to its members                           *)
(***************************************************************************)
\* In a list s of channels: the group called name that f created, and its members.
InGroup(s, name, f) == \E i \in DOMAIN s : s[i].name = name /\ s[i].creator = f
Member(s, name, w) ==
    \E i \in DOMAIN s : s[i].name = name /\ s[i].creator # Nobody /\ w \in s[i].members

\* w may be listed in the group called name that q created.
Vouched(q, name, w) ==
    \/ w = q \/ Outsider(q, name, w)
    \/ Approved(q, name, w) /\ Member(channels[q], name, w)

Knows(p, q, name) == InGroup(channels[p], name, q) \/ run[p][q] = Founding(name, q)

\* The group called name that q creates, as p and what is on the way to p know it.
GroupOK(q, p, name) ==
    /\ Knows(p, q, name) \/ OnWire(q, p, Announcement(name, q))
       \/ run[q][Mesh] = Announcing(q, name) => InGroup(channels[q], name, q)
    /\ \A w \in Node :
          /\ InGroup(channels[p], name, q) /\ Member(channels[p], name, w) => Vouched(q, name, w)
          /\ run[q][Mesh] \in Approving(name, w) /\ InGroup(channels[q], name, q)
                => Member(channels[q], name, w)
          /\ run[p][q] = Listing(name, w) /\ InGroup(channels[p], name, q)
                => Member(channels[q], name, w)
          /\ \A i \in DOMAIN wire[q][p] :
                /\ wire[q][p][i] = Approval(name, w)
                /\ \/ Knows(p, q, name)
                   \/ \E j \in DOMAIN wire[q][p] : j < i /\ wire[q][p][j] = Announcement(name, q)
                => Member(channels[q], name, w)

GroupsOK == \A q, p \in Node, name \in Name : GroupOK(q, p, name)

IInv == TypeOK /\ RunOK /\ QueuesOK /\ NoSelf /\ ActiveIsRead /\ TicksOK

(***************************************************************************)
(* One entry of a table of tables                                          *)
(***************************************************************************)
\* An assignment to f[a][b] changes that entry and no other.
LEMMA Entry ==
    ASSUME NEW A, NEW B, NEW f, DOMAIN f = A, \A x \in A : DOMAIN f[x] = B,
           NEW a \in A, NEW b \in B, NEW v, NEW g, g = [f EXCEPT ![a][b] = v]
    PROVE  /\ DOMAIN g = A /\ \A x \in A : DOMAIN g[x] = B
           /\ \A x \in A, y \in B : g[x][y] = IF x = a /\ y = b THEN v ELSE f[x][y]
OBVIOUS

\* Sequences over a set are sequences over a larger one.
LEMMA SeqGrows == ASSUME NEW S, NEW T, S \subseteq T, NEW s \in Seq(S) PROVE s \in Seq(T)
OBVIOUS

(***************************************************************************)
(* The calls of the tasks, one by one                                      *)
(***************************************************************************)
\* What each call is called.
LEMMA CallNames ==
    /\ \A id, ch : Push(id, ch).call = "push_message"
    /\ \A m : ToAll(m).call = "broadcast"
    /\ \A p, m : ToOne(p, m).call = "send_to"
    /\ \A id : Tick(id).call = "mark_sent"
    /\ \A name, f : AddGroup(name, f).call = "add_group_channel"
    /\ \A ev : Event(ev).call = "send_event"
    /\ \A call, name, who : On(call, name, who).call = call
BY DEF Push, ToAll, ToOne, Tick, AddGroup, Event, On

\* The arguments of each call.
LEMMA CallArgs ==
    /\ \A id, ch : Push(id, ch).id = id /\ Push(id, ch).channel = ch
    /\ \A m : ToAll(m).msg = m
    /\ \A p, m : ToOne(p, m).msg = m /\ ToOne(p, m).to = p
    /\ \A id : Tick(id).id = id
    /\ \A name, f : AddGroup(name, f).name = name /\ AddGroup(name, f).creator = f
    /\ \A ev : Event(ev).ev = ev
    /\ \A call, name, who : On(call, name, who).name = name /\ On(call, name, who).who = who
BY DEF Push, ToAll, ToOne, Tick, AddGroup, Event, On

\* What a packet is, and carries.
LEMMA PacketArgs ==
    /\ \A id, ch : /\ Chat(id, ch).is = "Chat" /\ Chat(id, ch).id = id
                   /\ Chat(id, ch).channel = ch
    /\ \A name, f : /\ Announcement(name, f).is = "GroupAnnounce"
                    /\ Announcement(name, f).name = name /\ Announcement(name, f).creator = f
    /\ \A name, who : /\ JoinReq(name, who).is = "GroupJoinReq"
                      /\ JoinReq(name, who).name = name /\ JoinReq(name, who).who = who
    /\ \A name, who : /\ Approval(name, who).is = "GroupJoinApprove"
                      /\ Approval(name, who).name = name /\ Approval(name, who).who = who
    /\ \A name, who : Denial(name, who).is = "GroupJoinDeny"
BY DEF Chat, Announcement, JoinReq, Approval, Denial

\* Head and tail of sequences of one, two, three and four items.
LEMMA Short ==
    /\ \A a : <<a>> # <<>> /\ Head(<<a>>) = a /\ Tail(<<a>>) = <<>> /\ Len(<<a>>) = 1
    /\ \A a, b : /\ <<a, b>> # <<>> /\ Head(<<a, b>>) = a /\ Tail(<<a, b>>) = <<b>>
                  /\ Len(<<a, b>>) = 2
    /\ \A a, b, c : /\ <<a, b, c>> # <<>> /\ Head(<<a, b, c>>) = a /\ Tail(<<a, b, c>>) = <<b, c>>
                    /\ Len(<<a, b, c>>) = 3
    /\ \A a, b, c, d : /\ <<a, b, c, d>> # <<>> /\ Head(<<a, b, c, d>>) = a
                       /\ Tail(<<a, b, c, d>>) = <<b, c, d>> /\ Len(<<a, b, c, d>>) = 4
<1>1. \A a : <<a>> # <<>> /\ Head(<<a>>) = a /\ Tail(<<a>>) = <<>> /\ Len(<<a>>) = 1
  OBVIOUS
<1>2. \A a, b : /\ <<a, b>> # <<>> /\ Head(<<a, b>>) = a /\ Tail(<<a, b>>) = <<b>>
                /\ Len(<<a, b>>) = 2
  OBVIOUS
<1>3. \A a, b, c : /\ <<a, b, c>> # <<>> /\ Head(<<a, b, c>>) = a
                   /\ Tail(<<a, b, c>>) = <<b, c>> /\ Len(<<a, b, c>>) = 3
  OBVIOUS
<1>4. \A a, b, c, d : /\ <<a, b, c, d>> # <<>> /\ Head(<<a, b, c, d>>) = a
                      /\ Tail(<<a, b, c, d>>) = <<b, c, d>> /\ Len(<<a, b, c, d>>) = 4
  OBVIOUS
<1>5. QED
  BY <1>1, <1>2, <1>3, <1>4

\* The next call h of n's mesh loop, and what is left after it.
MeshCall(td, n, s, h, t) ==
    \/ /\ h.call = "push_message" /\ h.id \in Msg /\ h.channel \in Name /\ Says(n, h.id)
       /\ s \in Starting(h.id, h.channel) /\ t \in Sending(h.id, h.channel)
    \/ /\ h.call = "peer_count"
       /\ \E id \in Msg, ch \in Name :
             /\ Says(n, id) /\ s \in Sending(id, ch) /\ t \in Sending(id, ch)
    \/ /\ h.call = "broadcast"
       /\ \/ \E id \in Msg, ch \in Name :
                /\ Says(n, id) /\ h.msg = Chat(id, ch)
                /\ s \in Sending(id, ch) /\ t = Ticking(id)
          \/ \E name \in Name :
                h.msg = Announcement(name, n) /\ s = Announcing(n, name) /\ t = <<>>
          \/ \E name \in Name, who \in Node :
                /\ Allowed(td, n, name, who) /\ h.msg = Approval(name, who)
                /\ s \in Approving(name, who) /\ t = <<>>
    \/ /\ h.call = "mark_sent" /\ h.id \in Msg /\ Says(n, h.id) /\ s = Ticking(h.id) /\ t = <<>>
    \/ /\ h.call = "add_group_channel" /\ h.name \in Name
       /\ h.creator = n /\ s = CreateGroup(n, h.name) /\ t = Announcing(n, h.name)
    \/ /\ h.call = "send_to" /\ h.to \in Node /\ t = <<>>
       /\ \/ \E name \in Name : h.msg = JoinReq(name, n)
          \/ \E name \in Name : h.msg = Denial(name, h.to)
    \/ /\ h.call = "group_approve" /\ h.name \in Name /\ h.who \in Node
       /\ Allowed(td, n, h.name, h.who) /\ s = ApproveJoin(h.name, h.who)
       /\ t \in Approving(h.name, h.who)
    \/ /\ h.call = "remove_pending_request" /\ h.name \in Name /\ h.who \in Node
       /\ \/ /\ Allowed(td, n, h.name, h.who)
             /\ s \in Approving(h.name, h.who) /\ t \in Approving(h.name, h.who)
          \/ s = DenyJoin(h.name, h.who) /\ t = Refusing(h.name, h.who)

\* A mesh loop that has something to do makes one of these calls next.
LEMMA MeshHead ==
    ASSUME NEW td, NEW n \in Node, NEW s, MeshRun(td, n, s), s # <<>>
    PROVE  MeshCall(td, n, s, Head(s), Tail(s))
<1>1. ASSUME NEW id \in Msg, NEW ch \in Name, Says(n, id), s \in Starting(id, ch)
      PROVE  MeshCall(td, n, s, Head(s), Tail(s))
  <2>1. Head(s) = Push(id, ch) /\ Tail(s) \in Sending(id, ch)
    <3>1. CASE s = Say(id, ch)
      BY <3>1, Short DEF Say, Sending
    <3>2. CASE s = Command(id, ch)
      BY <3>2, Short DEF Command, Sending
    <3>3. QED
      BY <1>1, <3>1, <3>2 DEF Starting
  <2>2. QED
    BY <1>1, <2>1, CallNames, CallArgs DEF MeshCall
<1>2. ASSUME NEW id \in Msg, NEW ch \in Name, Says(n, id), s \in Sending(id, ch)
      PROVE  MeshCall(td, n, s, Head(s), Tail(s))
  <2>1. CASE s = <<[call |-> "peer_count"], ToAll(Chat(id, ch)), Tick(id)>>
    <3>1. Head(s) = [call |-> "peer_count"] /\ Tail(s) \in Sending(id, ch)
      BY <2>1, Short DEF Sending
    <3>2. Head(s).call = "peer_count"
      BY <3>1
    <3>3. QED
      BY <1>2, <3>1, <3>2 DEF MeshCall
  <2>2. CASE s = <<ToAll(Chat(id, ch)), Tick(id)>>
    <3>1. Head(s) = ToAll(Chat(id, ch)) /\ Tail(s) = Ticking(id)
      BY <2>2, Short DEF Ticking
    <3>2. QED
      BY <1>2, <3>1, CallNames, CallArgs DEF MeshCall
  <2>3. QED
    BY <1>2, <2>1, <2>2 DEF Sending
<1>3. ASSUME NEW id \in Msg, Says(n, id), s = Ticking(id)
      PROVE  MeshCall(td, n, s, Head(s), Tail(s))
  <2>1. Head(s) = Tick(id) /\ Tail(s) = <<>>
    BY <1>3, Short DEF Ticking
  <2>2. QED
    BY <1>3, <2>1, CallNames, CallArgs DEF MeshCall
<1>4. ASSUME NEW name \in Name, s = CreateGroup(n, name)
      PROVE  MeshCall(td, n, s, Head(s), Tail(s))
  <2>1. Head(s) = AddGroup(name, n) /\ Tail(s) = Announcing(n, name)
    BY <1>4, Short DEF CreateGroup, Announcing
  <2>2. QED
    BY <1>4, <2>1, CallNames, CallArgs DEF MeshCall
<1>5. ASSUME NEW name \in Name, s = Announcing(n, name)
      PROVE  MeshCall(td, n, s, Head(s), Tail(s))
  <2>1. Head(s) = ToAll(Announcement(name, n)) /\ Tail(s) = <<>>
    BY <1>5, Short DEF Announcing
  <2>2. QED
    BY <1>5, <2>1, CallNames, CallArgs DEF MeshCall
<1>6. ASSUME NEW name \in Name, NEW p \in Node, s = RequestJoin(n, name, p)
      PROVE  MeshCall(td, n, s, Head(s), Tail(s))
  <2>1. Head(s) = ToOne(p, JoinReq(name, n)) /\ Tail(s) = <<>>
    BY <1>6, Short DEF RequestJoin
  <2>2. QED
    BY <1>6, <2>1, CallNames, CallArgs DEF MeshCall
<1>7. ASSUME NEW name \in Name, NEW who \in Node,
             Allowed(td, n, name, who), s = ApproveJoin(name, who)
      PROVE  MeshCall(td, n, s, Head(s), Tail(s))
  <2>1. Head(s) = On("group_approve", name, who) /\ Tail(s) \in Approving(name, who)
    BY <1>7, Short DEF ApproveJoin, Approving
  <2>2. QED
    BY <1>7, <2>1, CallNames, CallArgs DEF MeshCall
<1>8. ASSUME NEW name \in Name, NEW who \in Node,
             Allowed(td, n, name, who), s \in Approving(name, who)
      PROVE  MeshCall(td, n, s, Head(s), Tail(s))
  <2>1. CASE s = <<On("remove_pending_request", name, who), ToAll(Approval(name, who))>>
    <3>1. /\ Head(s) = On("remove_pending_request", name, who)
          /\ Tail(s) \in Approving(name, who)
      BY <2>1, Short DEF Approving
    <3>2. QED
      BY <1>8, <3>1, CallNames, CallArgs DEF MeshCall
  <2>2. CASE s = <<ToAll(Approval(name, who))>>
    <3>1. Head(s) = ToAll(Approval(name, who)) /\ Tail(s) = <<>>
      BY <2>2, Short
    <3>2. QED
      BY <1>8, <3>1, CallNames, CallArgs DEF MeshCall
  <2>3. QED
    BY <1>8, <2>1, <2>2 DEF Approving
<1>9. ASSUME NEW name \in Name, NEW who \in Node, s = DenyJoin(name, who)
      PROVE  MeshCall(td, n, s, Head(s), Tail(s))
  <2>1. Head(s) = On("remove_pending_request", name, who) /\ Tail(s) = Refusing(name, who)
    BY <1>9, Short DEF DenyJoin, Refusing
  <2>2. QED
    BY <1>9, <2>1, CallNames, CallArgs DEF MeshCall
<1>10. ASSUME NEW name \in Name, NEW who \in Node, s = Refusing(name, who)
       PROVE  MeshCall(td, n, s, Head(s), Tail(s))
  <2>1. Head(s) = ToOne(who, Denial(name, who)) /\ Tail(s) = <<>>
    BY <1>10, Short DEF Refusing
  <2>2. QED
    BY <1>10, <2>1, CallNames, CallArgs DEF MeshCall
<1>11. QED
  BY <1>1, <1>2, <1>3, <1>4, <1>5, <1>6, <1>7, <1>8, <1>9, <1>10 DEF MeshRun

\* The next call h of n's read loop for p, and what is left after it.
ReadCall(td, n, p, s, h, t) ==
    \/ /\ h.call = "push_message" /\ h.id \in Msg /\ h.channel \in Name /\ Says(p, h.id)
       /\ s = <<Push(h.id, h.channel)>> /\ t = <<>>
    \/ /\ h.call = "add_group_channel" /\ h.name \in Name
       /\ h.creator = p /\ s = Founding(h.name, p) /\ t = <<>>
    \/ /\ h.call \in {"group_add_pending", "add_pending_request"}
       /\ h.name \in Name /\ h.who \in Node /\ t \in Requested(h.name, h.who)
    \/ h.call = "send_event" /\ h.ev \in Events /\ t = <<>>
    \/ h.call = "add_channel" /\ h.name \in Name /\ t \in Joining(h.name)
    \/ /\ h.call = "group_approve" /\ h.name \in Name /\ h.who \in Node
       /\ Allowed(td, p, h.name, h.who) /\ s = Listing(h.name, h.who) /\ t = <<>>

\* A read loop that has something to do makes one of these calls next.
LEMMA ReadHead ==
    ASSUME NEW td, NEW n \in Node, NEW p \in Node, NEW s, ReadRun(td, n, p, s), s # <<>>
    PROVE  n # p /\ ReadCall(td, n, p, s, Head(s), Tail(s))
<1>1. ASSUME NEW id \in Msg, NEW ch \in Name, Says(p, id), s = <<Push(id, ch)>>
      PROVE  ReadCall(td, n, p, s, Head(s), Tail(s))
  <2>1. Head(s) = Push(id, ch) /\ Tail(s) = <<>>
    BY <1>1, Short
  <2>2. QED
    BY <1>1, <2>1, CallNames, CallArgs DEF ReadCall
<1>2. ASSUME NEW name \in Name, s = Founding(name, p)
      PROVE  ReadCall(td, n, p, s, Head(s), Tail(s))
  <2>1. Head(s) = AddGroup(name, p) /\ Tail(s) = <<>>
    BY <1>2, Short DEF Founding
  <2>2. QED
    BY <1>2, <2>1, CallNames, CallArgs DEF ReadCall
<1>3. ASSUME NEW name \in Name, NEW who \in Node, s \in Requested(name, who)
      PROVE  ReadCall(td, n, p, s, Head(s), Tail(s))
  <2>1. CASE s = <<Event(Asks(name, who))>>
    <3>1. Head(s) = Event(Asks(name, who)) /\ Tail(s) = <<>>
      BY <2>1, Short
    <3>2. <<name, who>> \in Name \X Node
      OBVIOUS
    <3>3. Asks(name, who) \in Events
      BY <3>2 DEF Events
    <3>4. QED
      BY <3>1, <3>3, CallNames, CallArgs DEF ReadCall
  <2>2. CASE s # <<Event(Asks(name, who))>>
    <3>1. /\ \/ Head(s) = On("group_add_pending", name, who)
             \/ Head(s) = On("add_pending_request", name, who)
          /\ Tail(s) \in Requested(name, who)
      <4> DEFINE one == <<Event(Asks(name, who))>>
                 two == <<On("add_pending_request", name, who), Event(Asks(name, who))>>
                 three == <<On("group_add_pending", name, who),
                            On("add_pending_request", name, who), Event(Asks(name, who))>>
      <4>1. Head(two) = On("add_pending_request", name, who) /\ Tail(two) = one
        BY Short
      <4>2. Head(three) = On("group_add_pending", name, who) /\ Tail(three) = two
        BY Short
      <4>3. Requested(name, who) = {three, two, one}
        BY DEF Requested
      <4> HIDE DEF one, two, three
      <4>4. s = two \/ s = three
        BY <1>3, <2>2, <4>3 DEF one
      <4>5. QED
        BY <4>1, <4>2, <4>3, <4>4
    <3>2. QED
      BY <1>3, <3>1, CallNames, CallArgs DEF ReadCall
  <2>3. QED
    BY <2>1, <2>2
<1>4. ASSUME NEW name \in Name, s \in Joining(name)
      PROVE  ReadCall(td, n, p, s, Head(s), Tail(s))
  <2>1. CASE s = <<Joined>>
    <3>1. Head(s) = Joined /\ Tail(s) = <<>>
      BY <2>1, Short
    <3>2. Joined.call = "send_event" /\ Joined.ev \in Events
      BY CallNames, CallArgs DEF Joined, Events
    <3>3. QED
      BY <3>1, <3>2 DEF ReadCall
  <2>2. CASE s # <<Joined>>
    <3>1. Head(s) = [call |-> "add_channel", name |-> name] /\ Tail(s) \in Joining(name)
      BY <1>4, <2>2, Short DEF Joining
    <3>2. Head(s).call = "add_channel" /\ Head(s).name = name
      BY <3>1
    <3>3. QED
      BY <3>1, <3>2 DEF ReadCall
  <2>3. QED
    BY <2>1, <2>2
<1>5. ASSUME NEW name \in Name, NEW who \in Node, Allowed(td, p, name, who), s = Listing(name, who)
      PROVE  ReadCall(td, n, p, s, Head(s), Tail(s))
  <2>1. Head(s) = On("group_approve", name, who) /\ Tail(s) = <<>>
    BY <1>5, Short DEF Listing
  <2>2. QED
    BY <1>5, <2>1, CallNames, CallArgs DEF ReadCall
<1>6. QED
  BY <1>1, <1>2, <1>3, <1>4, <1>5 DEF ReadRun

\* The next call h of n's terminal, and what is left after it.
TermCall(d, a, s, h, t) ==
    \/ /\ h.call = "push_message" /\ h.id = System /\ h.channel \in Name /\ t = <<>>
    \/ /\ h.call = "add_channel" /\ h.name \in Name /\ t = Selecting
    \/ /\ h.call = "add_pending_request" /\ h.name \in Name /\ h.who \in Node
       /\ t = <<>>
    \/ h.call = "set_active" /\ h.index \in d /\ t = Clearing(h.index)
    \/ h.call = "clear_unread" /\ h.index \in d /\ h.index = a /\ s = Clearing(a) /\ t = <<>>
    \/ h.call = "select_last" /\ t = <<>>

\* A terminal that has something to do makes one of these calls next.
LEMMA TermHead ==
    ASSUME ChatAssumption, NEW d, NEW a, NEW s,
           TermRun(d, a, s), s # <<>>
    PROVE  TermCall(d, a, s, Head(s), Tail(s))
<1>1. ASSUME NEW i \in d, s = Select(i) \/ (s = Clearing(i) /\ i = a)
      PROVE  TermCall(d, a, s, Head(s), Tail(s))
  <2>1. CASE s = Select(i)
    <3>1. Head(s) = [call |-> "set_active", index |-> i] /\ Tail(s) = Clearing(i)
      BY <2>1, Short DEF Select, Clearing
    <3>2. Head(s).call = "set_active" /\ Head(s).index = i
      BY <3>1
    <3>3. QED
      BY <3>1, <3>2 DEF TermCall
  <2>2. CASE s = Clearing(i) /\ i = a
    <3>1. Head(s) = [call |-> "clear_unread", index |-> i] /\ Tail(s) = <<>>
      BY <2>2, Short DEF Clearing
    <3>2. Head(s).call = "clear_unread" /\ Head(s).index = i
      BY <3>1
    <3>3. QED
      BY <2>2, <3>1, <3>2 DEF TermCall
  <2>3. QED
    BY <1>1, <2>1, <2>2
<1>2. ASSUME NEW name \in Name, s = Entering(name)
      PROVE  TermCall(d, a, s, Head(s), Tail(s))
  <2>1. Head(s) = [call |-> "add_channel", name |-> name] /\ Tail(s) = Selecting
    BY <1>2, Short DEF Entering, Selecting
  <2>2. Head(s).call = "add_channel" /\ Head(s).name = name
    BY <2>1
  <2>3. QED
    BY <2>1, <2>2 DEF TermCall
<1>3. ASSUME s = Selecting
      PROVE  TermCall(d, a, s, Head(s), Tail(s))
  <2>1. Head(s) = [call |-> "select_last"] /\ Tail(s) = <<>>
    BY <1>3, Short DEF Selecting
  <2>2. Head(s).call = "select_last"
    BY <2>1
  <2>3. QED
    BY <2>1, <2>2 DEF TermCall
<1>4. ASSUME NEW name \in Name, NEW who \in Node, s = Noting(name, who)
      PROVE  TermCall(d, a, s, Head(s), Tail(s))
  <2>1. Head(s) = On("add_pending_request", name, who) /\ Tail(s) = <<>>
    BY <1>4, Short DEF Noting
  <2>2. QED
    BY <1>4, <2>1, CallNames, CallArgs DEF TermCall
<1>5. ASSUME s = Remarking
      PROVE  TermCall(d, a, s, Head(s), Tail(s))
  <2>1. Head(s) = Push(System, FirstNames[1]) /\ Tail(s) = <<>>
    BY <1>5, Short DEF Remarking
  <2>2. FirstNames[1] \in Name
    BY DEF ChatAssumption
  <2>3. QED
    BY <2>1, <2>2, CallNames, CallArgs DEF TermCall
<1>6. QED
  BY <1>1, <1>2, <1>3, <1>4, <1>5 DEF TermRun

\* What is left of a task's calls is again something it may be doing.
LEMMA MeshTail ==
    ASSUME NEW td, NEW n \in Node, NEW s, MeshRun(td, n, s), s # <<>>
    PROVE  MeshRun(td, n, Tail(s))
<1> DEFINE h == Head(s)  t == Tail(s)
<1>1. MeshCall(td, n, s, h, t)
  BY MeshHead
<1> HIDE DEF h, t
<1>2. \/ t = <<>>
      \/ \E id \in Msg, ch \in Name : Says(n, id) /\ (t \in Sending(id, ch) \/ t = Ticking(id))
      \/ \E name \in Name : t = Announcing(n, name)
      \/ \E name \in Name, who \in Node : Allowed(td, n, name, who) /\ t \in Approving(name, who)
      \/ \E name \in Name, who \in Node : t = Refusing(name, who)
  <2>1. CASE h.call = "remove_pending_request"
    <3>1. /\ h.name \in Name /\ h.who \in Node
          /\ \/ Allowed(td, n, h.name, h.who) /\ t \in Approving(h.name, h.who)
             \/ t = Refusing(h.name, h.who)
      BY <1>1, <2>1 DEF MeshCall
    <3>2. QED
      BY <3>1
  <2>2. CASE h.call # "remove_pending_request"
    BY <1>1, <2>2 DEF MeshCall
  <2>3. QED
    BY <2>1, <2>2
<1>3. QED
  BY <1>2 DEF MeshRun, t

\* What is left of a read loop's calls is again something it may be doing.
LEMMA ReadTail ==
    ASSUME NEW td, NEW n \in Node, NEW p \in Node, NEW s, ReadRun(td, n, p, s), s # <<>>
    PROVE  ReadRun(td, n, p, Tail(s))
<1>1. n # p /\ ReadCall(td, n, p, s, Head(s), Tail(s))
  BY ReadHead
<1>2. QED
  BY <1>1 DEF ReadCall, ReadRun

\* Approvals made stay made.
LEMMA AllowedStays ==
    ASSUME NEW td, NEW tu, tu \subseteq td
    PROVE  /\ \A n, name, who : Allowed(td, n, name, who) => Allowed(tu, n, name, who)
           /\ \A n : AllowedBy(td, n) \subseteq AllowedBy(tu, n)
BY DEF Allowed, AllowedBy

\* As inputs are taken, a task may go on with what it was doing.
LEMMA RunsStay ==
    ASSUME NEW td, NEW tu, tu \subseteq td, NEW n \in Node, NEW s
    PROVE  /\ MeshRun(td, n, s) => MeshRun(tu, n, s)
           /\ \A p \in Node : ReadRun(td, n, p, s) => ReadRun(tu, n, p, s)
           /\ \A d, e, a : d \subseteq e /\ TermRun(d, a, s) => TermRun(e, a, s)
<1>1. MeshRun(td, n, s) => MeshRun(tu, n, s)
  BY AllowedStays DEF MeshRun
<1>2. \A p \in Node : ReadRun(td, n, p, s) => ReadRun(tu, n, p, s)
  BY AllowedStays DEF ReadRun
<1>3. \A d, e, a : d \subseteq e /\ TermRun(d, a, s) => TermRun(e, a, s)
  BY DEF TermRun
<1>4. QED
  BY <1>1, <1>2, <1>3

\* As inputs are taken, packets and commands stay what they were.
LEMMA QueuesStay ==
    ASSUME NEW td, NEW tu, tu \subseteq td, NEW n \in Node
    PROVE  Packets(td, n) \subseteq Packets(tu, n) /\ Cmds(td, n) \subseteq Cmds(tu, n)
<1>1. AllowedBy(td, n) \subseteq AllowedBy(tu, n)
  BY AllowedStays
<1>2. QED
  BY <1>1 DEF Packets, Cmds

(***************************************************************************)
(* Steps of a task                                                         *)
(***************************************************************************)
\* Task k of n is left with the calls v, every other task with what it had.
Leaves(n, k, v) ==
    /\ DOMAIN run' = Node /\ \A m \in Node : DOMAIN run'[m] = Task
    /\ \A m \in Node, j \in Task :
          run'[m][j] = IF m = n /\ j = k THEN v ELSE run[m][j]

\* A step that changes one task's calls leaves every other task with its own.
LEMMA Left ==
    ASSUME RunOK, NEW n \in Node, NEW k \in Task
    PROVE  /\ \A v : run' = [run EXCEPT ![n][k] = v] => Leaves(n, k, v)
           /\ Return(n, k) => Leaves(n, k, Tail(run[n][k]))
           /\ Stop(n, k) => Leaves(n, k, <<>>)
<1>1. ASSUME NEW v, run' = [run EXCEPT ![n][k] = v] PROVE Leaves(n, k, v)
  BY <1>1, Entry DEF RunOK, Leaves
<1>2. Return(n, k) => run' = [run EXCEPT ![n][k] = Tail(run[n][k])]
  BY DEF Return, RunOK
<1>3. Stop(n, k) => run' = [run EXCEPT ![n][k] = <<>>]
  BY DEF Stop
<1>4. QED
  BY <1>1, <1>2, <1>3

\* The mesh loop and the terminal are two tasks, and no read loops.
LEMMA TaskIs ==
    ASSUME ChatAssumption
    PROVE  /\ Mesh \in Task /\ Terminal \in Task /\ Node \subseteq Task /\ Mesh # Terminal
           /\ Mesh \notin Node /\ Terminal \notin Node
BY DEF ChatAssumption, Task, Mesh, Terminal

\* The tasks stay within their runs if the one that moves does, and the terminal
\* that clears a channel has it on screen.
LEMMA RunKeeps ==
    ASSUME ChatAssumption, RunOK, todo' \subseteq todo,
           \A m \in Node : DOMAIN channels[m] \subseteq DOMAIN (channels'[m]),
           NEW n \in Node, NEW k \in Task, NEW v, Leaves(n, k, v),
           \A m \in Node : active'[m] = active[m] \/ (m = n /\ k = Terminal),
           k = Mesh => MeshRun(todo', n, v),
           k = Terminal => TermRun(DOMAIN (channels'[n]), active'[n], v),
           \A p \in Node : k = p => ReadRun(todo', n, p, v)
    PROVE  RunOK'
<1>1. DOMAIN run' = Node /\ \A m \in Node : DOMAIN run'[m] = Task
  BY DEF Leaves
<1> SUFFICES ASSUME NEW m \in Node
             PROVE  /\ MeshRun(todo', m, run'[m][Mesh])
                    /\ TermRun(DOMAIN (channels'[m]), active'[m], run'[m][Terminal])
                    /\ \A p \in Node : ReadRun(todo', m, p, run'[m][p])
  BY <1>1 DEF RunOK
<1>2. MeshRun(todo', m, run'[m][Mesh])
  BY TaskIs, RunsStay DEF Leaves, RunOK
<1>3. TermRun(DOMAIN (channels'[m]), active'[m], run'[m][Terminal])
  <2>1. CASE m = n /\ k = Terminal
    BY <2>1, TaskIs DEF Leaves
  <2>2. CASE ~(m = n /\ k = Terminal)
    <3>1. run'[m][Terminal] = run[m][Terminal] /\ active'[m] = active[m]
      BY <2>2, TaskIs DEF Leaves
    <3>2. TermRun(DOMAIN channels[m], active[m], run[m][Terminal])
      BY DEF RunOK
    <3>3. TermRun(DOMAIN (channels'[m]), active[m], run[m][Terminal])
      BY <3>2, RunsStay
    <3>4. QED
      BY <3>1, <3>3
  <2>3. QED
    BY <2>1, <2>2
<1>4. ASSUME NEW p \in Node PROVE ReadRun(todo', m, p, run'[m][p])
  <2>1. CASE m = n /\ k = p
    BY <2>1, TaskIs DEF Leaves
  <2>2. CASE ~(m = n /\ k = p)
    <3>1. run'[m][p] = run[m][p]
      BY <2>2, TaskIs DEF Leaves
    <3>2. ReadRun(todo, m, p, run[m][p])
      BY DEF RunOK
    <3>3. QED
      BY <3>1, <3>2, RunsStay
  <2>3. QED
    BY <2>1, <2>2
<1>5. QED
  BY <1>2, <1>3, <1>4

\* No task moves.
LEMMA RunStays ==
    ASSUME RunOK, run' = run, channels' = channels, active' = active, todo' \subseteq todo
    PROVE  RunOK'
<1> SUFFICES ASSUME NEW m \in Node
             PROVE  /\ MeshRun(todo', m, run'[m][Mesh])
                    /\ TermRun(DOMAIN (channels'[m]), active'[m], run'[m][Terminal])
                    /\ \A p \in Node : ReadRun(todo', m, p, run'[m][p])
  BY DEF RunOK
<1>1. QED
  BY RunsStay DEF RunOK

(***************************************************************************)
(* Lists of channels                                                       *)
(***************************************************************************)
Distinct(s) == \A i, j \in DOMAIN s : s[i].name = s[j].name => i = j
IsList(s) == s \in Seq(ChannelSet) /\ Distinct(s)

\* t is s after some calls: its channels, perhaps with more members, and new ones.
Grown(s, t) ==
    /\ IsList(t) /\ DOMAIN s \subseteq DOMAIN t
    /\ \A i \in DOMAIN s : /\ t[i].name = s[i].name /\ t[i].creator = s[i].creator
                           /\ s[i].members \subseteq t[i].members

\* s and t have the same groups, and the same members of each.
SameGroups(s, t) == \A name, f : f # Nobody => (InGroup(t, name, f) <=> InGroup(s, name, f))
SameMembers(s, t) == \A name, w : Member(t, name, w) <=> Member(s, name, w)
Quiet(s, t) == SameGroups(s, t) /\ SameMembers(s, t)

\* A group in a list, and a member of it, is in the grown list too.
LEMMA GroupsStay ==
    ASSUME NEW s, NEW t, Grown(s, t), NEW name
    PROVE  /\ \A f : InGroup(s, name, f) => InGroup(t, name, f)
           /\ \A w : Member(s, name, w) => Member(t, name, w)
BY DEF Grown, InGroup, Member

\* The channel at i is replaced.
LEMMA ReplaceFacts ==
    ASSUME NEW s, IsList(s), NEW i \in DOMAIN s, NEW c \in ChannelSet,
           c.name = s[i].name, c.creator = s[i].creator, s[i].members \subseteq c.members
    PROVE  LET t == [s EXCEPT ![i] = c] IN
           /\ Grown(s, t) /\ DOMAIN t = DOMAIN s
           /\ SameGroups(s, t)
           /\ \A name, w : Member(t, name, w) <=>
                 \/ Member(s, name, w)
                 \/ name = c.name /\ c.creator # Nobody /\ w \in c.members
           /\ t[i] = c /\ \A j \in DOMAIN s \ {i} : t[j] = s[j]
<1> DEFINE t == [s EXCEPT ![i] = c]
<1>1. DOMAIN t = DOMAIN s /\ t[i] = c /\ \A j \in DOMAIN s \ {i} : t[j] = s[j]
  OBVIOUS
<1>2. t \in Seq(ChannelSet)
  BY DEF IsList
<1> HIDE DEF t
<1>3. \A j \in DOMAIN s : t[j].name = s[j].name /\ t[j].creator = s[j].creator
  BY <1>1
<1>4. \A j \in DOMAIN s : s[j].members \subseteq t[j].members
  BY <1>1
<1>5. Distinct(t)
  BY <1>1, <1>3 DEF IsList, Distinct
<1>6. SameGroups(s, t)
  BY <1>1, <1>3 DEF SameGroups, InGroup
<1>7. ASSUME NEW name, NEW w
      PROVE  Member(t, name, w) <=>
                \/ Member(s, name, w)
                \/ name = c.name /\ c.creator # Nobody /\ w \in c.members
  <2>1. ASSUME Member(t, name, w)
        PROVE  \/ Member(s, name, w)
               \/ name = c.name /\ c.creator # Nobody /\ w \in c.members
    BY <1>1, <2>1 DEF Member
  <2>2. Member(s, name, w) => Member(t, name, w)
    BY <1>1, <1>3, <1>4 DEF Member
  <2>3. name = c.name /\ c.creator # Nobody /\ w \in c.members => Member(t, name, w)
    BY <1>1 DEF Member
  <2>4. QED
    BY <2>1, <2>2, <2>3
<1>8. QED
  BY <1>1, <1>2, <1>3, <1>4, <1>5, <1>6, <1>7 DEF Grown, IsList, t

\* A channel with a new name is added.
LEMMA AddFacts ==
    ASSUME NEW s, IsList(s), NEW c \in ChannelSet, \A i \in DOMAIN s : s[i].name # c.name
    PROVE  LET t == Append(s, c) IN
           /\ Grown(s, t)
           /\ \A name, f : InGroup(t, name, f) <=>
                 InGroup(s, name, f) \/ (name = c.name /\ f = c.creator)
           /\ \A name, w : Member(t, name, w) <=>
                 \/ Member(s, name, w)
                 \/ name = c.name /\ c.creator # Nobody /\ w \in c.members
           /\ \A j \in DOMAIN s : t[j] = s[j]
<1> DEFINE t == Append(s, c)
<1>1. /\ t \in Seq(ChannelSet) /\ Len(s) \in Nat
      /\ DOMAIN t = 1 .. Len(s) + 1 /\ DOMAIN s = 1 .. Len(s)
      /\ t[Len(s) + 1] = c /\ \A j \in 1 .. Len(s) : t[j] = s[j]
  BY AppendFacts DEF IsList
<1>2. DOMAIN t = DOMAIN s \cup {Len(s) + 1} /\ Len(s) + 1 \notin DOMAIN s
  BY <1>1
<1> DEFINE e == Len(s) + 1
<1>3. /\ DOMAIN t = DOMAIN s \cup {e} /\ e \notin DOMAIN s
      /\ t[e] = c /\ \A j \in DOMAIN s : t[j] = s[j]
  BY <1>1, <1>2
<1> HIDE DEF e, t
<1>4. Distinct(t)
  BY <1>3 DEF Distinct, IsList
<1>5. \A name, f : InGroup(t, name, f) <=>
         InGroup(s, name, f) \/ (name = c.name /\ f = c.creator)
  BY <1>3 DEF InGroup
<1>6. \A name, w : Member(t, name, w) <=>
         \/ Member(s, name, w)
         \/ name = c.name /\ c.creator # Nobody /\ w \in c.members
  BY <1>3 DEF Member
<1>7. QED
  BY <1>1, <1>3, <1>4, <1>5, <1>6 DEF Grown, IsList, t

\* A list is grown from itself.
LEMMA GrownSelf == ASSUME NEW s, IsList(s) PROVE Grown(s, s) /\ Quiet(s, s)
BY DEF Grown, Quiet, SameGroups, SameMembers

\* Where the channel called name is.
LEMMA IndexIs ==
    ASSUME NEW n, NEW name, Has(n, name)
    PROVE  Index(n, name) \in DOMAIN channels[n] /\ channels[n][Index(n, name)].name = name
BY DEF Has, Index

\* A node's channels are a list of channels with different names.
LEMMA ListIs == ASSUME TypeOK, NEW n \in Node PROVE IsList(channels[n])
BY DEF TypeOK, IsList, Distinct

\* A channel opened is no group, a group is created with its founder in it.
LEMMA Kinds ==
    /\ \A name \in Name : /\ OpenChannel(name) \in ChannelSet /\ OpenChannel(name).name = name
                          /\ OpenChannel(name).creator = Nobody
    /\ \A name \in Name, f \in Node :
          /\ GroupChannel(name, f) \in ChannelSet /\ GroupChannel(name, f).name = name
          /\ GroupChannel(name, f).creator = f /\ GroupChannel(name, f).members = {f}
BY DEF OpenChannel, GroupChannel, ChannelSet

\* A message opens a channel or is counted, unless its channel is on screen.
LEMMA PushedFacts ==
    ASSUME ChatAssumption, TypeOK, NEW n \in Node, NEW name \in Name
    PROVE  /\ Grown(channels[n], Pushed(n, name)) /\ Quiet(channels[n], Pushed(n, name))
           /\ Pushed(n, name)[active[n]].unread = channels[n][active[n]].unread
<1> DEFINE s == channels[n]  t == Pushed(n, name)
<1>1. IsList(s) /\ active[n] \in DOMAIN s
  BY ListIs DEF TypeOK
<1>2. CASE Has(n, name)
  <2> DEFINE i == Index(n, name)
             c == [s[i] EXCEPT !.unread = IF i = active[n] THEN @ ELSE @ + 1]
  <2>1. i \in DOMAIN s
    BY <1>2, IndexIs
  <2>2. t = [s EXCEPT ![i] = c]
    BY <1>2 DEF Pushed
  <2>3. s[i] \in ChannelSet
    BY <1>1, <2>1 DEF IsList
  <2>4. /\ c \in ChannelSet /\ c.name = s[i].name /\ c.creator = s[i].creator
        /\ c.members = s[i].members /\ (i = active[n] => c.unread = s[i].unread)
    BY <2>3 DEF ChannelSet
  <2> HIDE DEF i, c, s, t
  <2>5. /\ Grown(s, t) /\ SameGroups(s, t)
        /\ t[i] = c /\ \A j \in DOMAIN s \ {i} : t[j] = s[j]
        /\ \A nm, w : Member(t, nm, w) <=>
                 Member(s, nm, w) \/ (nm = c.name /\ c.creator # Nobody /\ w \in c.members)
    BY <1>1, <2>1, <2>2, <2>4, ReplaceFacts
  <2>6. SameMembers(s, t)
    BY <2>1, <2>4, <2>5 DEF SameMembers, Member
  <2>7. t[active[n]].unread = s[active[n]].unread
    BY <1>1, <2>4, <2>5
  <2>8. QED
    BY <2>5, <2>6, <2>7 DEF Quiet, s, t
<1>3. CASE ~Has(n, name)
  <2>1. t = Append(s, OpenChannel(name)) /\ \A i \in DOMAIN s : s[i].name # name
    BY <1>3 DEF Pushed, Has
  <2> DEFINE c == OpenChannel(name)
  <2>0. c \in ChannelSet /\ c.name = name /\ c.creator = Nobody
    BY Kinds
  <2> HIDE DEF s, t, c
  <2>2. /\ Grown(s, t)
        /\ \A nm, f : InGroup(t, nm, f) <=> InGroup(s, nm, f) \/ (nm = name /\ f = Nobody)
        /\ \A nm, w : Member(t, nm, w) <=> Member(s, nm, w)
        /\ \A j \in DOMAIN s : t[j] = s[j]
    BY <1>1, <2>0, <2>1, AddFacts DEF c
  <2>3. QED
    BY <1>1, <2>2 DEF Quiet, SameGroups, SameMembers, s, t
<1>4. QED
  BY <1>2, <1>3

\* A channel is added, unless its name is taken.
LEMMA AddedFacts ==
    ASSUME ChatAssumption, TypeOK, NEW n \in Node, NEW c \in ChannelSet
    PROVE  /\ Grown(channels[n], Added(n, c))
           /\ Added(n, c)[active[n]] = channels[n][active[n]]
           /\ Has(n, c.name) => Added(n, c) = channels[n]
           /\ ~Has(n, c.name) =>
                /\ \A nm, f : InGroup(Added(n, c), nm, f) <=>
                      InGroup(channels[n], nm, f) \/ (nm = c.name /\ f = c.creator)
                /\ \A nm, w : Member(Added(n, c), nm, w) <=>
                      \/ Member(channels[n], nm, w)
                      \/ nm = c.name /\ c.creator # Nobody /\ w \in c.members
<1> DEFINE s == channels[n]  t == Added(n, c)
<1>1. IsList(s) /\ active[n] \in DOMAIN s
  BY ListIs DEF TypeOK
<1>2. CASE Has(n, c.name)
  BY <1>1, <1>2, GrownSelf DEF Added
<1>3. CASE ~Has(n, c.name)
  <2>1. t = Append(s, c) /\ \A i \in DOMAIN s : s[i].name # c.name
    BY <1>3 DEF Added, Has
  <2> HIDE DEF s, t
  <2>2. /\ Grown(s, t)
        /\ \A nm, f : InGroup(t, nm, f) <=> InGroup(s, nm, f) \/ (nm = c.name /\ f = c.creator)
        /\ \A nm, w : Member(t, nm, w) <=>
              Member(s, nm, w) \/ (nm = c.name /\ c.creator # Nobody /\ w \in c.members)
        /\ \A j \in DOMAIN s : t[j] = s[j]
    BY <1>1, <2>1, AddFacts
  <2>3. t[active[n]] = s[active[n]]
    BY <1>1, <2>2
  <2>4. QED
    BY <1>3, <2>2, <2>3 DEF s, t
<1>4. QED
  BY <1>2, <1>3

\* An open channel is no group.
LEMMA OpenIsQuiet ==
    ASSUME ChatAssumption, TypeOK, NEW n \in Node, NEW name \in Name
    PROVE  Quiet(channels[n], Added(n, OpenChannel(name)))
<1> DEFINE c == OpenChannel(name)
<1>1. c \in ChannelSet /\ c.creator = Nobody
  BY Kinds
<1> HIDE DEF c
<1>2. CASE Has(n, c.name)
  BY <1>1, <1>2, AddedFacts, ListIs, GrownSelf DEF c
<1>3. CASE ~Has(n, c.name)
  BY <1>1, <1>3, AddedFacts DEF Quiet, SameGroups, SameMembers, c
<1>4. QED
  BY <1>2, <1>3

\* The group called name becomes ch; an open channel of that name does not.
LEMMA ChangedFacts ==
    ASSUME TypeOK, NEW n \in Node, NEW name \in Name, NEW ch,
           IsGroup(n, name) =>
              /\ ch \in ChannelSet /\ ch.name = name
              /\ ch.creator = Channel(n, name).creator
              /\ Channel(n, name).members \subseteq ch.members
              /\ ch.unread = Channel(n, name).unread
    PROVE  LET t == GroupChanged(n, name, ch) IN
           /\ Grown(channels[n], t) /\ SameGroups(channels[n], t)
           /\ t[active[n]].unread = channels[n][active[n]].unread
           /\ ~IsGroup(n, name) => t = channels[n]
           /\ IsGroup(n, name) =>
                 \A nm, w : Member(t, nm, w) <=>
                    Member(channels[n], nm, w) \/ (nm = name /\ w \in ch.members)
<1> DEFINE s == channels[n]  t == GroupChanged(n, name, ch)
<1>1. IsList(s) /\ active[n] \in DOMAIN s
  BY ListIs DEF TypeOK
<1>2. CASE IsGroup(n, name)
  <2> DEFINE i == Index(n, name)
  <2>1. i \in DOMAIN s /\ s[i].name = name /\ s[i].creator # Nobody /\ s[i] = Channel(n, name)
    BY <1>2, IndexIs DEF IsGroup, Channel
  <2>2. t = [s EXCEPT ![i] = ch]
    BY <1>2 DEF GroupChanged
  <2>6. /\ ch \in ChannelSet /\ ch.name = s[i].name /\ ch.creator = s[i].creator
        /\ s[i].members \subseteq ch.members /\ ch.unread = s[i].unread
    BY <1>2, <2>1
  <2> HIDE DEF i, s, t
  <2>3. /\ Grown(s, t) /\ SameGroups(s, t)
        /\ t[i] = ch /\ \A j \in DOMAIN s \ {i} : t[j] = s[j]
        /\ \A nm, w : Member(t, nm, w) <=>
                 Member(s, nm, w) \/ (nm = ch.name /\ ch.creator # Nobody /\ w \in ch.members)
    BY <1>1, <2>1, <2>2, <2>6, ReplaceFacts
  <2>4. t[active[n]].unread = s[active[n]].unread
    BY <1>1, <2>1, <2>3, <2>6
  <2>5. QED
    BY <1>2, <2>1, <2>3, <2>4, <2>6 DEF s, t
<1>3. CASE ~IsGroup(n, name)
  <2>1. t = s
    BY <1>3 DEF GroupChanged
  <2>2. QED
    BY <1>1, <1>3, <2>1, GrownSelf DEF Quiet
<1>4. QED
  BY <1>2, <1>3

\* IsGroup, said of the list.
LEMMA IsGroupIn ==
    ASSUME TypeOK, NEW n \in Node, NEW name \in Name
    PROVE  /\ IsGroup(n, name) =>
                 /\ Channel(n, name) \in ChannelSet /\ Channel(n, name).name = name
                 /\ Channel(n, name).creator \in Node
                 /\ InGroup(channels[n], name, Channel(n, name).creator)
           /\ \A f : f # Nobody /\ InGroup(channels[n], name, f) =>
                 IsGroup(n, name) /\ Channel(n, name).creator = f
           /\ \A w : Member(channels[n], name, w) <=>
                 IsGroup(n, name) /\ w \in Channel(n, name).members
<1>1. IsList(channels[n])
  BY ListIs
<1>2. ASSUME NEW i \in DOMAIN channels[n], channels[n][i].name = name
      PROVE  Has(n, name) /\ Channel(n, name) = channels[n][i]
  <2>1. Has(n, name)
    BY <1>2 DEF Has
  <2>2. Index(n, name) = i
    BY <1>1, <1>2, <2>1, IndexIs DEF IsList, Distinct
  <2>3. QED
    BY <2>1, <2>2 DEF Channel
<1>3. ASSUME IsGroup(n, name)
      PROVE  /\ Index(n, name) \in DOMAIN channels[n]
             /\ Channel(n, name) = channels[n][Index(n, name)]
             /\ Channel(n, name) \in ChannelSet /\ Channel(n, name).name = name
             /\ Channel(n, name).creator # Nobody
  BY <1>1, <1>3, IndexIs DEF IsGroup, Channel, IsList
<1>4. ASSUME IsGroup(n, name)
      PROVE  /\ Channel(n, name).creator \in Node
             /\ InGroup(channels[n], name, Channel(n, name).creator)
  BY <1>3, <1>4 DEF InGroup, ChannelSet
<1>5. \A f : f # Nobody /\ InGroup(channels[n], name, f) =>
                 IsGroup(n, name) /\ Channel(n, name).creator = f
  BY <1>2 DEF InGroup, IsGroup
<1>6. ASSUME NEW w
      PROVE  Member(channels[n], name, w) <=> IsGroup(n, name) /\ w \in Channel(n, name).members
  <2>1. Member(channels[n], name, w) => IsGroup(n, name) /\ w \in Channel(n, name).members
    BY <1>2 DEF Member, IsGroup
  <2>2. IsGroup(n, name) /\ w \in Channel(n, name).members => Member(channels[n], name, w)
    BY <1>3 DEF Member
  <2>3. QED
    BY <2>1, <2>2
<1>7. QED
  BY <1>3, <1>4, <1>5, <1>6

(***************************************************************************)
(* What each call is for                                                   *)
(***************************************************************************)
LEMMA NextCall ==
    ASSUME ChatAssumption, RunOK, NEW n \in Node, NEW k \in Task, run[n][k] # <<>>
    PROVE  LET h == Head(run[n][k])  t == Tail(run[n][k]) IN
           \/ k = Mesh /\ MeshCall(todo, n, run[n][k], h, t)
           \/ k = Terminal /\ TermCall(DOMAIN channels[n], active[n], run[n][k], h, t)
           \/ k \in Node /\ n # k /\ ReadCall(todo, n, k, run[n][k], h, t)
<1>1. CASE k = Mesh
  BY <1>1, MeshHead DEF RunOK
<1>2. CASE k = Terminal
  BY <1>2, TermHead DEF RunOK
<1>3. CASE k \in Node
  BY <1>3, ReadHead DEF RunOK
<1>4. QED
  BY <1>1, <1>2, <1>3 DEF Task

\* A message is pushed by the terminal, by its sender's mesh loop or by a read
\* loop that received it.
LEMMA PushCall ==
    ASSUME ChatAssumption, RunOK, NEW n \in Node, NEW k \in Task, Doing(n, k, "push_message")
    PROVE  LET a == Arg(n, k)  s == run[n][k] IN
           /\ a.channel \in Name
           /\ \/ k = Terminal /\ a.id = System
              \/ /\ k = Mesh /\ a.id \in Msg /\ Says(n, a.id)
                 /\ s \in Starting(a.id, a.channel) /\ Tail(s) \in Sending(a.id, a.channel)
              \/ /\ k \in Node /\ n # k /\ a.id \in Msg /\ Says(k, a.id)
                 /\ s = <<Push(a.id, a.channel)>> /\ Tail(s) = <<>>
BY NextCall DEF Doing, Arg, MeshCall, TermCall, ReadCall

\* The peers are counted while a message is sent.
LEMMA CountCall ==
    ASSUME ChatAssumption, RunOK, NEW n \in Node, NEW k \in Task, Doing(n, k, "peer_count")
    PROVE  /\ k = Mesh
           /\ \E id \in Msg, ch \in Name :
                 /\ Says(n, id)
                 /\ run[n][k] \in Sending(id, ch) /\ Tail(run[n][k]) \in Sending(id, ch)
BY NextCall DEF Doing, Arg, MeshCall, TermCall, ReadCall

\* A message, an announcement or an approval is sent to all.
LEMMA BroadcastCall ==
    ASSUME ChatAssumption, RunOK, NEW n \in Node, NEW k \in Task, Doing(n, k, "broadcast")
    PROVE  LET m == Arg(n, k).msg  s == run[n][k] IN
           /\ k = Mesh
           /\ \/ \E id \in Msg, ch \in Name :
                    /\ Says(n, id) /\ m = Chat(id, ch)
                    /\ s \in Sending(id, ch) /\ Tail(s) = Ticking(id)
              \/ \E name \in Name :
                    /\ m = Announcement(name, n)
                    /\ s = Announcing(n, name) /\ Tail(s) = <<>>
              \/ \E name \in Name, who \in Node :
                    /\ Allowed(todo, n, name, who) /\ m = Approval(name, who)
                    /\ s \in Approving(name, who) /\ Tail(s) = <<>>
BY NextCall DEF Doing, Arg, MeshCall, TermCall, ReadCall

\* A request to join goes to one node, a denial to who is denied.
LEMMA SendCall ==
    ASSUME ChatAssumption, RunOK, NEW n \in Node, NEW k \in Task, Doing(n, k, "send_to")
    PROVE  LET a == Arg(n, k) IN
           /\ k = Mesh /\ a.to \in Node /\ Tail(run[n][k]) = <<>>
           /\ \/ \E name \in Name : a.msg = JoinReq(name, n)
              \/ \E name \in Name : a.msg = Denial(name, a.to)
BY NextCall DEF Doing, Arg, MeshCall, TermCall, ReadCall

\* A tick is the last call for a message.
LEMMA TickCall ==
    ASSUME ChatAssumption, RunOK, NEW n \in Node, NEW k \in Task, Doing(n, k, "mark_sent")
    PROVE  LET a == Arg(n, k)  s == run[n][k] IN
           k = Mesh /\ a.id \in Msg /\ Says(n, a.id) /\ s = Ticking(a.id) /\ Tail(s) = <<>>
BY NextCall DEF Doing, Arg, MeshCall, TermCall, ReadCall

\* A channel is added by the terminal, or by a read loop after an approval.
LEMMA AddCall ==
    ASSUME ChatAssumption, RunOK, NEW n \in Node, NEW k \in Task, Doing(n, k, "add_channel")
    PROVE  /\ Arg(n, k).name \in Name
           /\ \/ k = Terminal /\ Tail(run[n][k]) = Selecting
              \/ k \in Node /\ n # k /\ Tail(run[n][k]) \in Joining(Arg(n, k).name)
BY NextCall DEF Doing, Arg, MeshCall, TermCall, ReadCall

\* A group is added by its founder, or by the read loop that hears of it.
LEMMA AddGroupCall ==
    ASSUME ChatAssumption, RunOK, NEW n \in Node, NEW k \in Task, Doing(n, k, "add_group_channel")
    PROVE  LET a == Arg(n, k)  s == run[n][k] IN
           /\ a.name \in Name /\ a.creator \in Node
           /\ \/ /\ k = Mesh /\ a.creator = n
                 /\ s = CreateGroup(n, a.name) /\ Tail(s) = Announcing(n, a.name)
              \/ /\ k \in Node /\ n # k /\ a.creator = k
                 /\ s = Founding(a.name, k) /\ Tail(s) = <<>>
BY NextCall DEF Doing, Arg, MeshCall, TermCall, ReadCall

\* A member is approved by the mesh loop that was told to, or by the read loop that
\* hears of it.
LEMMA ApproveCall ==
    ASSUME ChatAssumption, RunOK, NEW n \in Node, NEW k \in Task, Doing(n, k, "group_approve")
    PROVE  LET a == Arg(n, k)  s == run[n][k] IN
           /\ a.name \in Name /\ a.who \in Node
           /\ \/ /\ k = Mesh /\ Allowed(todo, n, a.name, a.who)
                 /\ s = ApproveJoin(a.name, a.who) /\ Tail(s) \in Approving(a.name, a.who)
              \/ /\ k \in Node /\ n # k /\ Allowed(todo, k, a.name, a.who)
                 /\ s = Listing(a.name, a.who) /\ Tail(s) = <<>>
BY NextCall DEF Doing, Arg, MeshCall, TermCall, ReadCall

\* A request is noted in the group by the read loop that takes it.
LEMMA AddPendingCall ==
    ASSUME ChatAssumption, RunOK, NEW n \in Node, NEW k \in Task, Doing(n, k, "group_add_pending")
    PROVE  LET a == Arg(n, k) IN
           /\ a.name \in Name /\ a.who \in Node /\ k \in Node /\ n # k
           /\ Tail(run[n][k]) \in Requested(a.name, a.who)
BY NextCall DEF Doing, Arg, MeshCall, TermCall, ReadCall

\* A request is listed in the popup by the read loop that takes it, and again by the
\* terminal.
LEMMA AddRequestCall ==
    ASSUME ChatAssumption, RunOK, NEW n \in Node, NEW k \in Task, Doing(n, k, "add_pending_request")
    PROVE  LET a == Arg(n, k) IN
           /\ a.name \in Name /\ a.who \in Node
           /\ \/ k = Terminal /\ Tail(run[n][k]) = <<>>
              \/ k \in Node /\ n # k /\ Tail(run[n][k]) \in Requested(a.name, a.who)
BY NextCall DEF Doing, Arg, MeshCall, TermCall, ReadCall

\* A read loop sends an event when it is done with a packet.
LEMMA EventCall ==
    ASSUME ChatAssumption, RunOK, NEW n \in Node, NEW k \in Task, Doing(n, k, "send_event")
    PROVE  k \in Node /\ n # k /\ Arg(n, k).ev \in Events /\ Tail(run[n][k]) = <<>>
BY NextCall DEF Doing, Arg, MeshCall, TermCall, ReadCall

\* The terminal selects a channel that is there, and clears its count next.
LEMMA ActiveCall ==
    ASSUME ChatAssumption, RunOK, NEW n \in Node, Doing(n, Terminal, "set_active")
    PROVE  /\ Arg(n, Terminal).index \in DOMAIN channels[n]
           /\ Tail(run[n][Terminal]) = Clearing(Arg(n, Terminal).index)
BY NextCall, TaskIs DEF Doing, Arg, MeshCall, TermCall, ReadCall

\* The count cleared is that of the channel on screen.
LEMMA ClearCall ==
    ASSUME ChatAssumption, RunOK, NEW n \in Node, Doing(n, Terminal, "clear_unread")
    PROVE  /\ Arg(n, Terminal).index = active[n] /\ run[n][Terminal] = Clearing(active[n])
           /\ Tail(run[n][Terminal]) = <<>>
BY NextCall, TaskIs DEF Doing, Arg, MeshCall, TermCall, ReadCall

(***************************************************************************)
(* What a step does to the lists of channels                               *)
(***************************************************************************)
\* Only n's list changes, it grows, and what is on its screen is counted as before.
Grows(n) ==
    /\ channels' \in [Node -> Seq(ChannelSet)]
    /\ \A m \in Node : Grown(channels[m], channels'[m])
    /\ \A m \in Node \ {n} : channels'[m] = channels[m]
    /\ channels'[n][active[n]].unread = channels[n][active[n]].unread
Hushed(n) == Grows(n) /\ \A m \in Node : Quiet(channels[m], channels'[m])

\* A step that gives n a grown list, with the count on screen kept, grows it.
LEMMA GrowsBy ==
    ASSUME TypeOK, NEW n \in Node, NEW t, Grown(channels[n], t),
           t[active[n]].unread = channels[n][active[n]].unread,
           channels' = [channels EXCEPT ![n] = t]
    PROVE  /\ Grows(n) /\ channels'[n] = t
           /\ Quiet(channels[n], t) => Hushed(n)
<1>1. channels \in [Node -> Seq(ChannelSet)] /\ t \in Seq(ChannelSet)
  BY DEF TypeOK, Grown, IsList
<1>2. /\ channels' \in [Node -> Seq(ChannelSet)] /\ channels'[n] = t
      /\ \A m \in Node \ {n} : channels'[m] = channels[m]
  BY <1>1
<1>3. \A m \in Node : Grown(channels[m], channels[m]) /\ Quiet(channels[m], channels[m])
  BY ListIs, GrownSelf
<1>4. Grows(n)
  BY <1>2, <1>3 DEF Grows
<1>5. Quiet(channels[n], t) => Hushed(n)
  BY <1>2, <1>3, <1>4 DEF Hushed
<1>6. QED
  BY <1>2, <1>4, <1>5

\* A step that leaves the lists alone grows none.
LEMMA GrowsNot ==
    ASSUME TypeOK, NEW n \in Node, channels' = channels
    PROVE  Hushed(n) /\ Grows(n)
BY ListIs, GrownSelf DEF Hushed, Grows, TypeOK

\* The calls that make a node's list longer, or the members of a group more.
LEMMA PushGrows ==
    ASSUME ChatAssumption, TypeOK, RunOK, NEW n \in Node, NEW k \in Task, PushMessage(n, k)
    PROVE  Hushed(n)
<1>1. Arg(n, k).channel \in Name
  BY PushCall DEF PushMessage
<1>2. channels' = [channels EXCEPT ![n] = Pushed(n, Arg(n, k).channel)]
  BY DEF PushMessage
<1>3. QED
  BY <1>1, <1>2, PushedFacts, GrowsBy

\* A channel added leaves the groups as they were.
LEMMA AddGrows ==
    ASSUME ChatAssumption, TypeOK, RunOK, NEW n \in Node, NEW k \in Task, AddChannel(n, k)
    PROVE  Hushed(n)
<1> DEFINE c == OpenChannel(Arg(n, k).name)
<1>1. c \in ChannelSet /\ Quiet(channels[n], Added(n, c))
  BY AddCall, Kinds, OpenIsQuiet DEF AddChannel
<1>2. channels' = [channels EXCEPT ![n] = Added(n, c)]
  BY DEF AddChannel
<1> HIDE DEF c
<1>3. /\ Grown(channels[n], Added(n, c))
      /\ Added(n, c)[active[n]].unread = channels[n][active[n]].unread
  BY <1>1, AddedFacts
<1>4. QED
  BY <1>1, <1>2, <1>3, GrowsBy

\* A group is new if its name was.
LEMMA AddGroupGrows ==
    ASSUME ChatAssumption, TypeOK, RunOK, NEW n \in Node, NEW k \in Task, AddGroupChannel(n, k)
    PROVE  LET a == Arg(n, k) IN
           /\ Grows(n)
           /\ Has(n, a.name) => channels' = channels
           /\ ~Has(n, a.name) =>
                /\ \A nm, f : InGroup(channels'[n], nm, f) <=>
                      InGroup(channels[n], nm, f) \/ (nm = a.name /\ f = a.creator)
                /\ \A nm, w : Member(channels'[n], nm, w) <=>
                      Member(channels[n], nm, w) \/ (nm = a.name /\ w = a.creator)
<1> DEFINE a == Arg(n, k)  c == GroupChannel(a.name, a.creator)
<1>1. /\ c \in ChannelSet /\ c.name = a.name /\ c.creator = a.creator /\ c.members = {a.creator}
      /\ c.creator # Nobody
  BY AddGroupCall, Kinds DEF AddGroupChannel, ChatAssumption
<1>2. channels' = [channels EXCEPT ![n] = Added(n, c)]
  BY DEF AddGroupChannel
<1>3. channels \in [Node -> Seq(ChannelSet)]
  BY DEF TypeOK
<1> HIDE DEF c, a
<1>4. Grows(n) /\ channels'[n] = Added(n, c)
  BY <1>1, <1>2, AddedFacts, GrowsBy
<1>5. Has(n, a.name) => channels' = channels
  BY <1>1, <1>2, <1>3, AddedFacts
<1>6. ~Has(n, a.name) =>
         /\ \A nm, f : InGroup(channels'[n], nm, f) <=>
               InGroup(channels[n], nm, f) \/ (nm = a.name /\ f = a.creator)
         /\ \A nm, w : Member(channels'[n], nm, w) <=>
               Member(channels[n], nm, w) \/ (nm = a.name /\ w = a.creator)
  BY <1>1, <1>4, AddedFacts
<1>7. QED
  BY <1>4, <1>5, <1>6 DEF a

\* A group has a new member; nothing happens to an open channel.
LEMMA ApproveGrows ==
    ASSUME ChatAssumption, TypeOK, RunOK, NEW n \in Node, NEW k \in Task, GroupApprove(n, k)
    PROVE  LET a == Arg(n, k) IN
           /\ Grows(n) /\ SameGroups(channels[n], channels'[n])
           /\ ~IsGroup(n, a.name) => channels' = channels
           /\ IsGroup(n, a.name) =>
                \A nm, w : Member(channels'[n], nm, w) <=>
                    Member(channels[n], nm, w) \/ (nm = a.name /\ w = a.who)
<1> DEFINE a == Arg(n, k)
           old == Channel(n, a.name)
           ch == [old EXCEPT !.members = @ \cup {a.who}, !.pending = @ \ {a.who}]
           t == GroupChanged(n, a.name, ch)
<1>1. a.name \in Name /\ a.who \in Node
  BY ApproveCall DEF GroupApprove
<1>2. channels' = [channels EXCEPT ![n] = t]
  BY DEF GroupApprove
<1>3. IsGroup(n, a.name) =>
         old \in ChannelSet /\ old.name = a.name
  BY <1>1, IsGroupIn
<1>4. IsGroup(n, a.name) =>
         /\ ch \in ChannelSet /\ ch.name = a.name /\ ch.creator = old.creator
         /\ ch.members = old.members \cup {a.who} /\ ch.unread = old.unread
  BY <1>1, <1>3 DEF ChannelSet
<1>5. channels \in [Node -> Seq(ChannelSet)]
  BY DEF TypeOK
<1> HIDE DEF ch, a
<1>6. /\ Grown(channels[n], t) /\ SameGroups(channels[n], t)
      /\ t[active[n]].unread = channels[n][active[n]].unread
      /\ ~IsGroup(n, a.name) => t = channels[n]
      /\ IsGroup(n, a.name) =>
            \A nm, w : Member(t, nm, w) <=>
                Member(channels[n], nm, w) \/ (nm = a.name /\ w \in ch.members)
  BY <1>1, <1>4, ChangedFacts
<1> HIDE DEF t
<1>7. Grows(n) /\ channels'[n] = t
  BY <1>2, <1>6, GrowsBy
<1>8. ~IsGroup(n, a.name) => channels' = channels
  BY <1>2, <1>5, <1>6
<1>9. ASSUME IsGroup(n, a.name), NEW nm, NEW w
      PROVE  Member(channels'[n], nm, w) <=>
                Member(channels[n], nm, w) \/ (nm = a.name /\ w = a.who)
  <2>1. \A x : x \in ch.members <=> x = a.who \/ Member(channels[n], a.name, x)
    BY <1>1, <1>4, <1>9, IsGroupIn
  <2>2. QED
    BY <1>6, <1>7, <1>9, <2>1
<1>10. QED
  BY <1>6, <1>7, <1>8, <1>9 DEF a

\* A request noted leaves the groups as they were.
LEMMA AddPendingGrows ==
    ASSUME ChatAssumption, TypeOK, RunOK, NEW n \in Node, NEW k \in Task, GroupAddPending(n, k)
    PROVE  Hushed(n)
<1> DEFINE a == Arg(n, k)
           old == Channel(n, a.name)
           ch == [old EXCEPT !.pending = @ \cup {a.who}]
           t == GroupChanged(n, a.name, ch)
<1>1. a.name \in Name /\ a.who \in Node
  BY AddPendingCall DEF GroupAddPending
<1>2. channels' = [channels EXCEPT ![n] = t]
  BY DEF GroupAddPending
<1>3. IsGroup(n, a.name) =>
         old \in ChannelSet /\ old.name = a.name
  BY <1>1, IsGroupIn
<1>4. IsGroup(n, a.name) =>
         /\ ch \in ChannelSet /\ ch.name = a.name /\ ch.creator = old.creator
         /\ ch.members = old.members /\ ch.unread = old.unread
  BY <1>1, <1>3 DEF ChannelSet
<1> HIDE DEF ch, a
<1>5. /\ Grown(channels[n], t) /\ SameGroups(channels[n], t)
      /\ t[active[n]].unread = channels[n][active[n]].unread
      /\ ~IsGroup(n, a.name) => t = channels[n]
      /\ IsGroup(n, a.name) =>
            \A nm, w : Member(t, nm, w) <=>
                Member(channels[n], nm, w) \/ (nm = a.name /\ w \in ch.members)
  BY <1>1, <1>4, ChangedFacts
<1> HIDE DEF t
<1>6. SameMembers(channels[n], t)
  <2>1. CASE IsGroup(n, a.name)
    <3>1. \A x : x \in ch.members <=> Member(channels[n], a.name, x)
      BY <1>1, <1>4, <2>1, IsGroupIn
    <3>2. QED
      BY <1>5, <2>1, <3>1 DEF SameMembers
  <2>2. CASE ~IsGroup(n, a.name)
    BY <1>5, <2>2 DEF SameMembers
  <2>3. QED
    BY <2>1, <2>2
<1>7. QED
  BY <1>2, <1>5, <1>6, GrowsBy DEF Quiet

\* Every call lets the lists grow.
LEMMA CallGrows ==
    ASSUME ChatAssumption, TypeOK, RunOK, NEW n \in Node, NEW k \in Task, Call(n, k)
    PROVE  Grows(n)
<1>1. CASE PushMessage(n, k)
  BY <1>1, PushGrows DEF Hushed
<1>2. CASE AddChannel(n, k)
  BY <1>2, AddGrows DEF Hushed
<1>3. CASE AddGroupChannel(n, k)
  BY <1>3, AddGroupGrows
<1>4. CASE GroupApprove(n, k)
  BY <1>4, ApproveGrows
<1>5. CASE GroupAddPending(n, k)
  BY <1>5, AddPendingGrows DEF Hushed
<1>6. CASE \/ PeerCount(n, k) \/ Broadcast(n, k) \/ SendTo(n, k) \/ MarkSent(n, k)
           \/ AddPendingRequest(n, k) \/ RemovePendingRequest(n, k) \/ SendEvent(n, k)
  <2>1. channels' = channels
    BY <1>6 DEF PeerCount, Broadcast, SendTo, MarkSent, AddPendingRequest, RemovePendingRequest,
                SendEvent, lists
  <2>2. QED
    BY <2>1, GrowsNot
<1>7. QED
  BY <1>1, <1>2, <1>3, <1>4, <1>5, <1>6 DEF Call

\* Clearing the count of unread messages leaves all else as it is.
LEMMA ClearFacts ==
    ASSUME ChatAssumption, TypeOK, RunOK, NEW n \in Node, ClearUnread(n)
    PROVE  /\ channels' \in [Node -> Seq(ChannelSet)]
           /\ \A m \in Node : Grown(channels[m], channels'[m]) /\ Quiet(channels[m], channels'[m])
           /\ \A m \in Node \ {n} : channels'[m] = channels[m]
           /\ channels'[n][active[n]].unread = 0
<1> DEFINE s == channels[n]  i == active[n]  c == [s[i] EXCEPT !.unread = 0]
           t == [s EXCEPT ![i] = c]
<1>1. IsList(s) /\ i \in DOMAIN s /\ channels \in [Node -> Seq(ChannelSet)]
  BY ListIs DEF TypeOK
<1>2. channels' = [channels EXCEPT ![n][i].unread = 0]
  BY ClearCall DEF ClearUnread
<1>3. channels' = [channels EXCEPT ![n] = t]
  BY <1>1, <1>2
<1>4. s[i] \in ChannelSet
  BY <1>1 DEF IsList
<1>5. /\ c \in ChannelSet /\ c.name = s[i].name /\ c.creator = s[i].creator
      /\ c.members = s[i].members /\ c.unread = 0
  BY <1>4 DEF ChannelSet
<1> HIDE DEF c, s, i
<1>6. /\ Grown(s, t) /\ SameGroups(s, t)
      /\ t[i] = c
      /\ \A nm, w : Member(t, nm, w) <=>
             Member(s, nm, w) \/ (nm = c.name /\ c.creator # Nobody /\ w \in c.members)
  BY <1>1, <1>5, ReplaceFacts
<1>7. Quiet(s, t)
  BY <1>1, <1>5, <1>6 DEF Quiet, SameMembers, Member
<1> HIDE DEF t
<1>8. t \in Seq(ChannelSet)
  BY <1>6 DEF Grown, IsList
<1>9. /\ channels' \in [Node -> Seq(ChannelSet)] /\ channels'[n] = t
      /\ \A m \in Node \ {n} : channels'[m] = channels[m]
  BY <1>1, <1>3, <1>8
<1>10. \A m \in Node : Grown(channels[m], channels[m]) /\ Quiet(channels[m], channels[m])
  BY ListIs, GrownSelf
<1>11. QED
  BY <1>5, <1>6, <1>7, <1>9, <1>10 DEF s, i

(***************************************************************************)
(* Types                                                                   *)
(***************************************************************************)
\* Lists that only grow keep their types, and the channel on screen its place.
LEMMA GrownIsTyped ==
    ASSUME TypeOK, channels' \in [Node -> Seq(ChannelSet)],
           \A m \in Node : Grown(channels[m], channels'[m])
    PROVE  /\ \A m \in Node : \A i, j \in DOMAIN (channels'[m]) :
                 channels'[m][i].name = channels'[m][j].name => i = j
           /\ \A m \in Node : DOMAIN channels[m] \subseteq DOMAIN (channels'[m])
           /\ \A m \in Node : active[m] \in DOMAIN (channels'[m])
BY DEF TypeOK, Grown, IsList, Distinct

\* A call of a task keeps the types.
LEMMA CallKeepsType ==
    ASSUME ChatAssumption, TypeOK, RunOK, NEW n \in Node, NEW k \in Task, Call(n, k)
    PROVE  TypeOK'
<1>1. /\ channels' \in [Node -> Seq(ChannelSet)]
      /\ \A m \in Node : Grown(channels[m], channels'[m])
  BY CallGrows DEF Grows
<1>2. UNCHANGED ui /\ peers' = peers /\ conns' = conns
  BY DEF Call, PushMessage, PeerCount, Broadcast, SendTo, MarkSent, AddChannel, AddGroupChannel,
         GroupApprove, GroupAddPending, AddPendingRequest, RemovePendingRequest, SendEvent, ui, net
<1>3. pending_reqs' \in [Node -> SUBSET (Name \X Node)]
  <2>1. CASE AddPendingRequest(n, k)
    <3>1. Arg(n, k).name \in Name /\ Arg(n, k).who \in Node
      BY <2>1, AddRequestCall DEF AddPendingRequest
    <3>2. QED
      BY <2>1, <3>1 DEF AddPendingRequest, TypeOK
  <2>2. CASE RemovePendingRequest(n, k)
    BY <2>2 DEF RemovePendingRequest, TypeOK
  <2>3. CASE ~AddPendingRequest(n, k) /\ ~RemovePendingRequest(n, k)
    <3>1. pending_reqs' = pending_reqs
      BY <2>3 DEF Call, PushMessage, PeerCount, Broadcast, SendTo, MarkSent, AddChannel,
                  AddGroupChannel, GroupApprove, GroupAddPending, SendEvent, lists
    <3>2. QED
      BY <3>1 DEF TypeOK
  <2>4. QED
    BY <2>1, <2>2, <2>3
<1>4. status' \in [Node -> [Msg -> {"absent", "Sending", "Sent"}]]
  <2>1. CASE PushMessage(n, k)
    <3>1. Arg(n, k).id = System \/ Arg(n, k).id \in Msg
      BY <2>1, PushCall DEF PushMessage
    <3>2. QED
      BY <2>1, <3>1 DEF PushMessage, TypeOK
  <2>2. CASE MarkSent(n, k)
    <3>1. Arg(n, k).id \in Msg
      BY <2>2, TickCall DEF MarkSent
    <3>2. QED
      BY <2>2, <3>1 DEF MarkSent, TypeOK
  <2>3. CASE ~PushMessage(n, k) /\ ~MarkSent(n, k)
    <3>1. status' = status
      BY <2>3 DEF Call, PeerCount, Broadcast, SendTo, AddChannel, AddGroupChannel, GroupApprove,
                  GroupAddPending, AddPendingRequest, RemovePendingRequest, SendEvent, lists
    <3>2. QED
      BY <3>1 DEF TypeOK
  <2>4. QED
    BY <2>1, <2>2, <2>3
<1>5. QED
  BY <1>1, <1>2, <1>3, <1>4, GrownIsTyped DEF TypeOK, ui

\* A call of the terminal about the screen keeps the types.
LEMMA ScreenKeepsType ==
    ASSUME ChatAssumption, TypeOK, RunOK, NEW n \in Node, Screen(n)
    PROVE  TypeOK'
<1>1. CASE SetActive(n)
  <2>1. Arg(n, Terminal).index \in DOMAIN channels[n]
    BY <1>1, ActiveCall DEF SetActive
  <2>2. active' = [active EXCEPT ![n] = Arg(n, Terminal).index] /\ UNCHANGED <<lists, net>>
    BY <1>1 DEF SetActive
  <2>3. Arg(n, Terminal).index \in Nat
    BY <2>1 DEF TypeOK
  <2>4. active' \in [Node -> Nat] /\ \A m \in Node : active'[m] \in DOMAIN channels[m]
    BY <2>1, <2>2, <2>3 DEF TypeOK
  <2>5. show_join_requests' = show_join_requests
    BY <1>1 DEF SetActive
  <2>6. QED
    BY <2>2, <2>4, <2>5 DEF TypeOK, lists, net
<1>2. CASE ClearUnread(n)
  <2>1. /\ channels' \in [Node -> Seq(ChannelSet)]
        /\ \A m \in Node : Grown(channels[m], channels'[m])
    BY <1>2, ClearFacts
  <2>2. UNCHANGED <<pending_reqs, status, ui, net>>
    BY <1>2 DEF ClearUnread
  <2>3. QED
    BY <2>1, <2>2, GrownIsTyped DEF TypeOK, ui, net
<1>3. CASE SelectLast(n)
  BY <1>3 DEF SelectLast, TypeOK, lists, ui, net
<1>4. QED
  BY <1>1, <1>2, <1>3 DEF Screen

\* No other step touches the lists or what is on screen.
LEMMA OthersKeep ==
    /\ \A n : TakeCommand(n) => UNCHANGED <<lists, active, net>>
    /\ \A n : Drain(n) => UNCHANGED <<lists, active, net>>
    /\ \A n, p : Receive(n, p) => UNCHANGED <<lists, active, net>>
    /\ \A i : User(i) => UNCHANGED <<lists, active, net>>
    /\ \A n, p : Environment(n, p) => UNCHANGED <<lists, ui, run, todo>>
<1>1. \A n : TakeCommand(n) => UNCHANGED <<lists, active, net>>
  BY DEF TakeCommand, ui
<1>2. \A n : Drain(n) => UNCHANGED <<lists, active, net>>
  BY DEF Drain
<1>3. \A n, p : Receive(n, p) => UNCHANGED <<lists, active, net>>
  BY DEF Receive, ui
<1>4. \A i : User(i) => UNCHANGED <<lists, active, net>>
  BY DEF User, TypeLine, TypeGroup, TypeRequest, TypeJoin, SelectChannel, Decide, ToggleRequests,
         Order, Perform, Input
<1>5. \A n, p : Environment(n, p) => UNCHANGED <<lists, ui, run, todo>>
  BY DEF Environment, AddPeer, RemovePeer, Registered, Unregistered, Skip, Churn
<1>6. QED
  BY <1>1, <1>2, <1>3, <1>4, <1>5

\* The popup of requests is shown or not, whatever the step.
LEMMA PopupKept ==
    ASSUME TypeOK
    PROVE  /\ \A n : TakeCommand(n) \/ Drain(n) => show_join_requests' \in [Node -> BOOLEAN]
           /\ \A n, p : Receive(n, p) => show_join_requests' \in [Node -> BOOLEAN]
           /\ \A i : User(i) => show_join_requests' \in [Node -> BOOLEAN]
<1>1. show_join_requests \in [Node -> BOOLEAN]
  BY DEF TypeOK
<1>2. \A n : TakeCommand(n) \/ Drain(n) => show_join_requests' \in [Node -> BOOLEAN]
  BY <1>1 DEF TakeCommand, Drain, ui, ShowRequests
<1>3. \A n, p : Receive(n, p) => show_join_requests' \in [Node -> BOOLEAN]
  BY <1>1 DEF Receive, ui
<1>4. \A i : User(i) => show_join_requests' \in [Node -> BOOLEAN]
  BY <1>1 DEF User, TypeLine, TypeGroup, TypeRequest, TypeJoin, SelectChannel, Decide,
              ToggleRequests, Order, Perform
<1>5. QED
  BY <1>2, <1>3, <1>4

\* Types stay when the lists, the screen, the peers and the connections do.
LEMMA TypeStays ==
    ASSUME TypeOK, UNCHANGED <<lists, active, peers, conns>>,
           show_join_requests' \in [Node -> BOOLEAN]
    PROVE  TypeOK'
BY DEF TypeOK, lists

\* Sessions that come and go keep the types.
LEMMA EnvironmentKeepsType ==
    ASSUME TypeOK, NEW n \in Node, NEW p \in Node, Environment(n, p)
    PROVE  TypeOK'
<1>1. UNCHANGED <<lists, active>>
  BY OthersKeep DEF ui
<1>4. show_join_requests' = show_join_requests
  BY OthersKeep DEF ui
<1>2. peers' \in [Node -> SUBSET Node] /\ conns' \in [Node -> SUBSET Node]
  <2>1. CASE AddPeer(n, p)
    BY <2>1 DEF AddPeer, TypeOK
  <2>2. CASE RemovePeer(n, p)
    BY <2>2 DEF RemovePeer, TypeOK
  <2>3. CASE Registered(n, p)
    BY <2>3 DEF Registered, TypeOK
  <2>4. CASE Unregistered(n, p)
    BY <2>4 DEF Unregistered, TypeOK
  <2>5. CASE Skip(n, p)
    BY <2>5 DEF Skip, TypeOK
  <2>6. QED
    BY <2>1, <2>2, <2>3, <2>4, <2>5 DEF Environment
<1>3. QED
  BY <1>1, <1>2, <1>4 DEF TypeOK, lists

\* Every step keeps the types.
LEMMA TypeStep ==
    ASSUME ChatAssumption, TypeOK, RunOK, [Next]_vars
    PROVE  TypeOK'
<1>1. ASSUME NEW n \in Node, NEW k \in Task, Call(n, k) PROVE TypeOK'
  BY <1>1, CallKeepsType
<1>2. ASSUME NEW n \in Node, TakeCommand(n) \/ Screen(n) \/ Drain(n) PROVE TypeOK'
  BY <1>2, ScreenKeepsType, OthersKeep, PopupKept, TypeStays DEF net
<1>3. ASSUME NEW n \in Node, NEW p \in Node, Receive(n, p) PROVE TypeOK'
  BY <1>3, OthersKeep, PopupKept, TypeStays DEF net
<1>4. ASSUME NEW u \in Unsteady, Environment(u[1], u[2]) PROVE TypeOK'
  <2>1. u[1] \in Node /\ u[2] \in Node
    BY <1>4 DEF ChatAssumption
  <2>2. QED
    BY <1>4, <2>1, EnvironmentKeepsType
<1>5. ASSUME NEW i \in todo, User(i) PROVE TypeOK'
  BY <1>5, OthersKeep, PopupKept, TypeStays DEF net
<1>6. CASE UNCHANGED vars
  BY <1>6, TypeStays DEF vars, ui, net, TypeOK
<1>7. QED
  BY <1>1, <1>2, <1>3, <1>4, <1>5, <1>6 DEF Next, Progress

(***************************************************************************)
(* Commands and packets, and what is done for them                         *)
(***************************************************************************)
LEMMA CommandIs ==
    ASSUME NEW td, NEW n \in Node, NEW c \in Cmds(td, n)
    PROVE  \/ /\ c.do \in {"say", "cmd"} /\ c.id \in Msg /\ c.channel \in Name /\ Says(n, c.id)
              /\ HandleCommand(n, c) \in Starting(c.id, c.channel)
           \/ /\ c.do = "group" /\ c.name \in Name
              /\ HandleCommand(n, c) = CreateGroup(n, c.name)
           \/ /\ c.do = "request" /\ c.name \in Name /\ c.owner \in Node
              /\ HandleCommand(n, c) = RequestJoin(n, c.name, c.owner)
           \/ /\ c.do = "approve" /\ c.name \in Name /\ c.who \in Node
              /\ Allowed(td, n, c.name, c.who)
              /\ HandleCommand(n, c) = ApproveJoin(c.name, c.who)
           \/ /\ c.do = "deny" /\ c.name \in Name /\ c.who \in Node
              /\ HandleCommand(n, c) = DenyJoin(c.name, c.who)
<1>1. \/ c.do \in {"say", "cmd"} /\ c.id \in Msg /\ c.channel \in Name /\ Says(n, c.id)
      \/ c.do = "group" /\ c.name \in Name
      \/ c.do = "request" /\ c.name \in Name /\ c.owner \in Node
      \/ /\ c.do = "approve" /\ c.name \in Name /\ c.who \in Node
         /\ Allowed(td, n, c.name, c.who)
      \/ c.do = "deny" /\ c.name \in Name /\ c.who \in Node
  <2>1. \/ \E do \in {"say", "cmd"}, id \in Msg, ch \in Name :
              Says(n, id) /\ c = LineOrder(do, id, ch)
        \/ \E name \in Name : c = GroupOrder(name)
        \/ \E name \in Name, p \in Node : c = RequestOrder(name, p)
        \/ \E name \in Name, who \in Node :
              Allowed(td, n, name, who) /\ c = AnswerOrder("approve", name, who)
        \/ \E name \in Name, who \in Node : c = AnswerOrder("deny", name, who)
    BY DEF Cmds, AllowedBy
  <2>2. QED
    BY <2>1 DEF LineOrder, GroupOrder, RequestOrder, AnswerOrder
<1>2. CASE c.do = "say"
  <2>1. HandleCommand(n, c) = Say(c.id, c.channel)
    BY <1>2 DEF HandleCommand
  <2>2. QED
    BY <1>1, <1>2, <2>1 DEF Starting
<1>3. CASE c.do = "cmd"
  <2>1. HandleCommand(n, c) = Command(c.id, c.channel)
    BY <1>3 DEF HandleCommand
  <2>2. QED
    BY <1>1, <1>3, <2>1 DEF Starting
<1>4. CASE c.do = "group"
  BY <1>1, <1>4 DEF HandleCommand
<1>5. CASE c.do = "request"
  BY <1>1, <1>5 DEF HandleCommand
<1>6. CASE c.do = "approve"
  BY <1>1, <1>6 DEF HandleCommand
<1>7. CASE c.do = "deny"
  BY <1>1, <1>7 DEF HandleCommand
<1>8. QED
  BY <1>1, <1>2, <1>3, <1>4, <1>5, <1>6, <1>7

\* What a packet in the queue from q to p is, and what p does for it.
LEMMA PacketIs ==
    ASSUME NEW td, NEW q \in Node, NEW p \in Node, NEW m \in Packets(td, q)
    PROVE  \/ /\ m = Chat(m.id, m.channel) /\ m.id \in Msg /\ m.channel \in Name /\ Says(q, m.id)
              /\ HandleAppMsg(p, m) = <<Push(m.id, m.channel)>>
           \/ /\ m = Announcement(m.name, q) /\ m.name \in Name
              /\ HandleAppMsg(p, m) = Founding(m.name, q)
           \/ /\ m = JoinReq(m.name, m.who) /\ m.name \in Name /\ m.who \in Node
              /\ HandleAppMsg(p, m) \in Requested(m.name, m.who)
           \/ /\ m = Approval(m.name, m.who) /\ m.name \in Name /\ m.who \in Node
              /\ Allowed(td, q, m.name, m.who)
              /\ \/ HandleAppMsg(p, m) \in Joining(m.name)
                 \/ HandleAppMsg(p, m) = Listing(m.name, m.who)
           \/ m.is = "GroupJoinDeny" /\ HandleAppMsg(p, m) = <<>>
<1>1. CASE \E id \in Msg, ch \in Name : Says(q, id) /\ m = Chat(id, ch)
  <2>1. PICK id \in Msg, ch \in Name : Says(q, id) /\ m = Chat(id, ch)
    BY <1>1
  <2>2. m.is = "Chat" /\ m.id = id /\ m.channel = ch
    BY <2>1, PacketArgs
  <2>3. HandleAppMsg(p, m) = <<Push(id, ch)>>
    BY <2>2 DEF HandleAppMsg
  <2>4. QED
    BY <2>1, <2>2, <2>3
<1>2. CASE \E name \in Name : m = Announcement(name, q)
  <2>1. PICK name \in Name : m = Announcement(name, q)
    BY <1>2
  <2>2. m.is = "GroupAnnounce" /\ m.name = name /\ m.creator = q
    BY <2>1, PacketArgs
  <2>3. HandleAppMsg(p, m) = Founding(name, q)
    BY <2>2 DEF HandleAppMsg, Founding
  <2>4. QED
    BY <2>1, <2>2, <2>3
<1>3. CASE \E name \in Name, who \in Node : m = JoinReq(name, who)
  <2>1. PICK name \in Name, who \in Node : m = JoinReq(name, who)
    BY <1>3
  <2>2. m.is = "GroupJoinReq" /\ m.name = name /\ m.who = who
    BY <2>1, PacketArgs
  <2>3. HandleAppMsg(p, m) \in Requested(name, who)
    BY <2>2 DEF HandleAppMsg, Requested
  <2>4. QED
    BY <2>1, <2>2, <2>3
<1>4. CASE \E name \in Name, who \in Node : Allowed(td, q, name, who) /\ m = Approval(name, who)
  <2>1. PICK name \in Name, who \in Node : Allowed(td, q, name, who) /\ m = Approval(name, who)
    BY <1>4
  <2>2. m.is = "GroupJoinApprove" /\ m.name = name /\ m.who = who
    BY <2>1, PacketArgs
  <2>3. HandleAppMsg(p, m) \in Joining(name) \/ HandleAppMsg(p, m) = Listing(name, who)
    BY <2>2 DEF HandleAppMsg, Joining, Joined, Listing
  <2>4. QED
    BY <2>1, <2>2, <2>3
<1>5. CASE \E name \in Name, who \in Node : m = Denial(name, who)
  <2>1. m.is = "GroupJoinDeny"
    BY <1>5, PacketArgs
  <2>2. QED
    BY <2>1 DEF HandleAppMsg
<1>6. QED
  BY <1>1, <1>2, <1>3, <1>4, <1>5 DEF Packets, AllowedBy

\* Sets of packets have what they are for.
LEMMA PacketIn ==
    ASSUME NEW td, NEW q \in Node
    PROVE  /\ \A id \in Msg, ch \in Name : Says(q, id) => Chat(id, ch) \in Packets(td, q)
           /\ \A name \in Name : Announcement(name, q) \in Packets(td, q)
           /\ \A name \in Name, who \in Node :
                 /\ JoinReq(name, who) \in Packets(td, q) /\ Denial(name, who) \in Packets(td, q)
                 /\ Allowed(td, q, name, who) => Approval(name, who) \in Packets(td, q)
<1>1. ASSUME NEW id \in Msg, NEW ch \in Name, Says(q, id)
      PROVE  Chat(id, ch) \in Packets(td, q)
  <2>1. <<id, ch>> \in {y \in Msg \X Name : Says(q, y[1])}
    BY <1>1
  <2>2. QED
    BY <2>1 DEF Packets
<1>2. \A name \in Name : Announcement(name, q) \in Packets(td, q)
  BY DEF Packets
<1>3. ASSUME NEW name \in Name, NEW who \in Node
      PROVE  /\ JoinReq(name, who) \in Packets(td, q) /\ Denial(name, who) \in Packets(td, q)
             /\ Allowed(td, q, name, who) => Approval(name, who) \in Packets(td, q)
  <2>1. /\ Allowed(td, q, name, who) => <<name, who>> \in AllowedBy(td, q)
        /\ <<name, who>> \in Name \X Node
    BY DEF AllowedBy
  <2>2. QED
    BY <2>1 DEF Packets
<1>4. QED
  BY <1>1, <1>2, <1>3

(***************************************************************************)
(* The tasks' runs                                                         *)
(***************************************************************************)
LEMMA CallRun ==
    ASSUME RunOK, NEW n \in Node, NEW k \in Task, Call(n, k)
    PROVE  /\ run[n][k] # <<>>
           /\ Leaves(n, k, Tail(run[n][k])) \/ Leaves(n, k, <<>>)
           /\ UNCHANGED <<active, todo>>
<1>1. Return(n, k) \/ Stop(n, k)
  BY DEF Call, PushMessage, PeerCount, Broadcast, SendTo, MarkSent, AddChannel, AddGroupChannel,
         GroupApprove, GroupAddPending, AddPendingRequest, RemovePendingRequest, SendEvent
<1>2. UNCHANGED <<active, todo>>
  BY DEF Call, PushMessage, PeerCount, Broadcast, SendTo, MarkSent, AddChannel, AddGroupChannel,
         GroupApprove, GroupAddPending, AddPendingRequest, RemovePendingRequest, SendEvent, ui
<1>3. QED
  BY <1>1, <1>2, Left DEF Call

\* What is left at the terminal after a call that is not one of the screen.
LEMMA TermTail ==
    ASSUME ChatAssumption, RunOK, NEW n \in Node, Call(n, Terminal)
    PROVE  Tail(run[n][Terminal]) \in {<<>>, Selecting}
<1>1. TermCall(DOMAIN channels[n], active[n], run[n][Terminal],
               Head(run[n][Terminal]), Tail(run[n][Terminal]))
  BY TermHead, TaskIs DEF RunOK, Call
<1>2. Head(run[n][Terminal]).call \notin {"set_active", "clear_unread"}
  BY DEF Call, PushMessage, PeerCount, Broadcast, SendTo, MarkSent, AddChannel, AddGroupChannel,
         GroupApprove, GroupAddPending, AddPendingRequest, RemovePendingRequest, SendEvent, Doing
<1>3. QED
  BY <1>1, <1>2 DEF TermCall

\* After a call the tasks are doing what they may.
LEMMA CallKeepsRun ==
    ASSUME ChatAssumption, TypeOK, RunOK, NEW n \in Node, NEW k \in Task, Call(n, k)
    PROVE  RunOK'
<1>1. \A m \in Node : DOMAIN channels[m] \subseteq DOMAIN (channels'[m])
  BY CallGrows DEF Grows, Grown
<1>2. /\ run[n][k] # <<>> /\ UNCHANGED <<active, todo>>
      /\ Leaves(n, k, Tail(run[n][k])) \/ Leaves(n, k, <<>>)
  BY CallRun
<1>3. PICK v \in {Tail(run[n][k]), <<>>} : Leaves(n, k, v)
  BY <1>2
<1>4. k = Mesh => MeshRun(todo, n, v)
  <2>1. k = Mesh => MeshRun(todo, n, run[n][k])
    BY DEF RunOK
  <2>2. k = Mesh => MeshRun(todo, n, Tail(run[n][k]))
    BY <1>2, <2>1, MeshTail
  <2>3. MeshRun(todo, n, <<>>)
    BY DEF MeshRun
  <2>4. QED
    BY <2>2, <2>3
<1>5. k = Terminal => TermRun(DOMAIN (channels'[n]), active[n], v)
  BY TermTail DEF TermRun
<1>6. \A p \in Node : k = p => ReadRun(todo, n, p, v)
  <2> SUFFICES ASSUME k \in Node PROVE ReadRun(todo, n, k, v)
    OBVIOUS
  <2>1. ReadRun(todo, n, k, run[n][k])
    BY DEF RunOK
  <2>2. ReadRun(todo, n, k, Tail(run[n][k]))
    BY <1>2, <2>1, ReadTail
  <2>3. ReadRun(todo, n, k, <<>>)
    BY DEF ReadRun
  <2>4. QED
    BY <2>2, <2>3
<1>7. QED
  BY <1>1, <1>2, <1>3, <1>4, <1>5, <1>6, RunKeeps

\* A step of n's terminal, or of another of its tasks, that leaves the lists.
LEMMA TermKeepsRun ==
    ASSUME ChatAssumption, TypeOK, RunOK, UNCHANGED channels, todo' \subseteq todo,
           NEW n \in Node, NEW v, run' = [run EXCEPT ![n][Terminal] = v],
           \A m \in Node \ {n} : active'[m] = active[m],
           TermRun(DOMAIN channels[n], active'[n], v)
    PROVE  RunOK'
<1>1. Leaves(n, Terminal, v)
  BY Left, TaskIs
<1>2. QED
  BY <1>1, RunKeeps, TaskIs

\* One task other than the terminal gets new calls, such as it may make.
LEMMA TaskKeepsRun ==
    ASSUME ChatAssumption, TypeOK, RunOK, UNCHANGED <<channels, active, todo>>,
           NEW n \in Node, NEW k \in Task \ {Terminal}, NEW v, run' = [run EXCEPT ![n][k] = v],
           k = Mesh => MeshRun(todo, n, v),
           \A p \in Node : k = p => ReadRun(todo, n, p, v)
    PROVE  RunOK'
<1>1. Leaves(n, k, v)
  BY Left
<1>2. QED
  BY <1>1, RunKeeps

\* After a call about the screen the tasks are doing what they may.
LEMMA ScreenKeepsRun ==
    ASSUME ChatAssumption, TypeOK, RunOK, NEW n \in Node, Screen(n)
    PROVE  RunOK'
<1>1. CASE SetActive(n)
  <2> DEFINE i == Arg(n, Terminal).index
  <2>1. i \in DOMAIN channels[n] /\ Tail(run[n][Terminal]) = Clearing(i)
    BY <1>1, ActiveCall DEF SetActive
  <2>2. /\ active' = [active EXCEPT ![n] = i] /\ Return(n, Terminal)
        /\ UNCHANGED <<channels, todo>>
    BY <1>1 DEF SetActive, lists
  <2> HIDE DEF i
  <2>3. Leaves(n, Terminal, Clearing(i))
    BY <2>1, <2>2, Left, TaskIs
  <2>4. active'[n] = i /\ \A m \in Node \ {n} : active'[m] = active[m]
    BY <2>2 DEF TypeOK
  <2>5. TermRun(DOMAIN channels[n], i, Clearing(i))
    BY <2>1 DEF TermRun
  <2>6. QED
    BY <2>2, <2>3, <2>4, <2>5, RunKeeps, TaskIs
<1>2. CASE ClearUnread(n)
  <2>1. Return(n, Terminal) /\ UNCHANGED <<active, todo>> /\ Tail(run[n][Terminal]) = <<>>
    BY <1>2, ClearCall DEF ClearUnread, ui
  <2>2. Leaves(n, Terminal, <<>>)
    BY <2>1, Left, TaskIs
  <2>3. \A m \in Node : DOMAIN channels[m] \subseteq DOMAIN (channels'[m])
    BY <1>2, ClearFacts DEF Grown
  <2>4. TermRun(DOMAIN (channels'[n]), active[n], <<>>)
    BY DEF TermRun
  <2>5. QED
    BY <2>1, <2>2, <2>3, <2>4, RunKeeps, TaskIs
<1>3. CASE SelectLast(n)
  <2>1. Len(channels[n]) \in DOMAIN channels[n]
    BY DEF TypeOK
  <2>2. TermRun(DOMAIN channels[n], active[n], Select(Len(channels[n])))
    BY <2>1 DEF TermRun
  <2>3. /\ run' = [run EXCEPT ![n][Terminal] = Select(Len(channels[n]))]
        /\ UNCHANGED <<channels, active, todo>>
    BY <1>3 DEF SelectLast, lists, ui
  <2>4. QED
    BY <2>2, <2>3, TermKeepsRun
<1>4. QED
  BY <1>1, <1>2, <1>3 DEF Screen

\* An item of a queue is of the queue's set.
LEMMA QueueHeads ==
    ASSUME QueuesOK, NEW n \in Node
    PROVE  /\ cmds[n] # <<>> => Head(cmds[n]) \in Cmds(todo, n)
           /\ events[n] # <<>> => Head(events[n]) \in Events
           /\ \A p \in Node : wire[n][p] # <<>> =>
                 Head(wire[n][p]) \in Packets(todo, n) /\ n # p
<1>1. cmds[n] # <<>> => Head(cmds[n]) \in Cmds(todo, n)
  BY TailFacts DEF QueuesOK, CmdsOK
<1>2. events[n] # <<>> => Head(events[n]) \in Events
  BY TailFacts DEF QueuesOK, EventsOK
<1>3. \A p \in Node : wire[n][p] # <<>> => Head(wire[n][p]) \in Packets(todo, n) /\ n # p
  BY TailFacts DEF QueuesOK, WireOK
<1>4. QED
  BY <1>1, <1>2, <1>3

\* A command taken gives the mesh loop calls that it may make.
LEMMA TakeKeepsRun ==
    ASSUME ChatAssumption, TypeOK, RunOK, QueuesOK, NEW n \in Node, TakeCommand(n)
    PROVE  RunOK'
<1> DEFINE c == Head(cmds[n])  v == HandleCommand(n, c)
<1>1. c \in Cmds(todo, n)
  BY QueueHeads DEF TakeCommand
<1> HIDE DEF c
<1>2. MeshRun(todo, n, v)
  BY <1>1, CommandIs DEF MeshRun
<1>3. run' = [run EXCEPT ![n][Mesh] = v] /\ UNCHANGED <<channels, active, todo>>
  BY DEF TakeCommand, lists, ui, c
<1>4. Mesh \in Task \ {Terminal} /\ \A p \in Node : Mesh = p => ReadRun(todo, n, p, v)
  BY TaskIs
<1> HIDE DEF v
<1>5. QED
  BY <1>2, <1>3, <1>4, TaskKeepsRun

\* A packet taken gives the read loop calls that it may make.
LEMMA ReceiveKeepsRun ==
    ASSUME ChatAssumption, TypeOK, RunOK, QueuesOK, NEW n \in Node, NEW p \in Node, Receive(n, p)
    PROVE  RunOK'
<1> DEFINE m == Head(wire[p][n])  v == HandleAppMsg(n, m)
<1>1. m \in Packets(todo, p) /\ n # p
  BY QueueHeads DEF Receive
<1> HIDE DEF m
<1>2. ReadRun(todo, n, p, v)
  BY <1>1, PacketIs DEF ReadRun
<1>3. run' = [run EXCEPT ![n][p] = v] /\ UNCHANGED <<channels, active, todo>>
  BY DEF Receive, lists, ui, m
<1>4. /\ p \in Task \ {Terminal} /\ (p = Mesh => MeshRun(todo, n, v))
      /\ \A q \in Node : p = q => ReadRun(todo, n, q, v)
  BY <1>2, TaskIs
<1> HIDE DEF v
<1>5. QED
  BY <1>2, <1>3, <1>4, TaskKeepsRun

\* An event drained gives the terminal calls that it may make.
LEMMA DrainKeepsRun ==
    ASSUME ChatAssumption, TypeOK, RunOK, QueuesOK, NEW n \in Node, Drain(n)
    PROVE  RunOK'
<1> DEFINE e == Head(events[n])
<1>1. e \in Events
  BY QueueHeads DEF Drain
<1>2. UNCHANGED <<channels, active, todo>>
  BY DEF Drain, lists
<1>3. CASE e.is = "GroupJoinRequest"
  <2>1. e.name \in Name /\ e.who \in Node
    BY <1>1, <1>3 DEF Events, Asks
  <2>2. TermRun(DOMAIN channels[n], active[n], Noting(e.name, e.who))
    BY <2>1 DEF TermRun
  <2>3. run' = [run EXCEPT ![n][Terminal] = Noting(e.name, e.who)]
    BY <1>3 DEF Drain, Noting
  <2>4. QED
    BY <1>2, <2>2, <2>3, TermKeepsRun
<1>4. CASE e.is # "GroupJoinRequest"
  <2>1. TermRun(DOMAIN channels[n], active[n], Remarking)
    BY DEF TermRun
  <2>2. run' = [run EXCEPT ![n][Terminal] = Remarking]
    BY <1>4 DEF Drain, Remarking
  <2>3. QED
    BY <1>2, <2>1, <2>2, TermKeepsRun
<1>5. QED
  BY <1>3, <1>4

\* The fields of an input.
LEMMA InputIs ==
    ASSUME ChatAssumption, NEW i \in Inputs
    PROVE  /\ i.by \in Node
           /\ i.do = "line" => i.id \in Msg
           /\ i.do \in {"group", "join", "request"} => i.name \in Name
           /\ i.do = "request" => i.owner \in Node
           /\ i.do \in {"approve", "deny"} => i.name \in Name /\ i.who \in Node
BY DEF ChatAssumption, InputSet

\* An input gives the terminal calls that it may make.
LEMMA UserKeepsRun ==
    ASSUME ChatAssumption, TypeOK, RunOK, todo \subseteq Inputs, NEW i \in todo, User(i)
    PROVE  RunOK'
<1> DEFINE n == i.by
<1>1. n \in Node
  BY InputIs
<1>2. todo' \subseteq todo /\ UNCHANGED <<channels, active>>
  BY OthersKeep DEF User, TypeLine, TypeGroup, TypeRequest, TypeJoin, SelectChannel, Decide,
                    ToggleRequests, Order, Perform, Input, lists
<1>3. CASE TypeJoin(i)
  <2>1. i.name \in Name
    BY <1>3, InputIs DEF TypeJoin
  <2>2. TermRun(DOMAIN channels[n], active[n], Entering(i.name))
    BY <2>1 DEF TermRun
  <2>3. run' = [run EXCEPT ![n][Terminal] = Entering(i.name)]
    BY <1>3 DEF TypeJoin, Perform, Entering
  <2>4. QED
    BY <1>1, <1>2, <2>2, <2>3, TermKeepsRun
<1>4. CASE SelectChannel(i)
  <2>1. PICK c \in DOMAIN channels[n] : run' = [run EXCEPT ![n][Terminal] = Select(c)]
    BY <1>4 DEF SelectChannel, Perform
  <2>2. TermRun(DOMAIN channels[n], active[n], Select(c))
    BY DEF TermRun
  <2>3. QED
    BY <1>1, <1>2, <2>1, <2>2, TermKeepsRun
<1>5. CASE ~TypeJoin(i) /\ ~SelectChannel(i)
  <2>1. run' = run
    BY <1>5 DEF User, TypeLine, TypeGroup, TypeRequest, Decide, ToggleRequests, Order
  <2>2. QED
    BY <1>2, <2>1, RunStays
<1>6. QED
  BY <1>3, <1>4, <1>5

\* Every step leaves the tasks with calls that they may make.
LEMMA RunStep ==
    ASSUME ChatAssumption, TypeOK, RunOK, QueuesOK, [Next]_vars
    PROVE  RunOK'
<1>1. ASSUME NEW n \in Node, NEW k \in Task, Call(n, k) PROVE RunOK'
  BY <1>1, CallKeepsRun
<1>2. ASSUME NEW n \in Node, TakeCommand(n) \/ Screen(n) \/ Drain(n) PROVE RunOK'
  BY <1>2, TakeKeepsRun, ScreenKeepsRun, DrainKeepsRun
<1>3. ASSUME NEW n \in Node, NEW p \in Node, Receive(n, p) PROVE RunOK'
  BY <1>3, ReceiveKeepsRun
<1>4. ASSUME NEW u \in Unsteady, Environment(u[1], u[2]) PROVE RunOK'
  BY <1>4, OthersKeep, RunStays DEF lists, ui
<1>5. ASSUME NEW i \in todo, User(i) PROVE RunOK'
  BY <1>5, UserKeepsRun DEF QueuesOK
<1>6. CASE UNCHANGED vars
  BY <1>6, RunStays DEF vars, lists, ui
<1>7. QED
  BY <1>1, <1>2, <1>3, <1>4, <1>5, <1>6 DEF Next, Progress

(***************************************************************************)
(* The queues                                                              *)
(***************************************************************************)
\* n sends m to the nodes P.
Posts(n, P, m) ==
    /\ DOMAIN wire' = Node /\ \A q \in Node : DOMAIN wire'[q] = Node
    /\ \A q, p \in Node :
          wire'[q][p] = IF q = n /\ p \in P THEN Append(wire[q][p], m) ELSE wire[q][p]

\* n takes the first packet of p.
Takes(n, p) ==
    /\ DOMAIN wire' = Node /\ \A q \in Node : DOMAIN wire'[q] = Node
    /\ \A q, x \in Node :
          wire'[q][x] = IF q = p /\ x = n THEN Tail(wire[q][x]) ELSE wire[q][x]

\* A broadcast posts its packet to every connection.
LEMMA BroadcastPosts ==
    ASSUME WireOK, NEW n \in Node, NEW k \in Task, Broadcast(n, k)
    PROVE  Posts(n, conns[n], Arg(n, k).msg)
<1> DEFINE new == [p \in Node |-> IF p \in conns[n] THEN Append(wire[n][p], Arg(n, k).msg)
                                                   ELSE wire[n][p]]
<1>1. wire' = [wire EXCEPT ![n] = new]
  BY DEF Broadcast, WireOK
<1>2. wire'[n] = new /\ \A q \in Node \ {n} : wire'[q] = wire[q]
  BY <1>1 DEF WireOK
<1>3. DOMAIN wire' = Node
  BY <1>1 DEF WireOK
<1>4. QED
  BY <1>2, <1>3 DEF Posts, WireOK

\* A packet for one node is posted to it, if it is connected.
LEMMA SendPosts ==
    ASSUME ChatAssumption, RunOK, WireOK, NEW n \in Node, NEW k \in Task, SendTo(n, k)
    PROVE  Posts(n, {Arg(n, k).to} \cap conns[n], Arg(n, k).msg)
<1> DEFINE a == Arg(n, k)
<1>1. a.to \in Node
  BY SendCall DEF SendTo
<1>2. wire' = IF a.to \in conns[n] THEN [wire EXCEPT ![n][a.to] = Append(wire[n][a.to], a.msg)]
                                   ELSE wire
  BY DEF SendTo
<1> HIDE DEF a
<1>3. CASE a.to \in conns[n]
  <2>1. wire' = [wire EXCEPT ![n][a.to] = Append(wire[n][a.to], a.msg)]
    BY <1>2, <1>3
  <2>2. /\ DOMAIN wire' = Node /\ \A x \in Node : DOMAIN wire'[x] = Node
        /\ \A x \in Node, y \in Node :
              wire'[x][y] = IF x = n /\ y = a.to THEN Append(wire[n][a.to], a.msg) ELSE wire[x][y]
    BY <1>1, <2>1, Entry DEF WireOK
  <2>3. Posts(n, {a.to} \cap conns[n], a.msg)
    BY <1>3, <2>2 DEF Posts
  <2>4. QED
    BY <2>3 DEF a
<1>4. CASE a.to \notin conns[n]
  <2>1. Posts(n, {a.to} \cap conns[n], a.msg)
    BY <1>2, <1>4 DEF Posts, WireOK
  <2>2. QED
    BY <2>1 DEF a
<1>5. QED
  BY <1>3, <1>4

\* A packet received, or skipped, is taken off its wire.
LEMMA ReceiveTakes ==
    ASSUME WireOK, NEW n \in Node, NEW p \in Node, Receive(n, p) \/ Skip(n, p)
    PROVE  Takes(n, p)
<1>1. wire' = [wire EXCEPT ![p][n] = Tail(wire[p][n])]
  BY DEF Receive, Skip, WireOK
<1>2. /\ DOMAIN wire' = Node /\ \A x \in Node : DOMAIN wire'[x] = Node
      /\ \A x \in Node, y \in Node :
            wire'[x][y] = IF x = p /\ y = n THEN Tail(wire[p][n]) ELSE wire[x][y]
  BY <1>1, Entry DEF WireOK
<1>3. QED
  BY <1>2 DEF Takes

\* Posted packets leave the wires with what they may carry.
LEMMA PostsKeep ==
    ASSUME WireOK, NoSelf, UNCHANGED todo, NEW n \in Node, NEW P, P \subseteq conns[n],
           NEW m, \A p \in P \cap Node : m \in Packets(todo, n), Posts(n, P, m)
    PROVE  WireOK'
<1>1. \A q, p \in Node : wire[q][p] \in Seq(Packets(todo, q))
  BY DEF WireOK
<1>2. ASSUME NEW q \in Node, NEW p \in Node
      PROVE  wire'[q][p] \in Seq(Packets(todo, q))
  <2>1. CASE q = n /\ p \in P
    <3>1. m \in Packets(todo, n) /\ wire[q][p] \in Seq(Packets(todo, n))
      BY <1>1, <2>1
    <3>2. wire'[q][p] = Append(wire[q][p], m)
      BY <2>1 DEF Posts
    <3>3. Append(wire[q][p], m) \in Seq(Packets(todo, n))
      BY <3>1, AppendFacts
    <3>4. QED
      BY <2>1, <3>2, <3>3
  <2>2. CASE ~(q = n /\ p \in P)
    <3>1. wire'[q][p] = wire[q][p]
      BY <2>2 DEF Posts
    <3>2. QED
      BY <1>1, <3>1
  <2>3. QED
    BY <2>1, <2>2
<1>3. \A q \in Node : wire'[q][q] = <<>>
  BY DEF Posts, NoSelf, WireOK
<1>4. DOMAIN wire' = Node /\ \A q \in Node : DOMAIN wire'[q] = Node
  BY DEF Posts
<1>5. QED
  BY <1>2, <1>3, <1>4 DEF WireOK

\* A packet taken leaves the wires with what they may carry.
LEMMA TakesKeep ==
    ASSUME WireOK, UNCHANGED todo, NEW n \in Node, NEW p \in Node, wire[p][n] # <<>>, Takes(n, p)
    PROVE  WireOK'
<1>1. \A q, x \in Node : wire[q][x] \in Seq(Packets(todo, q))
  BY DEF WireOK
<1>2. Tail(wire[p][n]) \in Seq(Packets(todo, p))
  <2> DEFINE S == Packets(todo, p)  w == wire[p][n]
  <2>1. w \in Seq(S) /\ w # <<>>
    BY <1>1
  <2> HIDE DEF S, w
  <2>2. Tail(w) \in Seq(S)
    BY <2>1, TailFacts
  <2>3. QED
    BY <2>2 DEF S, w
<1>3. \A q, x \in Node : wire'[q][x] \in Seq(Packets(todo, q))
  <2> SUFFICES ASSUME NEW q \in Node, NEW x \in Node
               PROVE  wire'[q][x] \in Seq(Packets(todo, q))
    OBVIOUS
  <2>1. CASE q = p /\ x = n
    BY <1>2, <2>1 DEF Takes
  <2>2. CASE ~(q = p /\ x = n)
    <3>1. wire'[q][x] = wire[q][x]
      BY <2>2 DEF Takes
    <3>2. QED
      BY <1>1, <3>1
  <2>3. QED
    BY <2>1, <2>2
<1>4. \A q \in Node : wire'[q][q] = <<>>
  BY DEF Takes, WireOK
<1>5. DOMAIN wire' = Node /\ \A q \in Node : DOMAIN wire'[q] = Node
  BY DEF Takes
<1>6. QED
  BY <1>3, <1>4, <1>5 DEF WireOK

\* Wires that do not change carry what they may.
LEMMA WireStays ==
    ASSUME WireOK, UNCHANGED wire, todo' \subseteq todo
    PROVE  WireOK'
<1>1. ASSUME NEW q \in Node, NEW p \in Node
      PROVE  wire[q][p] \in Seq(Packets(todo', q))
  <2>1. wire[q][p] \in Seq(Packets(todo, q))
    BY DEF WireOK
  <2>2. Packets(todo, q) \subseteq Packets(todo', q)
    BY QueuesStay
  <2>3. QED
    BY <2>1, <2>2, SeqGrows
<1>2. QED
  BY <1>1 DEF WireOK

\* What a broadcast carries may be on the wire.
LEMMA BroadcastIsPacket ==
    ASSUME ChatAssumption, RunOK, NEW n \in Node, NEW k \in Task, Broadcast(n, k)
    PROVE  Arg(n, k).msg \in Packets(todo, n)
<1> DEFINE m == Arg(n, k).msg
<1>1. \/ \E id \in Msg, ch \in Name : Says(n, id) /\ m = Chat(id, ch)
      \/ \E name \in Name : m = Announcement(name, n)
      \/ \E name \in Name, who \in Node : Allowed(todo, n, name, who) /\ m = Approval(name, who)
  BY BroadcastCall DEF Broadcast
<1> HIDE DEF m
<1>2. \A id \in Msg, ch \in Name : Says(n, id) => Chat(id, ch) \in Packets(todo, n)
  BY PacketIn
<1>3. \A name \in Name : Announcement(name, n) \in Packets(todo, n)
  BY PacketIn
<1>4. \A name \in Name, who \in Node :
         Allowed(todo, n, name, who) => Approval(name, who) \in Packets(todo, n)
  BY PacketIn
<1>5. m \in Packets(todo, n)
  BY <1>1, <1>2, <1>3, <1>4
<1>6. QED
  BY <1>5 DEF m

\* A packet sent to one node may be on the wire.
LEMMA SendIsPacket ==
    ASSUME ChatAssumption, RunOK, NEW n \in Node, NEW k \in Task, SendTo(n, k)
    PROVE  Arg(n, k).to \in Node /\ Arg(n, k).msg \in Packets(todo, n)
<1> DEFINE a == Arg(n, k)
<1>1. /\ a.to \in Node
      /\ \/ \E name \in Name : a.msg = JoinReq(name, n)
         \/ \E name \in Name : a.msg = Denial(name, a.to)
  BY SendCall DEF SendTo
<1> HIDE DEF a
<1>2. \A name \in Name, who \in Node :
         JoinReq(name, who) \in Packets(todo, n) /\ Denial(name, who) \in Packets(todo, n)
  BY PacketIn
<1>3. a.to \in Node /\ a.msg \in Packets(todo, n)
  BY <1>1, <1>2
<1>4. QED
  BY <1>3 DEF a

\* No input comes back.
LEMMA TodoStep == ASSUME [Next]_vars PROVE todo' \subseteq todo
<1>1. ASSUME NEW n \in Node, NEW k \in Task, Call(n, k) PROVE todo' \subseteq todo
  BY <1>1 DEF Call, PushMessage, PeerCount, Broadcast, SendTo, MarkSent, AddChannel,
              AddGroupChannel, GroupApprove, GroupAddPending, AddPendingRequest,
              RemovePendingRequest, SendEvent
<1>2. ASSUME NEW n, TakeCommand(n) \/ Screen(n) \/ Drain(n) PROVE todo' \subseteq todo
  BY <1>2 DEF TakeCommand, Screen, SetActive, ClearUnread, SelectLast, Drain
<1>3. ASSUME NEW n, NEW p, Receive(n, p) \/ Environment(n, p) PROVE todo' \subseteq todo
  BY <1>3 DEF Receive, Environment, AddPeer, RemovePeer, Registered, Unregistered, Skip, Churn
<1>4. ASSUME NEW i, User(i) PROVE todo' \subseteq todo
  BY <1>4 DEF User, TypeLine, TypeGroup, TypeRequest, TypeJoin, SelectChannel, Decide,
              ToggleRequests, Order, Perform, Input
<1>5. QED
  BY <1>1, <1>2, <1>3, <1>4 DEF Next, Progress, vars

\* Every step leaves the wires with what they may carry.
LEMMA WireStep ==
    ASSUME ChatAssumption, RunOK, WireOK, NoSelf, [Next]_vars
    PROVE  WireOK'
<1>1. ASSUME NEW n \in Node, NEW k \in Task, Broadcast(n, k) PROVE WireOK'
  <2>1. UNCHANGED todo
    BY <1>1 DEF Broadcast
  <2>2. Arg(n, k).msg \in Packets(todo, n)
    BY <1>1, BroadcastIsPacket
  <2>3. Posts(n, conns[n], Arg(n, k).msg)
    BY <1>1, BroadcastPosts
  <2>4. QED
    BY <2>1, <2>2, <2>3, PostsKeep
<1>2. ASSUME NEW n \in Node, NEW k \in Task, SendTo(n, k) PROVE WireOK'
  <2>1. UNCHANGED todo
    BY <1>2 DEF SendTo
  <2>2. Arg(n, k).msg \in Packets(todo, n)
    BY <1>2, SendIsPacket
  <2>3. Posts(n, {Arg(n, k).to} \cap conns[n], Arg(n, k).msg)
    BY <1>2, SendPosts
  <2>4. QED
    BY <2>1, <2>2, <2>3, PostsKeep
<1>3. ASSUME NEW n \in Node, NEW p \in Node, Receive(n, p) \/ Skip(n, p) PROVE WireOK'
  <2>1. UNCHANGED todo /\ wire[p][n] # <<>>
    BY <1>3 DEF Receive, Skip, Churn
  <2>2. QED
    BY <1>3, <2>1, ReceiveTakes, TakesKeep
<1>4. CASE UNCHANGED wire
  BY <1>4, TodoStep, WireStays
<1>5. ASSUME NEW n \in Node, NEW k \in Task, Call(n, k), ~Broadcast(n, k), ~SendTo(n, k)
      PROVE  UNCHANGED wire
  BY <1>5 DEF Call, PushMessage, PeerCount, MarkSent, AddChannel, AddGroupChannel, GroupApprove,
              GroupAddPending, AddPendingRequest, RemovePendingRequest, SendEvent, queues
<1>6. ASSUME NEW n, TakeCommand(n) \/ Screen(n) \/ Drain(n) PROVE UNCHANGED wire
  BY <1>6 DEF TakeCommand, Screen, SetActive, ClearUnread, SelectLast, Drain, queues
<1>7. ASSUME NEW n, NEW p, Environment(n, p), ~Skip(n, p) PROVE UNCHANGED wire
  BY <1>7 DEF Environment, AddPeer, RemovePeer, Registered, Unregistered, Churn
<1>8. ASSUME NEW i, User(i) PROVE UNCHANGED wire
  BY <1>8 DEF User, TypeLine, TypeGroup, TypeRequest, TypeJoin, SelectChannel, Decide,
              ToggleRequests, Order, Perform, Input
<1>9. UNCHANGED vars => UNCHANGED wire
  BY DEF vars, queues
<1>10. \A u \in Unsteady : u[1] \in Node /\ u[2] \in Node
  BY DEF ChatAssumption
<1>11. QED
  BY <1>1, <1>2, <1>3, <1>4, <1>5, <1>6, <1>7, <1>8, <1>9, <1>10 DEF Next, Progress

\* Every step leaves the terminals' events as they may be.
LEMMA EventsStep ==
    ASSUME ChatAssumption, RunOK, EventsOK, [Next]_vars
    PROVE  EventsOK'
<1>1. \A n \in Node : events[n] \in Seq(Events)
  BY DEF EventsOK
<1>2. ASSUME NEW n \in Node, NEW e \in Events,
             events' = [events EXCEPT ![n] = Append(@, e)]
      PROVE  EventsOK'
  <2>1. Append(events[n], e) \in Seq(Events)
    BY <1>1, <1>2, AppendFacts
  <2>2. events' = [events EXCEPT ![n] = Append(events[n], e)]
    BY <1>2 DEF EventsOK
  <2>3. QED
    BY <1>1, <2>1, <2>2 DEF EventsOK
<1>3. CASE UNCHANGED events
  BY <1>1, <1>3 DEF EventsOK
<1>4. ASSUME NEW n \in Node, NEW k \in Task, SendEvent(n, k) PROVE EventsOK'
  <2>1. Arg(n, k).ev \in Events
    BY <1>4, EventCall DEF SendEvent
  <2>2. events' = [events EXCEPT ![n] = Append(@, Arg(n, k).ev)]
    BY <1>4 DEF SendEvent
  <2>3. QED
    BY <1>2, <2>1, <2>2
<1>5. ASSUME NEW n \in Node, Drain(n) PROVE EventsOK'
  <2>1. events' = [events EXCEPT ![n] = Tail(events[n])] /\ events[n] # <<>>
    BY <1>5 DEF Drain, EventsOK
  <2>2. Tail(events[n]) \in Seq(Events)
    BY <1>1, <2>1, TailFacts
  <2>3. QED
    BY <1>1, <2>1, <2>2 DEF EventsOK
<1>6. ASSUME NEW n \in Node, NEW p \in Node, Environment(n, p) PROVE EventsOK'
  <2>1. \A t \in {"PeerJoined", "PeerLeft"} : [is |-> t] \in Events
    BY DEF Events
  <2>2. \/ UNCHANGED events
        \/ \E t \in {"PeerJoined", "PeerLeft"} :
              events' = [events EXCEPT ![n] = Append(@, [is |-> t])]
    BY <1>6 DEF Environment, AddPeer, RemovePeer, Registered, Unregistered, Skip
  <2>3. QED
    BY <1>2, <1>3, <2>1, <2>2
<1>7. ASSUME NEW n \in Node, NEW k \in Task, Call(n, k), ~SendEvent(n, k)
      PROVE  UNCHANGED events
  BY <1>7 DEF Call, PushMessage, PeerCount, Broadcast, SendTo, MarkSent, AddChannel,
              AddGroupChannel, GroupApprove, GroupAddPending, AddPendingRequest,
              RemovePendingRequest, queues
<1>8. ASSUME NEW n, TakeCommand(n) \/ Screen(n) PROVE UNCHANGED events
  BY <1>8 DEF TakeCommand, Screen, SetActive, ClearUnread, SelectLast, queues
<1>9. ASSUME NEW n, NEW p, Receive(n, p) PROVE UNCHANGED events
  BY <1>9 DEF Receive
<1>10. ASSUME NEW i, User(i) PROVE UNCHANGED events
  BY <1>10 DEF User, TypeLine, TypeGroup, TypeRequest, TypeJoin, SelectChannel, Decide,
               ToggleRequests, Order, Perform, Input
<1>11. UNCHANGED vars => UNCHANGED events
  BY DEF vars, queues
<1>12. \A u \in Unsteady : u[1] \in Node /\ u[2] \in Node
  BY DEF ChatAssumption
<1>13. QED
  BY <1>3, <1>4, <1>5, <1>6, <1>7, <1>8, <1>9, <1>10, <1>11, <1>12 DEF Next, Progress

\* Orders for a node's own messages and groups, for requests and answers are among
\* its commands.
LEMMA CommandIn ==
    ASSUME NEW td, NEW n \in Node
    PROVE  /\ \A do \in {"say", "cmd"}, id \in Msg, ch \in Name :
                 Says(n, id) => LineOrder(do, id, ch) \in Cmds(td, n)
           /\ \A name \in Name : GroupOrder(name) \in Cmds(td, n)
           /\ \A name \in Name, p \in Node : /\ RequestOrder(name, p) \in Cmds(td, n)
                                           /\ AnswerOrder("deny", name, p) \in Cmds(td, n)
           /\ \A name \in Name, who \in Node :
                 Allowed(td, n, name, who) => AnswerOrder("approve", name, who) \in Cmds(td, n)
<1>1. ASSUME NEW do \in {"say", "cmd"}, NEW id \in Msg, NEW ch \in Name, Says(n, id)
      PROVE  LineOrder(do, id, ch) \in Cmds(td, n)
  <2>1. <<do, id, ch>> \in {y \in {"say", "cmd"} \X Msg \X Name : Says(n, y[2])}
    BY <1>1
  <2>2. QED
    BY <2>1 DEF Cmds
<1>2. \A name \in Name : GroupOrder(name) \in Cmds(td, n)
  BY DEF Cmds
<1>3. ASSUME NEW name \in Name, NEW p \in Node
      PROVE  RequestOrder(name, p) \in Cmds(td, n) /\ AnswerOrder("deny", name, p) \in Cmds(td, n)
  <2>1. <<name, p>> \in Name \X Node
    OBVIOUS
  <2>2. QED
    BY <2>1 DEF Cmds
<1>4. ASSUME NEW name \in Name, NEW who \in Node, Allowed(td, n, name, who)
      PROVE  AnswerOrder("approve", name, who) \in Cmds(td, n)
  <2>1. <<name, who>> \in AllowedBy(td, n)
    BY <1>4 DEF AllowedBy
  <2>2. QED
    BY <2>1 DEF Cmds
<1>5. QED
  BY <1>1, <1>2, <1>3, <1>4

\* What a user orders is a command.
LEMMA OrderIsCommand ==
    ASSUME ChatAssumption, TypeOK, todo \subseteq Inputs,
           NEW i \in todo, NEW c, Order(i, c),
           \/ TypeLine(i) /\ i.do = "line" /\ c.do \in {"say", "cmd"} /\
              c = LineOrder(c.do, i.id, channels[i.by][active[i.by]].name)
           \/ TypeGroup(i) /\ c = GroupOrder(i.name)
           \/ TypeRequest(i) /\ c = RequestOrder(i.name, i.owner)
           \/ Decide(i) /\ c = AnswerOrder(i.do, i.name, i.who)
    PROVE  c \in Cmds(todo', i.by)
<1> DEFINE n == i.by
<1>1. n \in Node /\ i \in Inputs /\ i \notin todo' /\ todo' \subseteq todo
  BY InputIs DEF Order, Input
<1>2. CASE TypeLine(i) /\ i.do = "line" /\ c.do \in {"say", "cmd"} /\
           c = LineOrder(c.do, i.id, channels[n][active[n]].name)
  <2>1. i.id \in Msg /\ Says(n, i.id)
    BY <1>1, <1>2, InputIs DEF Says
  <2>2. channels[n] \in Seq(ChannelSet) /\ active[n] \in DOMAIN channels[n]
    BY <1>1 DEF TypeOK
  <2>3. channels[n][active[n]] \in ChannelSet
    BY <2>2
  <2>4. channels[n][active[n]].name \in Name
    BY <2>3 DEF ChannelSet
  <2> DEFINE ch == channels[n][active[n]].name
  <2> HIDE DEF ch
  <2>5. c = LineOrder(c.do, i.id, ch) /\ ch \in Name
    BY <1>2, <2>4 DEF ch
  <2>6. LineOrder(c.do, i.id, ch) \in Cmds(todo', n)
    BY <1>1, <1>2, <2>1, <2>5, CommandIn
  <2>7. QED
    BY <2>5, <2>6
<1>3. CASE TypeGroup(i) /\ c = GroupOrder(i.name)
  <2>1. i.name \in Name
    BY <1>1, <1>3, InputIs DEF TypeGroup
  <2>2. GroupOrder(i.name) \in Cmds(todo', n)
    BY <1>1, <2>1, CommandIn
  <2>3. QED
    BY <1>3, <2>2
<1>4. CASE TypeRequest(i) /\ c = RequestOrder(i.name, i.owner)
  <2>1. i.name \in Name /\ i.owner \in Node
    BY <1>1, <1>4, InputIs DEF TypeRequest
  <2>2. RequestOrder(i.name, i.owner) \in Cmds(todo', n)
    BY <1>1, <2>1, CommandIn
  <2>3. QED
    BY <1>4, <2>2
<1>5. CASE Decide(i) /\ c = AnswerOrder(i.do, i.name, i.who)
  <2>1. i.do \in {"approve", "deny"} /\ i.name \in Name /\ i.who \in Node
    BY <1>1, <1>5, InputIs DEF Decide
  <2>2. i.do = "approve" => Allowed(todo', n, i.name, i.who)
    BY <1>1 DEF Allowed
  <2>3. AnswerOrder(i.do, i.name, i.who) \in Cmds(todo', n)
    BY <1>1, <2>1, <2>2, CommandIn
  <2>4. QED
    BY <1>5, <2>3
<1>6. QED
  BY <1>2, <1>3, <1>4, <1>5

\* Each input orders one thing, or nothing.
LEMMA UserOrders ==
    ASSUME NEW i, User(i)
    PROVE  \/ UNCHANGED cmds
           \/ \E c : /\ Order(i, c)
                     /\ \/ TypeLine(i) /\ i.do = "line" /\ c.do \in {"say", "cmd"} /\
                           c = LineOrder(c.do, i.id, channels[i.by][active[i.by]].name)
                        \/ TypeGroup(i) /\ c = GroupOrder(i.name)
                        \/ TypeRequest(i) /\ c = RequestOrder(i.name, i.owner)
                        \/ Decide(i) /\ c = AnswerOrder(i.do, i.name, i.who)
<1>1. CASE TypeLine(i)
  <2>1. PICK do \in {"say", "cmd"} :
           Order(i, LineOrder(do, i.id, channels[i.by][active[i.by]].name))
    BY <1>1 DEF TypeLine, LineOrder
  <2> DEFINE c == LineOrder(do, i.id, channels[i.by][active[i.by]].name)
  <2>2. c.do = do /\ i.do = "line"
    BY <1>1 DEF TypeLine, LineOrder
  <2>3. QED
    BY <1>1, <2>1, <2>2
<1>2. CASE TypeGroup(i)
  BY <1>2 DEF TypeGroup, GroupOrder
<1>3. CASE TypeRequest(i)
  BY <1>3 DEF TypeRequest, RequestOrder
<1>4. CASE Decide(i)
  BY <1>4 DEF Decide, AnswerOrder
<1>5. CASE TypeJoin(i) \/ SelectChannel(i) \/ ToggleRequests(i)
  BY <1>5 DEF TypeJoin, SelectChannel, ToggleRequests, Perform
<1>6. QED
  BY <1>1, <1>2, <1>3, <1>4, <1>5 DEF User

\* Every step leaves the queues of commands with what they may hold.
LEMMA CmdsStep ==
    ASSUME ChatAssumption, TypeOK, QueuesOK, [Next]_vars
    PROVE  CmdsOK'
<1> USE TodoStep
<1>1. \A n \in Node : cmds[n] \in Seq(Cmds(todo', n))
  <2> SUFFICES ASSUME NEW n \in Node PROVE cmds[n] \in Seq(Cmds(todo', n))
    OBVIOUS
  <2>1. cmds[n] \in Seq(Cmds(todo, n)) /\ Cmds(todo, n) \subseteq Cmds(todo', n)
    BY QueuesStay DEF QueuesOK, CmdsOK
  <2>2. QED
    BY <2>1, SeqGrows
<1>2. CASE UNCHANGED cmds
  BY <1>1, <1>2 DEF QueuesOK, CmdsOK
<1>3. ASSUME NEW n \in Node, TakeCommand(n) PROVE CmdsOK'
  <2>1. cmds' = [cmds EXCEPT ![n] = Tail(cmds[n])] /\ cmds[n] # <<>>
    BY <1>3 DEF TakeCommand, QueuesOK, CmdsOK
  <2>2. Tail(cmds[n]) \in Seq(Cmds(todo', n))
    BY <1>1, <2>1, TailFacts
  <2>3. QED
    BY <1>1, <2>1, <2>2 DEF QueuesOK, CmdsOK
<1>4. ASSUME NEW i \in todo, User(i) PROVE CmdsOK'
  <2>1. i.by \in Node
    BY InputIs DEF QueuesOK
  <2>2. CASE \E c : c \in Cmds(todo', i.by) /\ cmds' = [cmds EXCEPT ![i.by] = Append(@, c)]
    <3>1. PICK c : c \in Cmds(todo', i.by) /\ cmds' = [cmds EXCEPT ![i.by] = Append(@, c)]
      BY <2>2
    <3>2. Append(cmds[i.by], c) \in Seq(Cmds(todo', i.by))
      BY <1>1, <2>1, <3>1, AppendFacts
    <3>3. cmds' = [cmds EXCEPT ![i.by] = Append(cmds[i.by], c)]
      BY <2>1, <3>1 DEF QueuesOK, CmdsOK
    <3>4. QED
      BY <1>1, <2>1, <3>2, <3>3 DEF QueuesOK, CmdsOK
  <2>3. \A c : Order(i, c) => cmds' = [cmds EXCEPT ![i.by] = Append(@, c)]
    BY DEF Order
  <2>4. QED
    BY <1>2, <1>4, <2>2, <2>3, UserOrders, OrderIsCommand DEF QueuesOK
<1>5. ASSUME NEW n \in Node, NEW k \in Task, Call(n, k) PROVE UNCHANGED cmds
  BY <1>5 DEF Call, PushMessage, PeerCount, Broadcast, SendTo, MarkSent, AddChannel,
              AddGroupChannel, GroupApprove, GroupAddPending, AddPendingRequest,
              RemovePendingRequest, SendEvent, queues
<1>6. ASSUME NEW n, Screen(n) \/ Drain(n) PROVE UNCHANGED cmds
  BY <1>6 DEF Drain, Screen, SetActive, ClearUnread, SelectLast, queues
<1>7. ASSUME NEW n, NEW p, Receive(n, p) \/ Environment(n, p) PROVE UNCHANGED cmds
  BY <1>7 DEF Receive, Environment, AddPeer, RemovePeer, Registered, Unregistered, Skip, Churn
<1>8. UNCHANGED vars => UNCHANGED cmds
  BY DEF vars, queues
<1>9. QED
  BY <1>2, <1>3, <1>4, <1>5, <1>6, <1>7, <1>8 DEF Next, Progress

\* Every step leaves the queues with what they may hold.
LEMMA QueuesStep ==
    ASSUME ChatAssumption, TypeOK, RunOK, QueuesOK, NoSelf, [Next]_vars
    PROVE  QueuesOK'
BY WireStep, EventsStep, CmdsStep, TodoStep DEF QueuesOK

\* No session is with oneself.
LEMMA NoSelfStep ==
    ASSUME ChatAssumption, TypeOK, NoSelf, [Next]_vars
    PROVE  NoSelf'
<1>1. ASSUME NEW n \in Node, NEW p \in Node, n # p, Environment(n, p) PROVE NoSelf'
  <2>1. conns \in [Node -> SUBSET Node]
    BY DEF TypeOK
  <2>2. \/ UNCHANGED conns
        \/ conns' = [conns EXCEPT ![n] = @ \cup {p}]
        \/ conns' = [conns EXCEPT ![n] = @ \ {p}]
    BY <1>1 DEF Environment, AddPeer, RemovePeer, Registered, Unregistered, Skip
  <2>3. QED
    BY <1>1, <2>1, <2>2 DEF NoSelf
<1>2. \A u \in Unsteady : u[1] \in Node /\ u[2] \in Node /\ u[1] # u[2]
  BY DEF ChatAssumption
<1>3. ASSUME NEW n \in Node, NEW k \in Task, Call(n, k) PROVE UNCHANGED conns
  BY <1>3 DEF Call, PushMessage, PeerCount, Broadcast, SendTo, MarkSent, AddChannel,
              AddGroupChannel, GroupApprove, GroupAddPending, AddPendingRequest,
              RemovePendingRequest, SendEvent, net
<1>4. ASSUME NEW n, Screen(n) PROVE UNCHANGED conns
  BY <1>4 DEF Screen, SetActive, ClearUnread, SelectLast, net
<1>5. UNCHANGED conns => NoSelf'
  BY DEF NoSelf
<1>6. UNCHANGED vars => UNCHANGED conns
  BY DEF vars, net
<1>7. QED
  BY <1>1, <1>2, <1>3, <1>4, <1>5, <1>6, OthersKeep DEF Next, Progress, net

(***************************************************************************)
(* The channel on screen is read                                           *)
(***************************************************************************)
LEMMA ReadKeeps ==
    ASSUME ActiveIsRead,
           \A m \in Node : channels'[m][active'[m]].unread = channels[m][active[m]].unread,
           \A m \in Node : \/ run'[m][Terminal] = run[m][Terminal]
                           \/ ~Doing(m, Terminal, "clear_unread")
    PROVE  ActiveIsRead'
BY DEF ActiveIsRead, Doing

\* No call but that of the terminal itself clears a count.
LEMMA CallClearsNot ==
    ASSUME NEW n \in Node, NEW k \in Task, Call(n, k)
    PROVE  ~Doing(n, k, "clear_unread")
BY DEF Call, PushMessage, PeerCount, Broadcast, SendTo, MarkSent, AddChannel, AddGroupChannel,
       GroupApprove, GroupAddPending, AddPendingRequest, RemovePendingRequest, SendEvent, Doing

\* After a call, the channel on screen is still read.
LEMMA CallKeepsRead ==
    ASSUME ChatAssumption, TypeOK, RunOK, ActiveIsRead, NEW n \in Node, NEW k \in Task, Call(n, k)
    PROVE  ActiveIsRead'
<1>1. UNCHANGED active /\ \E v : Leaves(n, k, v)
  BY CallRun
<1>2. \A m \in Node : channels'[m][active'[m]].unread = channels[m][active[m]].unread
  BY <1>1, CallGrows DEF Grows
<1>3. \A m \in Node : \/ run'[m][Terminal] = run[m][Terminal]
                      \/ ~Doing(m, Terminal, "clear_unread")
  BY <1>1, CallClearsNot, TaskIs DEF Leaves
<1>4. QED
  BY <1>2, <1>3, ReadKeeps

\* A task that has nothing to do gets something to do, or the terminal's own call.
LEMMA MoveKeepsRead ==
    ASSUME ChatAssumption, RunOK, ActiveIsRead, UNCHANGED <<channels, active>>,
           NEW n \in Node, NEW k \in Task, NEW v, run' = [run EXCEPT ![n][k] = v],
           ~Doing(n, k, "clear_unread")
    PROVE  ActiveIsRead'
<1>1. Leaves(n, k, v)
  BY Left
<1>2. \A m \in Node : \/ run'[m][Terminal] = run[m][Terminal]
                      \/ ~Doing(m, Terminal, "clear_unread")
  BY <1>1, TaskIs DEF Leaves
<1>3. QED
  BY <1>2, ReadKeeps

\* After a call about the screen, the channel on screen is read.
LEMMA ScreenKeepsRead ==
    ASSUME ChatAssumption, TypeOK, RunOK, ActiveIsRead, NEW n \in Node, Screen(n)
    PROVE  ActiveIsRead'
<1>1. CASE SetActive(n)
  <2> DEFINE i == Arg(n, Terminal).index
  <2>1. Tail(run[n][Terminal]) = Clearing(i)
    BY <1>1, ActiveCall DEF SetActive
  <2>2. /\ active' = [active EXCEPT ![n] = i] /\ Return(n, Terminal) /\ UNCHANGED channels
    BY <1>1 DEF SetActive, lists
  <2> HIDE DEF i
  <2>3. Leaves(n, Terminal, Clearing(i))
    BY <2>1, <2>2, Left, TaskIs
  <2>4. Clearing(i) # <<>> /\ Head(Clearing(i)).call = "clear_unread"
    BY Short DEF Clearing
  <2>5. Doing(n, Terminal, "clear_unread")'
    BY <2>3, <2>4, TaskIs DEF Leaves, Doing
  <2>6. \A m \in Node \ {n} : /\ active'[m] = active[m]
                              /\ run'[m][Terminal] = run[m][Terminal]
    BY <2>2, <2>3, TaskIs DEF Leaves, TypeOK
  <2>7. \A m \in Node \ {n} : channels'[m][active'[m]].unread > 0 =>
           Doing(m, Terminal, "clear_unread")'
    BY <2>2, <2>6 DEF ActiveIsRead, Doing
  <2>8. QED
    BY <2>5, <2>7 DEF ActiveIsRead
<1>2. CASE ClearUnread(n)
  <2>1. Return(n, Terminal) /\ UNCHANGED active
    BY <1>2 DEF ClearUnread, ui
  <2>2. /\ channels'[n][active[n]].unread = 0
        /\ \A m \in Node \ {n} : channels'[m] = channels[m]
    BY <1>2, ClearFacts
  <2>3. \A m \in Node \ {n} : run'[m][Terminal] = run[m][Terminal]
    BY <2>1, Left, TaskIs DEF Leaves
  <2>4. \A m \in Node \ {n} : channels'[m][active'[m]].unread > 0 =>
           Doing(m, Terminal, "clear_unread")'
    BY <2>1, <2>2, <2>3 DEF ActiveIsRead, Doing
  <2>5. QED
    BY <2>1, <2>2, <2>4 DEF ActiveIsRead
<1>3. CASE SelectLast(n)
  <2>1. /\ run' = [run EXCEPT ![n][Terminal] = Select(Len(channels[n]))]
        /\ UNCHANGED <<channels, active>> /\ ~Doing(n, Terminal, "clear_unread")
    BY <1>3 DEF SelectLast, lists, ui, Doing
  <2>2. QED
    BY <2>1, MoveKeepsRead, TaskIs
<1>4. QED
  BY <1>1, <1>2, <1>3 DEF Screen

\* Every step leaves the channel on screen read.
LEMMA ReadStep ==
    ASSUME ChatAssumption, TypeOK, RunOK, ActiveIsRead, todo \subseteq Inputs, [Next]_vars
    PROVE  ActiveIsRead'
<1>1. ASSUME NEW n \in Node, NEW k \in Task, Call(n, k) PROVE ActiveIsRead'
  BY <1>1, CallKeepsRead
<1>2. CASE UNCHANGED <<channels, active, run>>
  BY <1>2, ReadKeeps
<1>3. ASSUME NEW n \in Node, TakeCommand(n) PROVE ActiveIsRead'
  BY <1>3, MoveKeepsRead, TaskIs DEF TakeCommand, Doing, lists, ui
<1>4. ASSUME NEW n \in Node, Drain(n) PROVE ActiveIsRead'
  <2>1. /\ \E v : run' = [run EXCEPT ![n][Terminal] = v]
        /\ UNCHANGED <<channels, active>> /\ ~Doing(n, Terminal, "clear_unread")
    BY <1>4 DEF Drain, Doing, lists
  <2>2. QED
    BY <2>1, MoveKeepsRead, TaskIs
<1>5. ASSUME NEW n \in Node, NEW p \in Node, Receive(n, p) PROVE ActiveIsRead'
  <2>1. /\ \E v : run' = [run EXCEPT ![n][p] = v]
        /\ UNCHANGED <<channels, active>> /\ ~Doing(n, p, "clear_unread")
    BY <1>5 DEF Receive, Doing, lists, ui
  <2>2. QED
    BY <2>1, MoveKeepsRead, TaskIs
<1>6. ASSUME NEW i \in todo, User(i) PROVE ActiveIsRead'
  <2>1. i.by \in Node
    BY InputIs
  <2>2. CASE UNCHANGED run
    BY <1>2, <1>6, <2>2, OthersKeep DEF lists
  <2>3. CASE \E v : run' = [run EXCEPT ![i.by][Terminal] = v]
    <3>1. ~Doing(i.by, Terminal, "clear_unread")
      BY <1>6 DEF User, TypeLine, TypeGroup, TypeRequest, TypeJoin, SelectChannel, Decide,
                  ToggleRequests, Order, Perform, Input, Doing
    <3>2. UNCHANGED <<channels, active>>
      BY <1>6, OthersKeep DEF lists
    <3>3. QED
      BY <2>1, <2>3, <3>1, <3>2, MoveKeepsRead, TaskIs
  <2>4. QED
    BY <1>6, <2>2, <2>3 DEF User, TypeLine, TypeGroup, TypeRequest, TypeJoin, SelectChannel,
                            Decide, ToggleRequests, Order, Perform
<1>7. \A n, p : Environment(n, p) => UNCHANGED <<channels, active, run>>
  BY OthersKeep DEF lists, ui
<1>8. UNCHANGED vars => UNCHANGED <<channels, active, run>>
  BY DEF vars, lists, ui
<1>9. QED
  BY <1>1, <1>2, <1>3, <1>4, <1>5, <1>6, <1>7, <1>8, ScreenKeepsRead DEF Next, Progress

(***************************************************************************)
(* A message has a tick when it is out                                     *)
(***************************************************************************)
\* Two nodes never say the same.
LEMMA OneAuthor ==
    ASSUME ChatAssumption, NEW id
    PROVE  /\ \A n, m : Says(n, id) /\ Says(m, id) => n = m
           /\ \A i \in Inputs : \A n : i.do = "line" /\ i.id = id /\ Says(n, id) => i.by = n
BY DEF ChatAssumption, Says

\* The calls that are about a message end with its tick, and others do not.
LEMMA TalksLast ==
    ASSUME NEW s, NEW id, Talks(s, id)
    PROVE  s[Len(s)] = Tick(id) /\ s # <<>>
<1> DEFINE Ends == s[Len(s)] = Tick(id) /\ s # <<>>
<1>1. ASSUME NEW ch, s = Say(id, ch) PROVE Ends
  BY <1>1, Short DEF Say
<1>2. ASSUME NEW ch, s = Command(id, ch) PROVE Ends
  BY <1>2, Short DEF Command
<1>3. ASSUME NEW ch, s = <<[call |-> "peer_count"], ToAll(Chat(id, ch)), Tick(id)>> PROVE Ends
  BY <1>3, Short
<1>4. ASSUME NEW ch, s = <<ToAll(Chat(id, ch)), Tick(id)>> PROVE Ends
  BY <1>4, Short
<1>5. CASE s = Ticking(id)
  BY <1>5, Short DEF Ticking
<1>6. QED
  BY <1>1, <1>2, <1>3, <1>4, <1>5 DEF Talks, Starting, Sending

\* A task talks about one message at a time.
LEMMA TalksOf ==
    ASSUME NEW s, NEW id, Talks(s, id)
    PROVE  \A x : Talks(s, x) => x = id
<1>1. ASSUME NEW x, Talks(s, x) PROVE x = id
  <2>1. Tick(x) = Tick(id)
    BY <1>1, TalksLast
  <2>2. QED
    BY <2>1, CallArgs
<1>2. QED
  BY <1>1

\* A task whose calls do not end with a tick talks about none.
LEMMA MuteIs ==
    ASSUME NEW s, s = <<>> \/ s[Len(s)].call # "mark_sent"
    PROVE  \A id : ~Talks(s, id)
BY TalksLast, CallNames

\* Calls about groups talk about no message.
LEMMA MuteRuns ==
    /\ \A id : ~Talks(<<>>, id)
    /\ \A n, name, id : ~Talks(CreateGroup(n, name), id) /\ ~Talks(Announcing(n, name), id)
    /\ \A n, name, p, id : ~Talks(RequestJoin(n, name, p), id)
    /\ \A name, who, id : ~Talks(ApproveJoin(name, who), id)
    /\ \A name, who, id : \A s \in Approving(name, who) : ~Talks(s, id)
    /\ \A name, who, id : ~Talks(DenyJoin(name, who), id) /\ ~Talks(Refusing(name, who), id)
<1>1. \A id : ~Talks(<<>>, id)
  BY MuteIs
<1>2. ASSUME NEW a, a.call # "mark_sent" PROVE \A id : ~Talks(<<a>>, id)
  <2>1. <<a>>[Len(<<a>>)] = a
    BY Short
  <2>2. QED
    BY <1>2, <2>1, MuteIs
<1>3. ASSUME NEW a, NEW b, b.call # "mark_sent" PROVE \A id : ~Talks(<<a, b>>, id)
  <2>1. <<a, b>>[Len(<<a, b>>)] = b
    BY Short
  <2>2. QED
    BY <1>3, <2>1, MuteIs
<1>4. ASSUME NEW a, NEW b, NEW c, c.call # "mark_sent" PROVE \A id : ~Talks(<<a, b, c>>, id)
  <2>1. <<a, b, c>>[Len(<<a, b, c>>)] = c
    BY Short
  <2>2. QED
    BY <1>4, <2>1, MuteIs
<1>5. /\ \A m : ToAll(m).call # "mark_sent"
      /\ \A p, m : ToOne(p, m).call # "mark_sent"
  BY CallNames
<1>6. \A n, name, id : ~Talks(CreateGroup(n, name), id) /\ ~Talks(Announcing(n, name), id)
  BY <1>2, <1>3, <1>5 DEF CreateGroup, Announcing
<1>7. \A n, name, p, id : ~Talks(RequestJoin(n, name, p), id)
  BY <1>2, <1>5 DEF RequestJoin
<1>8. \A name, who, id : ~Talks(ApproveJoin(name, who), id)
  BY <1>4, <1>5 DEF ApproveJoin
<1>9. \A name, who, id : \A s \in Approving(name, who) : ~Talks(s, id)
  BY <1>2, <1>3, <1>5 DEF Approving
<1>10. \A name, who, id : ~Talks(DenyJoin(name, who), id) /\ ~Talks(Refusing(name, who), id)
  BY <1>2, <1>3, <1>5 DEF DenyJoin, Refusing
<1>11. QED
  BY <1>1, <1>6, <1>7, <1>8, <1>9, <1>10

\* The three stages of a message differ.
LEMMA Stages ==
    ASSUME NEW id, NEW ch, NEW c2
    PROVE  /\ \A s \in Starting(id, ch) : s \notin Sending(id, c2) /\ s # Ticking(id)
           /\ Ticking(id) \notin Sending(id, ch) /\ Ticking(id) \notin Starting(id, ch)
           /\ <<>> # Ticking(id) /\ <<>> \notin Sending(id, ch) /\ <<>> \notin Starting(id, ch)
<1>1. \A s \in Starting(id, ch) : Head(s).call = "push_message" /\ s # <<>>
  BY Short, CallNames DEF Starting, Say, Command
<1>2. \A s \in Sending(id, c2) \cup Sending(id, ch) :
         Head(s).call \in {"peer_count", "broadcast"} /\ s # <<>>
  BY Short, CallNames DEF Sending
<1>3. Head(Ticking(id)).call = "mark_sent" /\ Ticking(id) # <<>>
  BY Short, CallNames DEF Ticking
<1>4. QED
  BY <1>1, <1>2, <1>3

\* What a read loop is left with after a call is no message to push.
LEMMA NoPushLeft ==
    ASSUME NEW name, NEW who, NEW s, s = <<>> \/ s \in Requested(name, who) \/ s \in Joining(name)
    PROVE  \A id, ch : s # <<Push(id, ch)>>
<1>1. s = <<>> \/ Head(s).call \in {"group_add_pending", "add_pending_request", "send_event",
                                    "add_channel"}
  BY Short, CallNames DEF Requested, Joining, Joined
<1>2. \A id, ch : <<Push(id, ch)>> # <<>> /\ Head(<<Push(id, ch)>>).call = "push_message"
  BY Short, CallNames
<1>3. QED
  BY <1>1, <1>2

(***************************************************************************)
(* Frames: what must stay for Told to stay                                 *)
(***************************************************************************)
LEMMA OutKeeps ==
    ASSUME NEW n \in Node, NEW id \in Msg,
           \A p \in Node \ {n} :
               status'[p][id] # "absent" => status[p][id] # "absent" \/ Out(n, id),
           \A p \in Node \ {n}, ch \in Name :
              /\ OnWire(n, p, Chat(id, ch))' => OnWire(n, p, Chat(id, ch))
              /\ run'[p][n] = <<Push(id, ch)>> => Out(n, id)
    PROVE  Out(n, id)' => Out(n, id)
BY DEF Out

\* Told stays when the message's status, order and copies do.
LEMMA ToldKeeps ==
    ASSUME NEW n \in Node, NEW id \in Msg, Told(n, id),
           Unsaid(id)' => Unsaid(id), Ordered(n, id)' => Ordered(n, id), OrderedOnce(n, id)',
           status'[n][id] = status[n][id], Out(n, id)' => Out(n, id),
           \/ run'[n][Mesh] = run[n][Mesh]
           \/ ~Talks(run[n][Mesh], id) /\ ~Talks(run'[n][Mesh], id)
    PROVE  Told(n, id)'
<1>1. CASE run'[n][Mesh] = run[n][Mesh]
  BY <1>1 DEF Told
<1>2. CASE ~Talks(run[n][Mesh], id) /\ ~Talks(run'[n][Mesh], id)
  <2>1. \A ch \in Name : /\ run'[n][Mesh] \notin Starting(id, ch)
                         /\ run'[n][Mesh] \notin Sending(id, ch)
    BY <1>2 DEF Talks
  <2>2. Out(n, id)' => status'[n][id] = "Sent"
    BY <1>2 DEF Told, Talks
  <2>3. run'[n][Mesh] = Ticking(id) => status'[n][id] # "absent"
    BY <1>2 DEF Talks, Told
  <2>4. QED
    BY <1>2, <2>1, <2>2, <2>3 DEF Told
<1>3. QED
  BY <1>1, <1>2

(***************************************************************************)
(* The steps of a message                                                  *)
(***************************************************************************)
\* A task that talks about a message makes one of four calls next, and a task
\* that does not, does not begin to.
LEMMA TalksHead ==
    ASSUME NEW s, NEW id, Talks(s, id)
    PROVE  Head(s).call \in {"push_message", "peer_count", "broadcast", "mark_sent"}
BY Short, CallNames DEF Talks, Starting, Sending, Ticking, Say, Command

\* At every stage of a message the task talks about it.
LEMMA StageTalks ==
    /\ \A id, s : \A ch \in Name : s \in Starting(id, ch) \/ s \in Sending(id, ch) => Talks(s, id)
    /\ \A id : Talks(Ticking(id), id)
BY DEF Talks

\* A mesh loop does not begin to talk about a message in the middle of a run.
LEMMA TalksTail ==
    ASSUME NEW td, NEW n \in Node, NEW s, MeshRun(td, n, s), s # <<>>, NEW id, ~Talks(s, id)
    PROVE  ~Talks(Tail(s), id)
<1> DEFINE h == Head(s)  t == Tail(s)
<1>1. MeshCall(td, n, s, h, t)
  BY MeshHead
<1> HIDE DEF h, t
<1>2. \A x : Talks(s, x) /\ Talks(t, x) => ~Talks(t, id)
  BY TalksOf
<1>3. ASSUME NEW x, NEW ch \in Name, s \in Starting(x, ch) \/ s \in Sending(x, ch),
             t \in Sending(x, ch) \/ t = Ticking(x)
      PROVE  ~Talks(t, id)
  BY <1>2, <1>3, StageTalks
<1>4. /\ ~Talks(<<>>, id) /\ \A name : ~Talks(Announcing(n, name), id)
      /\ \A name, who : ~Talks(Refusing(name, who), id)
      /\ \A name, who : \A u \in Approving(name, who) : ~Talks(u, id)
  BY MuteRuns
<1>5. ~Talks(t, id)
  BY <1>1, <1>3, <1>4 DEF MeshCall
<1>6. QED
  BY <1>5 DEF t

\* No call leaves a read loop with a message to push.
LEMMA CallNoPush ==
    ASSUME ChatAssumption, RunOK, NEW m \in Node, NEW k \in Task, Call(m, k),
           NEW n \in Node, NEW p \in Node \ {n}, NEW id, NEW ch, run'[p][n] = <<Push(id, ch)>>
    PROVE  run[p][n] = <<Push(id, ch)>>
<1>1. PICK v \in {Tail(run[m][k]), <<>>} : Leaves(m, k, v)
  BY CallRun
<1>2. CASE p = m /\ n = k
  <2>1. ReadCall(todo, m, k, run[m][k], Head(run[m][k]), Tail(run[m][k]))
    BY <1>2, CallRun, NextCall, TaskIs
  <2>2. \/ Tail(run[m][k]) = <<>>
        \/ \E name, who : Tail(run[m][k]) \in Requested(name, who)
        \/ \E name : Tail(run[m][k]) \in Joining(name)
    BY <2>1 DEF ReadCall
  <2>3. Tail(run[m][k]) # <<Push(id, ch)>> /\ <<>> # <<Push(id, ch)>>
    BY <2>2, NoPushLeft
  <2>4. run'[p][n] = v
    BY <1>1, <1>2, TaskIs DEF Leaves
  <2>5. QED
    BY <1>1, <2>3, <2>4
<1>3. CASE ~(p = m /\ n = k)
  BY <1>1, <1>3, TaskIs DEF Leaves
<1>4. QED
  BY <1>2, <1>3

\* What comes on a wire by sending m to P.
LEMMA PostedOn ==
    ASSUME WireOK, NEW n \in Node, NEW P, NEW m, Posts(n, P, m),
           \A p \in P \cap Node : m \in Packets(todo, n),
           NEW q \in Node, NEW p \in Node, NEW x, OnWire(q, p, x)'
    PROVE  OnWire(q, p, x) \/ (q = n /\ p \in P /\ x = m)
<1> DEFINE S == Packets(todo, q)  w == wire[q][p]
<1>1. w \in Seq(S)
  BY DEF WireOK
<1>2. In(wire'[q][p], x)
  BY DEF OnWire, In
<1>3. CASE q = n /\ p \in P
  <2>1. m \in S /\ wire'[q][p] = Append(w, m)
    BY <1>3 DEF Posts
  <2> HIDE DEF S, w
  <2>2. In(w, x) \/ x = m
    BY <1>1, <1>2, <2>1, InAppend
  <2>3. QED
    BY <1>3, <2>2 DEF OnWire, In, w
<1>4. CASE ~(q = n /\ p \in P)
  <2>1. wire'[q][p] = wire[q][p]
    BY <1>4 DEF Posts
  <2>2. QED
    BY <1>2, <2>1 DEF OnWire, In
<1>5. QED
  BY <1>3, <1>4

\* What is on a wire after a packet was taken was on it before.
LEMMA TakenFrom ==
    ASSUME WireOK, NEW n \in Node, NEW m \in Node, wire[m][n] # <<>>, Takes(n, m),
           NEW q \in Node, NEW p \in Node, NEW x, OnWire(q, p, x)'
    PROVE  OnWire(q, p, x)
<1> DEFINE S == Packets(todo, q)  w == wire[q][p]
<1>1. w \in Seq(S)
  BY DEF WireOK
<1>2. In(wire'[q][p], x)
  BY DEF OnWire, In
<1>3. CASE q = m /\ p = n
  <2>1. w # <<>> /\ wire'[q][p] = Tail(w)
    BY <1>3 DEF Takes
  <2> HIDE DEF S, w
  <2>2. In(w, x)
    BY <1>1, <1>2, <2>1, InTail
  <2>3. QED
    BY <2>2 DEF OnWire, In, w
<1>4. CASE ~(q = m /\ p = n)
  <2>1. wire'[q][p] = wire[q][p]
    BY <1>4 DEF Takes
  <2>2. QED
    BY <1>2, <2>1 DEF OnWire, In
<1>5. QED
  BY <1>3, <1>4

\* Calls that are not about messages.
LEMMA CallKeepsTold ==
    ASSUME ChatAssumption, TypeOK, RunOK, WireOK, NEW m \in Node, NEW k \in Task, Call(m, k),
           ~PushMessage(m, k), ~PeerCount(m, k), ~Broadcast(m, k), ~MarkSent(m, k),
           NEW n \in Node, NEW id \in Msg, Told(n, id)
    PROVE  Told(n, id)'
<1>1. UNCHANGED <<status, cmds, todo>>
  BY DEF Call, SendTo, AddChannel, AddGroupChannel, GroupApprove, GroupAddPending,
         AddPendingRequest, RemovePendingRequest, SendEvent, lists, queues
<1>2. ASSUME NEW p \in Node \ {n}, NEW ch \in Name, OnWire(n, p, Chat(id, ch))'
      PROVE  OnWire(n, p, Chat(id, ch))
  <2>1. CASE SendTo(m, k)
    <3> DEFINE a == Arg(m, k)
    <3>1. Posts(m, {a.to} \cap conns[m], a.msg)
      BY <2>1, SendPosts
    <3>2. a.msg \in Packets(todo, m)
      BY <2>1, SendIsPacket
    <3>3. a.msg # Chat(id, ch)
      BY <2>1, SendCall, PacketArgs DEF SendTo
    <3> HIDE DEF a
    <3>4. QED
      BY <1>2, <3>1, <3>2, <3>3, PostedOn
  <2>2. CASE ~SendTo(m, k)
    <3>1. UNCHANGED wire
      BY <2>2 DEF Call, AddChannel, AddGroupChannel, GroupApprove, GroupAddPending,
                  AddPendingRequest, RemovePendingRequest, SendEvent, queues
    <3>2. QED
      BY <1>2, <3>1 DEF OnWire
  <2>3. QED
    BY <2>1, <2>2
<1>3. Out(n, id)' => Out(n, id)
  <2>1. ASSUME NEW p \in Node \ {n}, NEW ch \in Name, run'[p][n] = <<Push(id, ch)>>
        PROVE  Out(n, id)
    BY <2>1, CallNoPush DEF Out
  <2>2. QED
    BY <1>1, <1>2, <2>1, OutKeeps
<1>4. \/ run'[n][Mesh] = run[n][Mesh]
      \/ ~Talks(run[n][Mesh], id) /\ ~Talks(run'[n][Mesh], id)
  <2>1. PICK v \in {Tail(run[m][k]), <<>>} : Leaves(m, k, v)
    BY CallRun
  <2>2. CASE m = n /\ k = Mesh
    <3>1. run[n][Mesh] # <<>> /\ MeshRun(todo, n, run[n][Mesh])
      BY <2>2, CallRun DEF RunOK
    <3>2. Head(run[n][Mesh]).call \notin {"push_message", "peer_count", "broadcast", "mark_sent"}
      BY <2>2 DEF Call, SendTo, AddChannel, AddGroupChannel, GroupApprove, GroupAddPending,
                  AddPendingRequest, RemovePendingRequest, SendEvent, Doing
    <3>3. ~Talks(run[n][Mesh], id)
      BY <3>2, TalksHead
    <3>4. ~Talks(v, id)
      <4>1. ~Talks(Tail(run[n][Mesh]), id)
        BY <3>1, <3>3, TalksTail
      <4>2. ~Talks(<<>>, id)
        BY MuteRuns
      <4>3. v = Tail(run[n][Mesh]) \/ v = <<>>
        BY <2>2
      <4>4. QED
        BY <4>1, <4>2, <4>3
    <3>5. QED
      BY <2>1, <2>2, <3>3, <3>4, TaskIs DEF Leaves
  <2>3. CASE ~(m = n /\ k = Mesh)
    BY <2>1, <2>3, TaskIs DEF Leaves
  <2>4. QED
    BY <2>2, <2>3
<1>5. /\ Unsaid(id)' => Unsaid(id)
      /\ Ordered(n, id)' => Ordered(n, id)
      /\ OrderedOnce(n, id)' /\ status'[n][id] = status[n][id]
  BY <1>1 DEF Unsaid, Ordered, OrderedOnce, Told
<1>6. QED
  BY <1>3, <1>4, <1>5, ToldKeeps

\* Who else's ticks change: none.
LEMMA PushStatus ==
    ASSUME ChatAssumption, TypeOK, RunOK, NEW m \in Node, NEW k \in Task, PushMessage(m, k)
    PROVE  \A x \in Node, y \in Msg :
              status'[x][y] = IF x = m /\ y = Arg(m, k).id THEN "Sending" ELSE status[x][y]
<1> DEFINE a == Arg(m, k)
<1>1. a.id = System \/ a.id \in Msg
  BY PushCall DEF PushMessage
<1>2. status' = IF a.id = System THEN status ELSE [status EXCEPT ![m][a.id] = "Sending"]
  BY DEF PushMessage
<1>3. System \notin Msg
  BY DEF ChatAssumption
<1> HIDE DEF a
<1>4. \A x \in Node, y \in Msg :
         status'[x][y] = IF x = m /\ y = a.id THEN "Sending" ELSE status[x][y]
  <2>1. CASE a.id = System
    BY <1>2, <1>3, <2>1
  <2>2. CASE a.id \in Msg
    <3>1. DOMAIN status = Node /\ \A x \in Node : DOMAIN status[x] = Msg
      BY DEF TypeOK
    <3>2. status' = [status EXCEPT ![m][a.id] = "Sending"]
      BY <1>2, <1>3, <2>2
    <3>3. QED
      BY <2>2, <3>1, <3>2, Entry
  <2>3. QED
    BY <1>1, <2>1, <2>2
<1>5. QED
  BY <1>4 DEF a

\* A tick changes the one status, and only from Sending to Sent.
LEMMA MarkStatus ==
    ASSUME ChatAssumption, TypeOK, RunOK, NEW m \in Node, NEW k \in Task, MarkSent(m, k)
    PROVE  LET id == Arg(m, k).id IN
           \A x \in Node, y \in Msg :
              status'[x][y] = IF x = m /\ y = id /\ status[x][y] = "Sending" THEN "Sent"
                                                                           ELSE status[x][y]
<1> DEFINE id == Arg(m, k).id  new == IF status[m][id] = "Sending" THEN "Sent" ELSE status[m][id]
<1>1. id \in Msg
  BY TickCall DEF MarkSent
<1>2. DOMAIN status = Node /\ \A x \in Node : DOMAIN status[x] = Msg
  BY DEF TypeOK
<1>3. status' = [status EXCEPT ![m][id] = new]
  BY <1>1, <1>2 DEF MarkSent
<1> HIDE DEF id
<1>4. \A x \in Node, y \in Msg : status'[x][y] = IF x = m /\ y = id THEN new ELSE status[x][y]
  BY <1>1, <1>2, <1>3, Entry
<1>5. QED
  BY <1>4 DEF id

\* What does not change when a task makes one of the four calls.
LEMMA CallUntold ==
    ASSUME RunOK, NEW m \in Node, NEW k \in Task, UNCHANGED <<cmds, todo>>,
           NEW n \in Node, NEW id \in Msg, Told(n, id)
    PROVE  /\ Unsaid(id)' => Unsaid(id)
           /\ Ordered(n, id)' => Ordered(n, id)
           /\ OrderedOnce(n, id)'
BY DEF Unsaid, Ordered, OrderedOnce, Told

\* A message kept or received.
LEMMA PushKeepsTold ==
    ASSUME ChatAssumption, TypeOK, RunOK, NEW m \in Node, NEW k \in Task, PushMessage(m, k),
           NEW n \in Node, NEW id \in Msg, Says(n, id), Told(n, id)
    PROVE  Told(n, id)'
<1> DEFINE a == Arg(m, k)  s == run[m][k]
<1>1. /\ UNCHANGED <<cmds, todo, wire>> /\ Leaves(m, k, Tail(s)) /\ s # <<>> /\ Call(m, k)
  BY Left DEF PushMessage, queues, Doing, Call
<1>2. /\ Unsaid(id)' => Unsaid(id)
      /\ Ordered(n, id)' => Ordered(n, id)
      /\ OrderedOnce(n, id)'
  BY <1>1, CallUntold
<1>3. \A x \in Node, y \in Msg :
         status'[x][y] = IF x = m /\ y = a.id THEN "Sending" ELSE status[x][y]
  BY PushStatus
<1>4. \/ k = Terminal /\ a.id \notin Msg
      \/ /\ k = Mesh /\ a.id \in Msg /\ Says(m, a.id) /\ a.channel \in Name
         /\ s \in Starting(a.id, a.channel) /\ Tail(s) \in Sending(a.id, a.channel)
      \/ /\ k \in Node /\ m # k /\ a.id \in Msg /\ a.channel \in Name /\ Says(k, a.id)
         /\ s = <<Push(a.id, a.channel)>>
  BY PushCall DEF PushMessage, ChatAssumption
<1> HIDE DEF a
<1>5. a.id = id => (k = Mesh /\ m = n) \/ (k = n /\ m # n)
  <2>1. \A x : Says(x, id) => x = n
    BY OneAuthor
  <2>2. QED
    BY <1>4, <2>1
<1>6. Out(n, id)' => Out(n, id)
  <2>1. ASSUME NEW p \in Node \ {n}, status'[p][id] # "absent"
        PROVE  status[p][id] # "absent" \/ Out(n, id)
    <3>1. CASE p = m /\ a.id = id
      <4>1. k = n /\ run[p][n] = <<Push(id, a.channel)>> /\ a.channel \in Name
        BY <1>4, <1>5, <3>1, TaskIs
      <4>2. QED
        BY <4>1 DEF Out
    <3>2. CASE ~(p = m /\ a.id = id)
      BY <1>3, <2>1, <3>2
    <3>3. QED
      BY <3>1, <3>2
  <2>2. ASSUME NEW p \in Node \ {n}, NEW ch \in Name
        PROVE  /\ OnWire(n, p, Chat(id, ch))' => OnWire(n, p, Chat(id, ch))
               /\ run'[p][n] = <<Push(id, ch)>> => Out(n, id)
    <3>1. OnWire(n, p, Chat(id, ch))' => OnWire(n, p, Chat(id, ch))
      BY <1>1 DEF OnWire
    <3>2. run'[p][n] = <<Push(id, ch)>> => run[p][n] = <<Push(id, ch)>>
      BY <1>1, CallNoPush
    <3>3. QED
      BY <3>1, <3>2 DEF Out
  <2>3. QED
    BY <2>1, <2>2, OutKeeps
<1>7. CASE m = n /\ k = Mesh /\ a.id = id
  <2>1. Talks(run[n][Mesh], id) /\ ~Out(n, id) /\ a.channel \in Name
    BY <1>4, <1>7, StageTalks, TaskIs DEF Told
  <2>2. ~Unsaid(id)' /\ ~Ordered(n, id)' /\ ~Out(n, id)'
    BY <1>2, <1>6, <2>1 DEF Told
  <2>3. status'[n][id] # "absent"
    BY <1>3, <1>7
  <2>4. QED
    BY <1>2, <2>2, <2>3 DEF Told
<1>8. CASE ~(m = n /\ k = Mesh /\ a.id = id)
  <2>1. status'[n][id] = status[n][id]
    BY <1>3, <1>5, <1>8
  <2>2. CASE m = n /\ k = Mesh
    <3>1. a.id # id /\ Talks(s, a.id) /\ Talks(Tail(s), a.id)
      BY <1>4, <1>8, <2>2, StageTalks, TaskIs
    <3>2. ~Talks(s, id) /\ ~Talks(Tail(s), id)
      BY <3>1, TalksOf
    <3>3. run'[n][Mesh] = Tail(s)
      BY <1>1, <2>2, TaskIs DEF Leaves
    <3>4. QED
      BY <1>2, <1>6, <2>1, <2>2, <3>2, <3>3, ToldKeeps
  <2>3. CASE ~(m = n /\ k = Mesh)
    <3>1. run'[n][Mesh] = run[n][Mesh]
      BY <1>1, <2>3, TaskIs DEF Leaves
    <3>2. QED
      BY <1>2, <1>6, <2>1, <3>1, ToldKeeps
  <2>4. QED
    BY <2>2, <2>3
<1>9. QED
  BY <1>7, <1>8

\* A message not sent for want of peers, or about to be.
LEMMA CountKeepsTold ==
    ASSUME ChatAssumption, TypeOK, RunOK, NEW m \in Node, NEW k \in Task, PeerCount(m, k),
           NEW n \in Node, NEW id \in Msg, Says(n, id), Told(n, id)
    PROVE  Told(n, id)'
<1> DEFINE s == run[m][k]
<1>1. UNCHANGED <<cmds, todo, wire, status>> /\ Call(m, k)
  BY DEF PeerCount, queues, lists, Doing, Call
<1>2. PICK v \in {Tail(s), <<>>} : Leaves(m, k, v)
  BY <1>1, CallRun
<1>3. k = Mesh /\ \E x \in Msg, ch \in Name : s \in Sending(x, ch) /\ Tail(s) \in Sending(x, ch)
  BY CountCall DEF PeerCount
<1>4. PICK x \in Msg, ch \in Name : s \in Sending(x, ch) /\ Tail(s) \in Sending(x, ch)
  BY <1>3
<1>5. /\ Unsaid(id)' => Unsaid(id)
      /\ Ordered(n, id)' => Ordered(n, id)
      /\ OrderedOnce(n, id)'
  BY <1>1, CallUntold
<1>6. Out(n, id)' => Out(n, id)
  <2>1. ASSUME NEW p \in Node \ {n}, NEW c \in Name
        PROVE  /\ OnWire(n, p, Chat(id, c))' => OnWire(n, p, Chat(id, c))
               /\ run'[p][n] = <<Push(id, c)>> => Out(n, id)
    <3>1. run'[p][n] = <<Push(id, c)>> => run[p][n] = <<Push(id, c)>>
      BY <1>1, CallNoPush
    <3>2. QED
      BY <1>1, <3>1 DEF Out, OnWire
  <2>2. QED
    BY <1>1, <2>1, OutKeeps
<1> HIDE DEF s
<1>7. CASE m = n /\ x = id
  <2>1. s = run[n][Mesh]
    BY <1>3, <1>7 DEF s
  <2>2. Talks(s, id) /\ ~Out(n, id) /\ status[n][id] # "absent"
    BY <1>4, <1>7, <2>1, StageTalks DEF Told
  <2>3. ~Unsaid(id)' /\ ~Ordered(n, id)' /\ ~Out(n, id)' /\ status'[n][id] # "absent"
    BY <1>1, <1>5, <1>6, <2>1, <2>2 DEF Told
  <2>4. QED
    BY <1>5, <2>3 DEF Told
<1>8. CASE m = n /\ x # id
  <2>1. s = run[n][Mesh] /\ run'[n][Mesh] = v
    BY <1>2, <1>3, <1>8, TaskIs DEF s, Leaves
  <2>2. ~Talks(s, id) /\ ~Talks(Tail(s), id) /\ ~Talks(<<>>, id)
    BY <1>4, <1>8, StageTalks, TalksOf, MuteRuns
  <2>3. QED
    BY <1>1, <1>2, <1>5, <1>6, <2>1, <2>2, ToldKeeps
<1>9. CASE m # n
  <2>1. run'[n][Mesh] = run[n][Mesh]
    BY <1>2, <1>9, TaskIs DEF Leaves
  <2>2. QED
    BY <1>1, <1>5, <1>6, <2>1, ToldKeeps
<1>10. QED
  BY <1>7, <1>8, <1>9


\* A message sent, or another packet.
LEMMA BroadcastKeepsTold ==
    ASSUME ChatAssumption, TypeOK, RunOK, WireOK, NEW m \in Node, NEW k \in Task, Broadcast(m, k),
           NEW n \in Node, NEW id \in Msg, Says(n, id), Told(n, id)
    PROVE  Told(n, id)'
<1> DEFINE x == Arg(m, k).msg  s == run[m][k]
<1>1. /\ UNCHANGED <<cmds, todo, status>> /\ Leaves(m, k, Tail(s)) /\ s # <<>> /\ Call(m, k)
  BY Left DEF Broadcast, lists, Doing, Call
<1>2. /\ k = Mesh
      /\ \/ \E y \in Msg, ch \in Name :
               x = Chat(y, ch) /\ s \in Sending(y, ch) /\ Tail(s) = Ticking(y)
         \/ \E name \in Name : x = Announcement(name, m) /\ s = Announcing(m, name)
         \/ \E name \in Name, who \in Node : x = Approval(name, who) /\ s \in Approving(name, who)
  BY BroadcastCall DEF Broadcast
<1>3. /\ Unsaid(id)' => Unsaid(id)
      /\ Ordered(n, id)' => Ordered(n, id)
      /\ OrderedOnce(n, id)'
  BY <1>1, CallUntold
<1>4. /\ Posts(m, conns[m], x)
      /\ \A p \in conns[m] \cap Node : x \in Packets(todo, m)
  BY BroadcastPosts, BroadcastIsPacket
<1> HIDE DEF x
<1>5. ASSUME NEW p \in Node \ {n}, NEW ch \in Name, OnWire(n, p, Chat(id, ch))'
      PROVE  OnWire(n, p, Chat(id, ch)) \/ (n = m /\ x = Chat(id, ch))
  BY <1>4, <1>5, PostedOn
<1>6. \A p \in Node \ {n}, ch \in Name :
         run'[p][n] = <<Push(id, ch)>> => run[p][n] = <<Push(id, ch)>>
  BY <1>1, CallNoPush
<1>7. CASE n = m /\ \E ch \in Name : s \in Sending(id, ch) /\ Tail(s) = Ticking(id)
  <2>1. Talks(run[n][Mesh], id) /\ run'[n][Mesh] = Ticking(id)
    BY <1>1, <1>2, <1>7, StageTalks, TaskIs DEF Leaves
  <2>2. ~Unsaid(id)' /\ ~Ordered(n, id)'
    BY <1>3, <2>1 DEF Told
  <2>3. status'[n][id] # "absent"
    BY <1>1, <1>2, <1>7 DEF Told
  <2>4. ASSUME NEW ch \in Name
        PROVE  run'[n][Mesh] \notin Starting(id, ch) /\ run'[n][Mesh] \notin Sending(id, ch)
    BY <2>1, Stages
  <2>5. QED
    BY <1>3, <2>1, <2>2, <2>3, <2>4 DEF Told
<1>8. CASE ~(n = m /\ \E ch \in Name : s \in Sending(id, ch) /\ Tail(s) = Ticking(id))
  <2>1. ASSUME n = m PROVE ~Talks(s, id) /\ \A ch \in Name : x # Chat(id, ch)
    <3>1. ASSUME NEW y \in Msg, NEW ch \in Name,
                 x = Chat(y, ch), s \in Sending(y, ch), Tail(s) = Ticking(y)
          PROVE  ~Talks(s, id) /\ \A c \in Name : x # Chat(id, c)
      BY <1>8, <2>1, <3>1, StageTalks, TalksOf, PacketArgs
    <3>2. ASSUME NEW name \in Name, x = Announcement(name, m), s = Announcing(m, name)
          PROVE  ~Talks(s, id) /\ \A c \in Name : x # Chat(id, c)
      BY <3>2, MuteRuns, PacketArgs
    <3>3. ASSUME NEW name \in Name, NEW who \in Node,
                 x = Approval(name, who), s \in Approving(name, who)
          PROVE  ~Talks(s, id) /\ \A c \in Name : x # Chat(id, c)
      BY <3>3, MuteRuns, PacketArgs
    <3>4. QED
      BY <1>2, <3>1, <3>2, <3>3
  <2>2. Out(n, id)' => Out(n, id)
    BY <1>1, <1>5, <1>6, <2>1, OutKeeps DEF Out
  <2>3. CASE n = m
    <3>1. ~Talks(Tail(s), id) /\ run'[n][Mesh] = Tail(s) /\ s = run[n][Mesh]
      BY <1>1, <1>2, <2>1, <2>3, TalksTail, TaskIs DEF Leaves, RunOK
    <3>2. QED
      BY <1>1, <1>3, <2>1, <2>2, <2>3, <3>1, ToldKeeps
  <2>4. CASE n # m
    <3>1. run'[n][Mesh] = run[n][Mesh]
      BY <1>1, <2>4, TaskIs DEF Leaves
    <3>2. QED
      BY <1>1, <1>3, <2>2, <3>1, ToldKeeps
  <2>5. QED
    BY <2>3, <2>4
<1>9. QED
  BY <1>7, <1>8

\* A message ticked.
LEMMA MarkKeepsTold ==
    ASSUME ChatAssumption, TypeOK, RunOK, NEW m \in Node, NEW k \in Task, MarkSent(m, k),
           NEW n \in Node, NEW id \in Msg, Says(n, id), Told(n, id)
    PROVE  Told(n, id)'
<1> DEFINE x == Arg(m, k).id  s == run[m][k]
<1>1. /\ UNCHANGED <<cmds, todo, wire>> /\ Leaves(m, k, Tail(s)) /\ Call(m, k)
  BY Left DEF MarkSent, queues, Doing, Call
<1>2. k = Mesh /\ s = Ticking(x) /\ Tail(s) = <<>>
  BY TickCall DEF MarkSent
<1>3. /\ Unsaid(id)' => Unsaid(id)
      /\ Ordered(n, id)' => Ordered(n, id)
      /\ OrderedOnce(n, id)'
  BY <1>1, CallUntold
<1>4. \A y \in Node, z \in Msg :
         status'[y][z] = IF y = m /\ z = x /\ status[y][z] = "Sending" THEN "Sent"
                                                                       ELSE status[y][z]
  BY MarkStatus
<1> HIDE DEF x
<1>5. Out(n, id)' => Out(n, id)
  <2>1. \A p \in Node \ {n} : status'[p][id] # "absent" => status[p][id] # "absent"
    BY <1>4
  <2>2. ASSUME NEW p \in Node \ {n}, NEW ch \in Name
        PROVE  /\ OnWire(n, p, Chat(id, ch))' => OnWire(n, p, Chat(id, ch))
               /\ run'[p][n] = <<Push(id, ch)>> => Out(n, id)
    <3>1. run'[p][n] = <<Push(id, ch)>> => run[p][n] = <<Push(id, ch)>>
      BY <1>1, CallNoPush
    <3>2. QED
      BY <1>1, <3>1 DEF Out, OnWire
  <2>3. QED
    BY <2>1, <2>2, OutKeeps
<1>6. CASE n = m /\ x = id
  <2>1. run[n][Mesh] = Ticking(id) /\ Talks(run[n][Mesh], id)
    BY <1>2, <1>6, StageTalks
  <2>2. ~Unsaid(id)' /\ ~Ordered(n, id)' /\ status[n][id] # "absent"
    BY <1>3, <2>1 DEF Told
  <2>3. status'[n][id] = "Sent"
    BY <1>4, <1>6, <2>2 DEF TypeOK
  <2>4. run'[n][Mesh] = <<>>
    BY <1>1, <1>2, <1>6, TaskIs DEF Leaves
  <2>5. /\ run'[n][Mesh] # Ticking(id)
        /\ \A ch \in Name : /\ run'[n][Mesh] \notin Starting(id, ch)
                            /\ run'[n][Mesh] \notin Sending(id, ch)
    <3>1. ASSUME NEW ch
          PROVE  <<>> # Ticking(id) /\ <<>> \notin Starting(id, ch) /\ <<>> \notin Sending(id, ch)
      BY Stages
    <3>2. <<>> # Ticking(id)
      BY <3>1
    <3>3. QED
      BY <2>4, <3>1, <3>2
  <2>6. QED
    BY <1>3, <2>2, <2>3, <2>5 DEF Told
<1>7. CASE ~(n = m /\ x = id)
  <2>1. status'[n][id] = status[n][id]
    BY <1>4, <1>7
  <2>2. CASE n = m
    <3>1. ~Talks(s, id) /\ ~Talks(Tail(s), id)
      BY <1>2, <1>7, <2>2, StageTalks, TalksOf, MuteRuns
    <3>2. run'[n][Mesh] = Tail(s) /\ s = run[n][Mesh]
      BY <1>1, <1>2, <2>2, TaskIs DEF Leaves
    <3>3. QED
      BY <1>3, <1>5, <2>1, <3>1, <3>2, ToldKeeps
  <2>3. CASE n # m
    <3>1. run'[n][Mesh] = run[n][Mesh]
      BY <1>1, <2>3, TaskIs DEF Leaves
    <3>2. QED
      BY <1>3, <1>5, <2>1, <3>1, ToldKeeps
  <2>4. QED
    BY <2>2, <2>3
<1>8. QED
  BY <1>6, <1>7

\* A command taken.
LEMMA TakeKeepsTold ==
    ASSUME ChatAssumption, TypeOK, RunOK, QueuesOK, NEW m \in Node, TakeCommand(m),
           NEW n \in Node, NEW id \in Msg, Says(n, id), Told(n, id)
    PROVE  Told(n, id)'
<1> DEFINE w == cmds[m]  c == Head(w)  S == Cmds(todo, m)
<1>1. /\ w \in Seq(S) /\ w # <<>> /\ c \in S
      /\ run' = [run EXCEPT ![m][Mesh] = HandleCommand(m, c)]
      /\ cmds' = [cmds EXCEPT ![m] = Tail(@)] /\ DOMAIN cmds = Node
      /\ UNCHANGED <<status, todo, wire>>
  BY QueueHeads DEF TakeCommand, QueuesOK, CmdsOK, lists
<1>2. Leaves(m, Mesh, HandleCommand(m, c))
  BY <1>1, Left, TaskIs
<1>3. cmds'[m] = Tail(w) /\ \A q \in Node \ {m} : cmds'[q] = cmds[q]
  BY <1>1
<1> HIDE DEF S, w, c
<1>4. /\ DOMAIN Tail(w) = 1 .. Len(w) - 1 /\ DOMAIN w = 1 .. Len(w) /\ Len(w) \in Nat \ {0}
      /\ c = w[1] /\ \A j \in 1 .. Len(w) - 1 : Tail(w)[j] = w[j + 1]
  BY <1>1, TailFacts DEF c
<1>5. Out(n, id)' => Out(n, id)
  <2>1. \A p \in Node \ {n} : run'[p][n] = run[p][n]
    BY <1>2, TaskIs DEF Leaves
  <2>2. ASSUME NEW p \in Node \ {n}, NEW ch \in Name
        PROVE  /\ OnWire(n, p, Chat(id, ch))' => OnWire(n, p, Chat(id, ch))
               /\ run'[p][n] = <<Push(id, ch)>> => Out(n, id)
    BY <1>1, <2>1 DEF Out, OnWire
  <2>3. QED
    BY <1>1, <2>2, OutKeeps
<1>6. Unsaid(id)' = Unsaid(id)
  BY <1>1 DEF Unsaid
<1>7. Ordered(n, id)' => Ordered(n, id)
  <2>1. CASE n = m
    <3>1. ASSUME NEW j \in DOMAIN Tail(w), Speaks(Tail(w)[j], id) PROVE Ordered(n, id)
      <4>1. j + 1 \in DOMAIN w /\ w[j + 1] = Tail(w)[j]
        BY <1>4
      <4>2. QED
        BY <2>1, <3>1, <4>1 DEF Ordered, w
    <3>2. QED
      BY <1>3, <2>1, <3>1 DEF Ordered
  <2>2. CASE n # m
    BY <1>3, <2>2 DEF Ordered
  <2>3. QED
    BY <2>1, <2>2
<1>8. OrderedOnce(n, id)' /\ (n = m /\ Speaks(c, id) => ~Ordered(n, id)')
  <2>1. OrderedOnce(n, id)
    BY DEF Told
  <2>2. CASE n = m
    <3>1. \A j \in DOMAIN Tail(w) : j + 1 \in DOMAIN w /\ w[j + 1] = Tail(w)[j] /\ j \in Nat \ {0}
      BY <1>4
    <3>2. \A i, j \in DOMAIN w : Speaks(w[i], id) /\ Speaks(w[j], id) => i = j
      BY <2>1, <2>2 DEF OrderedOnce, w
    <3>3. ASSUME NEW i \in DOMAIN Tail(w), NEW j \in DOMAIN Tail(w),
                 Speaks(Tail(w)[i], id), Speaks(Tail(w)[j], id)
          PROVE  i = j
      <4>1. i + 1 = j + 1
        BY <3>1, <3>2, <3>3
      <4>2. QED
        BY <3>1, <4>1
    <3>4. ASSUME NEW j \in DOMAIN Tail(w), Speaks(Tail(w)[j], id), Speaks(c, id) PROVE FALSE
      <4>1. j + 1 = 1
        BY <1>4, <3>1, <3>2, <3>4
      <4>2. QED
        BY <3>1, <4>1
    <3>5. QED
      BY <1>3, <2>2, <3>3, <3>4 DEF OrderedOnce, Ordered
  <2>3. CASE n # m
    BY <1>3, <2>1, <2>3 DEF OrderedOnce
  <2>4. QED
    BY <2>2, <2>3
<1>9. run[m][Mesh] = <<>> /\ ~Talks(<<>>, id)
  BY MuteRuns DEF TakeCommand
<1>10. CASE n = m /\ Speaks(c, id)
  <2>1. Ordered(n, id)
    BY <1>4, <1>10 DEF Ordered, w
  <2>2. ~Unsaid(id)' /\ ~Ordered(n, id)' /\ ~Out(n, id)'
    BY <1>5, <1>6, <1>8, <1>10, <2>1 DEF Told
  <2>3. HandleCommand(m, c) \in Starting(id, c.channel) /\ c.channel \in Name
    BY <1>1, <1>10, CommandIs DEF Speaks, S
  <2>4. run'[n][Mesh] = HandleCommand(m, c)
    BY <1>2, <1>10, TaskIs DEF Leaves
  <2>5. /\ run'[n][Mesh] # Ticking(id)
        /\ \A ch \in Name : run'[n][Mesh] \notin Sending(id, ch)
    <3>1. ASSUME NEW ch PROVE run'[n][Mesh] \notin Sending(id, ch) /\ run'[n][Mesh] # Ticking(id)
      BY <2>3, <2>4, Stages
    <3>2. QED
      BY <3>1
  <2>6. QED
    BY <1>8, <2>2, <2>5 DEF Told
<1>11. CASE n = m /\ ~Speaks(c, id)
  <2>1. ~Talks(HandleCommand(m, c), id)
    <3>1. CASE c.do \in {"say", "cmd"}
      <4>1. HandleCommand(m, c) \in Starting(c.id, c.channel) /\ c.channel \in Name
        BY <1>1, <3>1, CommandIs DEF S
      <4>2. Talks(HandleCommand(m, c), c.id) /\ c.id # id
        BY <1>11, <3>1, <4>1, StageTalks DEF Speaks
      <4>3. QED
        BY <4>2, TalksOf
    <3>2. CASE c.do \notin {"say", "cmd"}
      BY <1>1, <3>2, CommandIs, MuteRuns DEF S
    <3>3. QED
      BY <3>1, <3>2
  <2>2. run'[n][Mesh] = HandleCommand(m, c)
    BY <1>2, <1>11, TaskIs DEF Leaves
  <2>3. QED
    BY <1>1, <1>5, <1>6, <1>7, <1>8, <1>9, <1>11, <2>1, <2>2, ToldKeeps
<1>12. CASE n # m
  <2>1. run'[n][Mesh] = run[n][Mesh]
    BY <1>2, <1>12, TaskIs DEF Leaves
  <2>2. QED
    BY <1>1, <1>5, <1>6, <1>7, <1>8, <2>1, ToldKeeps
<1>13. QED
  BY <1>10, <1>11, <1>12

\* A packet taken: a message is then on the way from the read loop.
LEMMA ReceiveKeepsTold ==
    ASSUME ChatAssumption, TypeOK, RunOK, QueuesOK, NEW m \in Node, NEW q \in Node, Receive(m, q),
           NEW n \in Node, NEW id \in Msg, Says(n, id), Told(n, id)
    PROVE  Told(n, id)'
<1> DEFINE x == Head(wire[q][m])
<1>1. /\ UNCHANGED <<cmds, todo, status>> /\ wire[q][m] # <<>>
      /\ run' = [run EXCEPT ![m][q] = HandleAppMsg(m, x)]
  BY DEF Receive, lists
<1>2. x \in Packets(todo, q) /\ q # m /\ OnWire(q, m, x)
  <2>1. x \in Packets(todo, q) /\ q # m
    BY <1>1, QueueHeads
  <2>2. wire[q][m] \in Seq(Packets(todo, q))
    BY DEF QueuesOK, WireOK
  <2>3. 1 \in DOMAIN wire[q][m] /\ x = wire[q][m][1]
    BY <1>1, <2>2, TailFacts
  <2>4. QED
    BY <2>1, <2>3 DEF OnWire
<1>3. Leaves(m, q, HandleAppMsg(m, x)) /\ Takes(m, q) /\ WireOK
  BY <1>1, Left, TaskIs, ReceiveTakes DEF QueuesOK
<1> HIDE DEF x
<1>4. /\ Unsaid(id)' => Unsaid(id)
      /\ Ordered(n, id)' => Ordered(n, id)
      /\ OrderedOnce(n, id)'
  BY <1>1, CallUntold, TaskIs
<1>5. ASSUME NEW p \in Node \ {n}, NEW ch \in Name, OnWire(n, p, Chat(id, ch))'
      PROVE  OnWire(n, p, Chat(id, ch))
  BY <1>1, <1>3, <1>5, TakenFrom
<1>6. ASSUME NEW p \in Node \ {n}, NEW ch \in Name, run'[p][n] = <<Push(id, ch)>>
      PROVE  Out(n, id)
  <2>1. CASE p = m /\ n = q
    <3>1. HandleAppMsg(m, x) = <<Push(id, ch)>>
      BY <1>3, <1>6, <2>1, TaskIs DEF Leaves
    <3>2. x = Chat(id, ch)
      <4>1. Head(HandleAppMsg(m, x)) = Push(id, ch) /\ HandleAppMsg(m, x) # <<>>
        BY <3>1, Short
      <4>2. CASE x = Chat(x.id, x.channel) /\ HandleAppMsg(m, x) = <<Push(x.id, x.channel)>>
        BY <3>1, <4>2, CallArgs, Short
      <4>3. CASE \/ HandleAppMsg(m, x) = Founding(x.name, q)
                 \/ HandleAppMsg(m, x) = Listing(x.name, x.who)
        BY <4>1, <4>3, Short, CallNames DEF Founding, Listing
      <4>4. CASE \/ HandleAppMsg(m, x) \in Requested(x.name, x.who)
                 \/ HandleAppMsg(m, x) \in Joining(x.name)
        BY <3>1, <4>4, NoPushLeft
      <4>5. QED
        BY <1>2, <4>1, <4>2, <4>3, <4>4, PacketIs
    <3>3. QED
      BY <1>2, <1>6, <2>1, <3>2 DEF Out
  <2>2. CASE ~(p = m /\ n = q)
    <3>1. run'[p][n] = run[p][n]
      BY <1>3, <2>2, TaskIs DEF Leaves
    <3>2. QED
      BY <1>6, <3>1 DEF Out
  <2>3. QED
    BY <2>1, <2>2
<1>7. Out(n, id)' => Out(n, id)
  BY <1>1, <1>5, <1>6, OutKeeps
<1>8. run'[n][Mesh] = run[n][Mesh]
  BY <1>3, TaskIs DEF Leaves
<1>9. QED
  BY <1>1, <1>4, <1>7, <1>8, ToldKeeps

\* Nothing about messages changes but the inputs that are left.
LEMMA ToldStays ==
    ASSUME NEW n \in Node, NEW id \in Msg, Told(n, id), UNCHANGED <<status, wire, cmds>>,
           todo' \subseteq todo, run'[n][Mesh] = run[n][Mesh],
           \A p \in Node \ {n} : run'[p][n] = run[p][n]
    PROVE  Told(n, id)'
<1>1. Unsaid(id)' => Unsaid(id)
  BY DEF Unsaid
<1>2. (Ordered(n, id)' => Ordered(n, id)) /\ OrderedOnce(n, id)'
  BY DEF Ordered, OrderedOnce, Told
<1>3. ASSUME NEW p \in Node \ {n}, NEW ch \in Name
      PROVE  /\ OnWire(n, p, Chat(id, ch))' => OnWire(n, p, Chat(id, ch))
             /\ run'[p][n] = <<Push(id, ch)>> => Out(n, id)
  BY DEF Out, OnWire
<1>4. Out(n, id)' => Out(n, id)
  BY <1>3, OutKeeps
<1>5. QED
  BY <1>1, <1>2, <1>4, ToldKeeps

\* A line typed: it is the first time its message is spoken of.
LEMMA OrderKeepsTold ==
    ASSUME ChatAssumption, TypeOK, QueuesOK, NEW i \in todo, NEW c, Order(i, c),
           c \in Cmds(todo', i.by), c.do \in {"say", "cmd"} => i.do = "line" /\ c.id = i.id,
           NEW n \in Node, NEW id \in Msg, Says(n, id), Told(n, id)
    PROVE  Told(n, id)'
<1> DEFINE m == i.by  w == cmds[m]  S == Cmds(todo', m)
<1>1. m \in Node /\ i \in Inputs
  BY InputIs DEF QueuesOK
<1>2. /\ UNCHANGED <<status, wire, run>> /\ todo' = todo \ {i}
      /\ cmds' = [cmds EXCEPT ![m] = Append(w, c)]
  BY <1>1 DEF Order, Input, lists, QueuesOK, CmdsOK
<1>3. w \in Seq(S)
  <2>1. w \in Seq(Cmds(todo, m)) /\ Cmds(todo, m) \subseteq S
    BY <1>1, <1>2, QueuesStay DEF QueuesOK, CmdsOK
  <2>2. QED
    BY <2>1, SeqGrows
<1>4. /\ cmds'[m] = Append(w, c) /\ \A q \in Node \ {m} : cmds'[q] = cmds[q]
      /\ c \in S
  BY <1>1, <1>2 DEF QueuesOK, CmdsOK
<1> HIDE DEF S, w
<1>5. /\ DOMAIN Append(w, c) = 1 .. Len(w) + 1 /\ DOMAIN w = 1 .. Len(w) /\ Len(w) \in Nat
      /\ Append(w, c)[Len(w) + 1] = c /\ \A j \in 1 .. Len(w) : Append(w, c)[j] = w[j]
  BY <1>3, <1>4, AppendFacts
<1> DEFINE e == Len(w) + 1
<1>6. /\ DOMAIN Append(w, c) = DOMAIN w \cup {e} /\ e \notin DOMAIN w
      /\ Append(w, c)[e] = c /\ \A j \in DOMAIN w : Append(w, c)[j] = w[j]
  BY <1>5
<1> HIDE DEF e
<1>7. Out(n, id)' => Out(n, id)
  <2>1. ASSUME NEW p \in Node \ {n}, NEW ch \in Name
        PROVE  /\ OnWire(n, p, Chat(id, ch))' => OnWire(n, p, Chat(id, ch))
               /\ run'[p][n] = <<Push(id, ch)>> => Out(n, id)
    BY <1>2 DEF Out, OnWire
  <2>2. QED
    BY <1>2, <2>1, OutKeeps
<1>8. Unsaid(id)' => Unsaid(id)
  BY <1>2 DEF Unsaid
<1>9. CASE n = m /\ Speaks(c, id)
  <2>1. i.do = "line" /\ i.id = id
    BY <1>9 DEF Speaks
  <2>2. Unsaid(id) /\ ~Unsaid(id)'
    BY <1>2, <2>1 DEF Unsaid, ChatAssumption, QueuesOK
  <2>3. ~Talks(run'[n][Mesh], id) /\ status'[n][id] = "absent" /\ ~Out(n, id)'
    BY <1>2, <1>7, <2>2 DEF Told
  <2>4. OrderedOnce(n, id)'
    <3>1. \A j \in DOMAIN w : ~Speaks(w[j], id)
      BY <1>9, <2>2 DEF Told, Ordered, w
    <3>2. \A j \in DOMAIN Append(w, c) : Speaks(Append(w, c)[j], id) => j = e
      BY <1>6, <3>1
    <3>3. cmds'[n] = Append(w, c)
      BY <1>4, <1>9
    <3>4. QED
      BY <3>2, <3>3 DEF OrderedOnce
  <2>5. \A ch \in Name : /\ run'[n][Mesh] \notin Starting(id, ch)
                         /\ run'[n][Mesh] \notin Sending(id, ch)
    BY <2>3 DEF Talks
  <2>6. run'[n][Mesh] # Ticking(id)
    BY <2>3 DEF Talks
  <2>7. QED
    BY <2>2, <2>3, <2>4, <2>5, <2>6 DEF Told
<1>10. CASE ~(n = m /\ Speaks(c, id))
  <2>1. Ordered(n, id)' => Ordered(n, id)
    <3>1. CASE n = m
      BY <1>4, <1>6, <1>10, <3>1 DEF Ordered, w
    <3>2. CASE n # m
      BY <1>4, <3>2 DEF Ordered
    <3>3. QED
      BY <3>1, <3>2
  <2>2. OrderedOnce(n, id)'
    <3>1. CASE n = m
      <4>1. \A j, l \in DOMAIN w : Speaks(w[j], id) /\ Speaks(w[l], id) => j = l
        BY <3>1 DEF Told, OrderedOnce, w
      <4>2. QED
        BY <1>4, <1>6, <1>10, <3>1, <4>1 DEF OrderedOnce
    <3>2. CASE n # m
      BY <1>4, <3>2 DEF OrderedOnce, Told
    <3>3. QED
      BY <3>1, <3>2
  <2>3. QED
    BY <1>2, <1>7, <1>8, <2>1, <2>2, ToldKeeps
<1>11. QED
  BY <1>9, <1>10

\* An input keeps Told.
LEMMA UserKeepsTold ==
    ASSUME ChatAssumption, TypeOK, RunOK, QueuesOK, NEW i \in todo, User(i),
           NEW n \in Node, NEW id \in Msg, Says(n, id), Told(n, id)
    PROVE  Told(n, id)'
<1>1. i.by \in Node /\ i \in Inputs
  BY InputIs DEF QueuesOK
<1>2. CASE UNCHANGED cmds
  <2>1. UNCHANGED <<status, wire>> /\ todo' \subseteq todo
    BY OthersKeep DEF lists, User, TypeLine, TypeGroup, TypeRequest, TypeJoin, SelectChannel,
                      Decide, ToggleRequests, Order, Perform, Input
  <2>2. UNCHANGED run \/ \E v : run' = [run EXCEPT ![i.by][Terminal] = v]
    BY DEF User, TypeLine, TypeGroup, TypeRequest, TypeJoin, SelectChannel, Decide,
           ToggleRequests, Order, Perform
  <2>3. run'[n][Mesh] = run[n][Mesh] /\ \A p \in Node \ {n} : run'[p][n] = run[p][n]
    <3>1. CASE \E v : run' = [run EXCEPT ![i.by][Terminal] = v]
      <4>1. PICK v : Leaves(i.by, Terminal, v)
        BY <1>1, <3>1, Left, TaskIs
      <4>2. QED
        BY <4>1, TaskIs DEF Leaves
    <3>2. QED
      BY <2>2, <3>1
  <2>4. QED
    BY <1>2, <2>1, <2>3, ToldStays
<1>3. ASSUME NEW c, Order(i, c),
             \/ TypeLine(i) /\ i.do = "line" /\ c.do \in {"say", "cmd"} /\
                c = LineOrder(c.do, i.id, channels[i.by][active[i.by]].name)
             \/ TypeGroup(i) /\ c = GroupOrder(i.name)
             \/ TypeRequest(i) /\ c = RequestOrder(i.name, i.owner)
             \/ Decide(i) /\ c = AnswerOrder(i.do, i.name, i.who)
      PROVE  Told(n, id)'
  <2>1. c \in Cmds(todo', i.by)
    BY <1>3, OrderIsCommand DEF QueuesOK
  <2>2. c.do \in {"say", "cmd"} => i.do = "line" /\ c.id = i.id
    BY <1>3 DEF LineOrder, GroupOrder, RequestOrder, AnswerOrder, Decide
  <2>3. QED
    BY <1>3, <2>1, <2>2, OrderKeepsTold
<1>4. QED
  BY <1>2, <1>3, UserOrders

\* Steps of the terminal and of the sessions are not about messages.
LEMMA OthersKeepTold ==
    ASSUME ChatAssumption, RunOK,
           \/ \E m \in Node : Screen(m) \/ Drain(m)
           \/ \E m, q : Environment(m, q) /\ ~Skip(m, q)
           \/ UNCHANGED vars,
           NEW n \in Node, NEW id \in Msg, Told(n, id)
    PROVE  Told(n, id)'
<1>1. UNCHANGED <<status, wire, cmds, todo>>
  BY OthersKeep DEF Screen, SetActive, ClearUnread, SelectLast, Drain, Environment, AddPeer,
                    RemovePeer, Registered, Unregistered, Churn, vars, lists, queues
<1>2. run'[n][Mesh] = run[n][Mesh] /\ \A p \in Node \ {n} : run'[p][n] = run[p][n]
  <2>1. ASSUME NEW m \in Node, Screen(m) \/ Drain(m)
        PROVE  \E v : Leaves(m, Terminal, v)
    <3>1. Return(m, Terminal) \/ \E v : run' = [run EXCEPT ![m][Terminal] = v]
      BY <2>1 DEF Screen, SetActive, ClearUnread, SelectLast, Drain
    <3>2. QED
      BY <3>1, Left, TaskIs
  <2>2. ASSUME NEW m \in Node, NEW v, Leaves(m, Terminal, v)
        PROVE  run'[n][Mesh] = run[n][Mesh] /\ \A p \in Node \ {n} : run'[p][n] = run[p][n]
    BY <2>2, TaskIs DEF Leaves
  <2>3. (\E m, q : Environment(m, q)) \/ UNCHANGED vars => UNCHANGED run
    BY OthersKeep DEF vars
  <2>4. QED
    BY <2>1, <2>2, <2>3
<1>3. QED
  BY <1>1, <1>2, ToldStays

\* A packet that is skipped was out, or is not about the message.
LEMMA SkipKeepsTold ==
    ASSUME ChatAssumption, WireOK, NEW m \in Node, NEW q \in Node, Skip(m, q),
           NEW n \in Node, NEW id \in Msg, Told(n, id)
    PROVE  Told(n, id)'
<1>1. UNCHANGED <<status, cmds, todo, run>> /\ wire[q][m] # <<>>
  BY DEF Skip, Churn, lists
<1>2. Takes(m, q)
  BY ReceiveTakes
<1>3. ASSUME NEW p \in Node \ {n}, NEW ch \in Name
      PROVE  /\ OnWire(n, p, Chat(id, ch))' => OnWire(n, p, Chat(id, ch))
             /\ run'[p][n] = <<Push(id, ch)>> => Out(n, id)
  BY <1>1, <1>2, TakenFrom DEF Out
<1>4. Out(n, id)' => Out(n, id)
  BY <1>1, <1>3, OutKeeps
<1>5. /\ Unsaid(id)' => Unsaid(id)
      /\ Ordered(n, id)' => Ordered(n, id)
      /\ OrderedOnce(n, id)'
  BY <1>1 DEF Unsaid, Ordered, OrderedOnce, Told
<1>6. QED
  BY <1>1, <1>4, <1>5, ToldKeeps

\* Every step keeps Told.
LEMMA TicksStep ==
    ASSUME ChatAssumption, TypeOK, RunOK, QueuesOK, NoSelf, TicksOK, [Next]_vars
    PROVE  TicksOK'
<1> SUFFICES ASSUME NEW n \in Node, NEW id \in Msg, Says(n, id) PROVE Told(n, id)'
  BY DEF TicksOK, Says
<1>1. Told(n, id) /\ WireOK
  BY DEF TicksOK, QueuesOK
<1>2. ASSUME NEW m \in Node, NEW k \in Task, Call(m, k) PROVE Told(n, id)'
  BY <1>1, <1>2, PushKeepsTold, CountKeepsTold, BroadcastKeepsTold, MarkKeepsTold, CallKeepsTold
<1>3. ASSUME NEW m \in Node, TakeCommand(m) PROVE Told(n, id)'
  BY <1>1, <1>3, TakeKeepsTold
<1>4. ASSUME NEW m \in Node, NEW q \in Node, Receive(m, q) PROVE Told(n, id)'
  BY <1>1, <1>4, ReceiveKeepsTold
<1>5. ASSUME NEW i \in todo, User(i) PROVE Told(n, id)'
  BY <1>1, <1>5, UserKeepsTold
<1>6. ASSUME \/ \E m \in Node : Screen(m) \/ Drain(m)
             \/ \E m, q : Environment(m, q) /\ ~Skip(m, q)
             \/ UNCHANGED vars
      PROVE  Told(n, id)'
  BY <1>1, <1>6, OthersKeepTold
<1>7. ASSUME NEW u \in Unsteady, Skip(u[1], u[2]) PROVE Told(n, id)'
  <2>1. u[1] \in Node /\ u[2] \in Node
    BY DEF ChatAssumption
  <2>2. QED
    BY <1>1, <1>7, <2>1, SkipKeepsTold
<1>8. QED
  BY <1>2, <1>3, <1>4, <1>5, <1>6, <1>7 DEF Next, Progress

(***************************************************************************)
(* The invariant                                                           *)
(***************************************************************************)
\* The channels of a new node.
LEMMA FirstLists ==
    ASSUME ChatAssumption, Init, NEW n \in Node
    PROVE  /\ IsList(channels[n]) /\ active[n] \in DOMAIN channels[n]
           /\ channels[n][active[n]].unread = 0
           /\ \A name, f : f # Nobody => ~InGroup(channels[n], name, f)
           /\ \A name, w : ~Member(channels[n], name, w)
<1> DEFINE s == channels[n]
<1>1. s = [i \in DOMAIN FirstNames |-> OpenChannel(FirstNames[i])]
  BY DEF Init
<1>2. /\ FirstNames \in Seq(Name) /\ Len(FirstNames) \in Nat \ {0}
      /\ DOMAIN FirstNames = 1 .. Len(FirstNames)
  BY DEF ChatAssumption
<1>3. \A i \in DOMAIN FirstNames : FirstNames[i] \in Name
  BY <1>2
<1>4. \A i \in DOMAIN FirstNames : s[i] \in ChannelSet /\ s[i].name = FirstNames[i]
                                   /\ s[i].creator = Nobody /\ s[i].unread = 0
  BY <1>1, <1>3, Kinds DEF OpenChannel
<1>5. s \in Seq(ChannelSet) /\ DOMAIN s = DOMAIN FirstNames
  <2>1. s \in [1 .. Len(FirstNames) -> ChannelSet]
    BY <1>1, <1>2, <1>4
  <2>2. QED
    BY <1>2, <2>1
<1>6. active[n] = 1 /\ 1 \in DOMAIN s
  BY <1>2, <1>5 DEF Init
<1> HIDE DEF s
<1>7. Distinct(s)
  BY <1>4, <1>5 DEF Distinct, ChatAssumption
<1>8. /\ \A name, f : f # Nobody => ~InGroup(s, name, f)
      /\ \A name, w : ~Member(s, name, w)
  BY <1>4, <1>5 DEF InGroup, Member
<1>9. QED
  BY <1>4, <1>5, <1>6, <1>7, <1>8 DEF IsList, s

\* The invariant holds at the start.
LEMMA Starts == ASSUME ChatAssumption, Init PROVE IInv
<1>1. TypeOK
  <2>1. channels \in [Node -> Seq(ChannelSet)]
    BY FirstLists DEF Init, IsList
  <2>2. \A n \in Node : \A i, j \in DOMAIN channels[n] :
           channels[n][i].name = channels[n][j].name => i = j
    BY FirstLists DEF IsList, Distinct
  <2>3. active \in [Node -> Nat] /\ \A n \in Node : active[n] \in DOMAIN channels[n]
    BY FirstLists DEF Init
  <2>4. /\ show_join_requests \in [Node -> BOOLEAN]
        /\ pending_reqs \in [Node -> SUBSET (Name \X Node)]
        /\ status \in [Node -> [Msg -> {"absent", "Sending", "Sent"}]]
        /\ peers \in [Node -> SUBSET Node] /\ conns \in [Node -> SUBSET Node]
    BY DEF Init, ChatAssumption
  <2>5. QED
    BY <2>1, <2>2, <2>3, <2>4 DEF TypeOK
<1>2. RunOK
  <2>1. \A n \in Node, k \in Task : run[n][k] = <<>>
    BY DEF Init
  <2>2. QED
    BY <2>1, TaskIs DEF Init, RunOK, MeshRun, ReadRun, TermRun
<1>3. QueuesOK
  <2>1. \A S : <<>> \in Seq(S)
    OBVIOUS
  <2>2. WireOK
    BY <2>1 DEF WireOK, Init
  <2>3. EventsOK /\ CmdsOK
    BY <2>1 DEF EventsOK, CmdsOK, Init
  <2>4. todo \subseteq Inputs
    BY DEF Init
  <2>5. QED
    BY <2>2, <2>3, <2>4 DEF QueuesOK
<1>4. NoSelf
  BY DEF NoSelf, Init, ChatAssumption
<1>5. ActiveIsRead
  BY FirstLists DEF ActiveIsRead
<1>6. TicksOK
  <2> SUFFICES ASSUME NEW n \in Node, NEW id \in Msg PROVE Told(n, id)
    BY DEF TicksOK
  <2>1. \A p \in Node, k \in Task : run[p][k] = <<>>
    BY DEF Init
  <2>2. ~Ordered(n, id) /\ OrderedOnce(n, id)
    BY DEF Init, Ordered, OrderedOnce
  <2>3. ~Out(n, id)
    <3>1. \A ch : <<Push(id, ch)>> # <<>>
      BY Short
    <3>2. \A p \in Node : \A ch : run[p][n] # <<Push(id, ch)>>
      BY <2>1, <3>1, TaskIs
    <3>3. \A p \in Node : status[p][id] = "absent" /\ \A m : ~OnWire(n, p, m)
      BY DEF Init, OnWire
    <3>4. QED
      BY <3>2, <3>3 DEF Out
  <2>4. ~Talks(run[n][Mesh], id)
    BY <2>1, MuteRuns, TaskIs
  <2>5. status[n][id] = "absent"
    BY DEF Init
  <2>6. QED
    BY <2>2, <2>3, <2>4, <2>5, StageTalks DEF Told
<1>7. QED
  BY <1>1, <1>2, <1>3, <1>4, <1>5, <1>6 DEF IInv

\* The tasks, the queues, the lists and the ticks fit together: one invariant for
\* all that a node does, inductive over every call, packet, event and input.
THEOREM Invariant == Spec => []IInv
<1>1. Init => IInv
  BY ChatAssumption, Starts
<1>2. IInv /\ [Next]_vars => IInv'
  <2> SUFFICES ASSUME IInv, [Next]_vars PROVE IInv'
    OBVIOUS
  <2>1. TypeOK'
    BY ChatAssumption, TypeStep DEF IInv
  <2>2. RunOK' /\ QueuesOK' /\ NoSelf'
    BY ChatAssumption, RunStep, QueuesStep, NoSelfStep DEF IInv
  <2>3. ActiveIsRead'
    BY ChatAssumption, ReadStep DEF IInv, QueuesOK
  <2>4. TicksOK'
    BY ChatAssumption, TicksStep DEF IInv
  <2>5. QED
    BY <2>1, <2>2, <2>3, <2>4 DEF IInv
<1>3. QED
  BY <1>1, <1>2, PTL DEF Spec

\* Every variable has its type, and a node's channels have different names.
THEOREM TypeCorrect == Spec => []TypeOK
<1>1. IInv => TypeOK
  BY DEF IInv
<1>2. QED
  BY <1>1, Invariant, PTL

\* The channel on screen has no unread messages, but between the two locks of
\* set_active_channel.
THEOREM ActiveRead == Spec => []ActiveIsRead
<1>1. IInv => ActiveIsRead
  BY DEF IInv
<1>2. QED
  BY <1>1, Invariant, PTL

\* A message shown without a tick is known to nobody else, unless its tick is
\* about to be set.
THEOREM UntickedPrivate == Spec => []UntickedIsPrivate
<1>1. IInv => UntickedIsPrivate
  <2> SUFFICES ASSUME IInv, NEW n \in Node, NEW id \in Msg, Says(n, id),
                      status[n][id] = "Sending", Tick(id) \notin ToSet(run[n][Mesh])
               PROVE  \A p \in Node \ {n} :
                         /\ status[p][id] = "absent"
                         /\ \A name \in Name : ~OnWire(n, p, Chat(id, name))
    BY DEF UntickedIsPrivate
  <2>1. run[n][Mesh] # Ticking(id)
    <3>1. Tick(id) \in ToSet(<<Tick(id)>>)
      BY DEF ToSet
    <3>2. QED
      BY <3>1 DEF Ticking
  <2>2. ~Out(n, id)
    BY <2>1 DEF IInv, TicksOK, Told
  <2>3. QED
    BY <2>2 DEF Out
<1>2. QED
  BY <1>1, Invariant, PTL

(***************************************************************************)
(* Who is on a list of members                                             *)
(***************************************************************************)
\* The calls that are left of the foundation of a group, or of an approval,
\* end with what the others are told.
LEMMA GroupShapes ==
    ASSUME NEW n, NEW name, NEW w
    PROVE  /\ Announcing(n, name) # <<>> /\ <<>> \notin Approving(name, w)
           /\ \A nm : Announcing(n, nm) = Announcing(n, name) => nm = name
           /\ \A nm, u : \A s \in Approving(nm, u) :
                 /\ s # Announcing(n, name)
                 /\ s \in Approving(name, w) => nm = name /\ u = w
           /\ \A s : s # <<>> /\ s[Len(s)].call # "broadcast" =>
                 s # Announcing(n, name) /\ s \notin Approving(name, w)
           /\ \A s : s # <<>> /\ Head(s).call \in {"add_group_channel", "group_approve"} =>
                 s # Announcing(n, name) /\ s \notin Approving(name, w)
<1>1. \A nm : /\ Announcing(n, nm) # <<>> /\ Head(Announcing(n, nm)).call = "broadcast"
              /\ Announcing(n, nm)[Len(Announcing(n, nm))] = ToAll(Announcement(nm, n))
  BY Short, CallNames DEF Announcing
<1>2. ASSUME NEW nm, NEW u, NEW s \in Approving(nm, u)
      PROVE  /\ s # <<>> /\ Head(s).call \in {"broadcast", "remove_pending_request"}
             /\ s[Len(s)] = ToAll(Approval(nm, u))
  <2>1. CASE s = <<On("remove_pending_request", nm, u), ToAll(Approval(nm, u))>>
    BY <2>1, Short, CallNames
  <2>2. CASE s = <<ToAll(Approval(nm, u))>>
    BY <2>2, Short, CallNames
  <2>3. QED
    BY <2>1, <2>2 DEF Approving
<1>3. /\ \A x, y : ToAll(x) = ToAll(y) => x = y
      /\ \A x : ToAll(x).call = "broadcast"
  BY CallArgs, CallNames
<1>4. /\ \A nm, u, v, x : Approval(nm, u) # Announcement(v, x)
      /\ \A nm, u, v, x : Approval(nm, u) = Approval(v, x) => nm = v /\ u = x
      /\ \A nm, v, x, y : Announcement(nm, x) = Announcement(v, y) => nm = v
  BY PacketArgs
<1>5. \A nm : Announcing(n, nm) = Announcing(n, name) => nm = name
  BY <1>1, <1>3, <1>4
<1>6. ASSUME NEW nm, NEW u, NEW s \in Approving(nm, u)
      PROVE  s # Announcing(n, name) /\ (s \in Approving(name, w) => nm = name /\ u = w)
  BY <1>1, <1>2, <1>3, <1>4
<1>7. \A s : s # <<>> /\ s[Len(s)].call # "broadcast" =>
         s # Announcing(n, name) /\ s \notin Approving(name, w)
  BY <1>1, <1>2, <1>3
<1>8. \A s : s # <<>> /\ Head(s).call \in {"add_group_channel", "group_approve"} =>
         s # Announcing(n, name) /\ s \notin Approving(name, w)
  BY <1>1, <1>2
<1>9. QED
  BY <1>1, <1>2, <1>5, <1>6, <1>7, <1>8

\* A node that has something else to do neither announces a group nor approves.
LEMMA NoGroup ==
    ASSUME NEW n, NEW s,
           \/ s = <<>> \/ \E id : Talks(s, id)
           \/ \E nm : s = CreateGroup(n, nm)
           \/ \E nm, p : s = RequestJoin(n, nm, p)
           \/ \E nm, u : s = ApproveJoin(nm, u) \/ s = DenyJoin(nm, u) \/ s = Refusing(nm, u)
    PROVE  \A name, w : s # Announcing(n, name) /\ s \notin Approving(name, w)
<1>1. CASE s = <<>>
  BY <1>1, GroupShapes
<1>2. CASE \E id : Talks(s, id)
  <2>1. s # <<>> /\ s[Len(s)].call # "broadcast"
    BY <1>2, TalksLast, CallNames
  <2>2. QED
    BY <2>1, GroupShapes
<1>3. CASE \E nm : s = CreateGroup(n, nm)
  <2>1. s # <<>> /\ Head(s).call = "add_group_channel"
    BY <1>3, Short, CallNames DEF CreateGroup
  <2>2. QED
    BY <2>1, GroupShapes
<1>4. CASE \E nm, u : s = ApproveJoin(nm, u)
  <2>1. s # <<>> /\ Head(s).call = "group_approve"
    BY <1>4, Short, CallNames DEF ApproveJoin
  <2>2. QED
    BY <2>1, GroupShapes
<1>5. CASE \/ \E nm, p : s = RequestJoin(n, nm, p)
           \/ \E nm, u : s = DenyJoin(nm, u) \/ s = Refusing(nm, u)
  <2>1. s # <<>> /\ s[Len(s)].call = "send_to"
    BY <1>5, Short, CallNames DEF RequestJoin, DenyJoin, Refusing
  <2>2. QED
    BY <2>1, GroupShapes
<1>6. QED
  BY <1>1, <1>2, <1>3, <1>4, <1>5

\* The read loops' calls about groups.
LEMMA ReadShapes ==
    /\ \A nm, p, v, w : /\ Founding(nm, p) # Listing(v, w)
                        /\ Founding(nm, p) = Founding(v, w) => nm = v /\ p = w
                        /\ Listing(nm, p) = Listing(v, w) => nm = v /\ p = w
    /\ \A nm, p, s : \/ s = <<>> \/ (\E v, w : s \in Requested(v, w)) \/ (\E v : s \in Joining(v))
                     \/ \E id, ch : s = <<Push(id, ch)>>
                     => s # Founding(nm, p) /\ s # Listing(nm, p)
<1>1. \A nm, p : /\ Founding(nm, p) # <<>> /\ Head(Founding(nm, p)) = AddGroup(nm, p)
                 /\ Listing(nm, p) # <<>> /\ Head(Listing(nm, p)) = On("group_approve", nm, p)
  BY Short DEF Founding, Listing
<1>2. \A nm, p : /\ AddGroup(nm, p).call = "add_group_channel"
                 /\ On("group_approve", nm, p).call = "group_approve"
  BY CallNames
<1>3. ASSUME NEW s, \/ s = <<>> \/ (\E v, w : s \in Requested(v, w)) \/ (\E v : s \in Joining(v))
                    \/ \E id, ch : s = <<Push(id, ch)>>
      PROVE  s = <<>> \/ Head(s).call \in {"group_add_pending", "add_pending_request",
                                           "send_event", "add_channel", "push_message"}
  BY <1>3, Short, CallNames DEF Requested, Joining, Joined
<1>4. QED
  BY <1>1, <1>2, <1>3, CallArgs

\* Who is vouched for stays so: approvals stay made, and lists of members grow.
LEMMA VouchedStays ==
    ASSUME todo' \subseteq todo, NEW q, NEW name,
           \A w \in Node : Member(channels[q], name, w) => Member(channels'[q], name, w)
    PROVE  \A w \in Node : Vouched(q, name, w) => Vouched(q, name, w)'
BY DEF Vouched, Outsider, Approved

\* A step after which nothing more is known or told of q's group at p, and who is
\* then listed there, or approved, is so rightly.
LEMMA GroupKeeps ==
    ASSUME NEW q \in Node, NEW p \in Node, NEW name \in Name, GroupOK(q, p, name),
           todo' \subseteq todo, wire'[q][p] = wire[q][p],
           InGroup(channels'[q], name, q) <=> InGroup(channels[q], name, q),
           InGroup(channels'[p], name, q) <=> InGroup(channels[p], name, q),
           \A w \in Node : Member(channels[q], name, w) => Member(channels'[q], name, w),
           \A w \in Node : InGroup(channels[p], name, q) /\ Member(channels'[p], name, w) =>
               Member(channels[p], name, w) \/ Vouched(q, name, w)',
           run'[q][Mesh] = Announcing(q, name) => run[q][Mesh] = Announcing(q, name),
           \A w \in Node : InGroup(channels[q], name, q) /\ run'[q][Mesh] \in Approving(name, w) =>
               run[q][Mesh] \in Approving(name, w) \/ Member(channels'[q], name, w),
           \/ run'[p][q] = run[p][q]
           \/ run'[p][q] # Founding(name, q) /\ \A w : run'[p][q] # Listing(name, w)
    PROVE  GroupOK(q, p, name)'
<1>1. Knows(p, q, name)' => Knows(p, q, name)
  BY DEF Knows
<1>2. OnWire(q, p, Announcement(name, q))' => OnWire(q, p, Announcement(name, q))
  BY DEF OnWire
<1>3. \A w \in Node : Vouched(q, name, w) => Vouched(q, name, w)'
  BY VouchedStays
<1>4. (Knows(p, q, name) \/ OnWire(q, p, Announcement(name, q))
         \/ run[q][Mesh] = Announcing(q, name))' => InGroup(channels'[q], name, q)
  BY <1>1, <1>2 DEF GroupOK
<1>5. ASSUME NEW w \in Node
      PROVE  /\ InGroup(channels'[p], name, q) /\ Member(channels'[p], name, w)
                   => Vouched(q, name, w)'
             /\ run'[q][Mesh] \in Approving(name, w) /\ InGroup(channels'[q], name, q)
                   => Member(channels'[q], name, w)
             /\ run'[p][q] = Listing(name, w) /\ InGroup(channels'[p], name, q)
                   => Member(channels'[q], name, w)
  BY <1>3 DEF GroupOK
<1>6. ASSUME NEW w \in Node, NEW i \in DOMAIN wire'[q][p], wire'[q][p][i] = Approval(name, w),
             \/ Knows(p, q, name)'
             \/ \E j \in DOMAIN wire'[q][p] : j < i /\ wire'[q][p][j] = Announcement(name, q)
      PROVE  Member(channels'[q], name, w)
  BY <1>1, <1>6 DEF GroupOK
<1>7. QED
  BY <1>4, <1>5, <1>6 DEF GroupOK

\* What the calls leave: nothing about a group that was not there before.
LEMMA MeshLeft ==
    ASSUME ChatAssumption, RunOK, NEW m \in Node, NEW k \in Task, Call(m, k),
           ~AddGroupChannel(m, k), ~GroupApprove(m, k), NEW q \in Node, NEW name
    PROVE  /\ run'[q][Mesh] = Announcing(q, name) => run[q][Mesh] = Announcing(q, name)
           /\ \A w : run'[q][Mesh] \in Approving(name, w) => run[q][Mesh] \in Approving(name, w)
<1> DEFINE s == run[m][k]  t == Tail(s)
<1>1. PICK v \in {t, <<>>} : Leaves(m, k, v)
  BY CallRun
<1>2. CASE m = q /\ k = Mesh
  <2>1. MeshCall(todo, q, s, Head(s), t)
    BY <1>2, CallRun, NextCall, TaskIs
  <2>2. Head(s).call \notin {"add_group_channel", "group_approve"}
    BY DEF Call, PushMessage, PeerCount, Broadcast, SendTo, MarkSent, AddChannel, AddGroupChannel,
           GroupApprove, GroupAddPending, AddPendingRequest, RemovePendingRequest, SendEvent, Doing
  <2> HIDE DEF s, t
  <2>3. \/ t = <<>> \/ (\E id : Talks(t, id)) \/ (\E nm, u : t = Refusing(nm, u))
        \/ \E nm, u : s \in Approving(nm, u) /\ t \in Approving(nm, u)
    BY <2>1, <2>2, StageTalks DEF MeshCall
  <2>4. /\ t # Announcing(q, name)
        /\ \A w : t \in Approving(name, w) => s \in Approving(name, w)
    <3>1. ASSUME NEW w
          PROVE  t # Announcing(q, name) /\ (t \in Approving(name, w) => s \in Approving(name, w))
      <4>1. CASE t = <<>> \/ (\E id : Talks(t, id)) \/ \E nm, u : t = Refusing(nm, u)
        BY <4>1, NoGroup
      <4>2. CASE \E nm, u : s \in Approving(nm, u) /\ t \in Approving(nm, u)
        BY <4>2, GroupShapes
      <4>3. QED
        BY <2>3, <4>1, <4>2
    <3>2. QED
      BY <3>1
  <2>5. \A w : <<>> # Announcing(q, name) /\ <<>> \notin Approving(name, w)
    BY NoGroup
  <2>6. run'[q][Mesh] = v /\ run[q][Mesh] = s
    BY <1>1, <1>2, TaskIs DEF Leaves, s
  <2>7. QED
    BY <1>1, <2>4, <2>5, <2>6
<1>3. CASE ~(m = q /\ k = Mesh)
  <2>1. run'[q][Mesh] = run[q][Mesh]
    BY <1>1, <1>3, TaskIs DEF Leaves
  <2>2. QED
    BY <2>1
<1>4. QED
  BY <1>2, <1>3

\* A call does not leave a read loop at a group's foundation or listing.
LEMMA ReadLeft ==
    ASSUME ChatAssumption, RunOK, NEW m \in Node, NEW k \in Task, Call(m, k),
           NEW q \in Node, NEW p \in Node, NEW name
    PROVE  \/ run'[p][q] = run[p][q]
           \/ run'[p][q] # Founding(name, q) /\ \A w : run'[p][q] # Listing(name, w)
<1> DEFINE s == run[m][k]  t == Tail(s)
<1>1. PICK v \in {t, <<>>} : Leaves(m, k, v)
  BY CallRun
<1>2. CASE m = p /\ k = q
  <2>1. ReadCall(todo, p, q, s, Head(s), t)
    BY <1>2, CallRun, NextCall, TaskIs
  <2> HIDE DEF s, t
  <2>2. t = <<>> \/ (\E nm, w : t \in Requested(nm, w)) \/ \E nm : t \in Joining(nm)
    BY <2>1 DEF ReadCall
  <2>3. run'[p][q] = v
    BY <1>1, <1>2, TaskIs DEF Leaves
  <2>4. QED
    BY <1>1, <2>2, <2>3, ReadShapes
<1>3. CASE ~(m = p /\ k = q)
  BY <1>1, <1>3, TaskIs DEF Leaves
<1>4. QED
  BY <1>2, <1>3

\* Lists that change nothing about groups.
LEMMA HushFacts ==
    ASSUME ChatAssumption, \A x \in Node : Quiet(channels[x], channels'[x]), NEW x \in Node
    PROVE  /\ \A name : \A f \in Node :
                InGroup(channels'[x], name, f) <=> InGroup(channels[x], name, f)
           /\ \A name, w : Member(channels'[x], name, w) <=> Member(channels[x], name, w)
BY DEF Quiet, SameGroups, SameMembers, ChatAssumption

\* Calls that are not about groups and send nothing.
LEMMA CallKeepsGroup ==
    ASSUME ChatAssumption, TypeOK, RunOK, NEW m \in Node, NEW k \in Task, Call(m, k),
           ~AddGroupChannel(m, k), ~GroupApprove(m, k), ~Broadcast(m, k), ~SendTo(m, k),
           NEW q \in Node, NEW p \in Node, NEW name \in Name, GroupOK(q, p, name)
    PROVE  GroupOK(q, p, name)'
<1>1. UNCHANGED <<wire, todo>>
  BY DEF Call, PushMessage, PeerCount, MarkSent, AddChannel, GroupAddPending, AddPendingRequest,
         RemovePendingRequest, SendEvent, queues
<1>2. \A x \in Node : Quiet(channels[x], channels'[x])
  <2>1. CASE PushMessage(m, k) \/ AddChannel(m, k) \/ GroupAddPending(m, k)
    BY <2>1, PushGrows, AddGrows, AddPendingGrows DEF Hushed
  <2>2. CASE ~(PushMessage(m, k) \/ AddChannel(m, k) \/ GroupAddPending(m, k))
    <3>1. channels' = channels
      BY <2>2 DEF Call, PeerCount, MarkSent, AddPendingRequest, RemovePendingRequest, SendEvent,
                  lists
    <3>2. QED
      BY <3>1, GrowsNot DEF Hushed
  <2>3. QED
    BY <2>1, <2>2
<1>3. \A x \in Node : /\ InGroup(channels'[x], name, q) <=> InGroup(channels[x], name, q)
                      /\ \A w : Member(channels'[x], name, w) <=> Member(channels[x], name, w)
  BY <1>2, HushFacts
<1>4. /\ run'[q][Mesh] = Announcing(q, name) => run[q][Mesh] = Announcing(q, name)
      /\ \A w : run'[q][Mesh] \in Approving(name, w) => run[q][Mesh] \in Approving(name, w)
  BY MeshLeft
<1>5. \/ run'[p][q] = run[p][q]
      \/ run'[p][q] # Founding(name, q) /\ \A w : run'[p][q] # Listing(name, w)
  BY ReadLeft
<1>6. QED
  BY <1>1, <1>3, <1>4, <1>5, GroupKeeps

\* Packets sent: an announcement by a node that has the group, an approval by
\* one that lists whom it approves.
LEMMA PostKeepsGroup ==
    ASSUME WireOK, NEW m \in Node, NEW P, NEW y, Posts(m, P, y),
           \A x \in P \cap Node : y \in Packets(todo, m), UNCHANGED <<channels, todo>>,
           NEW q \in Node, NEW p \in Node, NEW name \in Name, GroupOK(q, p, name),
           run'[q][Mesh] = Announcing(q, name) => run[q][Mesh] = Announcing(q, name),
           \A w \in Node :
               run'[q][Mesh] \in Approving(name, w) => run[q][Mesh] \in Approving(name, w),
           run'[p][q] = run[p][q],
           m = q /\ y = Announcement(name, q) => InGroup(channels[q], name, q),
           \A w \in Node : m = q /\ y = Approval(name, w) /\ InGroup(channels[q], name, q)
              => Member(channels[q], name, w)
    PROVE  GroupOK(q, p, name)'
<1>1. CASE ~(q = m /\ p \in P)
  <2>1. wire'[q][p] = wire[q][p]
    BY <1>1 DEF Posts
  <2>2. QED
    BY <2>1, GroupKeeps
<1>2. CASE q = m /\ p \in P
  <2> DEFINE u == wire[q][p]  S == Packets(todo, q)  v == wire'[q][p]
  <2>1. u \in Seq(S) /\ y \in S /\ v = Append(u, y)
    BY <1>2 DEF WireOK, Posts
  <2> HIDE DEF u, S, v
  <2>2. /\ Len(u) \in Nat /\ DOMAIN v = 1 .. Len(u) + 1 /\ DOMAIN u = 1 .. Len(u)
        /\ v[Len(u) + 1] = y /\ \A j \in 1 .. Len(u) : v[j] = u[j]
    BY <2>1, AppendFacts
  <2>3. Knows(p, q, name)' <=> Knows(p, q, name)
    BY DEF Knows
  <2>4. ASSUME OnWire(q, p, Announcement(name, q))'
        PROVE  InGroup(channels[q], name, q)
    <3>1. PICK j \in DOMAIN v : v[j] = Announcement(name, q)
      BY <2>4 DEF OnWire, v
    <3>2. CASE j = Len(u) + 1
      BY <1>2, <2>2, <3>1, <3>2
    <3>3. CASE j \in DOMAIN u
      BY <2>2, <3>1, <3>3 DEF GroupOK, OnWire, u
    <3>4. QED
      BY <2>2, <3>2, <3>3
  <2>5. (Knows(p, q, name) \/ OnWire(q, p, Announcement(name, q))
           \/ run[q][Mesh] = Announcing(q, name))' => InGroup(channels'[q], name, q)
    BY <2>3, <2>4 DEF GroupOK
  <2>6. ASSUME NEW w \in Node
        PROVE  /\ InGroup(channels'[p], name, q) /\ Member(channels'[p], name, w)
                     => Vouched(q, name, w)'
               /\ run'[q][Mesh] \in Approving(name, w) /\ InGroup(channels'[q], name, q)
                     => Member(channels'[q], name, w)
               /\ run'[p][q] = Listing(name, w) /\ InGroup(channels'[p], name, q)
                     => Member(channels'[q], name, w)
    BY VouchedStays DEF GroupOK
  <2>7. ASSUME NEW w \in Node, NEW i \in DOMAIN v, v[i] = Approval(name, w),
               \/ Knows(p, q, name)'
               \/ \E j \in DOMAIN v : j < i /\ v[j] = Announcement(name, q)
        PROVE  Member(channels'[q], name, w)
    <3>1. CASE i = Len(u) + 1
      <4>1. y = Approval(name, w)
        BY <2>2, <2>7, <3>1
      <4>2. InGroup(channels[q], name, q)
        BY <2>3, <2>4, <2>7 DEF GroupOK, OnWire, v
      <4>3. QED
        BY <1>2, <4>1, <4>2
    <3>2. CASE i \in DOMAIN u
      <4>1. u[i] = Approval(name, w)
        BY <2>2, <2>7, <3>2
      <4>2. Knows(p, q, name) \/ \E j \in DOMAIN u : j < i /\ u[j] = Announcement(name, q)
        BY <2>2, <2>3, <2>7, <3>2
      <4>3. QED
        BY <3>2, <4>1, <4>2 DEF GroupOK, u
    <3>3. QED
      BY <2>2, <3>1, <3>2
  <2>8. QED
    BY <2>5, <2>6, <2>7 DEF GroupOK, v
<1>3. QED
  BY <1>1, <1>2

\* A broadcast, or a packet for one.
LEMMA SendKeepsGroup ==
    ASSUME ChatAssumption, TypeOK, RunOK, WireOK, NEW m \in Node, NEW k \in Task,
           Broadcast(m, k) \/ SendTo(m, k),
           NEW q \in Node, NEW p \in Node, NEW name \in Name, GroupOK(q, p, name)
    PROVE  GroupOK(q, p, name)'
<1> DEFINE y == Arg(m, k).msg
<1>1. UNCHANGED <<channels, todo>> /\ k = Mesh /\ Call(m, k)
  BY BroadcastCall, SendCall DEF Broadcast, SendTo, lists, Call, Doing
<1>2. /\ run'[q][Mesh] = Announcing(q, name) => run[q][Mesh] = Announcing(q, name)
      /\ \A w : run'[q][Mesh] \in Approving(name, w) => run[q][Mesh] \in Approving(name, w)
  <2>1. ~AddGroupChannel(m, k) /\ ~GroupApprove(m, k)
    BY DEF Broadcast, SendTo, AddGroupChannel, GroupApprove, Doing
  <2>2. QED
    BY <1>1, <2>1, MeshLeft
<1>3. run'[p][q] = run[p][q]
  BY <1>1, CallRun, TaskIs DEF Leaves
<1>4. \E P : Posts(m, P, y) /\ \A x \in P \cap Node : y \in Packets(todo, m)
  <2>1. CASE Broadcast(m, k)
    <3>1. Posts(m, conns[m], y) /\ \A x \in Node : y \in Packets(todo, m)
      BY <2>1, BroadcastPosts, BroadcastIsPacket
    <3> HIDE DEF y
    <3>2. QED
      BY <3>1
  <2>2. CASE SendTo(m, k)
    <3> DEFINE x == Arg(m, k).to
    <3>1. Posts(m, {x} \cap conns[m], y) /\ y \in Packets(todo, m)
      BY <2>2, SendPosts, SendIsPacket
    <3> HIDE DEF x, y
    <3>2. \A z \in ({x} \cap conns[m]) \cap Node : y \in Packets(todo, m)
      BY <3>1
    <3>3. QED
      BY <3>1, <3>2
  <2>3. QED
    BY <2>1, <2>2
<1>5. /\ m = q /\ y = Announcement(name, q) => InGroup(channels[q], name, q)
      /\ \A w \in Node : m = q /\ y = Approval(name, w) /\ InGroup(channels[q], name, q)
            => Member(channels[q], name, w)
  <2>1. CASE Broadcast(m, k)
    <3>1. \/ \E id \in Msg, ch \in Name : y = Chat(id, ch)
          \/ \E nm \in Name : y = Announcement(nm, m) /\ run[m][Mesh] = Announcing(m, nm)
          \/ \E nm \in Name, w \in Node : y = Approval(nm, w) /\ run[m][Mesh] \in Approving(nm, w)
      BY <1>1, <2>1, BroadcastCall DEF Broadcast
    <3> HIDE DEF y
    <3>2. CASE \E id \in Msg, ch \in Name : y = Chat(id, ch)
      BY <3>2, PacketArgs
    <3>3. CASE \E nm \in Name : y = Announcement(nm, m) /\ run[m][Mesh] = Announcing(m, nm)
      BY <3>3, PacketArgs DEF GroupOK
    <3>4. CASE \E nm \in Name, w \in Node : y = Approval(nm, w) /\ run[m][Mesh] \in Approving(nm, w)
      BY <3>4, PacketArgs DEF GroupOK
    <3>5. QED
      BY <3>1, <3>2, <3>3, <3>4
  <2>2. CASE SendTo(m, k)
    <3>1. \E nm, w : y = JoinReq(nm, w) \/ y = Denial(nm, w)
      BY <2>2, SendCall DEF SendTo
    <3> HIDE DEF y
    <3>2. QED
      BY <3>1, PacketArgs
  <2>3. QED
    BY <2>1, <2>2
<1> HIDE DEF y
<1>6. QED
  BY <1>1, <1>2, <1>3, <1>4, <1>5, PostKeepsGroup

\* A group created, or one that another node announced.
LEMMA AddKeepsGroup ==
    ASSUME ChatAssumption, TypeOK, RunOK, WireOK,
           NEW m \in Node, NEW k \in Task, AddGroupChannel(m, k),
           NEW q \in Node, NEW p \in Node, NEW name \in Name, GroupOK(q, p, name)
    PROVE  GroupOK(q, p, name)'
<1> DEFINE a == Arg(m, k)  s == run[m][k]
<1>1. /\ UNCHANGED <<wire, todo>> /\ Call(m, k)
      /\ IF Has(m, a.name) THEN Leaves(m, k, <<>>) ELSE Leaves(m, k, Tail(s))
  BY Left DEF AddGroupChannel, queues, Call, Doing
<1>2. /\ a.name \in Name /\ a.creator \in Node
      /\ \/ /\ k = Mesh /\ a.creator = m
            /\ s = CreateGroup(m, a.name) /\ Tail(s) = Announcing(m, a.name)
         \/ k \in Node /\ m # k /\ a.creator = k /\ s = Founding(a.name, k) /\ Tail(s) = <<>>
  BY AddGroupCall DEF AddGroupChannel
<1>3. /\ \A x \in Node : Grown(channels[x], channels'[x])
      /\ \A x \in Node \ {m} : channels'[x] = channels[x]
      /\ Has(m, a.name) => channels' = channels
      /\ ~Has(m, a.name) =>
           /\ \A nm, f : InGroup(channels'[m], nm, f) <=>
                 InGroup(channels[m], nm, f) \/ (nm = a.name /\ f = a.creator)
           /\ \A nm, w : Member(channels'[m], nm, w) <=>
                 Member(channels[m], nm, w) \/ (nm = a.name /\ w = a.creator)
  BY AddGroupGrows DEF Grows
<1>4. \A x \in Node : \A w : Member(channels[x], name, w) => Member(channels'[x], name, w)
  BY <1>3, GroupsStay
<1>5. \/ run'[p][q] = run[p][q]
      \/ run'[p][q] # Founding(name, q) /\ \A w : run'[p][q] # Listing(name, w)
  BY <1>1, ReadLeft
<1> HIDE DEF a, s
<1>6. \A w : <<>> # Announcing(q, name) /\ <<>> \notin Approving(name, w)
  BY NoGroup
<1>7. \A w : run'[q][Mesh] \in Approving(name, w) => run[q][Mesh] \in Approving(name, w)
  <2>1. CASE m = q /\ k = Mesh
    <3>1. run'[q][Mesh] = <<>> \/ run'[q][Mesh] = Announcing(q, a.name)
      BY <1>1, <1>2, <2>1, TaskIs DEF Leaves
    <3>2. ASSUME NEW w PROVE Announcing(q, a.name) \notin Approving(name, w)
      <4>1. \A t \in Approving(name, w) : t # Announcing(q, a.name)
        BY GroupShapes
      <4>2. QED
        BY <4>1
    <3>3. QED
      BY <1>6, <3>1, <3>2
  <2>2. CASE ~(m = q /\ k = Mesh)
    BY <1>1, <2>2, TaskIs DEF Leaves
  <2>3. QED
    BY <2>1, <2>2
<1>8. CASE a.name # name \/ Has(m, a.name) \/ a.creator # q
  <2>1. \A x \in Node : InGroup(channels'[x], name, q) <=> InGroup(channels[x], name, q)
    BY <1>3, <1>8
  <2>2. ASSUME NEW w \in Node, InGroup(channels[p], name, q), Member(channels'[p], name, w)
        PROVE  Member(channels[p], name, w)
    <3>1. Has(p, name)
      BY <2>2 DEF InGroup, Has
    <3>2. QED
      BY <1>3, <2>2, <3>1
  <2>3. run'[q][Mesh] = Announcing(q, name) => run[q][Mesh] = Announcing(q, name)
    <3>1. CASE m = q /\ k = Mesh
      <4>1. CASE Has(m, a.name)
        <5>1. run'[q][Mesh] = <<>>
          BY <1>1, <3>1, <4>1, TaskIs DEF Leaves
        <5>2. QED
          BY <1>6, <5>1
      <4>2. CASE ~Has(m, a.name)
        <5>1. run'[q][Mesh] = Announcing(q, a.name) /\ a.name # name
          BY <1>1, <1>2, <1>8, <3>1, <4>2, TaskIs DEF Leaves
        <5>2. QED
          BY <5>1, GroupShapes
      <4>3. QED
        BY <4>1, <4>2
    <3>2. CASE ~(m = q /\ k = Mesh)
      BY <1>1, <3>2, TaskIs DEF Leaves
    <3>3. QED
      BY <3>1, <3>2
  <2>4. QED
    BY <1>1, <1>4, <1>5, <1>7, <2>1, <2>2, <2>3, GroupKeeps
<1>9. CASE a.name = name /\ ~Has(m, name) /\ a.creator = q
  <2>1. InGroup(channels'[m], name, q)
    BY <1>3, <1>9
  <2>2. ASSUME NEW w \in Node, Member(channels'[m], name, w) PROVE Vouched(q, name, w)'
    <3>1. ~Member(channels[m], name, w)
      BY <1>9 DEF Member, Has
    <3>2. w = q
      BY <1>3, <1>9, <2>2, <3>1
    <3>3. QED
      BY <3>2 DEF Vouched
  <2>3. \A w \in Node : Vouched(q, name, w) => Vouched(q, name, w)'
    BY <1>1, <1>4, VouchedStays
  <2>4. OnWire(q, p, Announcement(name, q))' <=> OnWire(q, p, Announcement(name, q))
    BY <1>1 DEF OnWire
  <2>5. CASE m = q
    <3>1. k = Mesh
      BY <1>2, <1>9, <2>5
    <3>2. run'[p][q] = run[p][q] /\ wire'[q][p] = wire[q][p]
      BY <1>1, <3>1, TaskIs DEF Leaves
    <3>3. ASSUME NEW w \in Node PROVE run'[q][Mesh] \notin Approving(name, w)
      <4>1. run'[q][Mesh] = Announcing(q, name)
        BY <1>1, <1>2, <1>9, <2>5, <3>1, TaskIs DEF Leaves
      <4>2. QED
        BY <4>1, GroupShapes
    <3>4. CASE p = q
      <4>1. wire[q][p] = <<>> /\ run[p][q] = <<>>
        BY <3>4 DEF WireOK, RunOK, ReadRun
      <4>2. \A w : run'[p][q] # Listing(name, w)
        BY <3>2, <4>1, ReadShapes
      <4>3. QED
        BY <2>1, <2>2, <2>5, <3>2, <3>3, <3>4, <4>1, <4>2 DEF GroupOK
    <3>5. CASE p # q
      <4>1. channels'[p] = channels[p]
        BY <1>3, <2>5, <3>5
      <4>2. Knows(p, q, name)' <=> Knows(p, q, name)
        BY <3>2, <4>1 DEF Knows
      <4>3. QED
        BY <1>4, <2>1, <2>3, <2>5, <3>2, <3>3, <4>1, <4>2 DEF GroupOK
    <3>6. QED
      BY <3>4, <3>5
  <2>6. CASE m # q
    <3>1. k = q /\ s = Founding(name, q) /\ Tail(s) = <<>>
      BY <1>2, <1>9, <2>6
    <3>2. /\ channels'[q] = channels[q] /\ run'[q][Mesh] = run[q][Mesh]
          /\ wire'[q][p] = wire[q][p]
      BY <1>1, <1>3, <2>6, <3>1, TaskIs DEF Leaves
    <3>3. CASE p # m
      <4>1. channels'[p] = channels[p]
        BY <1>3, <3>3
      <4>2. QED
        BY <1>1, <1>5, <3>2, <4>1, GroupKeeps
    <3>4. CASE p = m
      <4>1. Knows(p, q, name)
        BY <3>1, <3>4 DEF Knows, s
      <4>2. InGroup(channels[q], name, q)
        BY <4>1 DEF GroupOK
      <4>3. run'[p][q] = <<>>
        BY <1>1, <1>9, <3>1, <3>4, TaskIs DEF Leaves
      <4>4. \A w : run'[p][q] # Listing(name, w)
        BY <4>3, ReadShapes
      <4>5. QED
        BY <2>2, <3>2, <3>4, <4>1, <4>2, <4>4 DEF GroupOK
    <3>5. QED
      BY <3>3, <3>4
  <2>7. QED
    BY <2>5, <2>6
<1>10. QED
  BY <1>8, <1>9

\* A member put on a list: as another node than the founder approved, or the
\* founder, whose list has it.
LEMMA ApproveKeepsGroup ==
    ASSUME ChatAssumption, TypeOK, RunOK, WireOK,
           NEW m \in Node, NEW k \in Task, GroupApprove(m, k),
           NEW q \in Node, NEW p \in Node, NEW name \in Name, GroupOK(q, p, name)
    PROVE  GroupOK(q, p, name)'
<1> DEFINE a == Arg(m, k)  s == run[m][k]
<1>1. UNCHANGED <<wire, todo>> /\ Call(m, k) /\ Leaves(m, k, Tail(s))
  BY Left DEF GroupApprove, queues, Call, Doing
<1>2. /\ a.name \in Name /\ a.who \in Node
      /\ \/ /\ k = Mesh /\ Allowed(todo, m, a.name, a.who)
            /\ s = ApproveJoin(a.name, a.who) /\ Tail(s) \in Approving(a.name, a.who)
         \/ /\ k \in Node /\ m # k /\ Allowed(todo, k, a.name, a.who)
            /\ s = Listing(a.name, a.who) /\ Tail(s) = <<>>
  BY ApproveCall DEF GroupApprove
<1>3. /\ \A x \in Node : Grown(channels[x], channels'[x])
      /\ \A x \in Node \ {m} : channels'[x] = channels[x]
      /\ SameGroups(channels[m], channels'[m])
      /\ ~IsGroup(m, a.name) => channels' = channels
      /\ IsGroup(m, a.name) =>
            \A nm, w : Member(channels'[m], nm, w) <=>
                Member(channels[m], nm, w) \/ (nm = a.name /\ w = a.who)
  BY ApproveGrows DEF Grows
<1>4. \A x \in Node : \A w : Member(channels[x], name, w) => Member(channels'[x], name, w)
  BY <1>3, GroupsStay
<1>5. \A x \in Node : InGroup(channels'[x], name, q) <=> InGroup(channels[x], name, q)
  BY <1>3 DEF SameGroups, ChatAssumption
<1>6. \/ run'[p][q] = run[p][q]
      \/ run'[p][q] # Founding(name, q) /\ \A w : run'[p][q] # Listing(name, w)
  BY <1>1, ReadLeft
<1> HIDE DEF a, s
<1>8. /\ run'[q][Mesh] = Announcing(q, name) => run[q][Mesh] = Announcing(q, name)
      /\ \A w \in Node : InGroup(channels[q], name, q) /\ run'[q][Mesh] \in Approving(name, w) =>
            run[q][Mesh] \in Approving(name, w) \/ Member(channels'[q], name, w)
  <2>1. CASE m = q /\ k = Mesh
    <3>1. run'[q][Mesh] \in Approving(a.name, a.who)
      BY <1>1, <1>2, <2>1, TaskIs DEF Leaves
    <3>2. ASSUME NEW w
          PROVE  \A t \in Approving(a.name, a.who) :
                    /\ t # Announcing(q, name)
                    /\ t \in Approving(name, w) => a.name = name /\ a.who = w
      BY GroupShapes
    <3>3. InGroup(channels[q], name, q) => IsGroup(q, name)
      BY IsGroupIn DEF ChatAssumption
    <3>4. QED
      BY <1>3, <2>1, <3>1, <3>2, <3>3
  <2>2. CASE ~(m = q /\ k = Mesh)
    BY <1>1, <2>2, TaskIs DEF Leaves
  <2>3. QED
    BY <2>1, <2>2
<1>9. ASSUME NEW w \in Node, InGroup(channels[p], name, q), Member(channels'[p], name, w),
             ~Member(channels[p], name, w)
      PROVE  Vouched(q, name, w)'
  <2>1. p = m /\ a.name = name /\ w = a.who
    BY <1>3, <1>9
  <2>2. ASSUME NEW x \in Node, Allowed(todo, x, name, w)
        PROVE  /\ x = q => Approved(q, name, w)'
               /\ x # q => Outsider(q, name, w)'
    BY <1>1, <2>2 DEF Allowed, Approved, Outsider
  <2>3. CASE k = Mesh
    BY <1>2, <1>9, <2>1, <2>2, <2>3, TaskIs DEF Vouched
  <2>4. CASE k \in Node
    <3>1. k = q => Member(channels[q], name, w)
      BY <1>2, <1>9, <2>1, <2>4, TaskIs DEF GroupOK, s
    <3>2. QED
      BY <1>2, <1>4, <2>1, <2>2, <2>4, <3>1, TaskIs DEF Vouched
  <2>5. QED
    BY <1>2, <2>3, <2>4
<1>10. QED
  BY <1>1, <1>4, <1>5, <1>6, <1>8, <1>9, GroupKeeps

\* A packet taken: an announcement is then to be added, an approval to be listed,
\* unless the packet is skipped.
LEMMA ReceiveKeepsGroup ==
    ASSUME ChatAssumption, TypeOK, RunOK, QueuesOK, NEW n \in Node, NEW m \in Node,
           Receive(n, m) \/ Skip(n, m),
           NEW q \in Node, NEW p \in Node, NEW name \in Name, GroupOK(q, p, name)
    PROVE  GroupOK(q, p, name)'
<1> DEFINE h == Head(wire[m][n])
<1>1. /\ UNCHANGED <<channels, todo>> /\ wire[m][n] # <<>>
      /\ \/ run' = [run EXCEPT ![n][m] = HandleAppMsg(n, h)]
         \/ run' = run /\ run[n][m] = <<>>
  BY DEF Receive, Skip, Churn, lists
<1>2. h \in Packets(todo, m) /\ m # n
  BY <1>1, QueueHeads
<1>0. m \in Task
  BY TaskIs
<1>3. PICK v \in {HandleAppMsg(n, h), <<>>} : Leaves(n, m, v)
  <2>1. run' = [run EXCEPT ![n][m] = HandleAppMsg(n, h)] => Leaves(n, m, HandleAppMsg(n, h))
    BY <1>0, Left
  <2>2. run' = run /\ run[n][m] = <<>> => Leaves(n, m, <<>>)
    BY DEF Leaves, RunOK
  <2>3. QED
    BY <1>1, <2>1, <2>2
<1>9. Takes(n, m) /\ WireOK
  BY ReceiveTakes DEF QueuesOK
<1>4. run'[q][Mesh] = run[q][Mesh]
  BY <1>3, TaskIs DEF Leaves
<1>5. CASE ~(n = p /\ m = q)
  <2>1. run'[p][q] = run[p][q] /\ wire'[q][p] = wire[q][p]
    BY <1>3, <1>5, <1>9, TaskIs DEF Leaves, Takes
  <2>2. QED
    BY <1>1, <1>4, <2>1, GroupKeeps
<1>6. CASE n = p /\ m = q
  <2> DEFINE u == wire[q][p]  S == Packets(todo, q)  t == wire'[q][p]
  <2>1. u \in Seq(S) /\ u # <<>> /\ t = Tail(u) /\ h = Head(u) /\ h \in S
    BY <1>1, <1>2, <1>6, <1>9 DEF WireOK, Takes
  <2>2. run'[p][q] = HandleAppMsg(p, h) \/ run'[p][q] = <<>>
    BY <1>3, <1>6, TaskIs DEF Leaves
  <2> HIDE DEF u, t, h
  <2>3. /\ Len(u) \in Nat \ {0} /\ DOMAIN t = 1 .. Len(u) - 1 /\ DOMAIN u = 1 .. Len(u)
        /\ h = u[1] /\ \A j \in 1 .. Len(u) - 1 : t[j] = u[j + 1]
    <3> HIDE DEF S
    <3>1. QED
      BY <2>1, TailFacts
  <2>4. \A j \in DOMAIN t : j + 1 \in DOMAIN u /\ t[j] = u[j + 1] /\ j \in Nat \ {0}
    BY <2>3
  <2>5. 1 \in DOMAIN u
    BY <2>3
  <2>6. /\ run'[p][q] = Founding(name, q) => h = Announcement(name, q)
        /\ \A w : run'[p][q] = Listing(name, w) => h = Approval(name, w)
    <3> DEFINE z == HandleAppMsg(p, h)  r == run'[p][q]
    <3>1. \/ z = <<Push(h.id, h.channel)>>
          \/ h = Announcement(h.name, q) /\ z = Founding(h.name, q)
          \/ z \in Requested(h.name, h.who)
          \/ z \in Joining(h.name)
          \/ h = Approval(h.name, h.who) /\ z = Listing(h.name, h.who)
          \/ z = <<>>
      BY <2>1, PacketIs
    <3>2. r = z \/ r = <<>>
      BY <2>2
    <3> HIDE DEF z, r
    <3>3. \/ h = Announcement(h.name, q) /\ r = Founding(h.name, q)
          \/ h = Approval(h.name, h.who) /\ r = Listing(h.name, h.who)
          \/ \A nm, x : r # Founding(nm, x) /\ r # Listing(nm, x)
      <4>1. CASE r = <<>> \/ r = <<Push(h.id, h.channel)>>
        BY <4>1, ReadShapes
      <4>2. CASE r \in Requested(h.name, h.who) \/ r \in Joining(h.name)
        <5>1. (\E a, b : r \in Requested(a, b)) \/ (\E a : r \in Joining(a))
          BY <4>2
        <5>2. \A nm, x : r # Founding(nm, x) /\ r # Listing(nm, x)
          BY <5>1, ReadShapes
        <5>3. QED
          BY <5>2
      <4>3. CASE r = z /\ z # <<>> /\ z # <<Push(h.id, h.channel)>>
                 /\ z \notin Requested(h.name, h.who) /\ z \notin Joining(h.name)
        BY <4>3, <3>1
      <4>4. QED
        BY <4>1, <4>2, <4>3, <3>2
    <3>4. ASSUME r = Founding(name, q) PROVE h = Announcement(name, q)
      BY <3>3, <3>4, ReadShapes
    <3>5. ASSUME NEW w, r = Listing(name, w) PROVE h = Approval(name, w)
      BY <3>3, <3>5, ReadShapes
    <3>6. QED
      BY <3>4, <3>5 DEF r
  <2>7. Knows(p, q, name)' => Knows(p, q, name) \/ h = Announcement(name, q)
    BY <1>1, <2>6 DEF Knows
  <2>8. h = Announcement(name, q) => OnWire(q, p, Announcement(name, q))
    BY <2>3, <2>5 DEF OnWire, u
  <2>9. OnWire(q, p, Announcement(name, q))' => OnWire(q, p, Announcement(name, q))
    BY <2>4 DEF OnWire, u, t
  <2>10. (Knows(p, q, name) \/ OnWire(q, p, Announcement(name, q))
            \/ run[q][Mesh] = Announcing(q, name))' => InGroup(channels'[q], name, q)
    BY <1>1, <1>4, <2>7, <2>8, <2>9 DEF GroupOK
  <2>11. ASSUME NEW w \in Node
         PROVE  /\ InGroup(channels'[p], name, q) /\ Member(channels'[p], name, w)
                      => Vouched(q, name, w)'
                /\ run'[q][Mesh] \in Approving(name, w) /\ InGroup(channels'[q], name, q)
                      => Member(channels'[q], name, w)
    BY <1>1, <1>4, VouchedStays DEF GroupOK
  <2>12. ASSUME NEW w \in Node, run'[p][q] = Listing(name, w), InGroup(channels'[p], name, q)
         PROVE  Member(channels'[q], name, w)
    <3>1. u[1] = Approval(name, w) /\ Knows(p, q, name)
      BY <1>1, <2>3, <2>6, <2>12 DEF Knows
    <3>2. QED
      BY <1>1, <2>5, <3>1 DEF GroupOK, u
  <2>13. ASSUME NEW w \in Node, NEW i \in DOMAIN t, t[i] = Approval(name, w),
                \/ Knows(p, q, name)'
                \/ \E j \in DOMAIN t : j < i /\ t[j] = Announcement(name, q)
         PROVE  Member(channels'[q], name, w)
    <3>1. i + 1 \in DOMAIN u /\ u[i + 1] = Approval(name, w) /\ 1 < i + 1
      BY <2>4, <2>13
    <3>2. \/ Knows(p, q, name)
          \/ \E j \in DOMAIN u : j < i + 1 /\ u[j] = Announcement(name, q)
      <4>1. CASE h = Announcement(name, q)
        BY <2>3, <2>5, <3>1, <4>1
      <4>2. ASSUME NEW j \in DOMAIN t, j < i, t[j] = Announcement(name, q)
            PROVE  \E l \in DOMAIN u : l < i + 1 /\ u[l] = Announcement(name, q)
        <5>1. j + 1 \in DOMAIN u /\ j + 1 < i + 1 /\ u[j + 1] = Announcement(name, q)
          BY <2>4, <4>2
        <5>2. QED
          BY <5>1
      <4>3. QED
        BY <2>7, <2>13, <4>1, <4>2
    <3>3. QED
      BY <1>1, <3>1, <3>2 DEF GroupOK, u
  <2>14. QED
    BY <2>10, <2>11, <2>12, <2>13 DEF GroupOK, t
<1>7. QED
  BY <1>5, <1>6

\* A command taken: nothing is announced or approved yet.
LEMMA TakeKeepsGroup ==
    ASSUME ChatAssumption, TypeOK, RunOK, QueuesOK, NEW m \in Node, TakeCommand(m),
           NEW q \in Node, NEW p \in Node, NEW name \in Name, GroupOK(q, p, name)
    PROVE  GroupOK(q, p, name)'
<1> DEFINE c == Head(cmds[m])
<1>1. /\ UNCHANGED <<channels, wire, todo>> /\ c \in Cmds(todo, m)
      /\ run' = [run EXCEPT ![m][Mesh] = HandleCommand(m, c)]
  BY QueueHeads DEF TakeCommand, lists
<1> HIDE DEF c
<1>2. Leaves(m, Mesh, HandleCommand(m, c))
  BY <1>1, Left, TaskIs
<1>3. \/ \E id : Talks(HandleCommand(m, c), id)
      \/ \E nm : HandleCommand(m, c) = CreateGroup(m, nm)
      \/ \E nm, x : HandleCommand(m, c) = RequestJoin(m, nm, x)
      \/ \E nm, u : \/ HandleCommand(m, c) = ApproveJoin(nm, u)
                    \/ HandleCommand(m, c) = DenyJoin(nm, u)
  BY <1>1, CommandIs, StageTalks
<1>4. /\ run'[q][Mesh] = Announcing(q, name) => run[q][Mesh] = Announcing(q, name)
      /\ \A w \in Node : run'[q][Mesh] \in Approving(name, w) => run[q][Mesh] \in Approving(name, w)
  <2>1. CASE m = q
    <3>1. run'[q][Mesh] = HandleCommand(m, c)
      BY <1>2, <2>1, TaskIs DEF Leaves
    <3> DEFINE v == HandleCommand(m, c)
    <3> HIDE DEF v
    <3>2. \A nm, w : v # Announcing(m, nm) /\ v \notin Approving(nm, w)
      BY <1>3, NoGroup DEF v
    <3>3. QED
      BY <2>1, <3>1, <3>2 DEF v
  <2>2. CASE m # q
    BY <1>2, <2>2, TaskIs DEF Leaves
  <2>3. QED
    BY <2>1, <2>2
<1>5. run'[p][q] = run[p][q]
  BY <1>2, TaskIs DEF Leaves
<1>6. QED
  BY <1>1, <1>4, <1>5, GroupKeeps

\* The other steps leave the groups, the packets and what is done about them.
LEMMA OthersKeepGroup ==
    ASSUME ChatAssumption, TypeOK, RunOK, QueuesOK, NoSelf, [Next]_vars,
           \/ \E m \in Node : Screen(m) \/ Drain(m)
           \/ \E i \in todo : User(i)
           \/ \E m, x : Environment(m, x) /\ ~Skip(m, x)
           \/ UNCHANGED vars,
           NEW q \in Node, NEW p \in Node, NEW name \in Name, GroupOK(q, p, name)
    PROVE  GroupOK(q, p, name)'
<1>1. UNCHANGED wire /\ todo' \subseteq todo
  BY TodoStep DEF Screen, SetActive, ClearUnread, SelectLast, Drain, Environment, AddPeer,
        RemovePeer, Registered, Unregistered, Churn, vars, queues,
        User, TypeLine, TypeGroup, TypeRequest, TypeJoin, SelectChannel, Decide, ToggleRequests,
        Order, Perform, Input
<1>2. \A x \in Node : Quiet(channels[x], channels'[x])
  <2>1. ASSUME NEW m \in Node, ClearUnread(m) PROVE \A x \in Node : Quiet(channels[x], channels'[x])
    BY <2>1, ClearFacts
  <2>2. CASE channels' = channels
    BY <2>2, ListIs, GrownSelf
  <2>3. QED
    BY <2>1, <2>2, OthersKeep DEF Screen, SetActive, SelectLast, vars, lists
<1>3. \A x \in Node : /\ InGroup(channels'[x], name, q) <=> InGroup(channels[x], name, q)
                      /\ \A w : Member(channels'[x], name, w) <=> Member(channels[x], name, w)
  BY <1>2, HushFacts
<1>4. run'[q][Mesh] = run[q][Mesh] /\ run'[p][q] = run[p][q]
  <2>1. \/ UNCHANGED run
        \/ \E m \in Node : Return(m, Terminal) \/ \E v : run' = [run EXCEPT ![m][Terminal] = v]
    <3>1. ASSUME NEW i \in todo, User(i)
          PROVE  UNCHANGED run \/ \E v : run' = [run EXCEPT ![i.by][Terminal] = v]
      BY <3>1 DEF User, TypeLine, TypeGroup, TypeRequest, TypeJoin, SelectChannel, Decide,
                  ToggleRequests, Order, Perform
    <3>2. \A i \in todo : i.by \in Node
      BY InputIs DEF QueuesOK
    <3>3. QED
      BY <3>1, <3>2, OthersKeep DEF Screen, SetActive, ClearUnread, SelectLast, Drain, vars
  <2>2. UNCHANGED run \/ \E m \in Node : \E v : Leaves(m, Terminal, v)
    BY <2>1, Left, TaskIs
  <2>3. QED
    BY <2>2, TaskIs DEF Leaves
<1>5. QED
  BY <1>1, <1>3, <1>4, GroupKeeps

\* Every step keeps what is known and listed of a group.
LEMMA GroupsStep ==
    ASSUME ChatAssumption, IInv, GroupsOK, [Next]_vars
    PROVE  GroupsOK'
<1> SUFFICES ASSUME NEW q \in Node, NEW p \in Node, NEW name \in Name
             PROVE  GroupOK(q, p, name)'
  BY DEF GroupsOK
<1>1. GroupOK(q, p, name)
  BY DEF GroupsOK
<1>2. TypeOK /\ RunOK /\ QueuesOK /\ WireOK /\ NoSelf
  BY DEF IInv, QueuesOK
<1>3. ASSUME NEW m \in Node, NEW k \in Task, Call(m, k) PROVE GroupOK(q, p, name)'
  BY <1>1, <1>2, <1>3, CallKeepsGroup, SendKeepsGroup, AddKeepsGroup, ApproveKeepsGroup
<1>4. ASSUME NEW m \in Node, TakeCommand(m) PROVE GroupOK(q, p, name)'
  BY <1>1, <1>2, <1>4, TakeKeepsGroup
<1>5. ASSUME NEW m \in Node, NEW x \in Node, Receive(m, x) PROVE GroupOK(q, p, name)'
  BY <1>1, <1>2, <1>5, ReceiveKeepsGroup
<1>6. ASSUME \/ \E m \in Node : Screen(m) \/ Drain(m)
             \/ \E i \in todo : User(i)
             \/ \E m, x : Environment(m, x) /\ ~Skip(m, x)
             \/ UNCHANGED vars
      PROVE  GroupOK(q, p, name)'
  BY <1>1, <1>2, <1>6, OthersKeepGroup
<1>7. ASSUME NEW u \in Unsteady, Skip(u[1], u[2]) PROVE GroupOK(q, p, name)'
  <2>1. u[1] \in Node /\ u[2] \in Node
    BY DEF ChatAssumption
  <2>2. QED
    BY <1>1, <1>2, <1>7, <2>1, ReceiveKeepsGroup
<1>8. QED
  BY <1>3, <1>4, <1>5, <1>6, <1>7 DEF Next, Progress

\* Whoever approves whom, and whatever is lost: the founder of a group that any node
\* knows has it, and whom a node lists in it another node has approved, or the
\* founder, who lists it too.
THEOREM FounderIsFirst == Spec => []FounderFirst
<1>1. Init => GroupsOK
  <2> SUFFICES ASSUME Init, NEW q \in Node, NEW p \in Node, NEW name \in Name
               PROVE  GroupOK(q, p, name)
    BY DEF GroupsOK
  <2>1. /\ \A x \in Node : ~InGroup(channels[x], name, q) /\ \A w : ~Member(channels[x], name, w)
    BY FirstLists, ChatAssumption DEF ChatAssumption
  <2>2. run[q][Mesh] = <<>> /\ run[p][q] = <<>> /\ wire[q][p] = <<>>
    BY ChatAssumption, TaskIs DEF Init
  <2>3. \A w : /\ <<>> # Announcing(q, name) /\ <<>> \notin Approving(name, w)
               /\ <<>> # Founding(name, q) /\ <<>> # Listing(name, w)
    BY NoGroup, ReadShapes
  <2>4. ~Knows(p, q, name) /\ ~OnWire(q, p, Announcement(name, q))
    BY <2>1, <2>2, <2>3 DEF Knows, OnWire
  <2>5. QED
    BY <2>1, <2>2, <2>3, <2>4 DEF GroupOK
<1>2. IInv /\ GroupsOK /\ [Next]_vars => GroupsOK'
  BY ChatAssumption, GroupsStep
<1>3. IInv /\ GroupsOK => FounderFirst
  <2> SUFFICES ASSUME IInv, GroupsOK, NEW n \in Node, NEW name \in Name, IsGroup(n, name)
               PROVE  LET founder == Channel(n, name).creator IN
                      /\ IsGroup(founder, name) /\ Channel(founder, name).creator = founder
                      /\ \A who \in Channel(n, name).members \ {founder} :
                            \/ Outsider(founder, name, who)
                            \/ /\ Approved(founder, name, who)
                               /\ who \in Channel(founder, name).members
    BY DEF FounderFirst
  <2> DEFINE f == Channel(n, name).creator
  <2>1. TypeOK
    BY DEF IInv
  <2>2. f \in Node /\ InGroup(channels[n], name, f) /\ Channel(n, name).members \subseteq Node
    BY <2>1, IsGroupIn DEF ChannelSet
  <2> HIDE DEF f
  <2>3. GroupOK(f, n, name)
    BY <2>2 DEF GroupsOK
  <2>4. InGroup(channels[f], name, f)
    BY <2>2, <2>3 DEF GroupOK, Knows
  <2>5. IsGroup(f, name) /\ Channel(f, name).creator = f
    <3>1. f # Nobody
      BY <2>2, ChatAssumption DEF ChatAssumption
    <3>2. QED
      BY <2>1, <2>2, <2>4, <3>1, IsGroupIn
  <2>6. \A w \in Channel(n, name).members : Vouched(f, name, w)
    BY <2>1, <2>2, <2>3, IsGroupIn DEF GroupOK
  <2>7. \A w \in Channel(n, name).members \ {f} :
           \/ Outsider(f, name, w)
           \/ Approved(f, name, w) /\ w \in Channel(f, name).members
    BY <2>1, <2>2, <2>6, IsGroupIn DEF Vouched
  <2>8. QED
    BY <2>5, <2>7 DEF f
<1>4. QED
  BY <1>1, <1>2, <1>3, Invariant, PTL DEF Spec
=============================================================================
