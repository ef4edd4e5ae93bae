------------------------------- MODULE MCChat -------------------------------
(***************************************************************************)
(* An instance of Chat for TLC: a founder, a node that asks to join, and a *)
(* third node.                                                             *)
(***************************************************************************)
EXTENDS Chat, TLC

CONSTANTS o, r, t, general, group, m1

\* The third node knows everyone and the founder does not know it.
Known == [n \in Node |-> CASE n = o -> {r} [] n = r -> {o} [] OTHER -> Node \ {n}]

\* The other two have a session with the founder, who has registered one of them.
Linked == [n \in Node |-> IF n = o THEN {r} ELSE {o}]

\* The founder may come to know the third node, or miss a packet of it; the node that
\* asks may lose the founder, or a packet of it.
Pairs == {<<o, t>>, <<r, o>>}

Start == <<general>>

Answer(by, do, who) == [by |-> by, do |-> do, name |-> group, who |-> who]
Request(by) == [by |-> by, do |-> "request", name |-> group, owner |-> o]
Group(by) == [by |-> by, do |-> "group", name |-> group]

\* What is said and where, while a channel is opened and another one is shown.
Said == {
    [by |-> r, do |-> "line", id |-> m1],
    [by |-> r, do |-> "join", name |-> group],
    [by |-> o, do |-> "join", name |-> group],
    [by |-> o, do |-> "select"] }

\* Who is in: two nodes found groups of one name, or one of them has no say, and both
\* approve the same node.
Admitted == {Group(o), Group(t), Answer(o, "approve", r), Answer(t, "approve", r)}

\* Who asks: two requests are answered while the popup is opened and closed.
Asked == {Request(r), Request(t), Answer(o, "deny", r), [by |-> o, do |-> "requests"]}

All == Said \cup Admitted \cup Asked
=============================================================================
