---------------------------- MODULE ScreenProofs ----------------------------
(***************************************************************************)
(* Proofs about Screen for a terminal of any size, any channels, requests  *)
(* and offers, and any capacity of the command channel.                    *)
(***************************************************************************)
EXTENDS Screen, ListLemmas, FiniteSetTheorems

(***************************************************************************)
(* The invariant                                                           *)
(***************************************************************************)
\* What a region may do when the popup of the requests shows reqs.
RegionAction(reqs) ==
    [do : {"OpenHelp", "ScrollUp", "ScrollDown", "ClosePopup", "AcceptFile", "RejectFile"},
     what : {0}]
    \cup [do : {"SelectChannel"}, what : 1..Channel]
    \cup [do : {"ApproveJoin", "DenyJoin"}, what : ToSet(reqs)]

\* The regions of a frame are about what it shows, and when the input comes the offer
\* that can be answered is the one on the screen and the help is open if it shows.
AsDrawn ==
    /\ shown.reqs \in Seq(Request)
    /\ DOMAIN click_regions \subseteq Nat
    /\ \A i \in DOMAIN click_regions : click_regions[i].action \in RegionAction(shown.reqs)
    /\ phase = "input" => shown.offer = file_offer /\ shown.help = show_help

\* Whether a queue has a command about f, and one only.
Asks(q, f) == \E i \in DOMAIN q : q[i].what = f
AsksOnce(q, f) == \A i, j \in DOMAIN q : q[i].what = f /\ q[j].what = f => i = j

\* An offer is still to come, or in the events, or in the popup, or answered.
OfferInOnePlace ==
    \A f \in Offer :
        /\ Once(events, f) /\ AsksOnce(cmds, f)
        /\ f \in expected => ~In(events, f) /\ file_offer # f /\ ~Asks(cmds, f)
        /\ In(events, f) => file_offer # f /\ ~Asks(cmds, f)
        /\ file_offer = f => ~Asks(cmds, f)

\* A request is in the list once, although both a read loop and the terminal add
\* it (add_pending_request looks for it first): Without takes all of it away.
ListedOnce ==
    \A r \in Request :
        /\ Once(pending_reqs, r)
        /\ r \in expected => ~In(pending_reqs, r) /\ ~In(events, r)

IInv ==
    /\ TypeOK /\ expected \subseteq Request \cup Offer
    /\ AsDrawn /\ OfferInOnePlace /\ ListedOnce

(***************************************************************************)
(* Lists                                                                   *)
(***************************************************************************)
\* Contains of a sequence.
LEMMA ContainsIn == ASSUME NEW S, NEW s \in Seq(S), NEW e PROVE Contains(s, e) <=> In(s, e)
BY DEF Contains, In

\* Added puts e at the end, once.
LEMMA AddedFacts ==
    ASSUME NEW S, NEW s \in Seq(S), NEW e \in S
    PROVE  /\ Added(s, e) \in Seq(S)
           /\ \A x : In(Added(s, e), x) <=> In(s, x) \/ x = e
           /\ \A x : Once(s, x) => Once(Added(s, e), x)
<1>1. CASE Contains(s, e)
  BY <1>1, ContainsIn DEF Added
<1>2. CASE ~Contains(s, e)
  <2>1. Added(s, e) = Append(s, e) /\ ~In(s, e)
    BY <1>2, ContainsIn DEF Added
  <2>2. QED
    BY <2>1, AppendFacts, InAppend, OnceAppend
<1>3. QED
  BY <1>1, <1>2

\* Without takes nothing but e, and all of it when it is listed once.
LEMMA WithoutFacts ==
    ASSUME NEW S, NEW s \in Seq(S), NEW e
    PROVE  /\ Without(s, e) \in Seq(S)
           /\ \A x : In(Without(s, e), x) => In(s, x)
           /\ \A x : Once(s, x) => Once(Without(s, e), x)
<1>1. CASE ~Contains(s, e)
  BY <1>1 DEF Without
<1>2. CASE Contains(s, e)
  <2> DEFINE k == CHOOSE i \in DOMAIN s : s[i] = e
             u == RemoveAt(s, k)
             from(i) == IF i < k THEN i ELSE i + 1
  <2>1. k \in 1 .. Len(s)
    BY <1>2 DEF Contains
  <2>2. Without(s, e) = u
    BY <1>2 DEF Without
  <2> HIDE DEF k
  <2>3. /\ u \in Seq(S) /\ Len(s) \in Nat /\ DOMAIN s = 1 .. Len(s)
        /\ DOMAIN u = 1 .. Len(s) - 1
        /\ \A i \in DOMAIN u : u[i] = IF i < k THEN s[i] ELSE s[i + 1]
    BY <2>1, RemoveAtFacts
  <2> HIDE DEF u
  <2>4. \A i \in DOMAIN u : from(i) \in DOMAIN s /\ u[i] = s[from(i)]
    BY <2>1, <2>3
  <2>5. \A i, j \in DOMAIN u : from(i) = from(j) => i = j
    BY <2>1, <2>3
  <2> HIDE DEF from
  <2>6. \A x : In(u, x) => In(s, x)
    BY <2>4 DEF In
  <2>7. \A x : Once(s, x) => Once(u, x)
    BY <2>4, <2>5 DEF Once
  <2>8. QED
    BY <2>2, <2>3, <2>6, <2>7
<1>3. QED
  BY <1>1, <1>2

(***************************************************************************)
(* Regions                                                                 *)
(***************************************************************************)
\* What the regions of a frame may do.
Does(regions, reqs) ==
    /\ \E S : regions \in Seq(S)
    /\ \A i \in DOMAIN regions : regions[i].action \in RegionAction(reqs)

\* Two lists of regions that do what regions may are one such list.
LEMMA DoesConcat ==
    ASSUME NEW reqs, NEW r1, NEW r2, Does(r1, reqs), Does(r2, reqs)
    PROVE  Does(r1 \o r2, reqs)
<1>1. PICK S1 : r1 \in Seq(S1)
  BY DEF Does
<1>2. PICK S2 : r2 \in Seq(S2)
  BY DEF Does
<1> DEFINE S == S1 \cup S2
<1>3. r1 \in Seq(S) /\ r2 \in Seq(S)
  BY <1>1, <1>2
<1> HIDE DEF S
<1>4. /\ r1 \o r2 \in Seq(S) /\ Len(r1) \in Nat /\ Len(r2) \in Nat
      /\ DOMAIN r1 = 1 .. Len(r1) /\ DOMAIN r2 = 1 .. Len(r2)
      /\ DOMAIN (r1 \o r2) = 1 .. Len(r1) + Len(r2)
      /\ \A i \in 1 .. Len(r1) + Len(r2) :
            (r1 \o r2)[i] = IF i <= Len(r1) THEN r1[i] ELSE r2[i - Len(r1)]
  BY <1>3, ConcatProperties
<1>5. ASSUME NEW i \in DOMAIN (r1 \o r2) PROVE (r1 \o r2)[i].action \in RegionAction(reqs)
  <2>1. CASE i <= Len(r1)
    BY <1>4, <2>1 DEF Does
  <2>2. CASE ~(i <= Len(r1))
    <3>1. i - Len(r1) \in DOMAIN r2
      BY <1>4, <2>2
    <3>2. QED
      BY <1>4, <2>2, <3>1 DEF Does
  <2>3. QED
    BY <2>1, <2>2
<1>6. QED
  BY <1>4, <1>5 DEF Does

\* No regions do nothing.
LEMMA DoesNothing == ASSUME NEW reqs PROVE Does(<<>>, reqs)
BY DEF Does

\* One region does what regions may if its action is one.
LEMMA DoesOne ==
    ASSUME NEW reqs, NEW r, r.action \in RegionAction(reqs)
    PROVE  Does(<<r>>, reqs)
<1>1. <<r>> \in Seq({r}) /\ DOMAIN <<r>> = 1 .. 1 /\ <<r>>[1] = r
  OBVIOUS
<1>2. \A i \in DOMAIN <<r>> : <<r>>[i] = r
  BY <1>1
<1>3. \E S : <<r>> \in Seq(S)
  BY <1>1
<1>4. QED
  BY <1>2, <1>3 DEF Does

\* Two regions do what regions may if their actions are such.
LEMMA DoesTwo ==
    ASSUME NEW reqs, NEW r, NEW t, r.action \in RegionAction(reqs), t.action \in RegionAction(reqs)
    PROVE  Does(<<r, t>>, reqs)
<1>1. <<r, t>> \in Seq({r, t}) /\ DOMAIN <<r, t>> = {1, 2} /\ <<r, t>>[1] = r /\ <<r, t>>[2] = t
  OBVIOUS
<1>2. QED
  BY <1>1 DEF Does

\* The regions of the bars and of the popups do what they are for.
LEMMA FrameDoes ==
    ASSUME ScreenAssumption, NEW reqs
    PROVE  /\ Does(TitleRegions, reqs) /\ Does(ChannelRegions, reqs) /\ Does(FeedRegions, reqs)
           /\ Does(OfferRegions, reqs) /\ Does(HelpRegions, reqs)
<1>1. ASSUME NEW rect, NEW do \in {"OpenHelp", "ScrollUp", "ScrollDown", "ClosePopup",
                                   "AcceptFile", "RejectFile"}
      PROVE  Region(rect, do, 0).action \in RegionAction(reqs)
  BY DEF Region, RegionAction
<1>2. Does(TitleRegions, reqs) /\ Does(HelpRegions, reqs)
  BY <1>1, DoesOne DEF TitleRegions, HelpRegions
<1>3. Does(FeedRegions, reqs)
  BY <1>1, DoesTwo DEF FeedRegions
<1>4. Does(OfferRegions, reqs)
  BY <1>1, DoesTwo DEF OfferRegions
<1>5. Does(ChannelRegions, reqs)
  <2> DEFINE r(i) == Region(Rect(ChannelBox.x, ChannelBox.y + i, ChannelBox.w, 1),
                            "SelectChannel", i)
             S == {r(i) : i \in 1 .. Channel}
  <2>1. ChannelRegions = [i \in 1 .. Channel |-> r(i)] /\ Channel \in Nat
    BY DEF ChannelRegions, ScreenAssumption
  <2>2. \A i \in 1 .. Channel : r(i).action \in RegionAction(reqs)
    BY DEF Region, RegionAction
  <2> HIDE DEF r
  <2>3. ChannelRegions \in Seq(S)
    BY <2>1
  <2>4. QED
    BY <2>1, <2>2, <2>3 DEF Does
<1>6. QED
  BY <1>2, <1>3, <1>4, <1>5

\* The popup's regions do what regions may.
LEMMA RequestsDo ==
    ASSUME NEW reqs \in Seq(Request)
    PROVE  Does(RequestRegions(reqs), reqs)
<1> DEFINE popup == RequestsPopup(reqs)
           row(i) == popup.y + 1 + 2 * (i - 1)
           yes(i) == Region(Rect(popup.x + 2, row(i), 11, 1), "ApproveJoin", reqs[i])
           no(i) == Region(Rect(popup.x + 16, row(i), 9, 1), "DenyJoin", reqs[i])
           ys == [i \in 1 .. Len(reqs) |-> yes(i)]
           ns == [i \in 1 .. Len(reqs) |-> no(i)]
           n == 2 * Len(reqs)
           S == {yes(i) : i \in 1 .. Len(reqs)} \cup {no(i) : i \in 1 .. Len(reqs)}
<1>1. \A i \in 1 .. Len(reqs) : reqs[i] \in ToSet(reqs)
  BY DEF ToSet
<1>2. \A i \in 1 .. Len(reqs) :
         yes(i).action \in RegionAction(reqs) /\ no(i).action \in RegionAction(reqs)
  BY <1>1 DEF Region, RegionAction
<1>3. Len(reqs) \in Nat
  OBVIOUS
<1>4. RequestRegions(reqs)
        = [k \in 1 .. n |-> IF k % 2 = 1 THEN ys[(k + 1) \div 2] ELSE ns[k \div 2]]
  BY <1>3 DEF RequestRegions, InPairs
<1> HIDE DEF yes, no
<1>5. ASSUME NEW k \in 1 .. n
      PROVE  /\ k % 2 = 1 => (k + 1) \div 2 \in 1 .. Len(reqs)
             /\ k % 2 # 1 => k \div 2 \in 1 .. Len(reqs)
  BY <1>3
<1>6. RequestRegions(reqs) \in Seq(S)
  BY <1>3, <1>4, <1>5
<1>7. QED
  BY <1>2, <1>3, <1>4, <1>5, <1>6 DEF Does

\* A frame drawn now.
LEMMA DrawnFrame ==
    ASSUME ScreenAssumption, pending_reqs \in Seq(Request), Draw
    PROVE  /\ shown'.reqs \in Seq(Request) /\ shown'.offer = file_offer /\ shown'.help = show_help
           /\ Does(click_regions', shown'.reqs)
<1> DEFINE reqs == shown'.reqs
<1>1. /\ reqs = (IF show_join_requests THEN pending_reqs ELSE <<>>)
      /\ shown'.offer = file_offer /\ shown'.help = show_help /\ reqs \in Seq(Request)
  BY DEF Draw
<1> DEFINE asked == IF pending_reqs # <<>> /\ show_join_requests
                    THEN RequestRegions(pending_reqs) ELSE <<>>
           offered == IF file_offer # NoOffer THEN OfferRegions ELSE <<>>
           helped == IF show_help THEN HelpRegions ELSE <<>>
<1>2. Does(asked, reqs)
  BY <1>1, RequestsDo, DoesNothing
<1>3. Does(offered, reqs) /\ Does(helped, reqs)
  BY FrameDoes, DoesNothing
<1>4. Does(TitleRegions \o ChannelRegions \o FeedRegions, reqs)
  BY FrameDoes, DoesConcat
<1>5. click_regions' = TitleRegions \o ChannelRegions \o FeedRegions \o asked \o offered \o helped
  BY DEF Draw
<1> HIDE DEF asked, offered, helped, reqs
<1>6. Does(click_regions', reqs)
  BY <1>2, <1>3, <1>4, <1>5, DoesConcat
<1>7. QED
  BY <1>1, <1>6 DEF reqs

(***************************************************************************)
(* What the input does                                                     *)
(***************************************************************************)
InputStep ==
    \/ Wheel \/ NoInput \/ F1 \/ EscHelp \/ EscRequests \/ EscOffer \/ AnswerKey \/ Swallowed \/ Line
    \/ \E cell \in Cell : Click(cell)

\* What a key, a click or the wheel does to the offer and to the commands.
Quiet == UNCHANGED <<cmds, file_offer>>
AnswersOffer ==
    /\ file_offer \in Offer /\ file_offer' = NoOffer /\ Len(cmds) < CommandCapacity
    /\ \E do \in {"AcceptFile", "RejectFile"} :
          cmds' = Append(cmds, [do |-> do, what |-> file_offer])
AnswersRequest ==
    /\ file_offer' = file_offer /\ Len(cmds) < CommandCapacity
    /\ \E do \in {"ApproveJoin", "DenyJoin"} : \E r \in ToSet(shown.reqs) :
          cmds' = Append(cmds, [do |-> do, what |-> r])
Effect == Quiet \/ AnswersOffer \/ AnswersRequest

ViewOK ==
    /\ show_help \in BOOLEAN /\ show_join_requests \in BOOLEAN
    /\ active \in 1..Channel /\ scroll_offset \in 0..MaxScroll + 2

\* The wheel and the regions of the feed keep the bound of the scroll offset.
LEMMA Scrolls ==
    ASSUME ScreenAssumption, ViewOK, ScrollUp \/ ScrollDown
    PROVE  ViewOK' /\ Quiet
<1>1. ViewOK'
  <2>1. MaxScroll \in Nat /\ scroll_offset \in 0 .. MaxScroll + 2
    BY DEF ScreenAssumption, ViewOK
  <2>2. scroll_offset' \in 0 .. MaxScroll + 2
    BY <2>1 DEF ScrollUp, ScrollDown, Scroll, SaturatingSub
  <2>3. QED
    BY <2>2 DEF ScrollUp, ScrollDown, Scroll, ViewOK, popups
<1>2. QED
  BY <1>1 DEF ScrollUp, ScrollDown, Scroll, Quiet, popups

\* So does an answer, by a key or a click.
LEMMA Answers ==
    ASSUME file_offer \in Offer \cup {NoOffer}, ViewOK,
           NEW do \in {"AcceptFile", "RejectFile"}, Answer(do)
    PROVE  ViewOK' /\ AnswersOffer
<1>1. ViewOK'
  BY DEF Answer, ViewOK, view
<1>2. AnswersOffer
  BY DEF Answer, Send, AnswersOffer
<1>3. QED
  BY <1>1, <1>2

\* What a region does when it is clicked.
LEMMA Clicks ==
    ASSUME ScreenAssumption, file_offer \in Offer \cup {NoOffer}, ViewOK,
           NEW a \in RegionAction(shown.reqs), DispatchClick(a)
    PROVE  ViewOK' /\ Effect
<1>1. CASE a.do = "SelectChannel"
  <2>1. a.what \in 1 .. Channel
    BY <1>1 DEF RegionAction
  <2>2. active' = a.what /\ scroll_offset' = 0 /\ UNCHANGED <<popups, cmds>>
    BY <1>1 DEF DispatchClick
  <2>3. MaxScroll \in Nat
    BY DEF ScreenAssumption
  <2>4. ViewOK'
    BY <2>1, <2>2, <2>3 DEF ViewOK, popups
  <2>5. QED
    BY <2>2, <2>4 DEF Effect, Quiet, popups
<1>2. CASE a.do = "ScrollUp"
  BY <1>2, Scrolls DEF DispatchClick, Effect
<1>3. CASE a.do = "ScrollDown"
  BY <1>3, Scrolls DEF DispatchClick, Effect
<1>4. CASE a.do = "ClosePopup"
  <2>1. /\ show_help' = FALSE /\ show_join_requests' = FALSE
        /\ UNCHANGED <<file_offer, view, cmds>>
    BY <1>4 DEF DispatchClick
  <2>2. ViewOK'
    BY <2>1 DEF ViewOK, view
  <2>3. QED
    BY <2>1, <2>2 DEF Effect, Quiet
<1>5. CASE a.do \in {"AcceptFile", "RejectFile"}
  <2>1. Answer(a.do)
    BY <1>5 DEF DispatchClick
  <2>2. QED
    BY <1>5, <2>1, Answers DEF Effect
<1>6. CASE a.do \in {"ApproveJoin", "DenyJoin"}
  <2>1. a.what \in ToSet(shown.reqs)
    BY <1>6 DEF RegionAction
  <2>2. Send(a.do, a.what) /\ UNCHANGED <<popups, view>>
    BY <1>6 DEF DispatchClick
  <2>3. AnswersRequest
    BY <1>6, <2>1, <2>2 DEF Send, AnswersRequest, popups
  <2>4. ViewOK'
    BY <2>2 DEF ViewOK, popups, view
  <2>5. QED
    BY <2>3, <2>4 DEF Effect
<1>7. CASE a.do = "OpenHelp"
  <2>1. show_help' = TRUE /\ UNCHANGED <<file_offer, show_join_requests, view, cmds>>
    BY <1>7 DEF DispatchClick
  <2>2. ViewOK'
    BY <2>1 DEF ViewOK, view
  <2>3. QED
    BY <2>1, <2>2 DEF Effect, Quiet
<1>8. a.do \in {"SelectChannel", "ScrollUp", "ScrollDown", "ClosePopup", "AcceptFile",
                "RejectFile", "ApproveJoin", "DenyJoin", "OpenHelp"}
  BY DEF RegionAction
<1>9. QED
  BY <1>1, <1>2, <1>3, <1>4, <1>5, <1>6, <1>7, <1>8

\* The input comes when the frame is drawn, and an answer is about what is in it.
LEMMA InputSteps ==
    ASSUME ScreenAssumption, TypeOK, AsDrawn, InputStep
    PROVE  /\ phase = "input" /\ phase' \in {"draw", "drain"} /\ UNCHANGED <<frame, network>>
           /\ ViewOK' /\ Effect
<1>1. ViewOK /\ file_offer \in Offer \cup {NoOffer} /\ Following.input = "drain"
  BY DEF TypeOK, ViewOK, Following
<1>2. CASE Wheel
  BY <1>1, <1>2, Scrolls DEF Wheel, Input, Effect
<1>3. CASE NoInput \/ Swallowed
  <2>1. /\ phase = "input" /\ phase' \in {"draw", "drain"} /\ UNCHANGED <<frame, network>>
        /\ UNCHANGED <<popups, view, cmds>>
    BY <1>1, <1>3 DEF NoInput, Swallowed, Input
  <2>2. QED
    BY <1>1, <2>1 DEF ViewOK, popups, view, Effect, Quiet
<1>4. CASE F1 \/ EscHelp \/ EscRequests
  <2>1. /\ phase = "input" /\ phase' = "draw" /\ UNCHANGED <<frame, network>>
        /\ UNCHANGED <<file_offer, view, cmds>>
    BY <1>4 DEF F1, EscHelp, EscRequests, Input
  <2>2. show_help' \in BOOLEAN /\ show_join_requests' \in BOOLEAN
    BY <1>1, <1>4 DEF F1, EscHelp, EscRequests, ViewOK
  <2>3. QED
    BY <1>1, <2>1, <2>2 DEF ViewOK, view, Effect, Quiet
<1>5. CASE EscOffer \/ AnswerKey
  <2>1. /\ phase = "input" /\ phase' = "draw" /\ UNCHANGED <<frame, network>>
        /\ \E do \in {"AcceptFile", "RejectFile"} : Answer(do)
    BY <1>5 DEF EscOffer, AnswerKey, Input
  <2>2. QED
    BY <1>1, <2>1, Answers DEF Effect
<1>6. CASE Line
  <2>1. /\ phase = "input" /\ phase' = "drain" /\ UNCHANGED <<frame, network>>
        /\ UNCHANGED <<file_offer, view, cmds>>
    BY <1>1, <1>6 DEF Line, Input
  <2>2. show_help' \in BOOLEAN /\ show_join_requests' \in BOOLEAN
    BY <1>1, <1>6 DEF Line, ViewOK
  <2>3. QED
    BY <1>1, <2>1, <2>2 DEF ViewOK, view, Effect, Quiet
<1>7. ASSUME NEW cell, Click(cell)
      PROVE  /\ phase = "input" /\ phase' \in {"draw", "drain"} /\ UNCHANGED <<frame, network>>
             /\ ViewOK' /\ Effect
  <2>1. Min(Hits(cell)) \in Hits(cell)
    BY <1>7, MinIs DEF Click, Hits, AsDrawn
  <2>2. Hit(cell) \in RegionAction(shown.reqs)
    BY <2>1 DEF Hit, Hits, AsDrawn
  <2>3. ViewOK' /\ Effect
    BY <1>1, <1>7, <2>2, Clicks DEF Click
  <2>4. QED
    BY <1>1, <1>7, <2>3 DEF Click, Input
<1>8. QED
  BY <1>2, <1>3, <1>4, <1>5, <1>6, <1>7 DEF InputStep

\* The steps of the whole program.
LEMMA Steps ==
    ASSUME Next
    PROVE  Draw \/ InputStep \/ Drain \/ HandleCommand \/ \E e \in expected : Arrive(e)
BY DEF Next, InputStep

(***************************************************************************)
(* Each step keeps the invariant                                           *)
(***************************************************************************)
\* The queue of commands with one more, and without its head.
LEMMA AsksAppend ==
    ASSUME NEW q \in Seq(Command), NEW c \in Command, NEW f
    PROVE  /\ Asks(Append(q, c), f) <=> Asks(q, f) \/ c.what = f
           /\ AsksOnce(q, f) /\ (c.what = f => ~Asks(q, f)) => AsksOnce(Append(q, c), f)
<1> DEFINE u == Append(q, c)
<1>1. /\ Len(q) \in Nat /\ DOMAIN u = 1 .. Len(q) + 1 /\ DOMAIN q = 1 .. Len(q)
      /\ u[Len(q) + 1] = c /\ \A j \in 1 .. Len(q) : u[j] = q[j]
  BY AppendFacts
<1> HIDE DEF u
<1>2. Asks(u, f) <=> Asks(q, f) \/ c.what = f
  BY <1>1 DEF Asks
<1>3. ASSUME AsksOnce(q, f), c.what = f => ~Asks(q, f),
             NEW i \in DOMAIN u, NEW j \in DOMAIN u, u[i].what = f, u[j].what = f
      PROVE  i = j
  <2>1. CASE i \in DOMAIN q /\ j \in DOMAIN q
    BY <1>1, <1>3, <2>1 DEF AsksOnce
  <2>2. CASE i \notin DOMAIN q \/ j \notin DOMAIN q
    BY <1>1, <1>3, <2>2 DEF Asks
  <2>3. QED
    BY <2>1, <2>2
<1>4. QED
  BY <1>2, <1>3 DEF AsksOnce, u

\* A queue without its first command asks nothing new.
LEMMA AsksTail ==
    ASSUME NEW q \in Seq(Command), q # <<>>, NEW f
    PROVE  /\ Asks(Tail(q), f) => Asks(q, f)
           /\ AsksOnce(q, f) => AsksOnce(Tail(q), f)
<1> DEFINE u == Tail(q)
<1>1. /\ Len(q) \in Nat \ {0} /\ DOMAIN u = 1 .. Len(q) - 1 /\ DOMAIN q = 1 .. Len(q)
      /\ \A j \in 1 .. Len(q) - 1 : u[j] = q[j + 1]
  BY TailFacts
<1> HIDE DEF u
<1>2. \A i \in DOMAIN u : i + 1 \in DOMAIN q /\ u[i] = q[i + 1] /\ i \in Nat
  BY <1>1
<1>3. QED
  BY <1>2 DEF Asks, AsksOnce, u

\* The command of an answer.
LEMMA Answered ==
    ASSUME ScreenAssumption, TypeOK, AsDrawn
    PROVE  /\ AnswersOffer => \E c \in Command : c.what = file_offer /\ cmds' = Append(cmds, c)
           /\ AnswersRequest => \E c \in Command : /\ c.what \in ToSet(shown.reqs)
                                                   /\ c.what \in Request
                                                   /\ cmds' = Append(cmds, c)
<1>1. ASSUME AnswersOffer PROVE \E c \in Command : c.what = file_offer /\ cmds' = Append(cmds, c)
  <2>1. PICK do \in {"AcceptFile", "RejectFile"} :
               cmds' = Append(cmds, [do |-> do, what |-> file_offer])
    BY <1>1 DEF AnswersOffer
  <2>2. [do |-> do, what |-> file_offer] \in Command /\ file_offer \in Offer
    BY <1>1 DEF AnswersOffer, Command
  <2>3. QED
    BY <2>1, <2>2
<1>2. ASSUME AnswersRequest
      PROVE  \E c \in Command : /\ c.what \in ToSet(shown.reqs) /\ c.what \in Request
                                /\ cmds' = Append(cmds, c)
  <2>1. PICK do \in {"ApproveJoin", "DenyJoin"}, r \in ToSet(shown.reqs) :
               cmds' = Append(cmds, [do |-> do, what |-> r])
    BY <1>2 DEF AnswersRequest
  <2>2. r \in Request
    BY DEF AsDrawn, ToSet
  <2>3. [do |-> do, what |-> r] \in Command
    BY <2>2 DEF Command
  <2>4. QED
    BY <2>1, <2>2, <2>3
<1>3. QED
  BY <1>1, <1>2

\* The variables keep their types.
LEMMA TypeStep ==
    ASSUME ScreenAssumption, IInv, [Next]_vars
    PROVE  TypeOK' /\ (expected \subseteq Request \cup Offer)'
<1> USE DEF IInv
<1>1. CASE UNCHANGED vars
  BY <1>1 DEF vars, TypeOK, frame, network, popups, view
<1>2. CASE Draw
  BY <1>2 DEF Draw, TypeOK, network, popups, view, Following
<1>3. CASE InputStep
  <2>1. /\ phase' \in {"draw", "drain"} /\ UNCHANGED <<frame, network>> /\ ViewOK' /\ Effect
    BY <1>3, InputSteps
  <2>2. /\ cmds' \in Seq(Command) /\ Len(cmds') <= CommandCapacity
        /\ file_offer' \in Offer \cup {NoOffer}
    <3>1. cmds \in Seq(Command) /\ Len(cmds) <= CommandCapacity /\ CommandCapacity \in Nat
      BY DEF TypeOK, ScreenAssumption
    <3>2. ASSUME NEW c \in Command, cmds' = Append(cmds, c), Len(cmds) < CommandCapacity
          PROVE  cmds' \in Seq(Command) /\ Len(cmds') <= CommandCapacity
      BY <3>1, <3>2, AppendFacts
    <3>3. CASE Quiet
      BY <3>1, <3>3 DEF Quiet, TypeOK
    <3>4. CASE AnswersOffer
      BY <3>2, <3>4, Answered DEF AnswersOffer
    <3>5. CASE AnswersRequest
      BY <3>2, <3>5, Answered DEF AnswersRequest, TypeOK
    <3>6. QED
      BY <2>1, <3>3, <3>4, <3>5 DEF Effect
  <2>3. QED
    BY <2>1, <2>2 DEF TypeOK, ViewOK, network
<1>4. CASE Drain
  <2>1. CASE events = <<>>
    BY <1>4, <2>1 DEF Drain, TypeOK, frame, view, popups, Following
  <2>2. CASE events # <<>>
    <3>1. events \in Seq(Request \cup Offer) /\ pending_reqs \in Seq(Request)
      BY DEF TypeOK
    <3>2. Tail(events) \in Seq(Request \cup Offer) /\ Head(events) \in Request \cup Offer
      BY <2>2, <3>1
    <3>3. events' = Tail(events) /\ UNCHANGED <<phase, show_help, view, cmds, expected>>
      BY <1>4, <2>2 DEF Drain
    <3>4. CASE Head(events) \in Offer
      <4>1. file_offer' = Head(events) /\ UNCHANGED <<pending_reqs, show_join_requests>>
        BY <1>4, <2>2, <3>4 DEF Drain
      <4>2. QED
        BY <3>2, <3>3, <3>4, <4>1 DEF TypeOK, view
    <3>5. CASE Head(events) \notin Offer
      <4>1. /\ show_join_requests' = TRUE /\ UNCHANGED file_offer
            /\ pending_reqs' = Added(pending_reqs, Head(events))
        BY <1>4, <2>2, <3>5 DEF Drain
      <4>2. pending_reqs' \in Seq(Request)
        BY <3>1, <3>2, <3>5, <4>1, AddedFacts
      <4>3. QED
        BY <3>2, <3>3, <4>1, <4>2 DEF TypeOK, view
    <3>6. QED
      BY <3>4, <3>5
  <2>3. QED
    BY <2>1, <2>2
<1>5. CASE HandleCommand
  <2>1. cmds \in Seq(Command) /\ cmds # <<>> /\ Len(cmds) <= CommandCapacity
        /\ CommandCapacity \in Nat /\ cmds' = Tail(cmds)
    BY <1>5 DEF HandleCommand, TypeOK, ScreenAssumption
  <2>2. cmds' \in Seq(Command) /\ Len(cmds') <= CommandCapacity
    BY <2>1, TailFacts
  <2>3. pending_reqs' \in Seq(Request)
    BY <1>5, WithoutFacts DEF HandleCommand, TypeOK
  <2>4. QED
    BY <1>5, <2>2, <2>3 DEF HandleCommand, TypeOK, popups, view
<1>6. ASSUME NEW e \in expected, Arrive(e)
      PROVE  TypeOK' /\ (expected \subseteq Request \cup Offer)'
  <2>1. e \in Request \cup Offer /\ events \in Seq(Request \cup Offer)
        /\ pending_reqs \in Seq(Request)
    BY DEF TypeOK
  <2>2. events' \in Seq(Request \cup Offer) /\ pending_reqs' \in Seq(Request)
    BY <1>6, <2>1, AddedFacts DEF Arrive
  <2>3. QED
    BY <1>6, <2>2 DEF Arrive, TypeOK, popups, view
<1>7. QED
  BY <1>1, <1>2, <1>3, <1>4, <1>5, <1>6, Steps

\* The regions are those of what is shown, and the offer shown is the one there is.
LEMMA DrawnStep ==
    ASSUME ScreenAssumption, IInv, [Next]_vars
    PROVE  AsDrawn'
<1> USE DEF IInv
<1>1. CASE UNCHANGED vars
  BY <1>1 DEF vars, AsDrawn, frame, popups
<1>2. CASE Draw
  <2>1. /\ shown'.reqs \in Seq(Request) /\ shown'.offer = file_offer /\ shown'.help = show_help
        /\ Does(click_regions', shown'.reqs)
    BY <1>2, DrawnFrame DEF TypeOK
  <2>2. DOMAIN click_regions' \subseteq Nat
    BY <2>1 DEF Does
  <2>3. file_offer' = file_offer /\ show_help' = show_help
    BY <1>2 DEF Draw, popups
  <2>4. QED
    BY <2>1, <2>2, <2>3 DEF AsDrawn, Does
<1>3. CASE InputStep
  <2>1. phase' \in {"draw", "drain"} /\ UNCHANGED frame
    BY <1>3, InputSteps
  <2>2. QED
    BY <2>1 DEF AsDrawn, frame
<1>4. CASE Drain
  <2>1. phase = "drain" /\ phase' \in {"draw", "drain"} /\ UNCHANGED frame
    BY <1>4 DEF Drain, Following
  <2>2. QED
    BY <2>1 DEF AsDrawn, frame
<1>5. CASE HandleCommand
  BY <1>5 DEF HandleCommand, AsDrawn, frame, popups
<1>6. CASE \E e \in expected : Arrive(e)
  BY <1>6 DEF Arrive, AsDrawn, frame, popups
<1>7. QED
  BY <1>1, <1>2, <1>3, <1>4, <1>5, <1>6, Steps

\* An offer moves from the events to the popup, and from there to the commands.
OfferPlaced(f) ==
    /\ Once(events, f) /\ AsksOnce(cmds, f)
    /\ f \in expected => ~In(events, f) /\ file_offer # f /\ ~Asks(cmds, f)
    /\ In(events, f) => file_offer # f /\ ~Asks(cmds, f)
    /\ file_offer = f => ~Asks(cmds, f)

\* Every step leaves an offer in one place.
LEMMA OfferStep ==
    ASSUME ScreenAssumption, IInv, [Next]_vars
    PROVE  OfferInOnePlace'
<1> SUFFICES ASSUME NEW f \in Offer PROVE OfferPlaced(f)'
  BY DEF OfferInOnePlace, OfferPlaced
<1>0. OfferPlaced(f)
  BY DEF IInv, OfferInOnePlace, OfferPlaced
<1>1. TypeOK /\ AsDrawn /\ f # NoOffer /\ f \notin Request
  BY DEF IInv, ScreenAssumption
<1>2. ASSUME UNCHANGED <<events, cmds, expected, file_offer>> PROVE OfferPlaced(f)'
  BY <1>0, <1>2 DEF OfferPlaced
<1>3. CASE UNCHANGED vars
  BY <1>2, <1>3 DEF vars, network, popups
<1>4. CASE Draw
  BY <1>2, <1>4 DEF Draw, network, popups
<1>5. CASE InputStep
  <2>1. UNCHANGED <<events, expected>> /\ Effect
    BY <1>1, <1>5, InputSteps DEF network
  <2>2. CASE Quiet
    BY <1>2, <2>1, <2>2 DEF Quiet
  <2>3. CASE AnswersOffer
    <3>1. PICK c \in Command : c.what = file_offer /\ cmds' = Append(cmds, c)
      BY <1>1, <2>3, Answered
    <3>2. file_offer' = NoOffer
      BY <2>3 DEF AnswersOffer
    <3>3. cmds \in Seq(Command)
      BY <1>1 DEF TypeOK
    <3>4. /\ Asks(cmds', f) <=> Asks(cmds, f) \/ file_offer = f
          /\ AsksOnce(cmds, f) /\ (file_offer = f => ~Asks(cmds, f)) => AsksOnce(cmds', f)
      BY <3>1, <3>3, AsksAppend
    <3>5. QED
      BY <1>0, <1>1, <2>1, <3>2, <3>4 DEF OfferPlaced
  <2>4. CASE AnswersRequest
    <3>1. PICK c \in Command : c.what \in Request /\ cmds' = Append(cmds, c)
      BY <1>1, <2>4, Answered
    <3>2. file_offer' = file_offer /\ c.what # f
      BY <1>1, <2>4, <3>1 DEF AnswersRequest
    <3>3. cmds \in Seq(Command)
      BY <1>1 DEF TypeOK
    <3>4. (Asks(cmds', f) <=> Asks(cmds, f)) /\ (AsksOnce(cmds, f) => AsksOnce(cmds', f))
      BY <3>1, <3>2, <3>3, AsksAppend
    <3>5. QED
      BY <1>0, <2>1, <3>2, <3>4 DEF OfferPlaced
  <2>5. QED
    BY <2>1, <2>2, <2>3, <2>4 DEF Effect
<1>6. CASE Drain
  <2>1. CASE events = <<>>
    BY <1>2, <1>6, <2>1 DEF Drain, popups
  <2>2. CASE events # <<>>
    <3>1. /\ events \in Seq(Request \cup Offer) /\ events' = Tail(events)
          /\ UNCHANGED <<cmds, expected>>
      BY <1>1, <1>6, <2>2 DEF Drain, TypeOK
    <3>2. /\ Once(events', f) /\ (f = Head(events) => ~In(events', f))
          /\ In(events', f) => In(events, f)
      BY <1>0, <2>2, <3>1, InTail, OnceTail DEF OfferPlaced
    <3>3. In(events, Head(events))
      BY <2>2, <3>1, TailFacts DEF In
    <3>4. CASE Head(events) = f
      <4>1. file_offer' = f
        BY <1>6, <2>2, <3>4 DEF Drain
      <4>2. QED
        BY <1>0, <3>1, <3>2, <3>3, <3>4, <4>1 DEF OfferPlaced
    <3>5. CASE Head(events) # f
      <4>1. file_offer' = file_offer \/ file_offer' # f
        BY <1>6, <2>2, <3>5 DEF Drain
      <4>2. QED
        BY <1>0, <3>1, <3>2, <4>1 DEF OfferPlaced
    <3>6. QED
      BY <3>4, <3>5
  <2>3. QED
    BY <2>1, <2>2
<1>7. CASE HandleCommand
  <2>1. cmds \in Seq(Command) /\ cmds # <<>> /\ cmds' = Tail(cmds)
    BY <1>1, <1>7 DEF HandleCommand, TypeOK
  <2>2. (Asks(cmds', f) => Asks(cmds, f)) /\ (AsksOnce(cmds, f) => AsksOnce(cmds', f))
    BY <2>1, AsksTail
  <2>3. QED
    BY <1>0, <1>7, <2>2 DEF HandleCommand, OfferPlaced, popups
<1>8. ASSUME NEW e \in expected, Arrive(e) PROVE OfferPlaced(f)'
  <2>1. /\ e \in Request \cup Offer /\ events \in Seq(Request \cup Offer)
        /\ events' = Append(events, e) /\ expected' = expected \ {e}
        /\ UNCHANGED <<cmds, file_offer>>
    BY <1>1, <1>8 DEF Arrive, TypeOK, popups, IInv
  <2>2. In(events', f) <=> In(events, f) \/ f = e
    BY <2>1, InAppend
  <2>3. Once(events', f)
    BY <1>0, <2>1, OnceAppend DEF OfferPlaced
  <2>4. QED
    BY <1>0, <2>1, <2>2, <2>3 DEF OfferPlaced
<1>9. QED
  BY <1>3, <1>4, <1>5, <1>6, <1>7, <1>8, Steps

\* The second of the two that add a request finds it, and the answer takes it away.
LEMMA ListedStep ==
    ASSUME ScreenAssumption, IInv, [Next]_vars
    PROVE  ListedOnce'
<1> DEFINE Listed(r) == /\ Once(pending_reqs, r)
                        /\ r \in expected => ~In(pending_reqs, r) /\ ~In(events, r)
<1> SUFFICES ASSUME NEW r \in Request PROVE Listed(r)'
  BY DEF ListedOnce
<1>0. Listed(r) /\ TypeOK /\ AsDrawn
  BY DEF IInv, ListedOnce
<1>1. pending_reqs \in Seq(Request) /\ events \in Seq(Request \cup Offer)
  BY <1>0 DEF TypeOK
\* Whoever adds a request.
<1>a. ASSUME NEW e \in Request, pending_reqs' = Added(pending_reqs, e)
      PROVE  (In(pending_reqs', r) <=> In(pending_reqs, r) \/ r = e) /\ Once(pending_reqs', r)
  <2>1. In(Added(pending_reqs, e), r) <=> In(pending_reqs, r) \/ r = e
    BY <1>1, AddedFacts
  <2>2. Once(pending_reqs, r)
    BY <1>0
  <2>3. Once(Added(pending_reqs, e), r)
    BY <1>1, <2>2, AddedFacts
  <2>4. QED
    BY <1>a, <2>1, <2>3
<1>2. CASE UNCHANGED network
  BY <1>0, <1>2 DEF network
<1>3. CASE InputStep
  BY <1>0, <1>2, <1>3, InputSteps
<1>4. CASE Drain
  <2>1. CASE events = <<>>
    BY <1>2, <1>4, <2>1 DEF Drain, network
  <2>2. CASE events # <<>>
    <3>1. events' = Tail(events) /\ expected' = expected
      BY <1>4, <2>2 DEF Drain
    <3>2. In(events', r) => In(events, r)
      BY <1>1, <2>2, <3>1, InTail
    <3>3. In(events, Head(events)) /\ Head(events) \in Request \cup Offer
      BY <1>1, <2>2, TailFacts DEF In
    <3>4. CASE pending_reqs' = pending_reqs
      BY <1>0, <3>1, <3>2, <3>4
    <3>5. CASE pending_reqs' # pending_reqs
      <4>1. /\ Head(events) \in Request
            /\ pending_reqs' = Added(pending_reqs, Head(events))
        BY <1>4, <2>2, <3>3, <3>5 DEF Drain
      <4>2. (In(pending_reqs', r) <=> In(pending_reqs, r) \/ r = Head(events))
            /\ Once(pending_reqs', r)
        BY <1>a, <4>1
      <4>3. QED
        BY <1>0, <3>1, <3>2, <3>3, <4>2
    <3>6. QED
      BY <3>4, <3>5
  <2>3. QED
    BY <2>1, <2>2
<1>5. CASE HandleCommand
  <2>1. /\ UNCHANGED <<events, expected>>
        /\ pending_reqs' = pending_reqs \/ \E e : pending_reqs' = Without(pending_reqs, e)
    BY <1>5 DEF HandleCommand
  <2>2. CASE pending_reqs' = pending_reqs
    BY <1>0, <2>1, <2>2
  <2>3. ASSUME NEW e, pending_reqs' = Without(pending_reqs, e) PROVE Listed(r)'
    <3>1. (In(pending_reqs', r) => In(pending_reqs, r)) /\ Once(pending_reqs', r)
      BY <1>0, <1>1, <2>3, WithoutFacts
    <3>2. QED
      BY <1>0, <2>1, <3>1
  <2>4. QED
    BY <2>1, <2>2, <2>3
<1>6. ASSUME NEW e \in expected, Arrive(e) PROVE Listed(r)'
  <2>1. /\ e \in Request \cup Offer /\ events' = Append(events, e) /\ expected' = expected \ {e}
        /\ pending_reqs' = IF e \in Request THEN Added(pending_reqs, e) ELSE pending_reqs
    BY <1>6 DEF Arrive, IInv
  <2>2. In(events', r) <=> In(events, r) \/ r = e
    BY <1>1, <2>1, InAppend
  <2>3. CASE e \in Request
    BY <1>0, <1>a, <2>1, <2>2, <2>3
  <2>4. CASE e \notin Request
    BY <1>0, <2>1, <2>2, <2>4
  <2>5. QED
    BY <2>3, <2>4
<1>7. QED
  BY <1>2, <1>3, <1>4, <1>5, <1>6, Steps DEF vars, Draw

(***************************************************************************)
(* The theorems                                                            *)
(***************************************************************************)
\* The invariant is one.
THEOREM Invariant == Spec => []IInv
<1>1. Init => IInv
  <2> SUFFICES ASSUME Init PROVE IInv
    OBVIOUS
  <2>1. Channel \in Nat \ {0} /\ MaxScroll \in Nat /\ CommandCapacity \in Nat
        /\ NoOffer \notin Request \cup Offer
    BY ScreenAssumption DEF ScreenAssumption
  <2>2. TypeOK /\ expected \subseteq Request \cup Offer
    <3>1. active \in 1 .. Channel /\ scroll_offset \in 0 .. MaxScroll + 2
      BY <2>1 DEF Init
    <3>2. /\ pending_reqs \in Seq(Request) /\ events \in Seq(Request \cup Offer)
          /\ cmds \in Seq(Command) /\ Len(cmds) <= CommandCapacity
      BY <2>1 DEF Init
    <3>3. QED
      BY <3>1, <3>2 DEF Init, TypeOK
  <2>3. AsDrawn
    BY DEF Init, AsDrawn
  <2>4. OfferInOnePlace
    BY <2>1 DEF Init, OfferInOnePlace, In, Once, Asks, AsksOnce
  <2>5. ListedOnce
    BY DEF Init, ListedOnce, In, Once
  <2>6. QED
    BY <2>2, <2>3, <2>4, <2>5 DEF IInv
<1>2. IInv /\ [Next]_vars => IInv'
  BY ScreenAssumption, TypeStep, DrawnStep, OfferStep, ListedStep DEF IInv
<1>3. QED
  BY <1>1, <1>2, PTL DEF Spec

\* Every variable keeps its type, and the terminal never has more commands waiting
\* than the channel takes, however fast keys and clicks come.
THEOREM TypeCorrect == Spec => []TypeOK
<1>1. IInv => TypeOK
  BY DEF IInv
<1>2. QED
  BY <1>1, Invariant, PTL

\* An offer is answered once at most, by a key, by Esc or by a click, and nothing brings
\* it back: the answer takes it out of file_offer before the next input (app.rs).
THEOREM AnsweredOnce == Spec => []OfferAnsweredOnce
<1>1. IInv => OfferAnsweredOnce
  <2> SUFFICES ASSUME IInv, NEW f \in Offer
               PROVE  /\ Cardinality(About(f)) <= 1
                      /\ About(f) # {} => /\ file_offer # f /\ f \notin expected
                                          /\ ~Contains(events, f)
    BY DEF OfferAnsweredOnce
  <2>1. AsksOnce(cmds, f) /\ (Asks(cmds, f) => file_offer # f /\ f \notin expected /\ ~In(events, f))
    BY DEF IInv, OfferInOnePlace
  <2>2. Asks(cmds, f) <=> About(f) # {}
    BY DEF Asks, About
  <2>3. ~In(events, f) => ~Contains(events, f)
    BY ContainsIn DEF IInv, TypeOK
  <2>4. Cardinality(About(f)) <= 1
    <3>1. CASE About(f) = {}
      BY <3>1, FS_EmptySet
    <3>2. ASSUME NEW i \in About(f) PROVE Cardinality(About(f)) <= 1
      <4>1. About(f) = {i}
        BY <2>1 DEF AsksOnce, About
      <4>2. QED
        BY <4>1, FS_Singleton
    <3>3. QED
      BY <3>1, <3>2
  <2>5. QED
    BY <2>1, <2>2, <2>3, <2>4
<1>2. QED
  BY <1>1, Invariant, PTL

\* Every answer is about an offer or a request that the frame on the screen has drawn,
\* because nothing is drained between the frame and the input (app.rs); and an answer by
\* a key is about the offer that shows with no help over it.
THEOREM AnswersTheFrame == Spec => AnsweredAsShown
<1>1. ASSUME IInv, Next, Len(cmds') > Len(cmds) PROVE AnswerWasShown
  <2>1. /\ TypeOK /\ AsDrawn /\ cmds \in Seq(Command) /\ Len(cmds) \in Nat
        /\ Request \cap Offer = {}
    BY <1>1, ScreenAssumption DEF IInv, TypeOK, ScreenAssumption
  <2>2. ASSUME NEW c \in Command, cmds' = Append(cmds, c) PROVE Last(cmds') = c
    BY <2>1, <2>2, AppendFacts DEF Last
  <2>3. CASE InputStep
    <3>1. phase = "input" /\ Effect
      BY <2>1, <2>3, ScreenAssumption, InputSteps
    <3>2. CASE AnswersOffer
      <4>1. \E c \in Command : c.what = file_offer /\ cmds' = Append(cmds, c)
        BY <2>1, <3>2, ScreenAssumption, Answered
      <4>2. Last(cmds').what = file_offer /\ shown.offer = file_offer /\ file_offer # NoOffer
        BY <2>1, <2>2, <3>1, <3>2, <4>1, ScreenAssumption DEF AsDrawn, AnswersOffer, ScreenAssumption
      <4>3. EscOffer \/ AnswerKey => ~shown.help
        BY <2>1, <3>1 DEF AsDrawn, EscOffer, AnswerKey
      <4>4. QED
        BY <4>2, <4>3 DEF AnswerWasShown, Drawn, OnTop
    <3>3. CASE AnswersRequest
      <4>1. PICK c \in Command : /\ c.what \in ToSet(shown.reqs) /\ c.what \in Request
                                 /\ cmds' = Append(cmds, c)
        BY <2>1, <3>3, ScreenAssumption, Answered
      <4>2. Last(cmds') = c /\ Contains(shown.reqs, c.what)
        BY <2>1, <2>2, <4>1 DEF Contains, ToSet, AsDrawn
      <4>3. ~EscOffer /\ ~AnswerKey
        BY <3>3 DEF EscOffer, AnswerKey, Answer, AnswersRequest
      <4>4. QED
        BY <4>2, <4>3 DEF AnswerWasShown, Drawn
    <3>4. QED
      BY <1>1, <3>1, <3>2, <3>3 DEF Effect, Quiet
  <2>4. CASE HandleCommand
    BY <1>1, <2>1, <2>4, TailFacts DEF HandleCommand
  <2>5. CASE cmds' = cmds
    BY <1>1, <2>1, <2>5
  <2>6. Draw \/ Drain \/ (\E e \in expected : Arrive(e)) => cmds' = cmds
    BY DEF Draw, Drain, Arrive
  <2>7. QED
    BY <1>1, <2>3, <2>4, <2>5, <2>6, Steps
<1>2. IInv /\ [Next]_vars => [AnswerWasShown]_vars
  BY <1>1 DEF AnswerWasShown
<1>3. QED
  BY <1>2, Invariant, PTL DEF Spec, AnsweredAsShown

\* The terminal and the read loop both put a request on the list; it is there once.
THEOREM ListedAtMostOnce == Spec => []ListedOnce
<1>1. IInv => ListedOnce
  BY DEF IInv
<1>2. QED
  BY <1>1, Invariant, PTL
=============================================================================
