------------------------------- MODULE Screen -------------------------------
(***************************************************************************)
(* What is on the screen and what a click on it does (render.rs, app.rs).  *)
(*                                                                         *)
(* A frame draws the bars, the channels and the feed, then the popups, and *)
(* pushes the clickable regions in the same order.  A click is looked up   *)
(* in the regions of the last frame, from the first one on.  Meanwhile the *)
(* read loops and the mesh loop change the list of join requests.          *)
(***************************************************************************)
EXTENDS Naturals, SequencesExt

CONSTANTS
    Size, TitleBar, ChannelBox, FeedBox,    \* rectangles that ratatui's Layout gives
    Channel,        \* the number of channels
    Request,        \* the join requests that may come
    Offer, NoOffer, \* the file offers that may come
    CommandCapacity,    \* of the command channel (256)
    MaxScroll           \* bound on scroll_offset

ASSUME ScreenAssumption ==
    /\ Channel \in Nat \ {0}
    /\ Request \cap Offer = {} /\ NoOffer \notin Request \cup Offer
    /\ CommandCapacity \in Nat /\ MaxScroll \in Nat

VARIABLES
    phase,          \* where App::run is: "draw", "input" or "drain"
    click_regions,
    shown,          \* what the popups of the last frame show
    pending_reqs,
    events,         \* requests and offers whose event is not drained
    file_offer, show_help, show_join_requests,
    active, scroll_offset,
    cmds,           \* commands that the mesh loop has not taken
    expected        \* the requests and offers still to come

popups == <<file_offer, show_help, show_join_requests>>
view == <<active, scroll_offset>>
frame == <<click_regions, shown>>
network == <<pending_reqs, events, expected>>
vars == <<phase, frame, network, popups, view, cmds>>

(***************************************************************************)
(* Regions                                                                 *)
(***************************************************************************)
SaturatingSub(a, b) == IF a > b THEN a - b ELSE 0

Rect(x, y, w, h) == [x |-> x, y |-> y, w |-> w, h |-> h]
Cell == [x : Size.x..Size.x + Size.w - 1, y : Size.y..Size.y + Size.h - 1]
Inside(cell, r) == cell.x \in r.x..r.x + r.w - 1 /\ cell.y \in r.y..r.y + r.h - 1

CenterRect(w, h) ==
    Rect(Size.x + SaturatingSub(Size.w, w) \div 2, Size.y + SaturatingSub(Size.h, h) \div 2,
         Min({w, Size.w}), Min({h, Size.h}))

Region(rect, do, what) == [rect |-> rect, action |-> [do |-> do, what |-> what]]

TitleRegions == <<Region(Rect(TitleBar.x + SaturatingSub(TitleBar.w, 8), TitleBar.y, 8, 1),
                         "OpenHelp", 0)>>

\* One row per channel, below the border.
ChannelRegions ==
    [i \in 1..Channel |->
        Region(Rect(ChannelBox.x, ChannelBox.y + i, ChannelBox.w, 1), "SelectChannel", i)]

FeedRegions ==
    LET edge(n) == FeedBox.x + SaturatingSub(FeedBox.w, n)
    IN  <<Region(Rect(edge(6), FeedBox.y, 3, 1), "ScrollUp", 0),
          Region(Rect(edge(3), FeedBox.y, 3, 1), "ScrollDown", 0)>>

\* Two buttons for each request, one after the other.
InPairs(yes, no) ==
    [k \in 1..2 * Len(yes) |-> IF k % 2 = 1 THEN yes[(k + 1) \div 2] ELSE no[k \div 2]]

RequestsPopup(reqs) == CenterRect(58, 6 + 2 * Len(reqs))
RequestRegions(reqs) ==
    LET popup == RequestsPopup(reqs)
        row(i) == popup.y + 1 + 2 * (i - 1)
        yes(i) == Region(Rect(popup.x + 2, row(i), 11, 1), "ApproveJoin", reqs[i])
        no(i) == Region(Rect(popup.x + 16, row(i), 9, 1), "DenyJoin", reqs[i])
    IN  InPairs([i \in 1..Len(reqs) |-> yes(i)], [i \in 1..Len(reqs) |-> no(i)])

\* The buttons where the text of the popup puts them: inside its border come an
\* empty line and then, for each request, a line with the name and one with both.
RequestButtons(reqs) ==
    LET popup == RequestsPopup(reqs)
        row(i) == popup.y + 3 + 2 * (i - 1)
        yes(i) == Region(Rect(popup.x + 3, row(i), 13, 1), "ApproveJoin", reqs[i])
        no(i) == Region(Rect(popup.x + 18, row(i), 10, 1), "DenyJoin", reqs[i])
    IN  InPairs([i \in 1..Len(reqs) |-> yes(i)], [i \in 1..Len(reqs) |-> no(i)])

OfferPopup == CenterRect(56, 9)
OfferRegions ==
    LET popup == OfferPopup
    IN  <<Region(Rect(popup.x + 2, popup.y + 6, 12, 1), "AcceptFile", 0),
          Region(Rect(popup.x + 18, popup.y + 6, 12, 1), "RejectFile", 0)>>

HelpPopup == CenterRect(64, 32)
HelpRegions == <<Region(HelpPopup, "ClosePopup", 0)>>

\* The first region that has the cell.
Hits(cell) == {i \in DOMAIN click_regions : Inside(cell, click_regions[i].rect)}
Hit(cell) == click_regions[Min(Hits(cell))].action

Command == [do : {"AcceptFile", "RejectFile"}, what : Offer] \cup
           [do : {"ApproveJoin", "DenyJoin"}, what : Request]

\* The list of requests with one more, and without one that it has once at most.
Added(s, e) == IF Contains(s, e) THEN s ELSE Append(s, e)
Without(s, e) ==
    IF Contains(s, e) THEN RemoveAt(s, CHOOSE i \in DOMAIN s : s[i] = e) ELSE s

Init ==
    /\ phase = "draw" /\ click_regions = <<>>
    /\ shown = [reqs |-> <<>>, offer |-> NoOffer, help |-> FALSE]
    /\ pending_reqs = <<>> /\ events = <<>> /\ expected = Request \cup Offer
    /\ file_offer = NoOffer /\ show_help = FALSE /\ show_join_requests = FALSE
    /\ active = 1 /\ scroll_offset = 0 /\ cmds = <<>>

(***************************************************************************)
(* The terminal thread                                                     *)
(***************************************************************************)
\* The order of the loop; the variant drains before it reads the input.
FollowingDrainFirst == [draw |-> "drain", drain |-> "input", input |-> "draw"]
Following == [draw |-> "input", input |-> "drain", drain |-> "draw"]

Draw ==
    /\ phase = "draw" /\ phase' = Following.draw
    /\ shown' = [reqs |-> IF show_join_requests THEN pending_reqs ELSE <<>>,
                  offer |-> file_offer, help |-> show_help]
    /\ click_regions' =
          TitleRegions \o ChannelRegions \o FeedRegions
          \o (IF pending_reqs # <<>> /\ show_join_requests
                THEN RequestRegions(pending_reqs) ELSE <<>>)
          \o (IF file_offer # NoOffer THEN OfferRegions ELSE <<>>)
          \o (IF show_help THEN HelpRegions ELSE <<>>)
    /\ UNCHANGED <<network, popups, view, cmds>>

\* Some keys are answered by continue: the next frame comes before the events.
Input(next) == phase = "input" /\ phase' = next /\ UNCHANGED <<frame, network>>

Scroll(by) == scroll_offset' = by /\ UNCHANGED <<active, popups, cmds>>
ScrollUp == scroll_offset < MaxScroll /\ Scroll(scroll_offset + 3)
ScrollDown == Scroll(SaturatingSub(scroll_offset, 3))

SendUnbounded(do, what) == cmds' = Append(cmds, [do |-> do, what |-> what])   \* variant
Send(do, what) ==
    Len(cmds) < CommandCapacity /\ cmds' = Append(cmds, [do |-> do, what |-> what])

AnswerCopied(do) ==                       \* variant: the offer is not taken out
    file_offer # NoOffer /\ Send(do, file_offer) /\ UNCHANGED <<popups, view>>
Answer(do) ==
    /\ file_offer # NoOffer /\ file_offer' = NoOffer
    /\ Send(do, file_offer)
    /\ UNCHANGED <<show_help, show_join_requests, view>>

\* What the action of a region does; an offer that is gone cannot be answered.
DispatchClick(a) ==
    CASE a.do = "SelectChannel" ->
             active' = a.what /\ scroll_offset' = 0 /\ UNCHANGED <<popups, cmds>>
      [] a.do = "ScrollUp" -> ScrollUp
      [] a.do = "ScrollDown" -> ScrollDown
      [] a.do = "ClosePopup" ->
             /\ show_help' = FALSE /\ show_join_requests' = FALSE
             /\ UNCHANGED <<file_offer, view, cmds>>
      [] a.do \in {"AcceptFile", "RejectFile"} -> Answer(a.do)
      [] a.do \in {"ApproveJoin", "DenyJoin"} -> Send(a.do, a.what) /\ UNCHANGED <<popups, view>>
      [] a.do = "OpenHelp" ->
             show_help' = TRUE /\ UNCHANGED <<file_offer, show_join_requests, view, cmds>>

Click(cell) ==
    /\ Input(Following.input)
    /\ Hits(cell) # {} /\ DispatchClick(Hit(cell))

Wheel == Input(Following.input) /\ (ScrollUp \/ ScrollDown)

F1 ==
    /\ Input("draw")
    /\ show_help' = ~show_help
    /\ UNCHANGED <<file_offer, show_join_requests, view, cmds>>

\* Esc: the help first, then the requests, then an offer is rejected.
EscHelp ==
    /\ show_help /\ Input("draw")
    /\ show_help' = FALSE
    /\ UNCHANGED <<file_offer, show_join_requests, view, cmds>>

EscRequests ==
    /\ ~show_help /\ show_join_requests /\ Input("draw")
    /\ show_join_requests' = FALSE
    /\ UNCHANGED <<file_offer, show_help, view, cmds>>

EscOffer == ~show_help /\ ~show_join_requests /\ Input("draw") /\ Answer("RejectFile")

\* The keys y and n, unless the help takes them.
AnswerKey ==
    /\ ~show_help /\ Input("draw")
    /\ \E do \in {"AcceptFile", "RejectFile"} : Answer(do)

\* Any other key is taken by the help or an offer.
Swallowed ==
    /\ show_help \/ file_offer # NoOffer
    /\ Input("draw") /\ UNCHANGED <<popups, view, cmds>>

\* /requests and /help, when neither takes the keys.
Line ==
    /\ ~show_help /\ file_offer = NoOffer /\ Input(Following.input)
    /\ \/ show_join_requests' = ~show_join_requests /\ UNCHANGED show_help
       \/ show_help' = TRUE /\ UNCHANGED show_join_requests
    /\ UNCHANGED <<file_offer, view, cmds>>

NoInput == Input(Following.input) /\ UNCHANGED <<popups, view, cmds>>

\* handle_net_event until nothing is left; a later offer replaces an earlier one.
Drain ==
    /\ phase = "drain"
    /\ IF events = <<>>
       THEN phase' = Following.drain /\ UNCHANGED <<events, pending_reqs, popups>>
       ELSE LET e == Head(events) IN
            /\ events' = Tail(events)
            /\ IF e \in Offer
               THEN file_offer' = e /\ UNCHANGED <<pending_reqs, show_join_requests>>
               ELSE /\ show_join_requests' = TRUE
                    /\ pending_reqs' = Added(pending_reqs, e)
                    /\ UNCHANGED file_offer
            /\ UNCHANGED <<phase, show_help>>
    /\ UNCHANGED <<frame, view, cmds, expected>>

(***************************************************************************)
(* The tasks of the mesh                                                   *)
(***************************************************************************)
Arrive(e) ==
    /\ e \in expected /\ expected' = expected \ {e}
    /\ pending_reqs' = IF e \in Request THEN Added(pending_reqs, e) ELSE pending_reqs
    /\ events' = Append(events, e)
    /\ UNCHANGED <<phase, frame, popups, view, cmds>>

HandleCommand ==
    /\ cmds # <<>> /\ cmds' = Tail(cmds)
    /\ LET c == Head(cmds) IN
       pending_reqs' = IF c.do \in {"ApproveJoin", "DenyJoin"}
                       THEN Without(pending_reqs, c.what) ELSE pending_reqs
    /\ UNCHANGED <<phase, frame, events, expected, popups, view>>

Next ==
    \/ Draw \/ Wheel \/ NoInput \/ Drain \/ HandleCommand
    \/ F1 \/ EscHelp \/ EscRequests \/ EscOffer \/ AnswerKey \/ Swallowed \/ Line
    \/ \E cell \in Cell : Click(cell)
    \/ \E e \in expected : Arrive(e)

Spec == Init /\ [][Next]_vars

(***************************************************************************)
(* Properties                                                              *)
(***************************************************************************)
\* Variables have their types and the command channel keeps its capacity.
TypeOK ==
    /\ phase \in {"draw", "input", "drain"}
    /\ pending_reqs \in Seq(Request) /\ events \in Seq(Request \cup Offer)
    /\ file_offer \in Offer \cup {NoOffer} /\ show_help \in BOOLEAN /\ show_join_requests \in BOOLEAN
    /\ active \in 1..Channel /\ scroll_offset \in 0..MaxScroll + 2
    /\ cmds \in Seq(Command) /\ Len(cmds) <= CommandCapacity

\* What a popup of the last frame shows, and what shows with nothing drawn over it: an
\* offer is drawn over the requests, and the help over both.
Drawn(what) == what = shown.offer \/ Contains(shown.reqs, what)
OnTop(what) ==
    ~shown.help /\ IF shown.offer # NoOffer THEN what = shown.offer ELSE Contains(shown.reqs, what)

\* Whatever the user answers is in a popup of the frame on the screen at that moment,
\* though offers and requests come and go all the time; and a key answers only what
\* nothing is drawn over.  A click may go through a popup that is drawn later, as its
\* region is found first.
AnswerWasShown ==
    Len(cmds') > Len(cmds) =>
        /\ Drawn(Last(cmds').what)
        /\ (EscOffer \/ AnswerKey) => OnTop(Last(cmds').what)
AnsweredAsShown == [][AnswerWasShown]_vars

\* An offer is answered once, whatever keys and clicks come after the first answer and
\* however late the command reaches the mesh.
About(offer) == {i \in DOMAIN cmds : cmds[i].what = offer}
OfferAnsweredOnce ==
    \A f \in Offer :
        /\ Cardinality(About(f)) <= 1
        /\ About(f) # {} => file_offer # f /\ f \notin expected /\ ~Contains(events, f)

\* The requests' popup is drawn and nothing is drawn over it.
RequestsOnTop == show_join_requests /\ file_offer = NoOffer /\ ~show_help

\* A click on the button drawn for a request never answers another request.
ClickAnswersShown ==
    phase = "input" /\ RequestsOnTop =>
        \A i \in DOMAIN RequestButtons(shown.reqs) :
            LET button == RequestButtons(shown.reqs)[i] IN
            \A x \in button.rect.x..button.rect.x + button.rect.w - 1 :
                LET cell == [x |-> x, y |-> button.rect.y] IN
                Hits(cell) # {} /\ Hit(cell).do \in {"ApproveJoin", "DenyJoin"} =>
                    Hit(cell) = button.action
=============================================================================
