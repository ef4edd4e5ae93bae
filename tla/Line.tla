-------------------------------- MODULE Line --------------------------------
(***************************************************************************)
(* What a user sees of the input line: the characters on both sides of a   *)
(* cursor, what was cut last, the lines sent before, and the line being    *)
(* typed, which comes back when the user leaves the earlier ones.          *)
(* LineEditor, which works on bytes, implements this specification.        *)
(***************************************************************************)
EXTENDS Naturals, Sequences

CONSTANT Space     \* the character that a line is trimmed of

VARIABLES
    left, right,   \* the characters before and after the cursor
    clip,          \* the text cut last
    past,          \* the lines sent, oldest first
    at,            \* the index of the earlier line shown, 0 when none is
    draft          \* the line left for the earlier ones

recall == <<past, at, draft>>
line == <<left, right, clip, recall>>

Shown == left \o right
Show(s) == left' = s /\ right' = <<>>

Init ==
    /\ left = <<>> /\ right = <<>> /\ clip = <<>>
    /\ past = <<>> /\ at = 0 /\ draft = <<>>

\* The cursor moves and no character changes.
Move ==
    /\ Shown' = Shown
    /\ UNCHANGED <<clip, recall>>

\* Characters appear on the left of the cursor: one typed, or all that was cut.
Insert(s) ==
    /\ left' = left \o s
    /\ UNCHANGED <<right, clip, recall>>

\* One character beside the cursor goes.
Delete ==
    /\ \/ left # <<>> /\ left' = SubSeq(left, 1, Len(left) - 1) /\ right' = right
       \/ right # <<>> /\ right' = Tail(right) /\ left' = left
    /\ UNCHANGED <<clip, recall>>

\* Text that goes from one side of the cursor is what Insert can bring back.
Cut ==
    /\ \/ left = left' \o clip' /\ right' = right
       \/ right = clip' /\ right' = <<>> /\ left' = left
    /\ UNCHANGED recall

\* An earlier line is shown; the first one takes the place of the draft.
Recall ==
    /\ at' \in DOMAIN past
    /\ Show(past[at'])
    /\ draft' = IF at = 0 THEN Shown ELSE draft
    /\ UNCHANGED <<clip, past>>

\* The line left for the earlier ones comes back.
Return ==
    /\ at # 0 /\ at' = 0
    /\ Show(draft)
    /\ UNCHANGED <<clip, past, draft>>

\* The line without the spaces around it is sent, and remembered unless it was the
\* last one; the oldest may be forgotten.
Send ==
    /\ \E i, j \in DOMAIN Shown :
          LET s == SubSeq(Shown, i, j) IN
          /\ i <= j /\ s[1] # Space /\ s[Len(s)] # Space
          /\ \A k \in DOMAIN Shown \ (i..j) : Shown[k] = Space
          /\ \/ past # <<>> /\ past[Len(past)] = s /\ past' = past
             \/ past' \in {Append(past, s), Tail(Append(past, s))}
    /\ Show(<<>>)
    /\ at' = 0
    /\ UNCHANGED <<clip, draft>>

Next ==
    \/ Move \/ Delete \/ Cut \/ Recall \/ Return \/ Send
    \/ left' # left /\ \E i \in 0..Len(left') : Insert(SubSeq(left', i + 1, Len(left')))

Spec == Init /\ [][Next]_line
=============================================================================
