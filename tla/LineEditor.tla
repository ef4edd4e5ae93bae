----------------------------- MODULE LineEditor -----------------------------
(***************************************************************************)
(* The input line of the terminal and its history (app.rs, input.rs).      *)
(*                                                                         *)
(* The buffer is a String, so it is modelled as its bytes, and the cursor  *)
(* and every cut are byte offsets.  A byte names its character and its     *)
(* place in the encoding of that character; place 1 is what Rust's         *)
(* is_char_boundary looks for.  Slicing, inserting or removing at any      *)
(* other offset panics.                                                    *)
(***************************************************************************)
EXTENDS Naturals, Sequences, FiniteSetsExt

CONSTANTS
    Char,           \* the characters that can be typed
    Width,          \* Width[c]: the length of c in UTF-8
    Space,          \* the character words are separated by
    HISTORY_LIMIT,  \* lines the history keeps
    MaxLen,         \* bound on the bytes of the buffer
    MaxKept         \* bound on the bytes of a line that is sent, or left for the history

ASSUME EditorAssumption ==
    /\ Space \in Char
    /\ Width \in [Char -> Nat \ {0}]
    /\ Width[Space] = 1
    /\ HISTORY_LIMIT \in Nat \ {0}
    /\ MaxLen \in Nat /\ MaxKept \in Nat

VARIABLES
    input_buf, cursor_pos, yank_buf,
    history,
    history_idx,    \* 0 for None, otherwise one more than the index in the code
    input_draft

edited == <<input_buf, cursor_pos>>
browsing == <<history, history_idx, input_draft>>
vars == <<edited, yank_buf, browsing>>

Byte == [char : Char, at : Nat \ {0}]
Encoded(c) == [i \in 1..Width[c] |-> [char |-> c, at |-> i]]

\* The bytes from offset a up to and not including offset b.
Slice(s, a, b) == SubSeq(s, a + 1, b)

IsCharBoundary(s, p) == p = Len(s) \/ (p < Len(s) /\ s[p + 1].at = 1)

IsSpace(s, i) == s[i].char = Space

(***************************************************************************)
(* Offsets                                                                 *)
(***************************************************************************)
PrevByte(s, pos) == pos - 1                       \* variant: one byte back
PrevCharBoundary(s, pos) ==
    Max({p \in 0..pos - 1 : p = 0 \/ IsCharBoundary(s, p)})

NextCharBoundary(s, pos) == pos + Width[s[pos + 1].char]

\* Back over spaces, then back over a word.
WordStartBefore(s, pos) ==
    LET end == Min({i \in 0..pos : \A k \in i + 1..pos : IsSpace(s, k)})
    IN  Min({i \in 0..end : \A k \in i + 1..end : ~IsSpace(s, k)})

\* On over spaces, then on over a word.
WordEndAfter(s, pos) ==
    LET start == Max({i \in pos..Len(s) : \A k \in pos + 1..i : IsSpace(s, k)})
    IN  Max({i \in start..Len(s) : \A k \in start + 1..i : ~IsSpace(s, k)})

Blank(s) == \A i \in DOMAIN s : IsSpace(s, i)
Trim(s) ==
    LET solid == {i \in DOMAIN s : ~IsSpace(s, i)}
    IN  SubSeq(s, Min(solid), Max(solid))

Init ==
    /\ input_buf = <<>> /\ cursor_pos = 0 /\ yank_buf = <<>>
    /\ history = <<>> /\ history_idx = 0 /\ input_draft = <<>>

(***************************************************************************)
(* Moving the cursor                                                       *)
(***************************************************************************)
MoveTo(pos) ==
    /\ cursor_pos' = pos
    /\ UNCHANGED <<input_buf, yank_buf, browsing>>

MoveCharLeft == cursor_pos > 0 /\ MoveTo(PrevCharBoundary(input_buf, cursor_pos))
MoveCharRight ==
    cursor_pos < Len(input_buf) /\ MoveTo(NextCharBoundary(input_buf, cursor_pos))
MoveWordLeft == MoveTo(WordStartBefore(input_buf, cursor_pos))
MoveWordRight == MoveTo(WordEndAfter(input_buf, cursor_pos))
HomeKey == MoveTo(0)
EndKey == MoveTo(Len(input_buf))

(***************************************************************************)
(* Editing                                                                 *)
(***************************************************************************)
\* insert_char and insert_str.
InsertStr(s) ==
    /\ Len(input_buf) + Len(s) <= MaxLen
    /\ input_buf' = Slice(input_buf, 0, cursor_pos) \o s
                      \o Slice(input_buf, cursor_pos, Len(input_buf))
    /\ cursor_pos' = cursor_pos + Len(s)
    /\ UNCHANGED <<yank_buf, browsing>>

TypeChar(c) == InsertStr(Encoded(c))
Paste == InsertStr(yank_buf)

\* The bytes between two offsets go, and the cursor ends where they were.
Drain(a, b) ==
    /\ input_buf' = Slice(input_buf, 0, a) \o Slice(input_buf, b, Len(input_buf))
    /\ cursor_pos' = a
    /\ UNCHANGED browsing

DeleteCharBefore ==
    /\ cursor_pos > 0
    /\ LET prev == PrevCharBoundary(input_buf, cursor_pos)
       IN  Drain(prev, NextCharBoundary(input_buf, prev))
    /\ UNCHANGED yank_buf

DeleteCharAfter ==
    /\ cursor_pos < Len(input_buf)
    /\ Drain(cursor_pos, NextCharBoundary(input_buf, cursor_pos))
    /\ UNCHANGED yank_buf

Cut(a, b) == yank_buf' = Slice(input_buf, a, b) /\ Drain(a, b)

DeleteWordBefore == cursor_pos > 0 /\ Cut(WordStartBefore(input_buf, cursor_pos), cursor_pos)
CutToStart == Cut(0, cursor_pos)
CutToEnd == Cut(cursor_pos, Len(input_buf))

(***************************************************************************)
(* History                                                                 *)
(***************************************************************************)
ShowAtCursor(s) == input_buf' = s /\ UNCHANGED cursor_pos  \* variant: the cursor stays
Show(s) == input_buf' = s /\ cursor_pos' = Len(s)

DraftAlways == input_buf                          \* variant: every step saves the buffer
DraftOnce == IF history_idx = 0 THEN input_buf ELSE input_draft

\* Up, with something typed.
HistoryPrev ==
    /\ input_buf # <<>> /\ history # <<>>
    /\ history_idx = 0 => Len(input_buf) <= MaxKept
    /\ history_idx' = CASE history_idx = 0 -> Len(history)
                        [] history_idx = 1 -> 1
                        [] OTHER -> history_idx - 1
    /\ input_draft' = DraftOnce
    /\ Show(history[history_idx'])
    /\ UNCHANGED <<yank_buf, history>>

\* Esc, and Down on the latest line.
LeaveHistory ==
    /\ history_idx' = 0
    /\ Show(input_draft)
    /\ UNCHANGED <<yank_buf, history, input_draft>>

\* Down, with something in the buffer.
HistoryNext ==
    /\ input_buf # <<>> /\ history_idx # 0
    /\ IF history_idx >= Len(history)
       THEN LeaveHistory
       ELSE /\ history_idx' = history_idx + 1
            /\ Show(history[history_idx'])
            /\ UNCHANGED <<yank_buf, history, input_draft>>

Esc == history_idx # 0 /\ LeaveHistory

PushAlways(raw) == Append(history, raw)           \* variant: nothing is dropped
HistoryPush(raw) ==
    LET longer == Append(history, raw)
    IN  IF history # <<>> /\ history[Len(history)] = raw THEN history
        ELSE IF Len(longer) > HISTORY_LIMIT THEN Tail(longer)
        ELSE longer

\* A line of spaces is left as it is; any other is sent.
Enter ==
    /\ ~Blank(input_buf)
    /\ Len(Trim(input_buf)) <= MaxKept
    /\ history' = HistoryPush(Trim(input_buf))
    /\ history_idx' = 0
    /\ Show(<<>>)
    /\ UNCHANGED <<yank_buf, input_draft>>

Moving == MoveCharLeft \/ MoveCharRight \/ MoveWordLeft \/ MoveWordRight \/ HomeKey \/ EndKey

Editing ==
    \/ \E c \in Char : TypeChar(c)
    \/ Paste \/ DeleteCharBefore \/ DeleteCharAfter
    \/ DeleteWordBefore \/ CutToStart \/ CutToEnd

Recalling == HistoryPrev \/ HistoryNext \/ Esc \/ Enter

Next == Moving \/ Editing \/ Recalling

Spec == Init /\ [][Next]_vars

(***************************************************************************)
(* Properties                                                              *)
(***************************************************************************)
\* A text of whole characters: what a Rust String always is.
Whole(s) ==
    \A i \in DOMAIN s :
        /\ s[i].at = 1 \/ (i > 1 /\ s[i - 1] = [s[i] EXCEPT !.at = @ - 1])
        /\ s[i].at = Width[s[i].char] \/ (i < Len(s) /\ s[i + 1] = [s[i] EXCEPT !.at = @ + 1])

\* Every variable has its type; the cursor is inside the buffer and the index inside
\* the history, whichever text the buffer was replaced by.
TypeOK ==
    /\ input_buf \in Seq(Byte) /\ yank_buf \in Seq(Byte) /\ input_draft \in Seq(Byte)
    /\ history \in Seq(Seq(Byte))
    /\ cursor_pos \in 0..Len(input_buf) /\ history_idx \in 0..Len(history)

\* Every offset at which the next key may slice, insert or remove is on a
\* character boundary, after any sequence of edits, cuts and recalls.
CursorOnBoundary ==
    /\ Whole(input_buf) /\ Whole(yank_buf) /\ Whole(input_draft)
    /\ \A i \in DOMAIN history : Whole(history[i])
    /\ IsCharBoundary(input_buf, cursor_pos)

\* The history holds at most HISTORY_LIMIT lines, none blank and no two in a row
\* the same.
HistoryTidy ==
    /\ Len(history) <= HISTORY_LIMIT
    /\ \A i \in DOMAIN history : ~Blank(history[i])
    /\ \A i \in 1..Len(history) - 1 : history[i] # history[i + 1]

\* The characters of a text.
Chars(s) ==
    LET heads == SelectSeq(s, LAMBDA b : b.at = 1)
    IN  [i \in DOMAIN heads |-> heads[i].char]

User == INSTANCE Line WITH
    left <- Chars(Slice(input_buf, 0, cursor_pos)),
    right <- Chars(Slice(input_buf, cursor_pos, Len(input_buf))),
    clip <- Chars(yank_buf),
    past <- [i \in DOMAIN history |-> Chars(history[i])],
    at <- history_idx,
    draft <- Chars(input_draft)

\* On bytes, the editor does what Line says of characters: typing, deleting,
\* cutting and pasting touch whole characters beside the cursor, nothing that was
\* cut is lost, and leaving the history brings the draft back.
ImplementsLine == User!Spec
=============================================================================
