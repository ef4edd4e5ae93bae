-------------------------- MODULE LineEditorProofs --------------------------
(***************************************************************************)
(* Proofs about LineEditor for any characters, whatever their length in    *)
(* UTF-8, any length of the history and any line.                          *)
(***************************************************************************)
EXTENDS LineEditor, ListLemmas

(***************************************************************************)
(* Texts of whole characters                                               *)
(***************************************************************************)
\* b is the byte after a in the encoding of one character.
Follows(a, b) == b.char = a.char /\ b.at = a.at + 1

\* The byte after another in one character, counted from either of them.
LEMMA ByteFacts ==
    ASSUME NEW a \in Byte, NEW b \in Byte
    PROVE  /\ a.char \in Char /\ a.at \in Nat \ {0}
           /\ (b = [a EXCEPT !.at = @ + 1]) <=> Follows(a, b)
           /\ (a = [b EXCEPT !.at = @ - 1]) <=> Follows(a, b)
BY DEF Byte, Follows

\* The width of a character is a positive number; of a space it is one.
LEMMA WidthFacts ==
    ASSUME NEW c \in Char
    PROVE  Width[c] \in Nat \ {0} /\ Width[Space] = 1
BY EditorAssumption DEF EditorAssumption

\* Whole, on the fields of the bytes.
LEMMA WholeIs ==
    ASSUME NEW s \in Seq(Byte)
    PROVE  Whole(s) <=>
             \A i \in 1 .. Len(s) :
                /\ s[i].at = 1 \/ (i > 1 /\ Follows(s[i - 1], s[i]))
                /\ s[i].at = Width[s[i].char] \/ (i < Len(s) /\ Follows(s[i], s[i + 1]))
<1>1. \A i \in 1 .. Len(s) : s[i] \in Byte
  OBVIOUS
<1>2. ASSUME NEW i \in 1 .. Len(s), i > 1
      PROVE  s[i - 1] = [s[i] EXCEPT !.at = @ - 1] <=> Follows(s[i - 1], s[i])
  <2>1. s[i - 1] \in Byte /\ s[i] \in Byte
    BY <1>1, <1>2
  <2>2. QED
    BY <2>1, ByteFacts
<1>3. ASSUME NEW i \in 1 .. Len(s), i < Len(s)
      PROVE  s[i + 1] = [s[i] EXCEPT !.at = @ + 1] <=> Follows(s[i], s[i + 1])
  <2>1. s[i + 1] \in Byte /\ s[i] \in Byte
    BY <1>1, <1>3
  <2>2. QED
    BY <2>1, ByteFacts
<1>4. DOMAIN s = 1 .. Len(s)
  OBVIOUS
<1>5. QED
  BY <1>2, <1>3, <1>4 DEF Whole

\* No byte is past the end of its character: the last one that were would be
\* followed by another.
LEMMA WithinWidth ==
    ASSUME NEW s \in Seq(Byte), Whole(s), NEW i \in 1 .. Len(s)
    PROVE  s[i].at <= Width[s[i].char]
<1> DEFINE T == {j \in 1 .. Len(s) : s[j].at > Width[s[j].char]}
<1>1. \A j \in 1 .. Len(s) : /\ s[j].at \in Nat \ {0} /\ s[j].char \in Char
                             /\ Width[s[j].char] \in Nat \ {0}
  BY ByteFacts, WidthFacts
<1>2. SUFFICES T = {}
  BY <1>1
<1>3. SUFFICES ASSUME T # {} PROVE FALSE
  OBVIOUS
<1>4. T \subseteq Nat /\ Len(s) \in Nat /\ \A j \in T : j <= Len(s)
  OBVIOUS
<1>5. Max(T) \in T /\ \A j \in T : j <= Max(T)
  BY <1>3, <1>4, MaxIs
<1>6. PICK m \in T : \A j \in T : j <= m
  BY <1>5
<1>7. m \in 1 .. Len(s) /\ s[m].at > Width[s[m].char]
  OBVIOUS
<1>8. s[m].at # Width[s[m].char]
  BY <1>1, <1>7
<1>9. m < Len(s) /\ Follows(s[m], s[m + 1])
  BY <1>7, <1>8, WholeIs
<1>10. m + 1 \in 1 .. Len(s) /\ ~(m + 1 <= m)
  BY <1>7, <1>9
<1>11. s[m + 1].at > Width[s[m + 1].char]
  BY <1>1, <1>7, <1>9, <1>10 DEF Follows
<1>12. QED
  BY <1>6, <1>10, <1>11

\* A text starts, and it has a boundary, where it starts.
LEMMA StartIsBoundary ==
    ASSUME NEW s \in Seq(Byte), Whole(s)
    PROVE  IsCharBoundary(s, 0)
<1>1. CASE Len(s) = 0
  BY <1>1 DEF IsCharBoundary
<1>2. CASE Len(s) # 0
  <2>1. 1 \in 1 .. Len(s) /\ 0 < Len(s)
    BY <1>2
  <2>2. s[1].at = 1
    BY <2>1, WholeIs
  <2>3. QED
    BY <2>1, <2>2 DEF IsCharBoundary
<1>3. QED
  BY <1>1, <1>2

\* The byte on the left of a boundary is the last of its character.
LEMMA LeftOfBoundary ==
    ASSUME NEW s \in Seq(Byte), Whole(s), NEW p \in 1 .. Len(s), IsCharBoundary(s, p)
    PROVE  s[p].at = Width[s[p].char]
<1>1. CASE p = Len(s)
  BY <1>1, WholeIs
<1>2. CASE p # Len(s)
  <2>1. p < Len(s) /\ s[p + 1].at = 1 /\ s[p] \in Byte
    BY <1>2 DEF IsCharBoundary
  <2>2. s[p].at \in Nat \ {0}
    BY <2>1, ByteFacts
  <2>3. ~Follows(s[p], s[p + 1])
    BY <2>1, <2>2 DEF Follows
  <2>4. QED
    BY <2>3, WholeIs
<1>3. QED
  BY <1>1, <1>2

\* On the right of the last byte of a character is a boundary.
LEMMA AfterLast ==
    ASSUME NEW s \in Seq(Byte), Whole(s), NEW p \in 1 .. Len(s), s[p].at = Width[s[p].char]
    PROVE  IsCharBoundary(s, p)
<1>1. CASE p = Len(s)
  BY <1>1 DEF IsCharBoundary
<1>2. CASE p # Len(s)
  <2>1. p < Len(s) /\ p + 1 \in 1 .. Len(s) /\ s[p] \in Byte /\ s[p + 1] \in Byte
        /\ (p + 1) - 1 = p
    BY <1>2
  <2>2. s[p + 1].at = 1 \/ Follows(s[p], s[p + 1])
    <3>1. s[p + 1].at = 1 \/ (p + 1 > 1 /\ Follows(s[(p + 1) - 1], s[p + 1]))
      BY <2>1, WholeIs
    <3>2. QED
      BY <2>1, <3>1
  <2>3. s[p + 1].at <= Width[s[p + 1].char]
    BY <2>1, WithinWidth
  <2>4. s[p].char \in Char /\ s[p].at \in Nat
    BY <2>1, ByteFacts
  <2>5. ~Follows(s[p], s[p + 1])
    BY <2>3, <2>4 DEF Follows
  <2>6. QED
    BY <2>1, <2>2, <2>5 DEF IsCharBoundary
<1>3. QED
  BY <1>1, <1>2

\* Both sides of a space are boundaries.
LEMMA BesideSpace ==
    ASSUME NEW s \in Seq(Byte), Whole(s), NEW p \in 1 .. Len(s), IsSpace(s, p)
    PROVE  IsCharBoundary(s, p) /\ IsCharBoundary(s, p - 1)
<1>1. s[p] \in Byte /\ s[p].char = Space
  BY DEF IsSpace
<1>2. s[p].at \in Nat \ {0} /\ Width[s[p].char] = 1
  BY <1>1, ByteFacts, WidthFacts
<1>3. s[p].at = 1
  BY <1>2, WithinWidth
<1>4. IsCharBoundary(s, p)
  BY <1>2, <1>3, AfterLast
<1>5. p - 1 < Len(s) /\ (p - 1) + 1 = p
  OBVIOUS
<1>6. QED
  BY <1>3, <1>4, <1>5 DEF IsCharBoundary

\* What is cut out at two boundaries is a text again.
LEMMA SliceFacts ==
    ASSUME NEW s \in Seq(Byte), NEW a \in 0 .. Len(s), NEW b \in a .. Len(s)
    PROVE  /\ Slice(s, a, b) \in Seq(Byte) /\ Len(Slice(s, a, b)) = b - a
           /\ \A i \in 1 .. b - a : Slice(s, a, b)[i] = s[a + i]
BY SubSeqFacts DEF Slice

\* A slice between two boundaries of a whole text is a whole text.
LEMMA SliceWhole ==
    ASSUME NEW s \in Seq(Byte), Whole(s), NEW a \in 0 .. Len(s), NEW b \in a .. Len(s),
           IsCharBoundary(s, a), IsCharBoundary(s, b)
    PROVE  Whole(Slice(s, a, b))
<1> DEFINE t == Slice(s, a, b)
<1>1. t \in Seq(Byte) /\ Len(t) = b - a /\ \A i \in 1 .. b - a : t[i] = s[a + i]
  BY SliceFacts
<1>2. Len(s) \in Nat /\ a \in Nat /\ b \in Nat /\ a <= b /\ b <= Len(s)
  OBVIOUS
<1> HIDE DEF t
<1>3. ASSUME NEW i \in 1 .. Len(t)
      PROVE  t[i].at = 1 \/ (i > 1 /\ Follows(t[i - 1], t[i]))
  <2>1. a + i \in 1 .. Len(s) /\ t[i] = s[a + i]
    BY <1>1, <1>2
  <2>2. CASE i = 1
    <3>1. a < Len(s) /\ a # Len(s)
      BY <1>2, <2>1
    <3>2. s[a + 1].at = 1
      BY <3>1 DEF IsCharBoundary
    <3>3. QED
      BY <2>1, <2>2, <3>2
  <2>3. CASE i # 1
    <3>1. i - 1 \in 1 .. b - a /\ a + (i - 1) = (a + i) - 1 /\ i > 1
      BY <1>1, <1>2, <2>3
    <3>2. t[i - 1] = s[(a + i) - 1]
      BY <1>1, <3>1
    <3>3. s[a + i].at = 1 \/ Follows(s[(a + i) - 1], s[a + i])
      BY <2>1, WholeIs
    <3>4. QED
      BY <2>1, <3>1, <3>2, <3>3
  <2>4. QED
    BY <2>2, <2>3
<1>4. ASSUME NEW i \in 1 .. Len(t)
      PROVE  t[i].at = Width[t[i].char] \/ (i < Len(t) /\ Follows(t[i], t[i + 1]))
  <2>1. a + i \in 1 .. Len(s) /\ t[i] = s[a + i]
    BY <1>1, <1>2
  <2>2. CASE i = Len(t)
    <3>1. a + i = b /\ b \in 1 .. Len(s)
      BY <1>1, <1>2, <2>1, <2>2
    <3>2. QED
      BY <2>1, <3>1, LeftOfBoundary
  <2>3. CASE i # Len(t)
    <3>1. i + 1 \in 1 .. b - a /\ a + (i + 1) = (a + i) + 1 /\ i < Len(t)
      BY <1>1, <1>2, <2>3
    <3>2. t[i + 1] = s[(a + i) + 1]
      BY <1>1, <3>1
    <3>3. s[a + i].at = Width[s[a + i].char] \/ Follows(s[a + i], s[(a + i) + 1])
      BY <2>1, WholeIs
    <3>4. QED
      BY <2>1, <3>1, <3>2, <3>3
  <2>4. QED
    BY <2>2, <2>3
<1>5. QED
  BY <1>1, <1>3, <1>4, WholeIs DEF t

\* Two texts one after the other are a text, with a boundary between them.
LEMMA ConcatWhole ==
    ASSUME NEW s \in Seq(Byte), NEW t \in Seq(Byte), Whole(s), Whole(t)
    PROVE  Whole(s \o t) /\ IsCharBoundary(s \o t, Len(s))
<1> DEFINE u == s \o t
<1>1. /\ u \in Seq(Byte) /\ Len(s) \in Nat /\ Len(t) \in Nat /\ Len(u) = Len(s) + Len(t)
      /\ \A i \in 1 .. Len(s) : u[i] = s[i]
      /\ \A i \in 1 .. Len(t) : u[Len(s) + i] = t[i]
  BY ConcatFacts
<1> HIDE DEF u
<1>2. ASSUME NEW i \in 1 .. Len(s)
      PROVE  /\ u[i].at = 1 \/ (i > 1 /\ Follows(u[i - 1], u[i]))
             /\ u[i].at = Width[u[i].char] \/ (i < Len(u) /\ Follows(u[i], u[i + 1]))
  <2>1. /\ s[i].at = 1 \/ (i > 1 /\ Follows(s[i - 1], s[i]))
        /\ s[i].at = Width[s[i].char] \/ (i < Len(s) /\ Follows(s[i], s[i + 1]))
    BY WholeIs
  <2>2. u[i] = s[i] /\ (i > 1 => u[i - 1] = s[i - 1])
    BY <1>1
  <2>3. i < Len(s) => u[i + 1] = s[i + 1] /\ i < Len(u)
    BY <1>1
  <2>4. QED
    BY <2>1, <2>2, <2>3
<1>3. ASSUME NEW j \in 1 .. Len(t)
      PROVE  LET i == Len(s) + j IN
             /\ u[i].at = 1 \/ (i > 1 /\ Follows(u[i - 1], u[i]))
             /\ u[i].at = Width[u[i].char] \/ (i < Len(u) /\ Follows(u[i], u[i + 1]))
  <2>1. /\ t[j].at = 1 \/ (j > 1 /\ Follows(t[j - 1], t[j]))
        /\ t[j].at = Width[t[j].char] \/ (j < Len(t) /\ Follows(t[j], t[j + 1]))
    BY WholeIs
  <2>2. u[Len(s) + j] = t[j]
    BY <1>1
  <2>3. j > 1 => Len(s) + j > 1 /\ u[(Len(s) + j) - 1] = t[j - 1]
    <3>1. j > 1 => /\ j - 1 \in 1 .. Len(t) /\ Len(s) + (j - 1) = (Len(s) + j) - 1
                   /\ Len(s) + j > 1
      BY <1>1
    <3>2. j > 1 => u[Len(s) + (j - 1)] = t[j - 1]
      BY <1>1, <3>1
    <3>3. QED
      BY <3>1, <3>2
  <2>4. j < Len(t) => Len(s) + j < Len(u) /\ u[(Len(s) + j) + 1] = t[j + 1]
    <3>1. j < Len(t) => j + 1 \in 1 .. Len(t) /\ Len(s) + (j + 1) = (Len(s) + j) + 1
      BY <1>1
    <3>2. QED
      BY <1>1, <3>1
  <2>5. QED
    BY <2>1, <2>2, <2>3, <2>4
<1>4. ASSUME NEW i \in 1 .. Len(u)
      PROVE  /\ u[i].at = 1 \/ (i > 1 /\ Follows(u[i - 1], u[i]))
             /\ u[i].at = Width[u[i].char] \/ (i < Len(u) /\ Follows(u[i], u[i + 1]))
  <2>1. CASE i <= Len(s)
    BY <1>1, <1>2, <2>1
  <2>2. CASE ~(i <= Len(s))
    <3>1. i - Len(s) \in 1 .. Len(t) /\ Len(s) + (i - Len(s)) = i
      BY <1>1, <2>2
    <3>2. PICK j \in 1 .. Len(t) : Len(s) + j = i
      BY <3>1
    <3>3. QED
      BY <1>3, <3>2
  <2>3. QED
    BY <2>1, <2>2
<1>5. Whole(u)
  BY <1>1, <1>4, WholeIs
<1>6. IsCharBoundary(u, Len(s))
  <2>1. CASE Len(t) = 0
    BY <1>1, <2>1 DEF IsCharBoundary
  <2>2. CASE Len(t) # 0
    <3>1. 1 \in 1 .. Len(t) /\ Len(s) < Len(u)
      BY <1>1, <2>2
    <3>2. t[1].at = 1 /\ u[Len(s) + 1] = t[1]
      BY <1>1, <3>1, WholeIs
    <3>3. QED
      BY <3>1, <3>2 DEF IsCharBoundary
  <2>3. QED
    BY <2>1, <2>2
<1>7. QED
  BY <1>5, <1>6 DEF u

\* The encoding of one character is a text.
LEMMA EncodedWhole ==
    ASSUME NEW c \in Char
    PROVE  Encoded(c) \in Seq(Byte) /\ Whole(Encoded(c)) /\ Len(Encoded(c)) = Width[c]
<1> DEFINE b(i) == [char |-> c, at |-> i]
           n == Width[c]
<1>1. n \in Nat \ {0}
  BY WidthFacts
<1> HIDE DEF n
<1>2. \A i \in 1 .. n : b(i) \in Byte /\ b(i).char = c /\ b(i).at = i
  BY <1>1 DEF Byte
<1>3. \A i \in 1 .. n : i + 1 \in 1 .. n => Follows(b(i), b(i + 1))
  BY <1>2 DEF Follows
<1>4. Encoded(c) = [i \in 1 .. n |-> b(i)]
  BY DEF Encoded, n
<1> HIDE DEF b
<1>5. Encoded(c) \in Seq(Byte) /\ Len(Encoded(c)) = n
  BY <1>1, <1>2, <1>4
<1>6. ASSUME NEW i \in 1 .. n
      PROVE  /\ b(i).at = 1 \/ (i > 1 /\ Follows(b(i - 1), b(i)))
             /\ b(i).at = Width[b(i).char] \/ (i < n /\ Follows(b(i), b(i + 1)))
  <2>1. i > 1 => i - 1 \in 1 .. n /\ (i - 1) + 1 = i
    BY <1>1
  <2>2. i > 1 => Follows(b(i - 1), b(i))
    BY <1>3, <2>1
  <2>3. i < n => Follows(b(i), b(i + 1))
    BY <1>1, <1>3
  <2>4. b(i).at = i /\ Width[b(i).char] = n
    BY <1>2 DEF n
  <2>5. QED
    BY <1>1, <2>2, <2>3, <2>4
<1>7. Whole(Encoded(c))
  <2> DEFINE e == Encoded(c)
  <2>1. \A i \in 1 .. n : e[i] = b(i) /\ (i > 1 => e[i - 1] = b(i - 1)) /\ (i < n => e[i + 1] = b(i + 1))
    BY <1>1, <1>4
  <2> HIDE DEF e
  <2>2. e \in Seq(Byte) /\ Len(e) = n
    BY <1>5 DEF e
  <2>3. Whole(e)
    BY <1>6, <2>1, <2>2, WholeIs
  <2>4. QED
    BY <2>3 DEF e
<1>8. QED
  BY <1>5, <1>7 DEF n

(***************************************************************************)
(* Offsets                                                                 *)
(***************************************************************************)
\* From a boundary the bytes of one character follow, first to last.
LEMMA CharacterAt ==
    ASSUME NEW s \in Seq(Byte), Whole(s), NEW p \in 0 .. Len(s) - 1, IsCharBoundary(s, p),
           NEW c, c = s[p + 1].char
    PROVE  \A k \in 1 .. Width[c] : /\ p + k \in 1 .. Len(s)
                                    /\ s[p + k].char = c /\ s[p + k].at = k
<1> DEFINE Right(k) == p + k \in 1 .. Len(s) /\ s[p + k].char = c /\ s[p + k].at = k
           T == {k \in 1 .. Width[c] : ~Right(k)}
<1>1. /\ Len(s) \in Nat /\ p \in Nat /\ p < Len(s) /\ p + 1 \in 1 .. Len(s)
      /\ s[p + 1] \in Byte
  OBVIOUS
<1>2. c \in Char /\ Width[c] \in Nat \ {0}
  BY <1>1, ByteFacts, WidthFacts
<1>3. Right(1)
  BY <1>1 DEF IsCharBoundary
<1>4. ASSUME NEW k \in 1 .. Width[c] - 1, Right(k) PROVE Right(k + 1)
  <2>1. k \in Nat /\ k < Width[c] /\ (p + k) + 1 = p + (k + 1)
    BY <1>1, <1>2
  <2>2. p + k < Len(s) /\ Follows(s[p + k], s[(p + k) + 1])
    BY <1>4, <2>1, WholeIs
  <2>3. p + (k + 1) \in 1 .. Len(s)
    BY <1>1, <2>1, <2>2
  <2>4. QED
    BY <1>4, <2>1, <2>2, <2>3 DEF Follows
<1> HIDE DEF Right
<1>5. T = {}
  <2>1. SUFFICES ASSUME T # {} PROVE FALSE
    OBVIOUS
  <2>2. T \subseteq Nat
    BY <1>2
  <2>3. PICK m \in T : \A k \in T : m <= k
    BY <2>1, <2>2, Least
  <2>4. m \in 1 .. Width[c] /\ ~Right(m) /\ m # 1
    BY <1>3
  <2>5. m - 1 \in 1 .. Width[c] - 1 /\ (m - 1) + 1 = m /\ ~(m <= m - 1)
        /\ m - 1 \in 1 .. Width[c]
    BY <1>2, <2>4
  <2>6. Right(m - 1)
    BY <2>3, <2>5
  <2>7. Right((m - 1) + 1)
    BY <1>4, <2>5, <2>6
  <2>8. QED
    BY <2>4, <2>5, <2>7
<1>6. QED
  BY <1>5 DEF Right

\* One character on from a boundary is a boundary.
LEMMA NextIsBoundary ==
    ASSUME NEW s \in Seq(Byte), Whole(s), NEW p \in 0 .. Len(s) - 1, IsCharBoundary(s, p)
    PROVE  /\ NextCharBoundary(s, p) \in p + 1 .. Len(s)
           /\ IsCharBoundary(s, NextCharBoundary(s, p))
<1> DEFINE c == s[p + 1].char
           q == p + Width[c]
<1>1. Len(s) \in Nat /\ p \in Nat /\ p < Len(s) /\ s[p + 1] \in Byte
  OBVIOUS
<1>2. c \in Char /\ Width[c] \in Nat \ {0}
  BY <1>1, ByteFacts, WidthFacts
<1>3. Width[c] \in 1 .. Width[c]
  BY <1>2
<1>4. q \in 1 .. Len(s) /\ s[q].char = c /\ s[q].at = Width[c]
  BY <1>3, CharacterAt
<1>5. IsCharBoundary(s, q)
  BY <1>4, AfterLast
<1>6. q \in p + 1 .. Len(s)
  BY <1>1, <1>2, <1>4
<1>7. QED
  BY <1>5, <1>6 DEF NextCharBoundary

\* So is one back.
LEMMA PrevIsBoundary ==
    ASSUME NEW s \in Seq(Byte), Whole(s), NEW p \in 1 .. Len(s)
    PROVE  /\ PrevCharBoundary(s, p) \in 0 .. p - 1
           /\ IsCharBoundary(s, PrevCharBoundary(s, p))
<1> DEFINE T == {q \in 0 .. p - 1 : q = 0 \/ IsCharBoundary(s, q)}
<1>1. T \subseteq Nat /\ T # {} /\ p - 1 \in Nat /\ \A q \in T : q <= p - 1
  <2>1. p \in Nat \ {0}
    OBVIOUS
  <2>2. 0 \in T
    BY <2>1
  <2>3. QED
    BY <2>1, <2>2
<1>2. Max(T) \in T
  BY <1>1, MaxIs
<1>3. PrevCharBoundary(s, p) = Max(T)
  BY DEF PrevCharBoundary
<1>4. QED
  BY <1>2, <1>3, StartIsBoundary

\* A word starts and ends at boundaries.
LEMMA WordStartIsBoundary ==
    ASSUME NEW s \in Seq(Byte), Whole(s), NEW p \in 0 .. Len(s), IsCharBoundary(s, p)
    PROVE  /\ WordStartBefore(s, p) \in 0 .. p
           /\ IsCharBoundary(s, WordStartBefore(s, p))
<1> DEFINE T == {i \in 0 .. p : \A k \in i + 1 .. p : IsSpace(s, k)}
           end == Min(T)
           U == {i \in 0 .. end : \A k \in i + 1 .. end : ~IsSpace(s, k)}
           start == Min(U)
<1>1. p \in Nat /\ Len(s) \in Nat /\ p <= Len(s)
  OBVIOUS
<1>2. end \in T
  <2>1. p \in T /\ T \subseteq Nat
    BY <1>1
  <2>2. QED
    BY <2>1, MinIs
<1>3. end \in 0 .. p /\ \A k \in end + 1 .. p : IsSpace(s, k)
  BY <1>2
<1> HIDE DEF end
<1>4. IsCharBoundary(s, end)
  <2>1. CASE end # p
    <3>1. end + 1 \in end + 1 .. p /\ end + 1 \in 1 .. Len(s) /\ (end + 1) - 1 = end
      BY <1>1, <1>3, <2>1
    <3>2. QED
      BY <1>3, <3>1, BesideSpace
  <2>2. QED
    BY <2>1
<1>5. start \in U /\ \A i \in U : start <= i
  <2>1. end \in U
    BY <1>1, <1>3
  <2>2. U \subseteq Nat
    BY <1>3
  <2>3. QED
    BY <2>1, <2>2, MinIs
<1>6. start \in 0 .. end /\ \A k \in start + 1 .. end : ~IsSpace(s, k)
  BY <1>5
<1>7. \A i \in 0 .. end : (\A k \in i + 1 .. end : ~IsSpace(s, k)) => start <= i
  BY <1>5
<1> HIDE DEF start
<1>8. IsCharBoundary(s, start)
  <2>1. CASE start = 0
    BY <2>1, StartIsBoundary
  <2>2. CASE start # 0
    <3>1. start - 1 \in 0 .. end /\ ~(start <= start - 1) /\ (start - 1) + 1 = start
          /\ start \in 1 .. Len(s)
      BY <1>1, <1>3, <1>6, <2>2
    <3>2. PICK k \in start .. end : IsSpace(s, k)
      BY <1>7, <3>1
    <3>3. k = start \/ k \in start + 1 .. end
      BY <1>3, <1>6
    <3>4. IsSpace(s, start)
      BY <1>6, <3>2, <3>3
    <3>5. QED
      BY <3>1, <3>4, BesideSpace
  <2>3. QED
    BY <2>1, <2>2
<1>9. WordStartBefore(s, p) = start
  BY DEF WordStartBefore, start, end
<1>10. start \in 0 .. p
  BY <1>1, <1>3, <1>6
<1>11. QED
  BY <1>8, <1>9, <1>10

\* The end of the word after a boundary is a boundary.
LEMMA WordEndIsBoundary ==
    ASSUME NEW s \in Seq(Byte), Whole(s), NEW p \in 0 .. Len(s), IsCharBoundary(s, p)
    PROVE  /\ WordEndAfter(s, p) \in p .. Len(s)
           /\ IsCharBoundary(s, WordEndAfter(s, p))
<1> DEFINE T == {i \in p .. Len(s) : \A k \in p + 1 .. i : IsSpace(s, k)}
           start == Max(T)
           U == {i \in start .. Len(s) : \A k \in start + 1 .. i : ~IsSpace(s, k)}
           end == Max(U)
<1>1. p \in Nat /\ Len(s) \in Nat /\ p <= Len(s)
  OBVIOUS
<1>2. start \in T
  <2>1. p \in T
    BY <1>1
  <2>2. T \subseteq Nat /\ \A i \in T : i <= Len(s)
    BY <1>1
  <2>3. QED
    BY <1>1, <2>1, <2>2, MaxIs
<1>3. start \in p .. Len(s) /\ \A k \in p + 1 .. start : IsSpace(s, k)
  BY <1>2
<1> HIDE DEF start
<1>4. IsCharBoundary(s, start)
  <2>1. CASE start # p
    <3>1. start \in p + 1 .. start /\ start \in 1 .. Len(s)
      BY <1>1, <1>3, <2>1
    <3>2. QED
      BY <1>3, <3>1, BesideSpace
  <2>2. QED
    BY <2>1
<1>5. end \in U /\ \A i \in U : i <= end
  <2>1. start \in U
    BY <1>1, <1>3
  <2>2. U \subseteq Nat /\ \A i \in U : i <= Len(s)
    BY <1>1, <1>3
  <2>3. QED
    BY <1>1, <2>1, <2>2, MaxIs
<1>6. end \in start .. Len(s) /\ \A k \in start + 1 .. end : ~IsSpace(s, k)
  BY <1>5
<1>7. \A i \in start .. Len(s) : (\A k \in start + 1 .. i : ~IsSpace(s, k)) => i <= end
  BY <1>5
<1> HIDE DEF end
<1>8. IsCharBoundary(s, end)
  <2>1. CASE end = Len(s)
    BY <2>1 DEF IsCharBoundary
  <2>2. CASE end # Len(s)
    <3>1. end + 1 \in start .. Len(s) /\ ~(end + 1 <= end) /\ (end + 1) - 1 = end
          /\ end + 1 \in 1 .. Len(s)
      BY <1>1, <1>3, <1>6, <2>2
    <3>2. PICK k \in start + 1 .. end + 1 : IsSpace(s, k)
      BY <1>7, <3>1
    <3>3. k = end + 1 \/ k \in start + 1 .. end
      BY <1>3, <1>6
    <3>4. IsSpace(s, end + 1)
      BY <1>6, <3>2, <3>3
    <3>5. QED
      BY <3>1, <3>4, BesideSpace
  <2>3. QED
    BY <2>1, <2>2
<1>9. WordEndAfter(s, p) = end
  BY DEF WordEndAfter, start, end
<1>10. end \in p .. Len(s)
  BY <1>1, <1>3, <1>6
<1>11. QED
  BY <1>8, <1>9, <1>10

\* A line that is not blank, without the spaces around it.
LEMMA TrimFacts ==
    ASSUME NEW s \in Seq(Byte), Whole(s), ~Blank(s)
    PROVE  Trim(s) \in Seq(Byte) /\ Whole(Trim(s)) /\ ~Blank(Trim(s))
<1> DEFINE T == {i \in DOMAIN s : ~IsSpace(s, i)}
           lo == Min(T)
           hi == Max(T)
<1>1. /\ DOMAIN s = 1 .. Len(s) /\ Len(s) \in Nat /\ T # {} /\ T \subseteq Nat
      /\ \A i \in T : i <= Len(s)
  BY DEF Blank
<1>2. lo \in T /\ \A i \in T : lo <= i
  BY <1>1, MinIs
<1>3. hi \in T /\ \A i \in T : i <= hi
  BY <1>1, MaxIs
<1>4. /\ lo \in 1 .. Len(s) /\ hi \in lo .. Len(s) /\ ~IsSpace(s, lo)
      /\ \A i \in 1 .. Len(s) : ~IsSpace(s, i) => lo <= i /\ i <= hi
      /\ hi \in Nat /\ hi <= Len(s)
  BY <1>1, <1>2, <1>3
<1> HIDE DEF lo, hi
<1>5. lo - 1 \in 0 .. Len(s) /\ hi \in lo - 1 .. Len(s) /\ (lo - 1) + 1 = lo
  BY <1>1, <1>4
<1>6. IsCharBoundary(s, lo - 1)
  <2>1. CASE lo = 1
    BY <2>1, StartIsBoundary
  <2>2. CASE lo # 1
    <3>1. lo - 1 \in 1 .. Len(s) /\ ~(lo <= lo - 1)
      BY <1>1, <1>4, <2>2
    <3>2. IsSpace(s, lo - 1)
      BY <1>4, <3>1
    <3>3. QED
      BY <3>1, <3>2, BesideSpace
  <2>3. QED
    BY <2>1, <2>2
<1>7. IsCharBoundary(s, hi)
  <2>1. CASE hi = Len(s)
    BY <2>1 DEF IsCharBoundary
  <2>2. CASE hi # Len(s)
    <3>1. hi + 1 \in 1 .. Len(s) /\ ~(hi + 1 <= hi) /\ (hi + 1) - 1 = hi
      <4>1. hi \in Nat /\ hi <= Len(s) /\ Len(s) \in Nat
        BY <1>1, <1>4
      <4>2. QED
        BY <2>2, <4>1
    <3>2. IsSpace(s, hi + 1)
      BY <1>4, <3>1
    <3>3. QED
      BY <3>1, <3>2, BesideSpace
  <2>3. QED
    BY <2>1, <2>2
<1>8. Trim(s) = Slice(s, lo - 1, hi)
  BY <1>5 DEF Trim, Slice, lo, hi
<1>9. /\ Slice(s, lo - 1, hi) \in Seq(Byte) /\ Len(Slice(s, lo - 1, hi)) = hi - (lo - 1)
      /\ \A i \in 1 .. hi - (lo - 1) : Slice(s, lo - 1, hi)[i] = s[(lo - 1) + i]
  BY <1>5, SliceFacts
<1>10. Whole(Slice(s, lo - 1, hi))
  BY <1>5, <1>6, <1>7, SliceWhole
<1>11. 1 \in 1 .. hi - (lo - 1)
  BY <1>1, <1>4
<1>12. Trim(s)[1] = s[lo] /\ 1 \in DOMAIN Trim(s)
  BY <1>5, <1>8, <1>9, <1>11
<1>13. ~Blank(Trim(s))
  BY <1>4, <1>12 DEF Blank, IsSpace
<1>14. QED
  BY <1>8, <1>9, <1>10, <1>13

(***************************************************************************)
(* Each key keeps the invariant                                            *)
(***************************************************************************)
\* The parts of the invariant that a key changes together.
LineOK ==
    /\ input_buf \in Seq(Byte) /\ Whole(input_buf)
    /\ cursor_pos \in 0..Len(input_buf) /\ IsCharBoundary(input_buf, cursor_pos)

YankOK == yank_buf \in Seq(Byte) /\ Whole(yank_buf)

Tidy(h) ==
    /\ h \in Seq(Seq(Byte))
    /\ \A i \in DOMAIN h : Whole(h[i]) /\ ~Blank(h[i])
    /\ \A i \in 1..Len(h) - 1 : h[i] # h[i + 1]

PastOK ==
    /\ Tidy(history) /\ Len(history) <= HISTORY_LIMIT
    /\ history_idx \in 0..Len(history)
    /\ input_draft \in Seq(Byte) /\ Whole(input_draft)

IInv == LineOK /\ YankOK /\ PastOK

\* The invariant is the three that the runs check.
LEMMA Parts == IInv <=> TypeOK /\ CursorOnBoundary /\ HistoryTidy
BY DEF IInv, LineOK, YankOK, PastOK, Tidy, TypeOK, CursorOnBoundary, HistoryTidy

\* The cursor moves to a boundary.
LEMMA MoveKeeps ==
    ASSUME IInv, NEW pos \in 0 .. Len(input_buf), IsCharBoundary(input_buf, pos), MoveTo(pos)
    PROVE  IInv'
BY DEF IInv, MoveTo, LineOK, YankOK, PastOK, browsing

\* A step that moves the cursor keeps the invariant.
LEMMA MovingStep == ASSUME IInv, Moving PROVE IInv'
<1>1. LineOK /\ Len(input_buf) \in Nat /\ cursor_pos \in Nat /\ cursor_pos <= Len(input_buf)
  BY DEF IInv, LineOK
<1>2. CASE MoveCharLeft
  <2>1. cursor_pos \in 1 .. Len(input_buf)
    BY <1>1, <1>2 DEF MoveCharLeft
  <2>2. /\ PrevCharBoundary(input_buf, cursor_pos) \in 0 .. Len(input_buf)
        /\ IsCharBoundary(input_buf, PrevCharBoundary(input_buf, cursor_pos))
    BY <1>1, <2>1, PrevIsBoundary DEF LineOK
  <2>3. QED
    BY <1>2, <2>2, MoveKeeps DEF MoveCharLeft
<1>3. CASE MoveCharRight
  <2>1. cursor_pos \in 0 .. Len(input_buf) - 1
    BY <1>1, <1>3 DEF MoveCharRight
  <2>2. /\ NextCharBoundary(input_buf, cursor_pos) \in 0 .. Len(input_buf)
        /\ IsCharBoundary(input_buf, NextCharBoundary(input_buf, cursor_pos))
    BY <1>1, <2>1, NextIsBoundary DEF LineOK
  <2>3. QED
    BY <1>3, <2>2, MoveKeeps DEF MoveCharRight
<1>4. CASE MoveWordLeft
  <2>1. /\ WordStartBefore(input_buf, cursor_pos) \in 0 .. Len(input_buf)
        /\ IsCharBoundary(input_buf, WordStartBefore(input_buf, cursor_pos))
    BY <1>1, WordStartIsBoundary DEF LineOK
  <2>2. QED
    BY <1>4, <2>1, MoveKeeps DEF MoveWordLeft
<1>5. CASE MoveWordRight
  <2>1. /\ WordEndAfter(input_buf, cursor_pos) \in 0 .. Len(input_buf)
        /\ IsCharBoundary(input_buf, WordEndAfter(input_buf, cursor_pos))
    BY <1>1, WordEndIsBoundary DEF LineOK
  <2>2. QED
    BY <1>5, <2>1, MoveKeeps DEF MoveWordRight
<1>6. CASE HomeKey
  <2>1. 0 \in 0 .. Len(input_buf) /\ IsCharBoundary(input_buf, 0)
    BY <1>1, StartIsBoundary DEF LineOK
  <2>2. QED
    BY <1>6, <2>1, MoveKeeps DEF HomeKey
<1>7. CASE EndKey
  <2>1. Len(input_buf) \in 0 .. Len(input_buf) /\ IsCharBoundary(input_buf, Len(input_buf))
    BY <1>1 DEF IsCharBoundary
  <2>2. QED
    BY <1>7, <2>1, MoveKeeps DEF EndKey
<1>8. QED
  BY <1>2, <1>3, <1>4, <1>5, <1>6, <1>7 DEF Moving

\* The two sides of the cursor, or of a cut.
LEMMA Sides ==
    ASSUME LineOK, NEW a \in 0 .. Len(input_buf), IsCharBoundary(input_buf, a)
    PROVE  /\ Slice(input_buf, 0, a) \in Seq(Byte) /\ Whole(Slice(input_buf, 0, a))
           /\ Len(Slice(input_buf, 0, a)) = a
           /\ Slice(input_buf, a, Len(input_buf)) \in Seq(Byte)
           /\ Whole(Slice(input_buf, a, Len(input_buf)))
<1>1. input_buf \in Seq(Byte) /\ Whole(input_buf) /\ Len(input_buf) \in Nat /\ a \in Nat
  BY DEF LineOK
<1>2. /\ 0 \in 0 .. Len(input_buf) /\ a \in 0 .. Len(input_buf)
      /\ Len(input_buf) \in a .. Len(input_buf) /\ a - 0 = a
  BY <1>1
<1>3. IsCharBoundary(input_buf, 0) /\ IsCharBoundary(input_buf, Len(input_buf))
  BY <1>1, StartIsBoundary DEF IsCharBoundary
<1>4. Slice(input_buf, 0, a) \in Seq(Byte) /\ Len(Slice(input_buf, 0, a)) = a
  BY <1>1, <1>2, SliceFacts
<1>5. Slice(input_buf, a, Len(input_buf)) \in Seq(Byte)
  BY <1>1, <1>2, SliceFacts
<1>6. Whole(Slice(input_buf, 0, a)) /\ Whole(Slice(input_buf, a, Len(input_buf)))
  BY <1>1, <1>2, <1>3, SliceWhole
<1>7. QED
  BY <1>4, <1>5, <1>6

\* A whole text inserted keeps the invariant.
LEMMA InsertKeeps ==
    ASSUME IInv, NEW s \in Seq(Byte), Whole(s), InsertStr(s)
    PROVE  IInv'
<1> DEFINE l == Slice(input_buf, 0, cursor_pos)
           r == Slice(input_buf, cursor_pos, Len(input_buf))
<1>1. LineOK /\ cursor_pos \in 0 .. Len(input_buf) /\ IsCharBoundary(input_buf, cursor_pos)
  BY DEF IInv, LineOK
<1>2. l \in Seq(Byte) /\ Whole(l) /\ Len(l) = cursor_pos /\ r \in Seq(Byte) /\ Whole(r)
  BY <1>1, Sides
<1>3. input_buf' = l \o s \o r /\ cursor_pos' = cursor_pos + Len(s)
  BY DEF InsertStr
<1> HIDE DEF l, r
<1>4. l \o s \in Seq(Byte) /\ Whole(l \o s) /\ Len(l \o s) = cursor_pos + Len(s)
  BY <1>2, ConcatFacts, ConcatWhole
<1>5. /\ (l \o s) \o r \in Seq(Byte) /\ Whole((l \o s) \o r)
      /\ IsCharBoundary((l \o s) \o r, cursor_pos + Len(s))
  BY <1>2, <1>4, ConcatFacts, ConcatWhole
<1>6. cursor_pos + Len(s) \in 0 .. Len((l \o s) \o r)
  BY <1>2, <1>4, ConcatFacts
<1>7. LineOK'
  BY <1>3, <1>5, <1>6 DEF LineOK
<1>8. QED
  BY <1>7 DEF IInv, InsertStr, YankOK, PastOK, browsing

\* A deletion between two boundaries keeps the line whole, the cursor at one.
LEMMA DrainKeeps ==
    ASSUME LineOK, NEW a \in 0 .. Len(input_buf), NEW b \in a .. Len(input_buf),
           IsCharBoundary(input_buf, a), IsCharBoundary(input_buf, b), Drain(a, b)
    PROVE  LineOK'
<1> DEFINE l == Slice(input_buf, 0, a)
           r == Slice(input_buf, b, Len(input_buf))
<1>1. b \in 0 .. Len(input_buf) /\ a \in Nat
  BY DEF LineOK
<1>2. l \in Seq(Byte) /\ Whole(l) /\ Len(l) = a /\ r \in Seq(Byte) /\ Whole(r)
  BY <1>1, Sides
<1>3. input_buf' = l \o r /\ cursor_pos' = a
  BY DEF Drain
<1> HIDE DEF l, r
<1>4. l \o r \in Seq(Byte) /\ Whole(l \o r) /\ IsCharBoundary(l \o r, a)
  BY <1>2, ConcatFacts, ConcatWhole
<1>5. a \in 0 .. Len(l \o r)
  BY <1>1, <1>2, ConcatFacts
<1>6. QED
  BY <1>3, <1>4, <1>5 DEF LineOK

\* A cut also keeps what it took.
LEMMA CutKeeps ==
    ASSUME IInv, NEW a \in 0 .. Len(input_buf), NEW b \in a .. Len(input_buf),
           IsCharBoundary(input_buf, a), IsCharBoundary(input_buf, b), Cut(a, b)
    PROVE  IInv'
<1>1. LineOK'
  BY DrainKeeps DEF IInv, Cut
<1>2. YankOK'
  <2>1. input_buf \in Seq(Byte) /\ Whole(input_buf)
    BY DEF IInv, LineOK
  <2>2. Slice(input_buf, a, b) \in Seq(Byte) /\ Whole(Slice(input_buf, a, b))
    BY <2>1, SliceFacts, SliceWhole
  <2>3. QED
    BY <2>2 DEF Cut, YankOK
<1>3. QED
  BY <1>1, <1>2 DEF IInv, Cut, Drain, PastOK, browsing

\* A step that changes the line keeps the invariant.
LEMMA EditingStep == ASSUME IInv, Editing PROVE IInv'
<1>1. /\ LineOK /\ Len(input_buf) \in Nat /\ cursor_pos \in 0 .. Len(input_buf)
      /\ cursor_pos \in Nat /\ cursor_pos <= Len(input_buf)
      /\ IsCharBoundary(input_buf, cursor_pos)
      /\ IsCharBoundary(input_buf, 0) /\ IsCharBoundary(input_buf, Len(input_buf))
  BY StartIsBoundary DEF IInv, LineOK, IsCharBoundary
<1>2. ASSUME NEW c \in Char, TypeChar(c) PROVE IInv'
  BY <1>2, EncodedWhole, InsertKeeps DEF TypeChar
<1>3. CASE Paste
  BY <1>3, InsertKeeps DEF Paste, IInv, YankOK
<1>4. ASSUME NEW a \in 0 .. Len(input_buf), NEW b \in a .. Len(input_buf),
             IsCharBoundary(input_buf, a), IsCharBoundary(input_buf, b),
             Drain(a, b), UNCHANGED yank_buf
      PROVE  IInv'
  <2>1. LineOK'
    BY <1>1, <1>4, DrainKeeps
  <2>2. QED
    BY <1>4, <2>1 DEF IInv, Drain, YankOK, PastOK, browsing
<1>5. CASE DeleteCharBefore
  <2> DEFINE prev == PrevCharBoundary(input_buf, cursor_pos)
             next == NextCharBoundary(input_buf, prev)
  <2>1. cursor_pos \in 1 .. Len(input_buf)
    BY <1>1, <1>5 DEF DeleteCharBefore
  <2>2. prev \in 0 .. cursor_pos - 1 /\ IsCharBoundary(input_buf, prev)
    BY <1>1, <2>1, PrevIsBoundary DEF LineOK
  <2>3. prev \in 0 .. Len(input_buf) - 1 /\ prev \in 0 .. Len(input_buf) /\ prev \in Nat
    BY <1>1, <2>1, <2>2
  <2>4. next \in prev + 1 .. Len(input_buf) /\ IsCharBoundary(input_buf, next)
    BY <1>1, <2>2, <2>3, NextIsBoundary DEF LineOK
  <2>5. Drain(prev, next) /\ UNCHANGED yank_buf
    BY <1>5 DEF DeleteCharBefore
  <2> HIDE DEF prev, next
  <2>6. next \in prev .. Len(input_buf)
    BY <1>1, <2>3, <2>4
  <2>7. QED
    BY <1>4, <2>2, <2>3, <2>4, <2>5, <2>6
<1>6. CASE DeleteCharAfter
  <2> DEFINE next == NextCharBoundary(input_buf, cursor_pos)
  <2>1. cursor_pos \in 0 .. Len(input_buf) - 1
    BY <1>1, <1>6 DEF DeleteCharAfter
  <2>2. next \in cursor_pos + 1 .. Len(input_buf) /\ IsCharBoundary(input_buf, next)
    BY <1>1, <2>1, NextIsBoundary DEF LineOK
  <2>3. Drain(cursor_pos, next) /\ UNCHANGED yank_buf
    BY <1>6 DEF DeleteCharAfter
  <2> HIDE DEF next
  <2>4. next \in cursor_pos .. Len(input_buf)
    BY <1>1, <2>2
  <2>5. QED
    BY <1>1, <1>4, <2>2, <2>3, <2>4
<1>7. CASE DeleteWordBefore
  <2> DEFINE start == WordStartBefore(input_buf, cursor_pos)
  <2>1. start \in 0 .. cursor_pos /\ IsCharBoundary(input_buf, start)
    BY <1>1, WordStartIsBoundary DEF LineOK
  <2>2. Cut(start, cursor_pos)
    BY <1>7 DEF DeleteWordBefore
  <2> HIDE DEF start
  <2>3. start \in 0 .. Len(input_buf) /\ cursor_pos \in start .. Len(input_buf)
    BY <1>1, <2>1
  <2>4. QED
    BY <1>1, <2>1, <2>2, <2>3, CutKeeps
<1>8. CASE CutToStart
  <2>1. 0 \in 0 .. Len(input_buf)
    BY <1>1
  <2>2. QED
    BY <1>1, <1>8, <2>1, CutKeeps DEF CutToStart
<1>9. CASE CutToEnd
  <2>1. Len(input_buf) \in cursor_pos .. Len(input_buf)
    BY <1>1
  <2>2. QED
    BY <1>1, <1>9, <2>1, CutKeeps DEF CutToEnd
<1>10. QED
  BY <1>2, <1>3, <1>5, <1>6, <1>7, <1>8, <1>9 DEF Editing

(***************************************************************************)
(* The history                                                             *)
(***************************************************************************)
LEMMA ShowKeeps ==
    ASSUME NEW s \in Seq(Byte), Whole(s), Show(s)
    PROVE  LineOK'
<1>1. Len(s) \in 0 .. Len(s) /\ IsCharBoundary(s, Len(s))
  BY DEF IsCharBoundary
<1>2. QED
  BY <1>1 DEF Show, LineOK

\* One line more at the end, unless it is the last one there; the oldest goes.
LEMMA TidyAppend ==
    ASSUME NEW h, Tidy(h), NEW raw \in Seq(Byte), Whole(raw), ~Blank(raw),
           h = <<>> \/ h[Len(h)] # raw
    PROVE  Tidy(Append(h, raw))
<1> DEFINE u == Append(h, raw)
<1>1. h \in Seq(Seq(Byte))
  BY DEF Tidy
<1>2. /\ u \in Seq(Seq(Byte)) /\ Len(h) \in Nat /\ Len(u) = Len(h) + 1
      /\ DOMAIN u = 1 .. Len(h) + 1 /\ DOMAIN h = 1 .. Len(h) /\ u[Len(h) + 1] = raw
      /\ \A j \in 1 .. Len(h) : u[j] = h[j]
  BY <1>1, AppendFacts
<1> HIDE DEF u
<1>3. ASSUME NEW i \in DOMAIN u PROVE Whole(u[i]) /\ ~Blank(u[i])
  <2>1. i \in DOMAIN h \/ i = Len(h) + 1
    BY <1>2
  <2>2. CASE i \in DOMAIN h
    BY <1>2, <2>2 DEF Tidy
  <2>3. QED
    BY <1>2, <2>1, <2>2
<1>4. ASSUME NEW i \in 1 .. Len(u) - 1 PROVE u[i] # u[i + 1]
  <2>0. i \in 1 .. Len(h) /\ Len(h) \in Nat
    BY <1>2
  <2>1. CASE i = Len(h)
    <3>1. h # <<>>
      BY <2>0, <2>1
    <3>2. QED
      BY <1>2, <2>0, <2>1, <3>1
  <2>2. CASE i # Len(h)
    <3>1. i \in 1 .. Len(h) - 1 /\ i + 1 \in 1 .. Len(h)
      BY <2>0, <2>2
    <3>2. u[i] = h[i] /\ u[i + 1] = h[i + 1]
      BY <1>2, <2>0, <3>1
    <3>3. QED
      BY <3>1, <3>2 DEF Tidy
  <2>3. QED
    BY <2>1, <2>2
<1>5. QED
  BY <1>2, <1>3, <1>4 DEF Tidy, u

\* A tidy history without its oldest line is tidy.
LEMMA TidyTail ==
    ASSUME NEW h, Tidy(h), h # <<>>
    PROVE  Tidy(Tail(h))
<1> DEFINE u == Tail(h)
<1>1. h \in Seq(Seq(Byte))
  BY DEF Tidy
<1>2. /\ u \in Seq(Seq(Byte)) /\ Len(h) \in Nat \ {0} /\ Len(u) = Len(h) - 1
      /\ DOMAIN u = 1 .. Len(h) - 1 /\ DOMAIN h = 1 .. Len(h)
      /\ \A j \in 1 .. Len(h) - 1 : u[j] = h[j + 1]
  BY <1>1, TailFacts
<1> HIDE DEF u
<1>3. ASSUME NEW i \in DOMAIN u PROVE Whole(u[i]) /\ ~Blank(u[i])
  <2>1. i + 1 \in DOMAIN h /\ u[i] = h[i + 1]
    BY <1>2
  <2>2. QED
    BY <2>1 DEF Tidy
<1>4. ASSUME NEW i \in 1 .. Len(u) - 1 PROVE u[i] # u[i + 1]
  <2>1. /\ i \in 1 .. Len(h) - 1 /\ i + 1 \in 1 .. Len(h) - 1
    BY <1>2
  <2>2. u[i] = h[i + 1] /\ u[i + 1] = h[(i + 1) + 1] /\ h[i + 1] # h[(i + 1) + 1]
    BY <1>2, <2>1 DEF Tidy
  <2>3. QED
    BY <2>2
<1>5. QED
  BY <1>2, <1>3, <1>4 DEF Tidy, u

\* A line that is not blank leaves the history tidy and within its limit.
LEMMA PushKeeps ==
    ASSUME PastOK, NEW raw \in Seq(Byte), Whole(raw), ~Blank(raw)
    PROVE  Tidy(HistoryPush(raw)) /\ Len(HistoryPush(raw)) <= HISTORY_LIMIT
<1> DEFINE longer == Append(history, raw)
<1>1. /\ Tidy(history) /\ Len(history) <= HISTORY_LIMIT /\ HISTORY_LIMIT \in Nat
      /\ history \in Seq(Seq(Byte))
  BY EditorAssumption DEF PastOK, EditorAssumption, Tidy
<1>2. CASE history # <<>> /\ history[Len(history)] = raw
  <2>1. HistoryPush(raw) = history
    BY <1>2 DEF HistoryPush
  <2>2. QED
    BY <1>1, <2>1
<1>3. CASE ~(history # <<>> /\ history[Len(history)] = raw)
  <2>1. Tidy(longer)
    BY <1>1, <1>3, TidyAppend
  <2>2. longer \in Seq(Seq(Byte)) /\ Len(history) \in Nat /\ Len(longer) = Len(history) + 1
    BY <1>1, AppendFacts
  <2>3. HistoryPush(raw) = IF Len(longer) > HISTORY_LIMIT THEN Tail(longer) ELSE longer
    BY <1>3 DEF HistoryPush
  <2> HIDE DEF longer
  <2>4. longer # <<>>
    BY <2>2
  <2>5. Tidy(Tail(longer)) /\ Len(Tail(longer)) = Len(longer) - 1
    BY <2>1, <2>2, <2>4, TidyTail, TailFacts
  <2>6. QED
    BY <1>1, <2>1, <2>2, <2>3, <2>5
<1>4. QED
  BY <1>2, <1>3

\* A step through the history keeps the invariant.
LEMMA RecallingStep == ASSUME IInv, Recalling PROVE IInv'
<1>1. /\ LineOK /\ YankOK /\ PastOK /\ Tidy(history) /\ Len(history) \in Nat
      /\ history_idx \in 0 .. Len(history) /\ history_idx \in Nat
      /\ DOMAIN history = 1 .. Len(history)
  BY DEF IInv, PastOK, Tidy
<1>2. \A i \in 1 .. Len(history) : history[i] \in Seq(Byte) /\ Whole(history[i])
  BY <1>1 DEF Tidy
<1>3. ASSUME UNCHANGED <<yank_buf, history>>, history_idx' \in 1 .. Len(history),
             Show(history[history_idx']), input_draft' \in {input_buf, input_draft}
      PROVE  IInv'
  <2>1. LineOK'
    BY <1>2, <1>3, ShowKeeps
  <2>2. PastOK'
    BY <1>1, <1>3 DEF PastOK, LineOK
  <2>3. QED
    BY <1>1, <1>3, <2>1, <2>2 DEF IInv, YankOK
<1>4. CASE HistoryPrev
  <2>1. history_idx' \in 1 .. Len(history)
    <3>1. Len(history) # 0
      BY <1>1, <1>4 DEF HistoryPrev, Tidy
    <3>2. history_idx' = CASE history_idx = 0 -> Len(history)
                           [] history_idx = 1 -> 1
                           [] OTHER -> history_idx - 1
      BY <1>4 DEF HistoryPrev
    <3>3. QED
      BY <1>1, <3>1, <3>2
  <2>2. /\ UNCHANGED <<yank_buf, history>> /\ Show(history[history_idx'])
        /\ input_draft' \in {input_buf, input_draft}
    BY <1>4 DEF HistoryPrev, DraftOnce
  <2>3. QED
    BY <1>3, <2>1, <2>2
<1>5. ASSUME LeaveHistory PROVE IInv'
  <2>1. LineOK'
    BY <1>1, <1>5, ShowKeeps DEF LeaveHistory, PastOK
  <2>2. PastOK' /\ YankOK'
    BY <1>1, <1>5 DEF LeaveHistory, PastOK, YankOK
  <2>3. QED
    BY <2>1, <2>2 DEF IInv
<1>6. CASE HistoryNext
  <2>1. CASE history_idx >= Len(history)
    BY <1>5, <1>6, <2>1 DEF HistoryNext
  <2>2. CASE ~(history_idx >= Len(history))
    <3>1. /\ history_idx' = history_idx + 1 /\ Show(history[history_idx'])
          /\ UNCHANGED <<yank_buf, history, input_draft>>
      BY <1>6, <2>2 DEF HistoryNext
    <3>2. history_idx' \in 1 .. Len(history)
      BY <1>1, <2>2, <3>1
    <3>3. QED
      BY <1>3, <3>1, <3>2
  <2>3. QED
    BY <2>1, <2>2
<1>7. CASE Esc
  BY <1>5, <1>7 DEF Esc
<1>8. CASE Enter
  <2>1. Trim(input_buf) \in Seq(Byte) /\ Whole(Trim(input_buf)) /\ ~Blank(Trim(input_buf))
    BY <1>1, <1>8, TrimFacts DEF Enter, LineOK
  <2>2. Tidy(history') /\ Len(history') <= HISTORY_LIMIT
    BY <1>1, <1>8, <2>1, PushKeeps DEF Enter
  <2>3. history_idx' \in 0 .. Len(history')
    BY <1>8, <2>2 DEF Enter, Tidy
  <2>4. PastOK' /\ YankOK'
    BY <1>1, <1>8, <2>2, <2>3 DEF Enter, PastOK, YankOK
  <2>5. LineOK'
    <3>1. <<>> \in Seq(Byte) /\ Whole(<<>>)
      BY DEF Whole
    <3>2. QED
      BY <1>8, <3>1, ShowKeeps DEF Enter
  <2>6. QED
    BY <2>4, <2>5 DEF IInv
<1>9. QED
  BY <1>4, <1>6, <1>7, <1>8 DEF Recalling

(***************************************************************************)
(* The theorems                                                            *)
(***************************************************************************)
\* The invariant is one.
THEOREM Invariant == Spec => []IInv
<1>1. Init => IInv
  <2> SUFFICES ASSUME Init PROVE IInv
    OBVIOUS
  <2>1. LineOK /\ YankOK
    BY DEF Init, LineOK, YankOK, Whole, IsCharBoundary
  <2>2. PastOK
    BY EditorAssumption DEF Init, PastOK, Tidy, Whole, EditorAssumption
  <2>3. QED
    BY <2>1, <2>2 DEF IInv
<1>2. IInv /\ [Next]_vars => IInv'
  <2>1. IInv /\ UNCHANGED vars => IInv'
    BY DEF IInv, LineOK, YankOK, PastOK, vars, edited, browsing
  <2>2. QED
    BY <2>1, MovingStep, EditingStep, RecallingStep DEF Next
<1>3. QED
  BY <1>1, <1>2, PTL DEF Spec

\* Every variable has its type; no key takes the cursor out of the buffer or the
\* index out of the history.
THEOREM TypeCorrect == Spec => []TypeOK
<1>1. IInv => TypeOK
  BY Parts
<1>2. QED
  BY <1>1, Invariant, PTL

\* No sequence of keys makes the editor slice, insert or remove inside a character,
\* where a Rust String panics: buffer, yank buffer, draft and history stay texts of
\* whole characters and the cursor stays between two of them.
THEOREM NeverInsideACharacter == Spec => []CursorOnBoundary
<1>1. IInv => CursorOnBoundary
  BY Parts
<1>2. QED
  BY <1>1, Invariant, PTL

\* The history never outgrows its limit and has no blank or repeated line.
THEOREM HistoryStaysTidy == Spec => []HistoryTidy
<1>1. IInv => HistoryTidy
  BY Parts
<1>2. QED
  BY <1>1, Invariant, PTL
=============================================================================
