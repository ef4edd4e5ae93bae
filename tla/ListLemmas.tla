----------------------------- MODULE ListLemmas -----------------------------
(***************************************************************************)
(* Facts about sequences, and about the least and the greatest number of a *)
(* set, that the proofs of several components need.                        *)
(***************************************************************************)
EXTENDS SequencesExt, SequenceTheorems, WellFoundedInduction, TLAPS

(***************************************************************************)
(* Least and greatest                                                      *)
(***************************************************************************)
\* A set of natural numbers with a member has a least one.
LEMMA Least ==
    ASSUME NEW T, T \subseteq Nat, T # {}
    PROVE  \E m \in T : \A n \in T : m <= n
<1> DEFINE R == {ss \in Nat \X Nat : ss[1] < ss[2]}
<1>1. IsWellFoundedOn(R, Nat)
  BY NatLessThanWellFounded DEF OpToRel
<1>2. \E m \in T : \A n \in T : <<n, m>> \notin R
  BY <1>1, WFMin
<1>3. PICK m \in T : \A n \in T : <<n, m>> \notin R
  BY <1>2
<1>4. ASSUME NEW n \in T PROVE m <= n
  <2>1. <<n, m>> \notin R
    BY <1>3
  <2>2. n \in Nat /\ m \in Nat
    OBVIOUS
  <2> QED
    BY <2>1, <2>2
<1> QED
  BY <1>4

\* Min is what its name says.
LEMMA MinIs ==
    ASSUME NEW T, T \subseteq Nat, T # {}
    PROVE  Min(T) \in T /\ \A n \in T : Min(T) <= n
<1>1. \E m \in T : \A n \in T : m <= n
  BY Least
<1>2. QED
  BY <1>1 DEF Min

\* So is Max, of a set with a bound.
LEMMA MaxIs ==
    ASSUME NEW T, T \subseteq Nat, T # {}, NEW b \in Nat, \A n \in T : n <= b
    PROVE  Max(T) \in T /\ \A n \in T : n <= Max(T)
<1> DEFINE D == {b - n : n \in T}
<1>1. D \subseteq Nat /\ D # {}
  OBVIOUS
<1>2. PICK d \in D : \A e \in D : d <= e
  BY <1>1, Least
<1>3. PICK m \in T : d = b - m
  OBVIOUS
<1>4. ASSUME NEW n \in T PROVE n <= m
  <2>1. b - m <= b - n
    BY <1>2, <1>3
  <2>2. b \in Nat /\ m \in Nat /\ n \in Nat
    OBVIOUS
  <2>3. QED
    BY <2>1, <2>2
<1>5. \E x \in T : \A y \in T : x >= y
  <2>1. \A y \in T : m >= y
    BY <1>4
  <2>2. QED
    BY <2>1
<1>6. QED
  BY <1>5 DEF Max

(***************************************************************************)
(* Sequences                                                               *)
(***************************************************************************)
\* Whether e is in s, and in one place only.
In(s, e) == \E i \in DOMAIN s : s[i] = e
Once(s, e) == \A i, j \in DOMAIN s : s[i] = e /\ s[j] = e => i = j

\* An item appended to a sequence is its last, the others stay.
LEMMA AppendFacts ==
    ASSUME NEW S, NEW w \in Seq(S), NEW e \in S
    PROVE  /\ Append(w, e) \in Seq(S) /\ Len(w) \in Nat
           /\ Len(Append(w, e)) = Len(w) + 1
           /\ DOMAIN Append(w, e) = 1 .. Len(w) + 1 /\ DOMAIN w = 1 .. Len(w)
           /\ Append(w, e)[Len(w) + 1] = e
           /\ \A j \in 1 .. Len(w) : Append(w, e)[j] = w[j]
OBVIOUS

\* The tail of a sequence has its items one place earlier.
LEMMA TailFacts ==
    ASSUME NEW S, NEW w \in Seq(S), w # <<>>
    PROVE  /\ Tail(w) \in Seq(S) /\ Len(w) \in Nat \ {0}
           /\ Head(w) = w[1] /\ Head(w) \in S
           /\ Len(Tail(w)) = Len(w) - 1
           /\ DOMAIN Tail(w) = 1 .. Len(w) - 1 /\ DOMAIN w = 1 .. Len(w)
           /\ \A j \in 1 .. Len(w) - 1 : Tail(w)[j] = w[j + 1]
OBVIOUS

\* What a longer sequence has, and how often.
LEMMA InAppend ==
    ASSUME NEW S, NEW w \in Seq(S), NEW e \in S, NEW x
    PROVE  In(Append(w, e), x) <=> In(w, x) \/ x = e
BY AppendFacts DEF In

\* An item appended is there once if it was not there.
LEMMA OnceAppend ==
    ASSUME NEW S, NEW w \in Seq(S), NEW e \in S, NEW x,
           Once(w, x), x = e => ~In(w, x)
    PROVE  Once(Append(w, e), x)
<1> SUFFICES ASSUME NEW i \in DOMAIN Append(w, e), NEW j \in DOMAIN Append(w, e),
                    Append(w, e)[i] = x, Append(w, e)[j] = x
             PROVE  i = j
  BY DEF Once
<1>1. CASE i \in DOMAIN w /\ j \in DOMAIN w
  BY <1>1, AppendFacts DEF Once
<1>2. CASE i \notin DOMAIN w \/ j \notin DOMAIN w
  BY <1>2, AppendFacts DEF In
<1>3. QED
  BY <1>1, <1>2

\* A tail has nothing new, and what was the head and once is gone.
LEMMA InTail ==
    ASSUME NEW S, NEW w \in Seq(S), w # <<>>, NEW x
    PROVE  /\ In(Tail(w), x) => In(w, x)
           /\ In(w, x) => x = Head(w) \/ In(Tail(w), x)
<1>1. ASSUME In(Tail(w), x) PROVE In(w, x)
  <2>1. PICK j \in 1 .. Len(w) - 1 : w[j + 1] = x
    BY <1>1, TailFacts DEF In
  <2>2. j + 1 \in DOMAIN w
    BY TailFacts
  <2>3. QED
    BY <2>1, <2>2 DEF In
<1>2. ASSUME In(w, x) PROVE x = Head(w) \/ In(Tail(w), x)
  <2>1. PICK i \in DOMAIN w : w[i] = x
    BY <1>2 DEF In
  <2>2. CASE i = 1
    BY <2>1, <2>2, TailFacts
  <2>3. CASE i # 1
    <3>1. i - 1 \in 1 .. Len(w) - 1 /\ (i - 1) + 1 = i
      BY <2>3, TailFacts
    <3>2. Tail(w)[i - 1] = x /\ i - 1 \in DOMAIN Tail(w)
      BY <2>1, <3>1, TailFacts
    <3>3. QED
      BY <3>2 DEF In
  <2>4. QED
    BY <2>2, <2>3
<1>3. QED
  BY <1>1, <1>2

\* What was there once is there at most once without the first item, and the first
\* not at all.
LEMMA OnceTail ==
    ASSUME NEW S, NEW w \in Seq(S), w # <<>>, NEW x, Once(w, x)
    PROVE  Once(Tail(w), x) /\ (x = Head(w) => ~In(Tail(w), x))
<1>1. Once(Tail(w), x)
  <2> SUFFICES ASSUME NEW i \in DOMAIN Tail(w), NEW j \in DOMAIN Tail(w),
                      Tail(w)[i] = x, Tail(w)[j] = x
               PROVE  i = j
    BY DEF Once
  <2>1. i + 1 \in DOMAIN w /\ j + 1 \in DOMAIN w /\ w[i + 1] = x /\ w[j + 1] = x
    BY TailFacts
  <2>2. i + 1 = j + 1
    BY <2>1 DEF Once
  <2>3. i \in Nat /\ j \in Nat
    BY TailFacts
  <2>4. QED
    BY <2>2, <2>3
<1>2. ASSUME x = Head(w), In(Tail(w), x) PROVE FALSE
  <2>1. PICK j \in 1 .. Len(w) - 1 : w[j + 1] = x
    BY <1>2, TailFacts DEF In
  <2>2. 1 \in DOMAIN w /\ w[1] = x /\ j + 1 \in DOMAIN w /\ j \in Nat \ {0}
    BY <1>2, TailFacts
  <2>3. 1 = j + 1
    BY <2>1, <2>2 DEF Once
  <2>4. QED
    BY <2>2, <2>3
<1>3. QED
  BY <1>1, <1>2

\* Two sequences, one after the other.
LEMMA ConcatFacts ==
    ASSUME NEW S, NEW s \in Seq(S), NEW t \in Seq(S)
    PROVE  /\ s \o t \in Seq(S) /\ Len(s) \in Nat /\ Len(t) \in Nat
           /\ Len(s \o t) = Len(s) + Len(t) /\ DOMAIN (s \o t) = 1 .. Len(s) + Len(t)
           /\ \A i \in 1 .. Len(s) : (s \o t)[i] = s[i]
           /\ \A i \in 1 .. Len(t) : (s \o t)[Len(s) + i] = t[i]
<1>1. /\ s \o t \in Seq(S) /\ Len(s \o t) = Len(s) + Len(t) /\ Len(s) \in Nat /\ Len(t) \in Nat
      /\ \A i \in 1 .. Len(s) + Len(t) : (s \o t)[i] = IF i <= Len(s) THEN s[i] ELSE t[i - Len(s)]
  BY ConcatProperties
<1>2. \A i \in 1 .. Len(s) : i \in 1 .. Len(s) + Len(t) /\ i <= Len(s)
  BY <1>1
<1>3. \A i \in 1 .. Len(t) : /\ Len(s) + i \in 1 .. Len(s) + Len(t) /\ ~(Len(s) + i <= Len(s))
                             /\ (Len(s) + i) - Len(s) = i
  BY <1>1
<1>4. QED
  BY <1>1, <1>2, <1>3

\* What lies after place a and up to place b of a sequence.
LEMMA SubSeqFacts ==
    ASSUME NEW S, NEW s \in Seq(S), NEW a \in 0 .. Len(s), NEW b \in a .. Len(s)
    PROVE  LET u == SubSeq(s, a + 1, b) IN
           /\ u \in Seq(S) /\ Len(u) = b - a /\ DOMAIN u = 1 .. b - a
           /\ \A i \in 1 .. b - a : u[i] = s[a + i]
<1>1. Len(s) \in Nat /\ a \in Nat /\ b \in Nat /\ a <= b /\ b <= Len(s)
  OBVIOUS
<1>2. \A i \in a + 1 .. b : s[i] \in S
  BY <1>1
<1>3. LET u == SubSeq(s, a + 1, b) IN
      /\ u \in Seq(S) /\ Len(u) = IF a + 1 <= b THEN b - (a + 1) + 1 ELSE 0
      /\ \A i \in 1 .. b - (a + 1) + 1 : u[i] = s[(a + 1) + i - 1]
  BY <1>1, <1>2, SubSeqProperties
<1>4. QED
  BY <1>1, <1>3

\* A sequence without the item at k.
LEMMA RemoveAtFacts ==
    ASSUME NEW S, NEW s \in Seq(S), NEW k \in 1 .. Len(s), NEW u, u = RemoveAt(s, k)
    PROVE  /\ u \in Seq(S) /\ Len(s) \in Nat /\ DOMAIN s = 1 .. Len(s)
           /\ Len(u) = Len(s) - 1 /\ DOMAIN u = 1 .. Len(s) - 1
           /\ \A i \in DOMAIN u : u[i] = IF i < k THEN s[i] ELSE s[i + 1]
<1> DEFINE a == SubSeq(s, 1, k - 1)
           b == SubSeq(s, k + 1, Len(s))
<1>1. Len(s) \in Nat /\ k \in Nat /\ 1 <= k /\ k <= Len(s) /\ DOMAIN s = 1 .. Len(s)
  OBVIOUS
<1>2. a \in Seq(S) /\ Len(a) = k - 1 /\ \A i \in 1 .. k - 1 : a[i] = s[i]
  <2>1. 0 \in 0 .. Len(s) /\ k - 1 \in 0 .. Len(s) /\ a = SubSeq(s, 0 + 1, k - 1)
    BY <1>1
  <2>2. a \in Seq(S) /\ Len(a) = (k - 1) - 0 /\ \A i \in 1 .. (k - 1) - 0 : a[i] = s[0 + i]
    BY <2>1, SubSeqFacts
  <2>3. QED
    BY <1>1, <2>2
<1>3. b \in Seq(S) /\ Len(b) = Len(s) - k /\ \A i \in 1 .. Len(s) - k : b[i] = s[k + i]
  <2>1. k \in 0 .. Len(s) /\ Len(s) \in k .. Len(s)
    BY <1>1
  <2>2. QED
    BY <1>1, <2>1, SubSeqFacts
<1>4. u = a \o b
  BY DEF RemoveAt
<1> HIDE DEF a, b
<1>5. /\ u \in Seq(S) /\ Len(u) = Len(s) - 1 /\ DOMAIN u = 1 .. Len(s) - 1
      /\ \A i \in 1 .. k - 1 : u[i] = a[i]
      /\ \A i \in 1 .. Len(s) - k : u[(k - 1) + i] = b[i]
  <2>1. a \in Seq(S) /\ b \in Seq(S)
    BY <1>2, <1>3
  <2>2. /\ a \o b \in Seq(S) /\ Len(a \o b) = Len(a) + Len(b)
        /\ DOMAIN (a \o b) = 1 .. Len(a) + Len(b)
        /\ \A i \in 1 .. Len(a) : (a \o b)[i] = a[i]
        /\ \A i \in 1 .. Len(b) : (a \o b)[Len(a) + i] = b[i]
    BY <2>1, ConcatFacts
  <2>3. Len(a) + Len(b) = Len(s) - 1
    BY <1>1, <1>2, <1>3
  <2>4. QED
    BY <1>2, <1>3, <1>4, <2>2, <2>3
<1>6. ASSUME NEW i \in 1 .. Len(s) - 1 PROVE u[i] = IF i < k THEN s[i] ELSE s[i + 1]
  <2>1. CASE i < k
    BY <1>1, <1>2, <1>5, <2>1
  <2>2. CASE ~(i < k)
    <3>1. /\ i - (k - 1) \in 1 .. Len(s) - k /\ (k - 1) + (i - (k - 1)) = i
          /\ k + (i - (k - 1)) = i + 1
      BY <1>1, <2>2
    <3>2. u[(k - 1) + (i - (k - 1))] = b[i - (k - 1)] /\ b[i - (k - 1)] = s[k + (i - (k - 1))]
      BY <1>3, <1>5, <3>1
    <3>3. QED
      BY <2>2, <3>1, <3>2
  <2>3. QED
    BY <2>1, <2>2
<1>7. QED
  BY <1>1, <1>5, <1>6
=============================================================================
